------------------------------ MODULE BodyStore ------------------------------
(***************************************************************************)
(* The content-addressed body store (internal/store/bodies.go), the rows   *)
(* that reference its files, and the garbage collection that removes the   *)
(* files nothing references (internal/store/retention.go).                 *)
(*                                                                         *)
(* A file is its hash.  Writers own a hash from the moment its file is on  *)
(* disk until the row that references it has committed: captured and       *)
(* imported flows through pendingBodies, a peer merge through mergeBodies, *)
(* an image upload by holding bodyMu all along.  A collection pass holds   *)
(* bodyMu only to look at the owners and to unlink one file.               *)
(*                                                                         *)
(* The write-behind queue is FlowWriteBehind's; here it carries the hashes *)
(* of each write, and the writes of one chunk are applied in order.        *)
(***************************************************************************)
EXTENDS Naturals, Sequences, FiniteSets

CONSTANTS Hashes,      \* contents of bodies and images
          NoHash,      \* the empty hash of a flow without a body
          Flows,       \* flows the proxy captures or an importer stages
          Edited,      \* those whose request the operator held and edited
          Imported,    \* those that come from a HAR or Burp file
          Captured,    \* the contents those flows carry
          Merges,      \* peer merges; each brings one flow
          PeerBodies,  \* the bodies in the peer's archive, by merge
          PendingMax,  \* maxPendingBodies: distinct hashes awaiting publication
          QueueMax,    \* flowBufCap
          ChunkMax,    \* flowBatchMax
          Leftovers,   \* files that may be there from earlier sessions
          Uploads,     \* bound: image uploads
          Passes,      \* bound: collection passes
          Deletes,     \* bound: deleted rows
          Failures,    \* bound: chunks whose transaction fails
          Rejects      \* whether a finding may refuse an uploaded image

ASSUME ShapeAssumption ==
  /\ NoHash \notin Hashes
  /\ Captured \subseteq Hashes /\ Edited \subseteq Flows /\ Imported \subseteq Flows /\ Edited \cap Imported = {}
  /\ Merges \cap Flows = {} /\ Leftovers \subseteq Hashes
  /\ PeerBodies \in [Merges -> SUBSET Hashes]
  /\ QueueMax \in Nat \ {0} /\ ChunkMax \in Nat \ {0} /\ PendingMax \in Nat
  /\ Uploads \in Nat /\ Passes \in Nat /\ Deletes \in Nat /\ Failures \in Nat
  /\ Rejects \in BOOLEAN

Rows == Flows \cup Merges

VARIABLES
  \* the directory and its owners, guarded by bodyMu
  disk, pendingBodies, mergeBodies, bodyGCClaimed, bodyMu,
  \* capture and import: how far each flow got, the hashes it carries
  stage, original, body,
  \* write-behind: the queue, the flusher's chunk and its state, dropped writes whose
  \* hashes are still to be released, flows whose insert was dropped
  queue, chunk, flusher, dropped, void, failures,
  \* SQLite: the flow rows and the hashes they reference, image references
  live, rows, images,
  \* the deletion under way, image uploads, merges
  deleting, deletes, upload, uploads, merging, staged,
  \* the collection pass
  gc, referenced, unvisited, orphans, passes

bodyVars    == <<disk, pendingBodies, mergeBodies, bodyGCClaimed>>
captureVars == <<stage, original, body>>
queueVars   == <<queue, chunk, flusher, dropped, void, failures>>
rowVars     == <<live, rows>>
deleteVars  == <<deleting, deletes>>
uploadVars  == <<bodyMu, upload, uploads, images>>
mergeVars   == <<merging, staged>>
gcVars      == <<gc, referenced, unvisited, orphans, passes>>
vars == <<bodyVars, captureVars, queueVars, rowVars, deleteVars, uploadVars, mergeVars, gcVars>>

Optional == Hashes \cup {NoHash}
Writes == [flow : Flows, kind : {"insert", "update"}, hashes : Optional \X Optional]

Init ==
  /\ disk \in SUBSET Leftovers /\ bodyGCClaimed = {} /\ bodyMu = "free"
  /\ pendingBodies = [h \in Hashes |-> 0] /\ mergeBodies = [h \in Hashes |-> 0]
  /\ stage = [f \in Flows |-> "new"]
  /\ original = [f \in Flows |-> NoHash] /\ body = [f \in Flows |-> NoHash]
  /\ queue = <<>> /\ chunk = <<>> /\ flusher = "idle" /\ dropped = <<>> /\ void = {} /\ failures = 0
  /\ live = {} /\ rows = [r \in Rows |-> {}] /\ images = {}
  /\ deleting = {} /\ deletes = 0
  /\ upload = [hash |-> NoHash, existed |-> FALSE] /\ uploads = 0
  /\ merging = [m \in Merges |-> "new"] /\ staged = [m \in Merges |-> {}]
  /\ gc = "idle" /\ referenced = {} /\ unvisited = {} /\ orphans = {} /\ passes = 0

(* ------------------------------ ownership ------------------------------ *)

Unlocked == bodyMu = "free"

\* noteBodyGCClaimLocked: a pass under way spares every hash claimed meanwhile.
Claim(S) == bodyGCClaimed' = IF gc = "idle" THEN bodyGCClaimed ELSE bodyGCClaimed \cup S

\* The mentions of hash h in a sequence of writes; each of them is one release.
Mentions(h, ws) ==
  Cardinality({p \in (DOMAIN ws) \X (1..2) : ws[p[1]].hashes[p[2]] = h})

\* Fault: every write hands its first hash back, the second is forgotten.
ReleasedFirstOnly(ws) ==
  [h \in Hashes |-> LET n == Cardinality({i \in DOMAIN ws : ws[i].hashes[1] = h})
                    IN IF pendingBodies[h] > n THEN pendingBodies[h] - n ELSE 0]

\* releasePendingBody, for every hash of the writes ws: never below zero.
Released(ws) ==
  [h \in Hashes |-> LET n == Mentions(h, ws)
                    IN IF pendingBodies[h] > n THEN pendingBodies[h] - n ELSE 0]

\* Whether protectPending still accepts h.
Protectable(h) ==
  pendingBodies[h] > 0 \/ Cardinality({g \in Hashes : pendingBodies[g] > 0}) < PendingMax

\* Fault: Finalize does not note the claim for the pass that is walking.
FinalizeUnclaimed(h) ==
  /\ Unlocked /\ Protectable(h)
  /\ pendingBodies' = [pendingBodies EXCEPT ![h] = @ + 1]
  /\ disk' = disk \cup {h}
  /\ UNCHANGED <<mergeBodies, bodyGCClaimed>>

\* Finalize of a flow body: one hold of bodyMu protects it, notes the claim and
\* leaves the file on disk, renamed there or found there.
Finalize(h) ==
  /\ Unlocked /\ Protectable(h)
  /\ pendingBodies' = [pendingBodies EXCEPT ![h] = @ + 1]
  /\ Claim({h})
  /\ disk' = disk \cup {h}
  /\ UNCHANGED mergeBodies

Owned(h) == pendingBodies[h] > 0 \/ mergeBodies[h] > 0

(* ------------------------- capture and write-behind --------------------- *)

\* Fault: the original body is stored without ownership.
HoldUnprotected(f) ==
  /\ f \in Edited /\ stage[f] = "new" /\ Unlocked
  /\ \E h \in Captured : /\ Claim({h}) /\ disk' = disk \cup {h}
                       /\ original' = [original EXCEPT ![f] = h]
  /\ stage' = [stage EXCEPT ![f] = "held"]
  /\ UNCHANGED <<pendingBodies, mergeBodies, body, queueVars, rowVars, deleteVars, uploadVars, mergeVars, gcVars>>

\* An edited request is stored as the client sent it, before the row is queued.
HoldEdited(f) ==
  /\ f \in Edited /\ stage[f] = "new"
  /\ \E h \in Captured : Finalize(h) /\ original' = [original EXCEPT ![f] = h]
  /\ stage' = [stage EXCEPT ![f] = "held"]
  /\ UNCHANGED <<body, queueVars, rowVars, deleteVars, uploadVars, mergeVars, gcVars>>

\* A full queue drops its oldest write; whoever enqueued releases its hashes later.
\* A flow whose insert is dropped is void.
Enqueue(w) ==
  /\ IF Len(queue) < QueueMax
     THEN queue' = Append(queue, w) /\ UNCHANGED <<dropped, void>>
     ELSE LET v == Head(queue)
          IN /\ queue' = Append(Tail(queue), w)
             /\ dropped' = Append(dropped, v)
             /\ void' = IF v.kind = "insert" THEN void \cup {v.flow} ELSE void
  /\ UNCHANGED <<chunk, flusher, failures>>

\* A write that is not queued at all: whoever brought it releases its hashes.
Discard(w) ==
  /\ dropped' = Append(dropped, w)
  /\ UNCHANGED <<queue, chunk, flusher, void, failures>>

\* recordRequest: the row is queued as the request goes out.
QueueInsert(f) ==
  /\ f \notin Imported
  /\ stage[f] = IF f \in Edited THEN "held" ELSE "new"
  /\ Enqueue([flow |-> f, kind |-> "insert", hashes |-> <<original[f], NoHash>>])
  /\ stage' = [stage EXCEPT ![f] = "sent"]
  /\ UNCHANGED <<bodyVars, original, body, rowVars, deleteVars, uploadVars, mergeVars, gcVars>>

AwaitsBody(f) == stage[f] = IF f \in Imported THEN "new" ELSE "sent"

\* Fault: an importer stages its body with NewBodyWriter, which owns nothing, as the
\* comment of GCBodies still says it does.
CaptureUnprotected(f) ==
  /\ AwaitsBody(f)
  /\ \E h \in Captured :
       /\ IF f \in Imported
          THEN Unlocked /\ Claim({h}) /\ disk' = disk \cup {h} /\ UNCHANGED <<pendingBodies, mergeBodies>>
          ELSE Finalize(h)
       /\ body' = [body EXCEPT ![f] = h]
  /\ stage' = [stage EXCEPT ![f] = "answered"]
  /\ UNCHANGED <<original, queueVars, rowVars, deleteVars, uploadVars, mergeVars, gcVars>>

\* The tee is finalized after the round trip; an importer stages its body first.
CaptureBody(f) ==
  /\ AwaitsBody(f)
  /\ \E h \in Captured : Finalize(h) /\ body' = [body EXCEPT ![f] = h]
  /\ stage' = [stage EXCEPT ![f] = "answered"]
  /\ UNCHANGED <<original, queueVars, rowVars, deleteVars, uploadVars, mergeVars, gcVars>>

\* No body, or one that could not be stored: the flow goes on without it.
MissBody(f) ==
  /\ AwaitsBody(f)
  /\ stage' = [stage EXCEPT ![f] = "answered"]
  /\ UNCHANGED <<bodyVars, original, body, queueVars, rowVars, deleteVars, uploadVars, mergeVars, gcVars>>

\* Fault: the update of a void flow is let go, and its hashes with it.
UpdateForgotten(f) ==
  /\ f \notin Imported /\ stage[f] = "answered"
  /\ LET w == [flow |-> f, kind |-> "update", hashes |-> <<original[f], body[f]>>]
     IN IF f \in void THEN UNCHANGED queueVars ELSE Enqueue(w)
  /\ stage' = [stage EXCEPT ![f] = "recorded"]
  /\ UNCHANGED <<bodyVars, original, body, rowVars, deleteVars, uploadVars, mergeVars, gcVars>>

\* record: the update carries every hash of the flow, the original one again.  That of
\* a void flow is discarded: its insert was all that the queue had of it.
QueueUpdate(f) ==
  /\ f \notin Imported /\ stage[f] = "answered"
  /\ LET w == [flow |-> f, kind |-> "update", hashes |-> <<original[f], body[f]>>]
     IN IF f \in void THEN Discard(w) ELSE Enqueue(w)
  /\ stage' = [stage EXCEPT ![f] = "recorded"]
  /\ UNCHANGED <<bodyVars, original, body, rowVars, deleteVars, uploadVars, mergeVars, gcVars>>

\* publishFlowBodies of a dropped write, after flowMu has been let go: those who
\* enqueued come to it in any order.
ReleaseDropped ==
  /\ Unlocked
  /\ \E i \in DOMAIN dropped :
       /\ pendingBodies' = Released(<<dropped[i]>>)
       /\ dropped' = SubSeq(dropped, 1, i - 1) \o SubSeq(dropped, i + 1, Len(dropped))
  /\ UNCHANGED <<disk, mergeBodies, bodyGCClaimed, captureVars, queue, chunk, flusher, void, failures,
                 rowVars, deleteVars, uploadVars, mergeVars, gcVars>>

TakeChunk ==
  /\ flusher = "idle" /\ queue # <<>>
  /\ LET n == IF Len(queue) < ChunkMax THEN Len(queue) ELSE ChunkMax
     IN chunk' = SubSeq(queue, 1, n) /\ queue' = SubSeq(queue, n + 1, Len(queue))
  /\ flusher' = "taken"
  /\ UNCHANGED <<bodyVars, captureVars, dropped, void, failures, rowVars, deleteVars, uploadVars, mergeVars, gcVars>>

Referenced(w) == {w.hashes[1], w.hashes[2]} \ {NoHash}

\* The writes of ws land in order: an insert makes the row, an update that finds
\* its row sets its hashes, and one whose row was never made or is gone sets none.
Apply(ws) ==
  LET made    == {ws[i].flow : i \in {k \in DOMAIN ws : ws[k].kind = "insert"}}
      last(f) == {i \in DOMAIN ws : ws[i].flow = f /\ \A k \in DOMAIN ws : ws[k].flow = f => k <= i}
  IN /\ live' = live \cup made
     /\ rows' = [r \in Rows |->
                   IF r \notin live \cup made THEN {}
                   ELSE IF last(r) = {} THEN rows[r]
                   ELSE UNION {Referenced(ws[i]) : i \in last(r)}]

CommitChunk ==
  /\ flusher = "taken"
  /\ Apply(chunk) /\ flusher' = "committed"
  /\ UNCHANGED <<bodyVars, captureVars, queue, chunk, dropped, void, failures, deleteVars, uploadVars, mergeVars, gcVars>>

\* completeOps: the whole chunk's hashes under one hold of bodyMu.  A void flow has
\* only its update here, its last write, and is forgotten.
ReleaseChunk ==
  /\ flusher = "committed" /\ Unlocked
  /\ pendingBodies' = Released(chunk)
  /\ void' = void \ {chunk[i].flow : i \in DOMAIN chunk}
  /\ chunk' = <<>> /\ flusher' = "idle"
  /\ UNCHANGED <<disk, mergeBodies, bodyGCClaimed, captureVars, queue, dropped, failures,
                 rowVars, deleteVars, uploadVars, mergeVars, gcVars>>

\* The transaction failed and wrote nothing: the chunk is replayed write by write.
FailChunk ==
  /\ flusher = "taken" /\ failures < Failures
  /\ flusher' = "replay" /\ failures' = failures + 1
  /\ UNCHANGED <<bodyVars, captureVars, queue, chunk, dropped, void, rowVars, deleteVars, uploadVars, mergeVars, gcVars>>

\* One write of the replay lands, or fails for good.
ReplayWrite ==
  /\ flusher = "replay" /\ chunk # <<>>
  /\ Apply(<<Head(chunk)>>) \/ UNCHANGED rowVars
  /\ flusher' = "replayed"
  /\ UNCHANGED <<bodyVars, captureVars, queue, chunk, dropped, void, failures, deleteVars, uploadVars, mergeVars, gcVars>>

\* Its hashes are released either way.
ReplayRelease ==
  /\ flusher = "replayed" /\ Unlocked
  /\ pendingBodies' = Released(<<Head(chunk)>>)
  /\ void' = void \ {Head(chunk).flow}
  /\ chunk' = Tail(chunk)
  /\ flusher' = IF Len(chunk) = 1 THEN "idle" ELSE "replay"
  /\ UNCHANGED <<disk, mergeBodies, bodyGCClaimed, captureVars, queue, dropped, failures,
                 rowVars, deleteVars, uploadVars, mergeVars, gcVars>>

(* ------------------------------- importers ------------------------------ *)

\* InsertFlow of a staged flow: its row commits, or the insert fails ...
ImportRow(f) ==
  /\ f \in Imported /\ stage[f] = "answered"
  /\ \/ live' = live \cup {f} /\ rows' = [rows EXCEPT ![f] = {body[f]} \ {NoHash}]
     \/ UNCHANGED rowVars
  /\ stage' = [stage EXCEPT ![f] = "inserted"]
  /\ UNCHANGED <<bodyVars, original, body, queueVars, deleteVars, uploadVars, mergeVars, gcVars>>

\* Fault: a flow found to be a duplicate is skipped without the Abort.
ImportSkips(f) ==
  /\ f \in Imported /\ stage[f] \in {"answered", "inserted"} /\ Unlocked
  /\ pendingBodies' = IF stage[f] = "answered" THEN pendingBodies
                      ELSE Released(<<[hashes |-> <<NoHash, body[f]>>]>>)
  /\ stage' = [stage EXCEPT ![f] = "recorded"]
  /\ UNCHANGED <<disk, mergeBodies, bodyGCClaimed, original, body, queueVars, rowVars, deleteVars,
                 uploadVars, mergeVars, gcVars>>

\* ... and its deferred publishBodies releases the body; so does the Abort of
\* a flow that is already there.
ImportRelease(f) ==
  /\ f \in Imported /\ stage[f] \in {"answered", "inserted"} /\ Unlocked
  /\ pendingBodies' = Released(<<[hashes |-> <<NoHash, body[f]>>]>>)
  /\ stage' = [stage EXCEPT ![f] = "recorded"]
  /\ UNCHANGED <<disk, mergeBodies, bodyGCClaimed, original, body, queueVars, rowVars, deleteVars,
                 uploadVars, mergeVars, gcVars>>

(* -------------------------------- deletion ------------------------------ *)

\* DeleteFlows waits for the queue first; writes queued after that do not hold it up.
DeleteSynced(r) ==
  /\ deleting = {} /\ deletes < Deletes /\ queue = <<>> /\ flusher = "idle" /\ r \in live
  /\ deleting' = {r}
  /\ UNCHANGED <<bodyVars, captureVars, queueVars, rowVars, deletes, uploadVars, mergeVars, gcVars>>

DeleteCommits(r) ==
  /\ r \in deleting
  /\ live' = live \ {r} /\ rows' = [rows EXCEPT ![r] = {}]
  /\ deleting' = {} /\ deletes' = deletes + 1
  /\ UNCHANGED <<bodyVars, captureVars, queueVars, uploadVars, mergeVars, gcVars>>

(* ------------------------------- peer merge ----------------------------- *)

\* copyBodies: bodies already here are not staged for renaming.
MergeStages(m) ==
  /\ merging[m] = "new"
  /\ staged' = [staged EXCEPT ![m] = PeerBodies[m] \ disk]
  /\ merging' = [merging EXCEPT ![m] = "staged"]
  /\ UNCHANGED <<bodyVars, captureVars, queueVars, rowVars, deleteVars, uploadVars, gcVars>>

\* Fault: only the bodies still to be renamed are protected, not those found here.
MergeProtectsStaged(m) ==
  /\ merging[m] = "staged" /\ Unlocked
  /\ mergeBodies' = [h \in Hashes |-> mergeBodies[h] + (IF h \in staged[m] THEN 1 ELSE 0)]
  /\ Claim(staged[m])
  /\ merging' = [merging EXCEPT ![m] = "protected"]
  /\ UNCHANGED <<disk, pendingBodies, captureVars, queueVars, rowVars, deleteVars, uploadVars, staged, gcVars>>

\* protectMergeBodies, before any file is renamed into place.
MergeProtects(m) ==
  /\ merging[m] = "staged" /\ Unlocked
  /\ mergeBodies' = [h \in Hashes |-> mergeBodies[h] + (IF h \in PeerBodies[m] THEN 1 ELSE 0)]
  /\ Claim(PeerBodies[m])
  /\ merging' = [merging EXCEPT ![m] = "protected"]
  /\ UNCHANGED <<disk, pendingBodies, captureVars, queueVars, rowVars, deleteVars, uploadVars, staged, gcVars>>

\* The renames take no lock.  One that fails ends the merge, and what is still staged
\* goes with it; a body that has come to be there meanwhile is as good as renamed.
MergeRenames(m) ==
  /\ merging[m] = "protected" /\ staged[m] # {}
  /\ \/ \E h \in staged[m] : disk' = disk \cup {h} /\ staged' = [staged EXCEPT ![m] = @ \ {h}]
        /\ UNCHANGED merging
     \/ merging' = [merging EXCEPT ![m] = "over"] /\ staged' = [staged EXCEPT ![m] = {}]
        /\ UNCHANGED disk
  /\ UNCHANGED <<pendingBodies, mergeBodies, bodyGCClaimed, captureVars, queueVars, rowVars, deleteVars,
                 uploadVars, gcVars>>

\* mergeFrom looks for every body the peer's flows reference, and stops if one is missing.
MergeChecks(m) ==
  /\ merging[m] = "protected" /\ staged[m] = {}
  /\ merging' = [merging EXCEPT ![m] = IF PeerBodies[m] \subseteq disk THEN "checked" ELSE "over"]
  /\ UNCHANGED <<bodyVars, captureVars, queueVars, rowVars, deleteVars, uploadVars, staged, gcVars>>

\* insertFlow of the peer's flow; its deferred publishBodies follows the commit or the
\* error.  A flow that is here already is skipped, and nothing is published for it.
MergeInserts(m) ==
  /\ merging[m] = "checked"
  /\ \/ /\ live' = live \cup {m} /\ rows' = [rows EXCEPT ![m] = PeerBodies[m]]
        /\ merging' = [merging EXCEPT ![m] = "inserted"]
     \/ UNCHANGED rowVars /\ merging' = [merging EXCEPT ![m] = "inserted"]
     \/ UNCHANGED rowVars /\ merging' = [merging EXCEPT ![m] = "over"]
  /\ UNCHANGED <<bodyVars, captureVars, queueVars, deleteVars, uploadVars, staged, gcVars>>

MergePublishes(m) ==
  /\ merging[m] = "inserted" /\ Unlocked
  /\ pendingBodies' = [h \in Hashes |-> IF h \in PeerBodies[m] /\ pendingBodies[h] > 0
                                        THEN pendingBodies[h] - 1 ELSE pendingBodies[h]]
  /\ merging' = [merging EXCEPT ![m] = "over"]
  /\ UNCHANGED <<disk, mergeBodies, bodyGCClaimed, captureVars, queueVars, rowVars, deleteVars,
                 uploadVars, staged, gcVars>>

\* The release mergeFrom defers.
MergeReleases(m) ==
  /\ merging[m] = "over" /\ Unlocked
  /\ mergeBodies' = [h \in Hashes |-> mergeBodies[h] - (IF h \in PeerBodies[m] THEN 1 ELSE 0)]
  /\ merging' = [merging EXCEPT ![m] = "released"]
  /\ UNCHANGED <<disk, pendingBodies, bodyGCClaimed, captureVars, queueVars, rowVars, deleteVars,
                 uploadVars, staged, gcVars>>

(* ------------------------------ image upload ---------------------------- *)

\* PutAndAttachImageRef takes bodyMu and looks whether the image is there already ...
UploadBegins(h) ==
  /\ Unlocked /\ uploads < Uploads
  /\ bodyMu' = "upload" /\ uploads' = uploads + 1
  /\ upload' = [hash |-> h, existed |-> h \in disk]
  /\ UNCHANGED <<bodyVars, captureVars, queueVars, rowVars, deleteVars, images, mergeVars, gcVars>>

\* ... Finalize under the lock already held: claimed, but not owned ...
UploadStores ==
  /\ bodyMu = "upload"
  /\ Claim({upload.hash})
  /\ disk' = disk \cup {upload.hash} /\ bodyMu' = "stored"
  /\ UNCHANGED <<pendingBodies, mergeBodies, captureVars, queueVars, rowVars, deleteVars, upload, uploads,
                 images, mergeVars, gcVars>>

\* ... the finding takes the image, for good: its revisions are immutable.
UploadAttaches ==
  /\ bodyMu = "stored"
  /\ images' = images \cup {upload.hash}
  /\ bodyMu' = "free"
  /\ UNCHANGED <<bodyVars, captureVars, queueVars, rowVars, deleteVars, upload, uploads, mergeVars, gcVars>>

\* ... or refuses it, and a file that was not there before the call is removed.
UploadRefused ==
  /\ Rejects /\ bodyMu = "stored"
  /\ disk' = IF upload.existed THEN disk ELSE disk \ {upload.hash}
  /\ bodyMu' = "free"
  /\ UNCHANGED <<pendingBodies, mergeBodies, bodyGCClaimed, captureVars, queueVars, rowVars, deleteVars,
                 upload, uploads, images, mergeVars, gcVars>>

(* --------------------------- garbage collection ------------------------- *)

\* Fault: the owners are not looked at, only the database is.
GCBeginsBlind ==
  /\ gc = "idle" /\ passes < Passes /\ Unlocked
  /\ gc' = "begun" /\ passes' = passes + 1
  /\ referenced' = {} /\ bodyGCClaimed' = {}
  /\ UNCHANGED <<disk, pendingBodies, mergeBodies, captureVars, queueVars, rowVars, deleteVars, uploadVars,
                 mergeVars, unvisited, orphans>>

\* beginBodyGC: the owners are copied before the database is read.
GCBegins ==
  /\ gc = "idle" /\ passes < Passes /\ Unlocked
  /\ gc' = "begun" /\ passes' = passes + 1
  /\ referenced' = {h \in Hashes : Owned(h)}
  /\ bodyGCClaimed' = {}
  /\ UNCHANGED <<disk, pendingBodies, mergeBodies, captureVars, queueVars, rowVars, deleteVars, uploadVars,
                 mergeVars, unvisited, orphans>>

\* referencedBodyHashes: the flow rows first ...
GCReadsFlows ==
  /\ gc = "begun"
  /\ referenced' = referenced \cup UNION {rows[r] : r \in live}
  /\ gc' = "flows"
  /\ UNCHANGED <<bodyVars, captureVars, queueVars, rowVars, deleteVars, uploadVars, mergeVars, unvisited, orphans, passes>>

\* ... then the findings and their revisions.
GCReadsFindings ==
  /\ gc = "flows"
  /\ referenced' = referenced \cup images
  /\ gc' = "walk" /\ unvisited' = Hashes
  /\ UNCHANGED <<bodyVars, captureVars, queueVars, rowVars, deleteVars, uploadVars, mergeVars, orphans, passes>>

\* The walk comes to each name once, at its own time.
GCVisits(h) ==
  /\ gc = "walk" /\ h \in unvisited
  /\ unvisited' = unvisited \ {h}
  /\ orphans' = IF h \in disk \ referenced THEN orphans \cup {h} ELSE orphans
  /\ UNCHANGED <<bodyVars, captureVars, queueVars, rowVars, deleteVars, uploadVars, mergeVars, gc, referenced, passes>>

\* Fault: the file is unlinked without looking at its owners again.
GCRemovesBlind(h) ==
  /\ gc = "walk" /\ unvisited = {} /\ h \in orphans /\ Unlocked
  /\ orphans' = orphans \ {h}
  /\ disk' = disk \ {h}
  /\ UNCHANGED <<pendingBodies, mergeBodies, bodyGCClaimed, captureVars, queueVars, rowVars, deleteVars,
                 uploadVars, mergeVars, gc, referenced, unvisited, passes>>

\* removeUnownedBody: decided and unlinked under one hold of bodyMu.
GCRemoves(h) ==
  /\ gc = "walk" /\ unvisited = {} /\ h \in orphans /\ Unlocked
  /\ orphans' = orphans \ {h}
  /\ disk' = IF Owned(h) \/ h \in bodyGCClaimed THEN disk ELSE disk \ {h}
  /\ UNCHANGED <<pendingBodies, mergeBodies, bodyGCClaimed, captureVars, queueVars, rowVars, deleteVars,
                 uploadVars, mergeVars, gc, referenced, unvisited, passes>>

\* endBodyGC, after the last orphan, or when a query of the database failed.
GCEnds ==
  /\ \/ gc \in {"begun", "flows"}
     \/ gc = "walk" /\ unvisited = {} /\ orphans = {}
  /\ Unlocked
  /\ gc' = "idle" /\ bodyGCClaimed' = {} /\ referenced' = {}
  /\ UNCHANGED <<disk, pendingBodies, mergeBodies, captureVars, queueVars, rowVars, deleteVars, uploadVars,
                 mergeVars, unvisited, orphans, passes>>

Next ==
  \/ \E f \in Flows : \/ HoldEdited(f) \/ QueueInsert(f) \/ CaptureBody(f) \/ MissBody(f)
                      \/ QueueUpdate(f) \/ ImportRow(f) \/ ImportRelease(f)
  \/ ReleaseDropped \/ TakeChunk \/ CommitChunk \/ ReleaseChunk
  \/ FailChunk \/ ReplayWrite \/ ReplayRelease
  \/ \E r \in Rows : DeleteSynced(r) \/ DeleteCommits(r)
  \/ \E m \in Merges : \/ MergeStages(m) \/ MergeProtects(m) \/ MergeRenames(m) \/ MergeChecks(m)
                       \/ MergeInserts(m) \/ MergePublishes(m) \/ MergeReleases(m)
  \/ \E h \in Hashes : UploadBegins(h) \/ GCVisits(h) \/ GCRemoves(h)
  \/ UploadStores \/ UploadAttaches \/ UploadRefused
  \/ GCBegins \/ GCReadsFlows \/ GCReadsFindings \/ GCEnds

Spec == Init /\ [][Next]_vars

(* ------------------------------ properties ------------------------------ *)

\* The domains of the variables, group by group
BodyType ==
  /\ disk \in SUBSET Hashes /\ bodyGCClaimed \in SUBSET Hashes
  /\ pendingBodies \in [Hashes -> Nat] /\ mergeBodies \in [Hashes -> Nat]
CaptureType ==
  /\ stage \in [Flows -> {"new", "held", "sent", "answered", "inserted", "recorded"}]
  /\ original \in [Flows -> Optional] /\ body \in [Flows -> Optional]
QueueType ==
  /\ queue \in Seq(Writes) /\ chunk \in Seq(Writes) /\ dropped \in Seq(Writes)
  /\ flusher \in {"idle", "taken", "committed", "replay", "replayed"}
  /\ void \in SUBSET Flows /\ failures \in 0..Failures
RowType == live \in SUBSET Rows /\ rows \in [Rows -> SUBSET Hashes]
DeleteType == deleting \in SUBSET Rows /\ deletes \in 0..Deletes
UploadType ==
  /\ bodyMu \in {"free", "upload", "stored"} /\ images \in SUBSET Hashes
  /\ upload \in [hash : Optional, existed : BOOLEAN] /\ uploads \in 0..Uploads
MergeType ==
  /\ merging \in [Merges -> {"new", "staged", "protected", "checked", "inserted", "over", "released"}]
  /\ staged \in [Merges -> SUBSET Hashes]
GCType ==
  /\ gc \in {"idle", "begun", "flows", "walk"} /\ passes \in 0..Passes
  /\ referenced \in SUBSET Hashes /\ unvisited \in SUBSET Hashes /\ orphans \in SUBSET Hashes

\* Every variable stays in its domain.
TypeOK ==
  /\ BodyType /\ CaptureType /\ QueueType /\ RowType /\ DeleteType
  /\ UploadType /\ MergeType /\ GCType

\* Every hash a committed row or an image block references has its file: whatever
\* the interleaving of captures, imports, merges, uploads and deletions with a
\* pass, GCBodies "never removes a file that is still referenced".  Imports are no
\* exception, although GCBodies' own comment makes them one: an importer's body is
\* owned until its row has committed (burp.go:124).
ReferencesResolve ==
  /\ \A r \in live : rows[r] \subseteq disk
  /\ images \subseteq disk

\* The writes that still hold the hashes of flow f.
HeldBy(f, kind) ==
  \E q \in {queue, chunk, dropped} : \E i \in DOMAIN q : q[i].flow = f /\ q[i].kind = kind

\* A body is outstanding from Finalize until its write has been applied and released.
OutstandingBody(f) ==
  /\ body[f] # NoHash
  /\ stage[f] \in {"answered", "inserted"} \/ HeldBy(f, "update")

\* A captured body that no committed row shows yet keeps its file: "A queued flow
\* keeps ownership of its captured bodies until its chunk has committed".
CapturedBodyKept == \A f \in Flows : OutstandingBody(f) => body[f] \in disk

\* So does the original body of an edited request, until its insert has landed.
OriginalBodyKept ==
  \A f \in Edited :
    /\ original[f] # NoHash
    /\ \/ stage[f] = "held"
       \/ \E q \in {queue, chunk} : \E i \in DOMAIN q : q[i].flow = f /\ q[i].kind = "insert"
    => original[f] \in disk

\* A hash is owned once for each body still outstanding, no more and no less: a
\* release too many strips another flow, one too few keeps garbage for ever and
\* eats into maxPendingBodies.  (Requests not edited, no merge.)
OwnershipBalanced ==
  \A h \in Hashes : pendingBodies[h] = Cardinality({f \in Flows : OutstandingBody(f) /\ body[f] = h})

\* When a pass has come to the end of its orphans, every file it leaves behind was
\* owned or referenced when it looked, or was claimed since.
NothingOverlooked ==
  gc = "walk" /\ unvisited = {} /\ orphans = {} => disk \subseteq referenced \cup bodyGCClaimed

\* A merged flow's bodies are all there from the check until its row commits.
MergedBodiesKept ==
  \A m \in Merges : merging[m] \in {"checked", "inserted"} => PeerBodies[m] \subseteq disk
==============================================================================
