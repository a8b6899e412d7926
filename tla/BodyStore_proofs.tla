---------------------------- MODULE BodyStore_proofs ----------------------------
(***************************************************************************)
(* Theorems about the body store and its collection, for any contents,      *)
(* flows, merges, queue and chunk sizes, and any number of uploads, passes, *)
(* deletions and failures.                                                  *)
(***************************************************************************)
EXTENDS BodyStore, FiniteSetTheorems, SequenceTheorems, TLAPS

--------------------------------------------------------------------------------
(* Who takes a step, and what such a step leaves alone *)

CaptureStep == \E f \in Flows : HoldEdited(f) \/ CaptureBody(f) \/ MissBody(f)
QueueStep ==
  \/ \E f \in Flows : QueueInsert(f) \/ QueueUpdate(f)
  \/ TakeChunk \/ FailChunk
ReleaseStep ==
  \/ ReleaseDropped \/ ReleaseChunk \/ ReplayRelease
  \/ \E f \in Flows : ImportRelease(f)
WriteStep ==
  \/ CommitChunk \/ ReplayWrite
  \/ \E f \in Flows : ImportRow(f)
  \/ \E r \in Rows : DeleteSynced(r) \/ DeleteCommits(r)
MergeStep ==
  \E m \in Merges : \/ MergeStages(m) \/ MergeProtects(m) \/ MergeRenames(m) \/ MergeChecks(m)
                    \/ MergeInserts(m) \/ MergePublishes(m) \/ MergeReleases(m)
UploadStep ==
  (\E h \in Hashes : UploadBegins(h)) \/ UploadStores \/ UploadAttaches \/ UploadRefused
GCStep ==
  \/ GCBegins \/ GCReadsFlows \/ GCReadsFindings \/ GCEnds
  \/ \E h \in Hashes : GCVisits(h) \/ GCRemoves(h)

\* Every step is one of these, and each of them touches a part of the state only.
LEMMA StepsOfStore ==
  ASSUME [Next]_vars
  PROVE  \/ CaptureStep \/ QueueStep \/ ReleaseStep \/ WriteStep \/ MergeStep \/ UploadStep \/ GCStep
         \/ UNCHANGED vars
BY DEF Next, CaptureStep, QueueStep, ReleaseStep, WriteStep, MergeStep, UploadStep, GCStep

LEMMA CaptureFrame ==
  CaptureStep => UNCHANGED <<mergeBodies, queueVars, rowVars, deleteVars, uploadVars, mergeVars, gcVars>>
BY DEF CaptureStep, HoldEdited, CaptureBody, MissBody, Finalize, bodyVars

LEMMA QueueFrame ==
  QueueStep => UNCHANGED <<bodyVars, original, body, rowVars, deleteVars, uploadVars, mergeVars, gcVars>>
BY DEF QueueStep, QueueInsert, QueueUpdate, TakeChunk, FailChunk, captureVars

LEMMA ReleaseFrame ==
  ReleaseStep => UNCHANGED <<disk, mergeBodies, bodyGCClaimed, original, body, rowVars, deleteVars,
                             uploadVars, mergeVars, gcVars>>
BY DEF ReleaseStep, ReleaseDropped, ReleaseChunk, ReplayRelease, ImportRelease, captureVars

LEMMA WriteFrame ==
  WriteStep => UNCHANGED <<bodyVars, original, body, queue, chunk, dropped, void, uploadVars, mergeVars, gcVars>>
BY DEF WriteStep, CommitChunk, ReplayWrite, ImportRow, DeleteSynced, DeleteCommits, captureVars, queueVars

LEMMA MergeFrame ==
  MergeStep => UNCHANGED <<captureVars, queueVars, deleteVars, uploadVars, gcVars>>
BY DEF MergeStep, MergeStages, MergeProtects, MergeRenames, MergeChecks, MergeInserts, MergePublishes,
       MergeReleases

LEMMA UploadFrame ==
  UploadStep => UNCHANGED <<pendingBodies, mergeBodies, captureVars, queueVars, rowVars, deleteVars,
                            mergeVars, gcVars>>
BY DEF UploadStep, UploadBegins, UploadStores, UploadAttaches, UploadRefused, bodyVars

LEMMA GCFrame ==
  GCStep => UNCHANGED <<pendingBodies, mergeBodies, captureVars, queueVars, rowVars, deleteVars,
                        uploadVars, mergeVars>>
BY DEF GCStep, GCBegins, GCReadsFlows, GCReadsFindings, GCEnds, GCVisits, GCRemoves, bodyVars

--------------------------------------------------------------------------------
(* Types *)

\* How often a queue of writes mentions a hash is a natural number.
LEMMA MentionsNat ==
  ASSUME NEW ws, IsFiniteSet(DOMAIN ws), NEW h
  PROVE  Mentions(h, ws) \in Nat
<1>1. IsFiniteSet(1..2)
  <2>1. \A n \in Nat : IsFiniteSet(1..n)
    BY FS_Interval
  <2> QED
    BY <2>1
<1>2. IsFiniteSet((DOMAIN ws) \X (1..2))
  BY <1>1, FS_Product
<1>3. IsFiniteSet({p \in (DOMAIN ws) \X (1..2) : ws[p[1]].hashes[p[2]] = h})
  BY <1>2, FS_Subset
<1> QED
  BY <1>3, FS_CardinalityType DEF Mentions

\* A sequence has finitely many indices.
LEMMA DomainFinite ==
  ASSUME NEW S, NEW ws \in Seq(S)
  PROVE  IsFiniteSet(DOMAIN ws)
BY FS_Interval, DOMAIN ws = 1..Len(ws), Len(ws) \in Nat

\* What is left after the hashes of some writes were handed back.
LEMMA ReleasedValue ==
  ASSUME pendingBodies \in [Hashes -> Nat], NEW ws, IsFiniteSet(DOMAIN ws)
  PROVE  /\ Released(ws) \in [Hashes -> Nat]
         /\ \A h \in Hashes : Released(ws)[h] <= pendingBodies[h]
         /\ \A h \in Hashes : Mentions(h, ws) <= pendingBodies[h] =>
              Released(ws)[h] = pendingBodies[h] - Mentions(h, ws)
BY MentionsNat DEF Released

LEMMA ClaimType ==
  ASSUME BodyType, NEW S \in SUBSET Hashes, Claim(S)
  PROVE  bodyGCClaimed' \in SUBSET Hashes
BY DEF Claim, BodyType

\* A queue that takes a write, or puts out its oldest for it, stays typed.
LEMMA EnqueueType ==
  ASSUME QueueType, NEW w \in Writes, Enqueue(w)
  PROVE  QueueType'
<1>0. UNCHANGED <<chunk, flusher, failures>>
  BY DEF Enqueue
<1>1. CASE Len(queue) < QueueMax
  <2>1. queue' = Append(queue, w) /\ UNCHANGED <<dropped, void>>
    BY <1>1 DEF Enqueue
  <2>2. Append(queue, w) \in Seq(Writes)
    BY DEF QueueType
  <2> QED
    BY <1>0, <2>1, <2>2 DEF QueueType
<1>2. CASE ~(Len(queue) < QueueMax)
  <2>1. PICK v : v = Head(queue)
    OBVIOUS
  <2>2. /\ queue' = Append(Tail(queue), w) /\ dropped' = Append(dropped, v)
        /\ void' = IF v.kind = "insert" THEN void \cup {v.flow} ELSE void
    BY <1>2, <2>1 DEF Enqueue
  <2>3. queue # <<>>
    BY <1>2, ShapeAssumption DEF QueueType, ShapeAssumption
  <2>4. Tail(queue) \in Seq(Writes) /\ v \in Writes
    BY <2>1, <2>3 DEF QueueType
  <2>5. queue' \in Seq(Writes) /\ dropped' \in Seq(Writes) /\ void' \in SUBSET Flows
    BY <2>2, <2>4 DEF QueueType, Writes
  <2> QED
    BY <1>0, <2>5 DEF QueueType
<1> QED
  BY <1>1, <1>2

\* So does one that the write passes by.
LEMMA DiscardType ==
  ASSUME QueueType, NEW w \in Writes, Discard(w)
  PROVE  QueueType'
BY DEF Discard, QueueType

\* A sequence without its i-th element: the others, in their order.
Without(ws, i) == SubSeq(ws, 1, i - 1) \o SubSeq(ws, i + 1, Len(ws))
Shift(k, i) == IF k < i THEN k ELSE k + 1

LEMMA WithoutOne ==
  ASSUME NEW T, NEW ws \in Seq(T), NEW i \in DOMAIN ws
  PROVE  /\ Without(ws, i) \in Seq(T)
         /\ \A k \in DOMAIN Without(ws, i) : /\ Shift(k, i) \in (DOMAIN ws) \ {i}
                                             /\ Without(ws, i)[k] = ws[Shift(k, i)]
         /\ \A j \in (DOMAIN ws) \ {i} : \E k \in DOMAIN Without(ws, i) : Shift(k, i) = j
         /\ \A k, l \in DOMAIN Without(ws, i) : /\ Shift(k, i) = Shift(l, i) => k = l
                                                /\ k < l => Shift(k, i) < Shift(l, i)
<1> DEFINE xs == Without(ws, i)
           n  == Len(ws)
<1>1. n \in Nat /\ i \in 1..n /\ DOMAIN ws = 1..n
  OBVIOUS
<1>2. /\ SubSeq(ws, 1, i - 1) \in Seq(T) /\ Len(SubSeq(ws, 1, i - 1)) = i - 1
      /\ \A k \in 1..(i - 1) : SubSeq(ws, 1, i - 1)[k] = ws[k]
  BY <1>1
<1>3. /\ SubSeq(ws, i + 1, n) \in Seq(T) /\ Len(SubSeq(ws, i + 1, n)) = n - i
      /\ \A k \in 1..(n - i) : SubSeq(ws, i + 1, n)[k] = ws[i + k]
  BY <1>1
<1>4. PICK ls, rs : ls = SubSeq(ws, 1, i - 1) /\ rs = SubSeq(ws, i + 1, n)
  OBVIOUS
<1>5. xs = ls \o rs /\ ls \in Seq(T) /\ rs \in Seq(T) /\ Len(ls) = i - 1 /\ Len(rs) = n - i
  BY <1>2, <1>3, <1>4 DEF Without
<1>6. (\A k \in 1..(i - 1) : ls[k] = ws[k]) /\ (\A k \in 1..(n - i) : rs[k] = ws[i + k])
  BY <1>2, <1>3, <1>4
<1> HIDE DEF xs, n
<1>7. xs \in Seq(T) /\ DOMAIN xs = 1..(n - 1)
  BY <1>1, <1>5
<1>8. \A k \in 1..(n - 1) : xs[k] = IF k <= i - 1 THEN ls[k] ELSE rs[k - (i - 1)]
  BY <1>1, <1>5
<1>9. \A k \in 1..(n - 1) : xs[k] = ws[Shift(k, i)]
  <2> SUFFICES ASSUME NEW k \in 1..(n - 1) PROVE xs[k] = ws[Shift(k, i)]
    OBVIOUS
  <2>1. CASE k < i
    <3>1. k \in 1..(i - 1) /\ k <= i - 1
      BY <1>1, <2>1
    <3> QED
      BY <1>6, <1>8, <2>1, <3>1 DEF Shift
  <2>2. CASE ~(k < i)
    <3>1. k - (i - 1) \in 1..(n - i) /\ i + (k - (i - 1)) = k + 1 /\ ~(k <= i - 1)
      BY <1>1, <2>2
    <3> QED
      BY <1>6, <1>8, <2>2, <3>1 DEF Shift
  <2> QED
    BY <2>1, <2>2
<1>10. \A k \in 1..(n - 1) : Shift(k, i) \in (1..n) \ {i}
  BY <1>1 DEF Shift
<1>11. ASSUME NEW j \in (1..n) \ {i} PROVE \E k \in 1..(n - 1) : Shift(k, i) = j
  <2>1. CASE j < i
    <3>1. j \in 1..(n - 1) /\ Shift(j, i) = j
      BY <1>1, <2>1 DEF Shift
    <3> QED
      BY <3>1
  <2>2. CASE ~(j < i)
    <3>1. j - 1 \in 1..(n - 1) /\ Shift(j - 1, i) = j
      BY <1>1, <2>2 DEF Shift
    <3> QED
      BY <3>1
  <2> QED
    BY <2>1, <2>2
<1>12. \A k, l \in 1..(n - 1) : /\ Shift(k, i) = Shift(l, i) => k = l
                                /\ k < l => Shift(k, i) < Shift(l, i)
  BY <1>1 DEF Shift
<1> QED
  BY <1>1, <1>7, <1>9, <1>10, <1>11, <1>12 DEF xs

\* The hashes that some writes bring.
Brought(ws) == UNION {Referenced(ws[i]) : i \in DOMAIN ws}

\* Writes that land add rows, and hashes they bring to rows; a row keeps its
\* hashes or gets those of a write.
LEMMA ApplyValue ==
  ASSUME RowType, NEW ws \in Seq(Writes), Apply(ws)
  PROVE  /\ live \subseteq live' /\ live' \subseteq Rows
         /\ rows' = [r \in Rows |-> rows'[r]]
         /\ \A r \in Rows : rows'[r] \subseteq rows[r] \cup Brought(ws)
         /\ \A r \in Rows : r \notin live' => rows'[r] = {}
<1> DEFINE made    == {ws[i].flow : i \in {k \in DOMAIN ws : ws[k].kind = "insert"}}
           last(f) == {i \in DOMAIN ws : ws[i].flow = f /\ \A k \in DOMAIN ws : ws[k].flow = f => k <= i}
           set(r)  == IF r \notin live \cup made THEN {}
                      ELSE IF last(r) = {} THEN rows[r]
                      ELSE UNION {Referenced(ws[i]) : i \in last(r)}
<1>1. live' = live \cup made /\ rows' = [r \in Rows |-> set(r)]
  BY DEF Apply
<1>2. \A i \in DOMAIN ws : ws[i] \in Writes
  OBVIOUS
<1>3. \A w \in Writes : w.flow \in Rows
  BY DEF Writes, Rows
<1>4. made \subseteq Rows
  BY <1>2, <1>3
<1>5. ASSUME NEW r \in Rows PROVE set(r) \subseteq rows[r] \cup Brought(ws)
  <2>1. last(r) \subseteq DOMAIN ws
    OBVIOUS
  <2> HIDE DEF last
  <2> QED
    BY <2>1 DEF Brought
<1>6. ASSUME NEW r \in Rows, r \notin live' PROVE set(r) = {}
  <2> HIDE DEF last
  <2> QED
    BY <1>1, <1>6
<1> HIDE DEF set, made
<1> QED
  BY <1>1, <1>4, <1>5, <1>6 DEF RowType

LEMMA BroughtType ==
  ASSUME NEW ws \in Seq(Writes)
  PROVE  Brought(ws) \subseteq Hashes
<1>1. \A i \in DOMAIN ws : ws[i] \in Writes
  OBVIOUS
<1>2. \A w \in Writes : Referenced(w) \subseteq Hashes
  BY DEF Writes, Referenced, Optional
<1> QED
  BY <1>1, <1>2 DEF Brought

\* Finalize puts the file there, with one more owner.
LEMMA FinalizeType ==
  ASSUME BodyType, NEW h \in Hashes, Finalize(h)
  PROVE  BodyType'
<1>1. pendingBodies' \in [Hashes -> Nat] /\ disk' \in SUBSET Hashes /\ UNCHANGED mergeBodies
  BY DEF Finalize, BodyType
<1>2. bodyGCClaimed' \in SUBSET Hashes
  BY ClaimType DEF Finalize
<1> QED
  BY <1>1, <1>2 DEF BodyType

\* What a release hands back: the hashes of a queue of writes, or of one flow.
LEMMA ReleaseValue ==
  ASSUME ReleaseStep, QueueType, CaptureType
  PROVE  \E ws : IsFiniteSet(DOMAIN ws) /\ pendingBodies' = Released(ws) /\ Unlocked
<1>1. ASSUME NEW x PROVE IsFiniteSet(DOMAIN <<x>>)
  BY DomainFinite, <<x>> \in Seq({x})
<1>2. CASE ReleaseDropped
  <2>1. PICK i \in DOMAIN dropped : pendingBodies' = Released(<<dropped[i]>>) /\ Unlocked
    BY <1>2 DEF ReleaseDropped
  <2> QED
    BY <1>1, <2>1
<1>3. CASE ReleaseChunk
  BY <1>3, DomainFinite DEF ReleaseChunk, QueueType
<1>4. CASE ReplayRelease
  BY <1>1, <1>4 DEF ReplayRelease
<1>5. ASSUME NEW f \in Flows, ImportRelease(f)
      PROVE  \E ws : IsFiniteSet(DOMAIN ws) /\ pendingBodies' = Released(ws) /\ Unlocked
  BY <1>1, <1>5 DEF ImportRelease
<1> QED
  BY <1>2, <1>3, <1>4, <1>5 DEF ReleaseStep

\* A merge owns each body of the peer's flow once, from the protection to the release.
MergeOwners(h) ==
  {m \in Merges : merging[m] \in {"protected", "checked", "inserted", "over"} /\ h \in PeerBodies[m]}
MergeCounted ==
  \A h \in Hashes : IsFiniteSet(MergeOwners(h)) /\ mergeBodies[h] = Cardinality(MergeOwners(h))

\* An upload under way has a hash.
UploadNamed == bodyMu # "free" => upload.hash \in Hashes

LEMMA MergeCountedStep == TypeOK /\ MergeCounted /\ [Next]_vars => MergeCounted'
<1> SUFFICES ASSUME TypeOK, MergeCounted, [Next]_vars PROVE MergeCounted'
  OBVIOUS
<1>1. CASE UNCHANGED mergeBodies /\ \A h \in Hashes : MergeOwners(h)' = MergeOwners(h)
  BY <1>1 DEF MergeCounted
<1>2. ASSUME NEW m \in Merges, MergeProtects(m) PROVE MergeCounted'
  <2> SUFFICES ASSUME NEW h \in Hashes
               PROVE  IsFiniteSet(MergeOwners(h)') /\ mergeBodies'[h] = Cardinality(MergeOwners(h)')
    BY DEF MergeCounted
  <2>1. mergeBodies'[h] = mergeBodies[h] + (IF h \in PeerBodies[m] THEN 1 ELSE 0)
    BY <1>2 DEF MergeProtects
  <2>2. m \notin MergeOwners(h)
    BY <1>2 DEF MergeProtects, MergeOwners
  <2>3. MergeOwners(h)' = IF h \in PeerBodies[m] THEN MergeOwners(h) \cup {m} ELSE MergeOwners(h)
    BY <1>2 DEF MergeProtects, MergeOwners, TypeOK, MergeType
  <2>4. IsFiniteSet(MergeOwners(h)) /\ mergeBodies[h] = Cardinality(MergeOwners(h))
    BY DEF MergeCounted
  <2>5. Cardinality(MergeOwners(h)) \in Nat
    BY <2>4, FS_CardinalityType
  <2>6. CASE h \in PeerBodies[m]
    <3>1. MergeOwners(h)' = MergeOwners(h) \cup {m}
      BY <2>3, <2>6
    <3> QED
      BY <3>1, <2>1, <2>2, <2>4, <2>5, <2>6, FS_AddElement
  <2>7. CASE h \notin PeerBodies[m]
    <3>1. MergeOwners(h)' = MergeOwners(h) /\ mergeBodies'[h] = mergeBodies[h]
      BY <2>1, <2>3, <2>4, <2>5, <2>7
    <3> QED
      BY <3>1, <2>4
  <2> QED
    BY <2>6, <2>7
<1>3. ASSUME NEW m \in Merges, MergeReleases(m) PROVE MergeCounted'
  <2> SUFFICES ASSUME NEW h \in Hashes
               PROVE  IsFiniteSet(MergeOwners(h)') /\ mergeBodies'[h] = Cardinality(MergeOwners(h)')
    BY DEF MergeCounted
  <2>1. mergeBodies'[h] = mergeBodies[h] - (IF h \in PeerBodies[m] THEN 1 ELSE 0)
    BY <1>3 DEF MergeReleases
  <2>2. h \in PeerBodies[m] => m \in MergeOwners(h)
    BY <1>3 DEF MergeReleases, MergeOwners
  <2>3. MergeOwners(h)' = IF h \in PeerBodies[m] THEN MergeOwners(h) \ {m} ELSE MergeOwners(h)
    BY <1>3 DEF MergeReleases, MergeOwners, TypeOK, MergeType
  <2>4. IsFiniteSet(MergeOwners(h)) /\ mergeBodies[h] = Cardinality(MergeOwners(h))
    BY DEF MergeCounted
  <2>5. Cardinality(MergeOwners(h)) \in Nat
    BY <2>4, FS_CardinalityType
  <2>6. CASE h \in PeerBodies[m]
    <3>1. MergeOwners(h)' = MergeOwners(h) \ {m}
      BY <2>3, <2>6
    <3> QED
      BY <3>1, <2>1, <2>2, <2>4, <2>5, <2>6, FS_RemoveElement
  <2>7. CASE h \notin PeerBodies[m]
    <3>1. MergeOwners(h)' = MergeOwners(h) /\ mergeBodies'[h] = mergeBodies[h]
      BY <2>1, <2>3, <2>4, <2>5, <2>7
    <3> QED
      BY <3>1, <2>4
  <2> QED
    BY <2>6, <2>7
<1>4. ASSUME NEW m \in Merges,
             MergeStages(m) \/ MergeRenames(m) \/ MergeChecks(m) \/ MergeInserts(m) \/ MergePublishes(m)
      PROVE  UNCHANGED mergeBodies /\ \A h \in Hashes : MergeOwners(h)' = MergeOwners(h)
  BY <1>4 DEF MergeStages, MergeRenames, MergeChecks, MergeInserts, MergePublishes, MergeOwners, bodyVars,
     TypeOK, MergeType
<1>5. CASE CaptureStep \/ QueueStep \/ ReleaseStep \/ WriteStep \/ UploadStep \/ GCStep \/ UNCHANGED vars
  BY <1>1, <1>5, CaptureFrame, QueueFrame, ReleaseFrame, WriteFrame, UploadFrame, GCFrame
     DEF MergeOwners, bodyVars, mergeVars, vars
<1> QED
  BY StepsOfStore, <1>1, <1>2, <1>3, <1>4, <1>5 DEF MergeStep

\* A merge between its protection and its release owns its bodies.
LEMMA MergeOwns ==
  ASSUME MergeCounted, NEW m \in Merges, merging[m] \in {"protected", "checked", "inserted", "over"},
         NEW h \in Hashes, h \in PeerBodies[m]
  PROVE  mergeBodies[h] \in Nat \ {0}
<1>1. m \in MergeOwners(h)
  BY DEF MergeOwners
<1> QED
  BY <1>1, FS_EmptySet, FS_CardinalityType DEF MergeCounted

LEMMA UploadNamedStep == UploadNamed /\ [Next]_vars => UploadNamed'
<1> SUFFICES ASSUME UploadNamed, [Next]_vars PROVE UploadNamed'
  OBVIOUS
<1>1. CASE UploadStep
  BY <1>1 DEF UploadStep, UploadBegins, UploadStores, UploadAttaches, UploadRefused, UploadNamed
<1>2. CASE UNCHANGED uploadVars
  BY <1>2 DEF uploadVars, UploadNamed
<1> QED
  BY <1>1, <1>2, StepsOfStore, CaptureFrame, QueueFrame, ReleaseFrame, WriteFrame, MergeFrame, GCFrame DEF vars

LEMMA BodyTypeStep == TypeOK /\ MergeCounted /\ UploadNamed /\ [Next]_vars => BodyType'
<1> SUFFICES ASSUME TypeOK, MergeCounted, UploadNamed, [Next]_vars PROVE BodyType'
  OBVIOUS
<1> USE DEF TypeOK
<1>1. CASE CaptureStep
  <2>1. Captured \subseteq Hashes
    BY ShapeAssumption DEF ShapeAssumption
  <2>2. UNCHANGED bodyVars \/ \E h \in Hashes : Finalize(h)
    BY <1>1, <2>1 DEF CaptureStep, HoldEdited, CaptureBody, MissBody
  <2> QED
    BY <2>2, FinalizeType DEF BodyType, bodyVars
<1>2. CASE ReleaseStep
  BY <1>2, ReleaseValue, ReleaseFrame, ReleasedValue DEF BodyType
<1>3. ASSUME NEW m \in Merges, MergeStages(m) \/ MergeChecks(m) \/ MergeInserts(m) PROVE BodyType'
  BY <1>3 DEF MergeStages, MergeChecks, MergeInserts, BodyType, bodyVars
<1>4. ASSUME NEW m \in Merges, MergeProtects(m) PROVE BodyType'
  <2>1. PeerBodies[m] \in SUBSET Hashes
    BY ShapeAssumption DEF ShapeAssumption
  <2>2. bodyGCClaimed' \in SUBSET Hashes
    BY <1>4, <2>1, ClaimType DEF MergeProtects
  <2>3. mergeBodies' \in [Hashes -> Nat]
    BY <1>4 DEF MergeProtects, BodyType
  <2> QED
    BY <1>4, <2>2, <2>3 DEF MergeProtects, BodyType
<1>5. ASSUME NEW m \in Merges, MergeRenames(m) PROVE BodyType'
  BY <1>5 DEF MergeRenames, BodyType, MergeType
<1>6. ASSUME NEW m \in Merges, MergePublishes(m) PROVE BodyType'
  BY <1>6 DEF MergePublishes, BodyType
<1>7. ASSUME NEW m \in Merges, MergeReleases(m) PROVE BodyType'
  <2>1. \A h \in Hashes : h \in PeerBodies[m] => mergeBodies[h] \in Nat \ {0}
    BY <1>7, MergeOwns DEF MergeReleases
  <2>2. mergeBodies' \in [Hashes -> Nat]
    BY <1>7, <2>1 DEF MergeReleases, BodyType
  <2> QED
    BY <1>7, <2>2 DEF MergeReleases, BodyType
<1>8. CASE UploadStep
  <2>1. ASSUME NEW h \in Hashes, UploadBegins(h) PROVE BodyType'
    BY <2>1 DEF UploadBegins, BodyType, bodyVars
  <2>2. CASE UploadStores
    BY <2>2, ClaimType DEF UploadStores, BodyType, UploadNamed
  <2>3. CASE UploadAttaches \/ UploadRefused
    BY <2>3 DEF UploadAttaches, UploadRefused, BodyType, bodyVars
  <2> QED
    BY <1>8, <2>1, <2>2, <2>3 DEF UploadStep
<1>9. CASE GCStep
  BY <1>9 DEF GCStep, GCBegins, GCReadsFlows, GCReadsFindings, GCEnds, GCVisits, GCRemoves, BodyType, bodyVars
<1>10. CASE QueueStep \/ WriteStep \/ UNCHANGED vars
  BY <1>10, QueueFrame, WriteFrame DEF BodyType, vars, bodyVars
<1> QED
  BY StepsOfStore, <1>1, <1>2, <1>3, <1>4, <1>5, <1>6, <1>7, <1>8, <1>9, <1>10 DEF MergeStep

\* A replayed write is still the head of the chunk; a deletion begun may be counted.
HeadThere == flusher = "replayed" => chunk # <<>>
DeleteCounted == deleting # {} => deletes < Deletes

LEMMA CaptureTypeStep == CaptureType /\ [Next]_vars => CaptureType'
<1> SUFFICES ASSUME CaptureType, [Next]_vars PROVE CaptureType'
  OBVIOUS
<1>1. Captured \subseteq Optional
  BY ShapeAssumption DEF ShapeAssumption, Optional
<1>2. ASSUME NEW f \in Flows, HoldEdited(f) \/ CaptureBody(f) \/ MissBody(f) PROVE CaptureType'
  BY <1>1, <1>2 DEF HoldEdited, CaptureBody, MissBody, CaptureType
<1>3. ASSUME NEW f \in Flows, QueueInsert(f) \/ QueueUpdate(f) \/ ImportRelease(f) \/ ImportRow(f)
      PROVE  CaptureType'
  BY <1>3 DEF QueueInsert, QueueUpdate, ImportRelease, ImportRow, CaptureType
<1>4. CASE UNCHANGED captureVars
  BY <1>4 DEF captureVars, CaptureType
<1>5. QueueStep => UNCHANGED captureVars \/ \E f \in Flows : QueueInsert(f) \/ QueueUpdate(f)
  BY DEF QueueStep, TakeChunk, FailChunk
<1>6. ReleaseStep => UNCHANGED captureVars \/ \E f \in Flows : ImportRelease(f)
  BY DEF ReleaseStep, ReleaseDropped, ReleaseChunk, ReplayRelease
<1>7. WriteStep => UNCHANGED captureVars \/ \E f \in Flows : ImportRow(f)
  BY DEF WriteStep, CommitChunk, ReplayWrite, DeleteSynced, DeleteCommits
<1> QED
  BY StepsOfStore, MergeFrame, UploadFrame, GCFrame, <1>2, <1>3, <1>4, <1>5, <1>6, <1>7
     DEF CaptureStep, vars

LEMMA QueueTypeStep == TypeOK /\ HeadThere /\ [Next]_vars => QueueType' /\ HeadThere'
<1> SUFFICES ASSUME TypeOK, HeadThere, [Next]_vars PROVE QueueType' /\ HeadThere'
  OBVIOUS
<1> USE DEF TypeOK
<1>1. ASSUME NEW f \in Flows, QueueInsert(f) \/ QueueUpdate(f) PROVE QueueType' /\ HeadThere'
  <2>1. \A h \in Optional : <<h, NoHash>> \in Optional \X Optional
    BY DEF Optional
  <2>2. [flow |-> f, kind |-> "insert", hashes |-> <<original[f], NoHash>>] \in Writes
    BY <2>1 DEF Writes, CaptureType
  <2>3. [flow |-> f, kind |-> "update", hashes |-> <<original[f], body[f]>>] \in Writes
    BY DEF Writes, CaptureType
  <2>4. PICK w \in Writes : Enqueue(w) \/ Discard(w)
    BY <1>1, <2>2, <2>3 DEF QueueInsert, QueueUpdate
  <2>5. QueueType'
    BY <2>4, EnqueueType, DiscardType
  <2>6. UNCHANGED <<chunk, flusher>>
    BY <2>4 DEF Enqueue, Discard
  <2> QED
    BY <2>5, <2>6 DEF HeadThere
<1>2. CASE TakeChunk
  <2> DEFINE n == IF Len(queue) < ChunkMax THEN Len(queue) ELSE ChunkMax
  <2>1. n \in 1..Len(queue)
    BY <1>2, ShapeAssumption DEF TakeChunk, QueueType, ShapeAssumption
  <2>2. SubSeq(queue, 1, n) \in Seq(Writes) /\ SubSeq(queue, n + 1, Len(queue)) \in Seq(Writes)
    BY <2>1 DEF QueueType
  <2> HIDE DEF n
  <2>3. chunk' = SubSeq(queue, 1, n) /\ queue' = SubSeq(queue, n + 1, Len(queue)) /\ flusher' = "taken"
        /\ UNCHANGED <<dropped, void, failures>>
    BY <1>2 DEF TakeChunk, n
  <2> QED
    BY <2>2, <2>3 DEF QueueType, HeadThere
<1>3. CASE FailChunk
  BY <1>3, ShapeAssumption DEF FailChunk, QueueType, HeadThere, ShapeAssumption
<1>4. CASE ReleaseDropped
  <2>1. PICK i \in DOMAIN dropped : dropped' = Without(dropped, i)
    BY <1>4 DEF ReleaseDropped, Without
  <2>2. dropped' \in Seq(Writes)
    BY <2>1, WithoutOne DEF QueueType
  <2> QED
    BY <1>4, <2>2 DEF ReleaseDropped, QueueType, HeadThere
<1>5. CASE ReleaseChunk
  <2>1. <<>> \in Seq(Writes)
    OBVIOUS
  <2> QED
    BY <1>5, <2>1 DEF ReleaseChunk, QueueType, HeadThere
<1>6. CASE ReplayRelease
  <2>1. Tail(chunk) \in Seq(Writes)
    BY <1>6 DEF ReplayRelease, QueueType, HeadThere
  <2>2. flusher' \in {"idle", "replay"}
    BY <1>6 DEF ReplayRelease
  <2> QED
    BY <1>6, <2>1, <2>2 DEF ReplayRelease, QueueType, HeadThere
<1>7. CASE WriteStep
  <2>1. UNCHANGED <<queue, chunk, dropped, void>>
    BY <1>7, WriteFrame
  <2>2. UNCHANGED failures /\ \/ UNCHANGED flusher
                              \/ flusher' = "committed"
                              \/ flusher' = "replayed" /\ chunk # <<>>
    BY <1>7 DEF WriteStep, CommitChunk, ReplayWrite, ImportRow, DeleteSynced, DeleteCommits, queueVars
  <2> QED
    BY <2>1, <2>2 DEF QueueType, HeadThere
<1>8. CASE UNCHANGED queueVars
  BY <1>8 DEF queueVars, QueueType, HeadThere
<1>9. ASSUME NEW f \in Flows, ImportRelease(f) PROVE UNCHANGED queueVars
  BY <1>9 DEF ImportRelease
<1> QED
  BY StepsOfStore, CaptureFrame, MergeFrame, UploadFrame, GCFrame,
     <1>1, <1>2, <1>3, <1>4, <1>5, <1>6, <1>7, <1>8, <1>9 DEF QueueStep, ReleaseStep, vars

LEMMA RowTypeStep == TypeOK /\ [Next]_vars => RowType'
<1> SUFFICES ASSUME TypeOK, [Next]_vars PROVE RowType'
  OBVIOUS
<1> USE DEF TypeOK
<1>1. ASSUME NEW ws \in Seq(Writes), Apply(ws) PROVE RowType'
  BY <1>1, ApplyValue, BroughtType DEF RowType
<1>2. CASE CommitChunk
  BY <1>1, <1>2 DEF CommitChunk, QueueType
<1>3. CASE ReplayWrite
  <2>1. <<Head(chunk)>> \in Seq(Writes)
    BY <1>3 DEF ReplayWrite, QueueType
  <2> QED
    BY <1>1, <1>3, <2>1 DEF ReplayWrite, rowVars, RowType
<1>4. ASSUME NEW f \in Flows, ImportRow(f) PROVE RowType'
  <2>1. f \in Rows /\ {body[f]} \ {NoHash} \in SUBSET Hashes
    BY DEF Rows, CaptureType, Optional
  <2> QED
    BY <1>4, <2>1 DEF ImportRow, rowVars, RowType
<1>5. ASSUME NEW r \in Rows, DeleteSynced(r) \/ DeleteCommits(r) PROVE RowType'
  BY <1>5 DEF DeleteSynced, DeleteCommits, rowVars, RowType
<1>6. ASSUME NEW m \in Merges, MergeInserts(m) PROVE RowType'
  <2>1. m \in Rows /\ PeerBodies[m] \in SUBSET Hashes
    BY ShapeAssumption DEF Rows, ShapeAssumption
  <2> QED
    BY <1>6, <2>1 DEF MergeInserts, rowVars, RowType
<1>7. CASE UNCHANGED rowVars
  BY <1>7 DEF rowVars, RowType
<1>8. MergeStep => UNCHANGED rowVars \/ \E m \in Merges : MergeInserts(m)
  BY DEF MergeStep, MergeStages, MergeProtects, MergeRenames, MergeChecks, MergePublishes, MergeReleases
<1> QED
  BY StepsOfStore, CaptureFrame, QueueFrame, ReleaseFrame, UploadFrame, GCFrame,
     <1>2, <1>3, <1>4, <1>5, <1>6, <1>7, <1>8 DEF WriteStep, vars

LEMMA DeleteTypeStep == TypeOK /\ DeleteCounted /\ [Next]_vars => DeleteType' /\ DeleteCounted'
<1> SUFFICES ASSUME TypeOK, DeleteCounted, [Next]_vars PROVE DeleteType' /\ DeleteCounted'
  OBVIOUS
<1>1. ASSUME NEW r \in Rows, DeleteSynced(r) PROVE DeleteType' /\ DeleteCounted'
  BY <1>1 DEF DeleteSynced, DeleteType, DeleteCounted, TypeOK
<1>2. ASSUME NEW r \in Rows, DeleteCommits(r) PROVE DeleteType' /\ DeleteCounted'
  BY <1>2, ShapeAssumption DEF DeleteCommits, DeleteType, DeleteCounted, TypeOK, ShapeAssumption
<1>3. CASE UNCHANGED deleteVars
  BY <1>3 DEF deleteVars, DeleteType, DeleteCounted, TypeOK
<1>4. WriteStep => UNCHANGED deleteVars \/ \E r \in Rows : DeleteSynced(r) \/ DeleteCommits(r)
  BY DEF WriteStep, CommitChunk, ReplayWrite, ImportRow
<1> QED
  BY StepsOfStore, CaptureFrame, QueueFrame, ReleaseFrame, MergeFrame, UploadFrame, GCFrame,
     <1>1, <1>2, <1>3, <1>4 DEF vars

LEMMA UploadTypeStep == TypeOK /\ UploadNamed /\ [Next]_vars => UploadType'
<1> SUFFICES ASSUME TypeOK, UploadNamed, [Next]_vars PROVE UploadType'
  OBVIOUS
<1> USE DEF TypeOK
<1>1. ASSUME NEW h \in Hashes, UploadBegins(h) PROVE UploadType'
  <2>1. upload' \in [hash : Optional, existed : BOOLEAN]
    BY <1>1 DEF UploadBegins, Optional
  <2>2. uploads' \in 0..Uploads
    BY <1>1, ShapeAssumption DEF UploadBegins, UploadType, ShapeAssumption
  <2> QED
    BY <1>1, <2>1, <2>2 DEF UploadBegins, UploadType
<1>2. CASE UploadStores
  BY <1>2 DEF UploadStores, UploadType
<1>3. CASE UploadAttaches
  BY <1>3 DEF UploadAttaches, UploadType, UploadNamed
<1>4. CASE UploadRefused
  BY <1>4 DEF UploadRefused, UploadType
<1>5. CASE UNCHANGED uploadVars
  BY <1>5 DEF uploadVars, UploadType
<1> QED
  BY StepsOfStore, CaptureFrame, QueueFrame, ReleaseFrame, WriteFrame, MergeFrame, GCFrame,
     <1>1, <1>2, <1>3, <1>4, <1>5 DEF UploadStep, vars

LEMMA MergeTypeStep == MergeType /\ [Next]_vars => MergeType'
<1> SUFFICES ASSUME MergeType, [Next]_vars PROVE MergeType'
  OBVIOUS
<1>1. ASSUME NEW m \in Merges, MergeStages(m) PROVE MergeType'
  <2>1. PeerBodies[m] \in SUBSET Hashes
    BY ShapeAssumption DEF ShapeAssumption
  <2> QED
    BY <1>1, <2>1 DEF MergeStages, MergeType
<1>2. ASSUME NEW m \in Merges,
             MergeProtects(m) \/ MergeInserts(m) \/ MergePublishes(m) \/ MergeReleases(m)
      PROVE  MergeType'
  BY <1>2 DEF MergeProtects, MergeInserts, MergePublishes, MergeReleases, MergeType
<1>3. ASSUME NEW m \in Merges, MergeRenames(m) \/ MergeChecks(m) PROVE MergeType'
  BY <1>3 DEF MergeRenames, MergeChecks, MergeType
<1>4. CASE UNCHANGED mergeVars
  BY <1>4 DEF mergeVars, MergeType
<1> QED
  BY StepsOfStore, CaptureFrame, QueueFrame, ReleaseFrame, WriteFrame, UploadFrame, GCFrame,
     <1>1, <1>2, <1>3, <1>4 DEF MergeStep, vars

LEMMA GCTypeStep == TypeOK /\ [Next]_vars => GCType'
<1> SUFFICES ASSUME TypeOK, [Next]_vars PROVE GCType'
  OBVIOUS
<1> USE DEF TypeOK
<1>1. CASE GCBegins
  BY <1>1, ShapeAssumption DEF GCBegins, GCType, ShapeAssumption
<1>2. CASE GCReadsFlows
  <2>1. UNION {rows[r] : r \in live} \subseteq Hashes
    BY DEF RowType
  <2> QED
    BY <1>2, <2>1 DEF GCReadsFlows, GCType
<1>3. CASE GCReadsFindings
  BY <1>3 DEF GCReadsFindings, GCType, UploadType
<1>4. CASE GCEnds
  BY <1>4 DEF GCEnds, GCType
<1>5. ASSUME NEW h \in Hashes, GCVisits(h) \/ GCRemoves(h) PROVE GCType'
  BY <1>5 DEF GCVisits, GCRemoves, GCType
<1>6. CASE UNCHANGED gcVars
  BY <1>6 DEF gcVars, GCType
<1> QED
  BY StepsOfStore, CaptureFrame, QueueFrame, ReleaseFrame, WriteFrame, MergeFrame, UploadFrame,
     <1>1, <1>2, <1>3, <1>4, <1>5, <1>6 DEF GCStep, vars

\* The type invariant with what it rests on.
BaseInv == TypeOK /\ MergeCounted /\ UploadNamed /\ HeadThere /\ DeleteCounted

LEMMA BaseInit == Init => BaseInv
<1> SUFFICES ASSUME Init PROVE BaseInv
  OBVIOUS
<1> USE ShapeAssumption DEF Init, ShapeAssumption
<1>1. BodyType /\ CaptureType
  BY DEF BodyType, CaptureType, Optional
<1>2. QueueType
  <2>1. <<>> \in Seq(Writes)
    OBVIOUS
  <2> QED
    BY <2>1 DEF QueueType
<1>3. RowType /\ DeleteType
  BY DEF RowType, DeleteType
<1>4. UploadType
  BY DEF UploadType, Optional
<1>5. MergeType
  BY DEF MergeType
<1>6. GCType
  BY DEF GCType
<1>7. MergeCounted
  <2>1. \A h \in Hashes : MergeOwners(h) = {} /\ mergeBodies[h] = 0
    BY DEF MergeOwners
  <2> QED
    BY <2>1, FS_EmptySet DEF MergeCounted
<1>8. UploadNamed /\ HeadThere /\ DeleteCounted
  BY DEF UploadNamed, HeadThere, DeleteCounted
<1> QED
  BY <1>1, <1>2, <1>3, <1>4, <1>5, <1>6, <1>7, <1>8 DEF BaseInv, TypeOK

LEMMA BaseStep == BaseInv /\ [Next]_vars => BaseInv'
BY BodyTypeStep, CaptureTypeStep, QueueTypeStep, RowTypeStep, DeleteTypeStep, UploadTypeStep, MergeTypeStep,
   GCTypeStep, MergeCountedStep, UploadNamedStep DEF BaseInv, TypeOK

\* Every variable of the body store stays in its domain: in particular no counter
\* of owners, pendingBodies or mergeBodies, ever falls below zero.
THEOREM TypeCorrect == Spec => []TypeOK
<1>1. BaseInv => TypeOK
  BY DEF BaseInv
<1> QED
  BY BaseInit, BaseStep, <1>1, PTL DEF Spec

--------------------------------------------------------------------------------
(* What a pass has seen *)

Seen == referenced \cup bodyGCClaimed

\* What is owned while a pass is under way was owned when it began or claimed since.
OwnersSeen == gc # "idle" => \A h \in Hashes : Owned(h) => h \in Seen

\* The names the walk has come to are seen or kept as orphans, never both.
Walked ==
  /\ gc = "walk" => disk \subseteq Seen \cup unvisited \cup orphans /\ orphans \cap referenced = {}
  /\ gc # "walk" => orphans = {}

\* What a merge still has to rename is of the peer's archive.
StagedOfPeer ==
  \A m \in Merges : merging[m] \in {"staged", "protected"} => staged[m] \subseteq PeerBodies[m]

PassInv == OwnersSeen /\ Walked /\ StagedOfPeer

LEMMA StagedStep == TypeOK /\ StagedOfPeer /\ [Next]_vars => StagedOfPeer'
<1> SUFFICES ASSUME TypeOK, StagedOfPeer, [Next]_vars PROVE StagedOfPeer'
  OBVIOUS
<1> USE DEF TypeOK, MergeType
<1>1. ASSUME NEW m \in Merges, MergeStages(m) PROVE StagedOfPeer'
  BY <1>1 DEF MergeStages, StagedOfPeer
<1>2. ASSUME NEW m \in Merges, MergeRenames(m) PROVE StagedOfPeer'
  BY <1>2 DEF MergeRenames, StagedOfPeer
<1>3. ASSUME NEW m \in Merges,
             MergeProtects(m) \/ MergeChecks(m) \/ MergeInserts(m) \/ MergePublishes(m) \/ MergeReleases(m)
      PROVE  StagedOfPeer'
  BY <1>3 DEF MergeProtects, MergeChecks, MergeInserts, MergePublishes, MergeReleases, StagedOfPeer
<1>4. CASE UNCHANGED mergeVars
  BY <1>4 DEF mergeVars, StagedOfPeer
<1> QED
  BY StepsOfStore, CaptureFrame, QueueFrame, ReleaseFrame, WriteFrame, UploadFrame, GCFrame,
     <1>1, <1>2, <1>3, <1>4 DEF MergeStep, vars

\* While a pass is under way, whoever puts a file on disk or takes ownership of one
\* has claimed it, or owned it before; no claim is forgotten.
Announced ==
  /\ bodyGCClaimed \subseteq bodyGCClaimed'
  /\ disk' \ disk \subseteq referenced \cup bodyGCClaimed'
  /\ \A h \in Hashes : Owned(h)' => Owned(h) \/ h \in bodyGCClaimed'

\* Finalize claims the content it owns for the pass under way.
LEMMA FinalizeAnnounces ==
  ASSUME BodyType, gc # "idle", NEW h \in Hashes, Finalize(h)
  PROVE  Announced
<1>1. bodyGCClaimed' = bodyGCClaimed \cup {h}
  BY DEF Finalize, Claim
<1>2. \A g \in Hashes : g # h => pendingBodies'[g] = pendingBodies[g]
  BY DEF Finalize, BodyType
<1> QED
  BY <1>1, <1>2 DEF Finalize, Announced, Owned

\* Outside its own steps, a pass meets only changes that were announced to it.
LEMMA OthersAnnounce ==
  ASSUME BaseInv, PassInv, [Next]_vars, ~GCStep
  PROVE  UNCHANGED gcVars /\ (gc # "idle" => Announced)
<1> USE DEF BaseInv, TypeOK
<1>1. CASE UNCHANGED <<bodyVars, gcVars>>
  BY <1>1 DEF bodyVars, Announced, Owned
<1>2. CASE CaptureStep
  <2>1. Captured \subseteq Hashes
    BY ShapeAssumption DEF ShapeAssumption
  <2>2. UNCHANGED bodyVars \/ \E h \in Hashes : Finalize(h)
    BY <1>2, <2>1 DEF CaptureStep, HoldEdited, CaptureBody, MissBody
  <2> QED
    BY <1>1, <1>2, <2>2, CaptureFrame, FinalizeAnnounces
<1>3. CASE ReleaseStep
  <2>1. \A h \in Hashes : pendingBodies'[h] <= pendingBodies[h] /\ pendingBodies'[h] \in Nat
    BY <1>3, ReleaseValue, ReleasedValue DEF BodyType
  <2>2. \A h \in Hashes : pendingBodies'[h] > 0 => pendingBodies[h] > 0
    BY <2>1 DEF BodyType
  <2> QED
    BY <1>3, <2>2, ReleaseFrame DEF Announced, Owned
<1>4. CASE MergeStep
  <2>1. UNCHANGED gcVars
    BY <1>4, MergeFrame
  <2>2. ASSUME NEW m \in Merges, MergeProtects(m), gc # "idle" PROVE Announced
    <3>1. bodyGCClaimed' = bodyGCClaimed \cup PeerBodies[m] /\ UNCHANGED <<disk, pendingBodies>>
      BY <2>2 DEF MergeProtects, Claim
    <3>2. \A h \in Hashes : h \notin PeerBodies[m] => mergeBodies'[h] = mergeBodies[h]
      BY <2>2 DEF MergeProtects, BodyType
    <3> QED
      BY <3>1, <3>2 DEF Announced, Owned
  <2>3. ASSUME NEW m \in Merges, MergeRenames(m), gc # "idle" PROVE Announced
    <3>1. UNCHANGED <<pendingBodies, mergeBodies, bodyGCClaimed>> /\ merging[m] = "protected"
          /\ (UNCHANGED disk \/ \E h \in staged[m] : disk' = disk \cup {h})
      BY <2>3 DEF MergeRenames
    <3>2. \A h \in staged[m] : h \in Hashes /\ Owned(h)
      BY <3>1, MergeOwns, ShapeAssumption DEF PassInv, StagedOfPeer, Owned, ShapeAssumption
    <3> QED
      BY <2>3, <3>1, <3>2 DEF Announced, Owned, PassInv, OwnersSeen, Seen
  <2>4. ASSUME NEW m \in Merges, MergePublishes(m) \/ MergeReleases(m), gc # "idle" PROVE Announced
    <3>1. \A h \in Hashes : pendingBodies'[h] > 0 => pendingBodies[h] > 0
      BY <2>4 DEF MergePublishes, MergeReleases, BodyType
    <3>2. \A h \in Hashes : mergeBodies'[h] > 0 => mergeBodies[h] > 0
      BY <2>4 DEF MergePublishes, MergeReleases, BodyType
    <3> QED
      BY <2>4, <3>1, <3>2 DEF MergePublishes, MergeReleases, Announced, Owned
  <2>5. ASSUME NEW m \in Merges, MergeStages(m) \/ MergeChecks(m) \/ MergeInserts(m) PROVE UNCHANGED bodyVars
    BY <2>5 DEF MergeStages, MergeChecks, MergeInserts
  <2> QED
    BY <1>1, <1>4, <2>1, <2>2, <2>3, <2>4, <2>5 DEF MergeStep
<1>5. CASE UploadStep
  <2>1. UNCHANGED <<gcVars, pendingBodies, mergeBodies>>
    BY <1>5, UploadFrame
  <2>2. CASE UploadStores
    <3>1. gc # "idle" => bodyGCClaimed' = bodyGCClaimed \cup {upload.hash}
      BY <2>2 DEF UploadStores, Claim
    <3> QED
      BY <2>1, <2>2, <3>1 DEF UploadStores, Announced, Owned
  <2>3. CASE ~UploadStores
    BY <1>5, <2>1, <2>3 DEF UploadStep, UploadBegins, UploadAttaches, UploadRefused, Announced, Owned, bodyVars
  <2> QED
    BY <2>2, <2>3
<1> QED
  BY StepsOfStore, QueueFrame, WriteFrame, <1>1, <1>2, <1>3, <1>4, <1>5 DEF vars

LEMMA PassInit == Init => PassInv
BY DEF Init, PassInv, OwnersSeen, Walked, StagedOfPeer

LEMMA PassStep == BaseInv /\ PassInv /\ [Next]_vars => PassInv'
<1> SUFFICES ASSUME BaseInv, PassInv, [Next]_vars PROVE PassInv'
  OBVIOUS
<1>1. StagedOfPeer'
  BY StagedStep DEF PassInv, BaseInv
<1>2. CASE ~GCStep
  <2>1. UNCHANGED gcVars /\ (gc # "idle" => Announced)
    BY <1>2, OthersAnnounce
  <2>2. OwnersSeen'
    BY <2>1 DEF PassInv, OwnersSeen, Announced, Seen, gcVars
  <2>3. Walked'
    BY <2>1 DEF PassInv, Walked, Announced, Seen, gcVars
  <2> QED
    BY <1>1, <2>2, <2>3 DEF PassInv
<1>3. CASE GCStep
  <2> USE DEF OwnersSeen, Walked, Seen
  <2>1. \A h \in Hashes : Owned(h)' = Owned(h)
    BY <1>3, GCFrame DEF Owned
  <2>2. CASE GCBegins
    BY <1>1, <2>1, <2>2 DEF GCBegins, PassInv
  <2>3. CASE GCReadsFlows
    BY <1>1, <2>1, <2>3 DEF GCReadsFlows, PassInv, bodyVars
  <2>4. CASE GCReadsFindings
    BY <1>1, <2>1, <2>4 DEF GCReadsFindings, PassInv, bodyVars, BaseInv, TypeOK, BodyType
  <2>5. CASE GCEnds
    BY <1>1, <2>1, <2>5 DEF GCEnds, PassInv
  <2>6. ASSUME NEW h \in Hashes, GCVisits(h) PROVE OwnersSeen' /\ Walked'
    BY <2>1, <2>6 DEF GCVisits, PassInv, bodyVars
  <2>7. ASSUME NEW h \in Hashes, GCRemoves(h) PROVE OwnersSeen' /\ Walked'
    BY <2>1, <2>7 DEF GCRemoves, PassInv
  <2> QED
    BY <1>1, <1>3, <2>2, <2>3, <2>4, <2>5, <2>6, <2>7 DEF GCStep, PassInv
<1> QED
  BY <1>2, <1>3

\* Whatever else happens meanwhile, what a pass leaves behind when it comes to the
\* end of its orphans was owned or referenced when it looked, or claimed since.
THEOREM PassOverlooksNothing == Spec => []NothingOverlooked
<1>1. PassInv => NothingOverlooked
  BY DEF PassInv, Walked, NothingOverlooked, Seen
<1> QED
  BY BaseInit, BaseStep, PassInit, PassStep, <1>1, PTL DEF Spec

--------------------------------------------------------------------------------
(* Queues of writes, as far as updates go *)

\* The flows whose update is in a queue of writes, and that none is there twice or
\* in two queues.
UpdatesOf(ws) == {ws[i].flow : i \in {k \in DOMAIN ws : ws[k].kind = "update"}}
Once(ws) ==
  \A i, j \in DOMAIN ws :
    ws[i].kind = "update" /\ ws[j].kind = "update" /\ ws[i].flow = ws[j].flow => i = j
Apart(ws, xs) == UpdatesOf(ws) \cap UpdatesOf(xs) = {}

LEMMA UpdatesOfEmpty == UpdatesOf(<<>>) = {} /\ Once(<<>>)
BY DEF UpdatesOf, Once

LEMMA UpdatesOfOne ==
  ASSUME NEW w
  PROVE  /\ UpdatesOf(<<w>>) = (IF w.kind = "update" THEN {w.flow} ELSE {})
         /\ Once(<<w>>)
<1>1. DOMAIN <<w>> = {1} /\ <<w>>[1] = w
  OBVIOUS
<1> QED
  BY <1>1 DEF UpdatesOf, Once

LEMMA UpdatesOfAppend ==
  ASSUME NEW T, NEW ws \in Seq(T), NEW w \in T, Once(ws),
         w.kind = "update" => w.flow \notin UpdatesOf(ws)
  PROVE  /\ UpdatesOf(Append(ws, w)) = UpdatesOf(ws) \cup UpdatesOf(<<w>>)
         /\ Once(Append(ws, w))
<1> DEFINE xs == Append(ws, w)
           n  == Len(ws)
<1>1. DOMAIN xs = (DOMAIN ws) \cup {n + 1} /\ n + 1 \notin DOMAIN ws
      /\ xs[n + 1] = w /\ \A i \in DOMAIN ws : xs[i] = ws[i]
  OBVIOUS
<1> HIDE DEF xs, n
<1>2. UpdatesOf(xs) = UpdatesOf(ws) \cup UpdatesOf(<<w>>)
  BY <1>1, UpdatesOfOne DEF UpdatesOf
<1>3. Once(xs)
  BY <1>1 DEF UpdatesOf, Once
<1> QED
  BY <1>2, <1>3 DEF xs

\* A queue of writes cut in two.
LEMMA UpdatesOfCut ==
  ASSUME NEW T, NEW xs \in Seq(T), NEW ys \in Seq(T), NEW ws, ws = xs \o ys, Once(ws)
  PROVE  /\ UpdatesOf(ws) = UpdatesOf(xs) \cup UpdatesOf(ys)
         /\ Apart(xs, ys) /\ Once(xs) /\ Once(ys)
<1> DEFINE n == Len(xs)
<1>1. n \in Nat /\ Len(ys) \in Nat /\ DOMAIN xs = 1..n /\ DOMAIN ys = 1..Len(ys) /\ DOMAIN ws = 1..(n + Len(ys))
  OBVIOUS
<1>2. \A i \in 1..n : ws[i] = xs[i]
  OBVIOUS
<1>3. \A i \in 1..Len(ys) : ws[i + n] = ys[i]
  OBVIOUS
<1> HIDE DEF n
<1>4. \A i \in DOMAIN ws : i \in DOMAIN xs \/ (i - n \in DOMAIN ys /\ ys[i - n] = ws[i])
  <2> SUFFICES ASSUME NEW i \in 1..(n + Len(ys)), i \notin 1..n
               PROVE  i - n \in 1..Len(ys) /\ ys[i - n] = ws[i]
    BY <1>1
  <2>1. i - n \in 1..Len(ys) /\ (i - n) + n = i
    BY <1>1
  <2> QED
    BY <1>3, <2>1
<1>5. \A i \in DOMAIN xs : i \in DOMAIN ws /\ xs[i] = ws[i]
  BY <1>1, <1>2
<1>6. \A i \in DOMAIN ys : i + n \in DOMAIN ws /\ ys[i] = ws[i + n] /\ i + n \notin DOMAIN xs
  <2> SUFFICES ASSUME NEW i \in 1..Len(ys)
               PROVE  i + n \in 1..(n + Len(ys)) /\ ys[i] = ws[i + n] /\ i + n \notin 1..n
    BY <1>1
  <2>1. i + n \in 1..(n + Len(ys)) /\ i + n \notin 1..n
    BY <1>1
  <2> QED
    BY <1>3, <2>1
<1>7. UpdatesOf(ws) = UpdatesOf(xs) \cup UpdatesOf(ys)
  BY ONLY <1>4, <1>5, <1>6 DEF UpdatesOf
<1>8. Apart(xs, ys)
  BY ONLY <1>5, <1>6, Once(ws) DEF UpdatesOf, Apart, Once
<1>9. Once(xs)
  BY ONLY <1>5, Once(ws) DEF Once
<1>10. Once(ys)
  <2>1. \A i, j \in DOMAIN ys : i + n = j + n => i = j
    BY <1>1
  <2> QED
    BY ONLY <1>6, <2>1, Once(ws) DEF Once
<1> QED
  BY <1>7, <1>8, <1>9, <1>10

LEMMA UpdatesOfHead ==
  ASSUME NEW T, NEW ws \in Seq(T), ws # <<>>, Once(ws)
  PROVE  /\ UpdatesOf(ws) = UpdatesOf(<<Head(ws)>>) \cup UpdatesOf(Tail(ws))
         /\ Apart(<<Head(ws)>>, Tail(ws)) /\ Once(Tail(ws))
         /\ Head(ws) \in T /\ Tail(ws) \in Seq(T)
<1>1. Head(ws) \in T /\ Tail(ws) \in Seq(T)
  OBVIOUS
<1>2. <<Head(ws)>> \in Seq(T)
  BY <1>1
<1>3. ws = <<Head(ws)>> \o Tail(ws)
  OBVIOUS
<1> QED
  BY <1>1, <1>2, <1>3, UpdatesOfCut

LEMMA UpdatesOfWithout ==
  ASSUME NEW T, NEW ws \in Seq(T), NEW i \in DOMAIN ws, Once(ws)
  PROVE  /\ UpdatesOf(ws) = UpdatesOf(<<ws[i]>>) \cup UpdatesOf(Without(ws, i))
         /\ Apart(<<ws[i]>>, Without(ws, i)) /\ Once(Without(ws, i))
         /\ Without(ws, i) \in Seq(T)
<1> DEFINE xs == Without(ws, i)
           at(k) == Shift(k, i)
<1>1. /\ xs \in Seq(T)
      /\ \A k \in DOMAIN xs : at(k) \in (DOMAIN ws) \ {i} /\ xs[k] = ws[at(k)]
      /\ \A j \in (DOMAIN ws) \ {i} : \E k \in DOMAIN xs : at(k) = j
      /\ \A k, l \in DOMAIN xs : at(k) = at(l) => k = l
  BY WithoutOne
<1> HIDE DEF xs, at
<1>2. UpdatesOf(<<ws[i]>>) = (IF ws[i].kind = "update" THEN {ws[i].flow} ELSE {})
  BY UpdatesOfOne
<1>3. UpdatesOf(ws) = UpdatesOf(<<ws[i]>>) \cup UpdatesOf(xs)
  <2>1. \A j \in DOMAIN ws : j = i \/ \E k \in DOMAIN xs : xs[k] = ws[j]
    BY <1>1
  <2>2. \A k \in DOMAIN xs : \E j \in DOMAIN ws : xs[k] = ws[j]
    BY <1>1
  <2> QED
    BY <1>2, <2>1, <2>2 DEF UpdatesOf
<1>4. Apart(<<ws[i]>>, xs)
  <2>1. \A k \in DOMAIN xs : \E j \in (DOMAIN ws) \ {i} : xs[k] = ws[j]
    BY <1>1
  <2> QED
    BY <1>2, <2>1 DEF Apart, UpdatesOf, Once
<1>5. Once(xs)
  BY <1>1 DEF Once
<1> QED
  BY <1>1, <1>3, <1>4, <1>5 DEF xs

--------------------------------------------------------------------------------
(* Ownership by flows *)

\* What the balance of owners needs: a merge that has inserted its flow releases in
\* pendingBodies what it protected in mergeBodies, and must find nothing there.
MergeTakesNothing ==
  \A m \in Merges : merging[m] = "inserted" => \A h \in PeerBodies[m] : pendingBodies[h] = 0

\* A flow gets its original body while it is held, its body once it is sent.
Carried ==
  \A f \in Flows :
    /\ original[f] \in Captured \cup {NoHash} /\ body[f] \in Captured \cup {NoHash}
    /\ f \notin Edited => original[f] = NoHash /\ stage[f] # "held"
    /\ stage[f] = "new" => original[f] = NoHash
    /\ stage[f] \in {"new", "held", "sent"} => body[f] = NoHash

\* The writes that capture queues: an insert with the original, an update with both.
Told ==
  {w \in Writes :
     /\ w.hashes[1] = original[w.flow] /\ stage[w.flow] \notin {"new", "held"} /\ w.flow \notin Imported
     /\ w.kind = "insert" => w.hashes[2] = NoHash
     /\ w.kind = "update" => w.hashes[2] = body[w.flow] /\ stage[w.flow] = "recorded"}

InQueues == UpdatesOf(queue) \cup UpdatesOf(chunk) \cup UpdatesOf(dropped)
Queued ==
  /\ Once(queue) /\ Once(chunk) /\ Once(dropped)
  /\ Apart(queue, chunk) /\ Apart(queue, dropped) /\ Apart(chunk, dropped)
Waiting ==
  /\ queue \in Seq(Told) /\ chunk \in Seq(Told) /\ dropped \in Seq(Told)
  /\ Queued /\ (flusher = "idle" => chunk = <<>>)

\* The flows that own hash h by their body.  They are counted exactly unless h is the
\* original body of an edited request, which two writes release.
Owners(h) ==
  {f \in Flows : body[f] = h /\ (stage[f] \in {"answered", "inserted"} \/ f \in InQueues)}
Clear(h) == \A f \in Edited : original[f] # h
Balanced ==
  \A h \in Hashes : Clear(h) => IsFiniteSet(Owners(h)) /\ pendingBodies[h] = Cardinality(Owners(h))

CarryInv == Carried /\ Waiting
BalanceInv == CarryInv /\ Balanced

\* The owners of a content are the flows whose ownership is outstanding.
LEMMA OwnersAreOutstanding ==
  ASSUME NEW h \in Hashes
  PROVE  Owners(h) = {f \in Flows : OutstandingBody(f) /\ body[f] = h}
<1>1. \A f : HeldBy(f, "update") <=> f \in InQueues
  BY DEF HeldBy, InQueues, UpdatesOf
<1>2. h # NoHash
  BY ShapeAssumption DEF ShapeAssumption
<1> QED
  BY <1>1, <1>2 DEF Owners, OutstandingBody

\* The writes of a queue name each owner of a hash once.
LEMMA MentionsOfUpdates ==
  ASSUME Carried, NEW ws \in Seq(Told), Once(ws), NEW h \in Hashes, Clear(h)
  PROVE  LET S == {f \in UpdatesOf(ws) : body[f] = h}
         IN  IsFiniteSet(S) /\ Mentions(h, ws) = Cardinality(S)
<1> DEFINE A == {p \in (DOMAIN ws) \X (1..2) : ws[p[1]].hashes[p[2]] = h}
           B == {f \in UpdatesOf(ws) : body[f] = h}
           g == [p \in A |-> ws[p[1]].flow]
<1>1. \A i \in DOMAIN ws : ws[i] \in Told
  OBVIOUS
<1>2. h # NoHash
  BY ShapeAssumption DEF ShapeAssumption
<1>3. \A i \in DOMAIN ws : /\ ws[i].hashes[1] # h
                           /\ ws[i].hashes[2] = h => ws[i].kind = "update" /\ body[ws[i].flow] = h
                           /\ ws[i].kind = "update" => ws[i].hashes[2] = body[ws[i].flow]
  BY <1>1, <1>2 DEF Told, Writes, Carried, Clear
<1>4. \A p \in A : p[2] = 2 /\ p[1] \in DOMAIN ws /\ p = <<p[1], p[2]>> /\ ws[p[1]].kind = "update"
                   /\ body[ws[p[1]].flow] = h
  <2> SUFFICES ASSUME NEW p \in A
               PROVE  p[2] = 2 /\ p[1] \in DOMAIN ws /\ p = <<p[1], p[2]>> /\ ws[p[1]].kind = "update"
                      /\ body[ws[p[1]].flow] = h
    OBVIOUS
  <2>1. p[1] \in DOMAIN ws /\ p[2] \in 1..2 /\ p = <<p[1], p[2]>>
    OBVIOUS
  <2>2. p[2] = 1 \/ p[2] = 2
    BY <2>1
  <2> QED
    BY <1>3, <2>1, <2>2
<1>5. \A i \in DOMAIN ws : ws[i].kind = "update" /\ body[ws[i].flow] = h => <<i, 2>> \in A
  BY <1>3
<1>6. IsFiniteSet(A)
  <2>1. \A n \in Nat : IsFiniteSet(1..n)
    BY FS_Interval
  <2>2. IsFiniteSet(1..2) /\ IsFiniteSet(DOMAIN ws)
    BY <2>1, DomainFinite
  <2>3. IsFiniteSet((DOMAIN ws) \X (1..2))
    BY <2>2, FS_Product
  <2> QED
    BY <2>3, FS_Subset
<1> HIDE DEF A
<1>7. \A p \in A : g[p] \in B
  BY <1>4 DEF UpdatesOf
<1>8. \A p, q \in A : g[p] = g[q] => p = q
  BY <1>4 DEF Once
<1>9. \A f \in B : \E p \in A : g[p] = f
  <2> SUFFICES ASSUME NEW f \in B PROVE \E p \in A : g[p] = f
    OBVIOUS
  <2>1. PICK i \in DOMAIN ws : ws[i].kind = "update" /\ ws[i].flow = f
    BY DEF UpdatesOf
  <2>2. <<i, 2>> \in A /\ <<i, 2>>[1] = i
    BY <1>5, <2>1
  <2> QED
    BY <2>1, <2>2
<1>10. g \in [A -> B]
  BY <1>7
<1> HIDE DEF B, g
<1>11. ExistsBijection(A, B)
  BY <1>8, <1>9, <1>10 DEF ExistsBijection, Bijection, Injection, Surjection, IsInjective
<1>12. IsFiniteSet(B) /\ Cardinality(B) = Cardinality(A)
  BY <1>6, <1>11, FS_Bijection
<1> QED
  BY <1>12 DEF A, B, Mentions

LEMMA EnqueueWaits ==
  ASSUME NEW T, queue \in Seq(T), chunk \in Seq(T), dropped \in Seq(T), Queued,
         NEW w \in T, Enqueue(w), w.kind = "update" => w.flow \notin InQueues
  PROVE  /\ queue' \in Seq(T) /\ chunk' \in Seq(T) /\ dropped' \in Seq(T) /\ Queued'
         /\ InQueues' = InQueues \cup UpdatesOf(<<w>>) /\ UNCHANGED <<chunk, flusher>>
<1>0. UNCHANGED <<chunk, flusher>>
  BY DEF Enqueue
<1>1. CASE Len(queue) < QueueMax
  <2>1. queue' = Append(queue, w) /\ UNCHANGED <<chunk, dropped>>
    BY <1>1 DEF Enqueue
  <2>2. UpdatesOf(queue') = UpdatesOf(queue) \cup UpdatesOf(<<w>>) /\ Once(queue')
    BY <2>1, UpdatesOfAppend DEF Queued, InQueues
  <2>3. UpdatesOf(<<w>>) \cap InQueues = {}
    BY UpdatesOfOne
  <2>4. queue' \in Seq(T)
    BY <2>1
  <2> QED
    BY <1>0, <2>1, <2>2, <2>3, <2>4 DEF Queued, InQueues, Apart
<1>2. CASE ~(Len(queue) < QueueMax)
  <2>1. queue' = Append(Tail(queue), w) /\ dropped' = Append(dropped, Head(queue)) /\ UNCHANGED chunk
    BY <1>2 DEF Enqueue
  <2>2. queue # <<>>
    BY <1>2, ShapeAssumption DEF ShapeAssumption
  <2>3. /\ UpdatesOf(queue) = UpdatesOf(<<Head(queue)>>) \cup UpdatesOf(Tail(queue))
        /\ Apart(<<Head(queue)>>, Tail(queue)) /\ Once(Tail(queue))
        /\ Head(queue) \in T /\ Tail(queue) \in Seq(T)
    BY <2>2, UpdatesOfHead DEF Queued
  <2>4. UpdatesOf(<<w>>) \cap InQueues = {}
    BY UpdatesOfOne
  <2>5. UpdatesOf(queue') = UpdatesOf(Tail(queue)) \cup UpdatesOf(<<w>>) /\ Once(queue')
    <3>1. PICK tail : tail = Tail(queue)
      OBVIOUS
    <3>2. tail \in Seq(T) /\ Once(tail)
      BY <2>3, <3>1
    <3>3. w.kind = "update" => w.flow \notin UpdatesOf(tail)
      BY <2>3, <3>1 DEF InQueues
    <3>4. UpdatesOf(Append(tail, w)) = UpdatesOf(tail) \cup UpdatesOf(<<w>>) /\ Once(Append(tail, w))
      BY ONLY <3>2, <3>3, w \in T, UpdatesOfAppend
    <3> QED
      BY <2>1, <3>1, <3>4
  <2>6. Head(queue).kind = "update" => Head(queue).flow \notin UpdatesOf(dropped)
    BY <2>3, UpdatesOfOne DEF Queued, Apart
  <2>7. UpdatesOf(dropped') = UpdatesOf(dropped) \cup UpdatesOf(<<Head(queue)>>) /\ Once(dropped')
    BY <2>1, <2>3, <2>6, UpdatesOfAppend DEF Queued
  <2>8. queue' \in Seq(T) /\ dropped' \in Seq(T)
    BY <2>1, <2>3
  <2>9. InQueues' = InQueues \cup UpdatesOf(<<w>>)
    BY <2>1, <2>3, <2>5, <2>7 DEF InQueues
  <2>10. Queued'
    BY <2>1, <2>3, <2>4, <2>5, <2>7 DEF Queued, InQueues, Apart
  <2> QED
    BY <1>0, <2>1, <2>8, <2>9, <2>10
<1> QED
  BY <1>1, <1>2

\* A write that is discarded waits for its release only.
LEMMA DiscardWaits ==
  ASSUME NEW T, queue \in Seq(T), chunk \in Seq(T), dropped \in Seq(T), Queued,
         NEW w \in T, Discard(w), w.kind = "update" => w.flow \notin InQueues
  PROVE  /\ queue' \in Seq(T) /\ chunk' \in Seq(T) /\ dropped' \in Seq(T) /\ Queued'
         /\ InQueues' = InQueues \cup UpdatesOf(<<w>>) /\ UNCHANGED <<chunk, flusher>>
<1>1. dropped' = Append(dropped, w) /\ UNCHANGED <<queue, chunk, flusher>>
  BY DEF Discard
<1>2. UpdatesOf(dropped') = UpdatesOf(dropped) \cup UpdatesOf(<<w>>) /\ Once(dropped')
  BY <1>1, UpdatesOfAppend DEF Queued, InQueues
<1>3. UpdatesOf(<<w>>) \cap InQueues = {}
  BY UpdatesOfOne
<1>4. dropped' \in Seq(T)
  BY <1>1
<1> QED
  BY <1>1, <1>2, <1>3, <1>4 DEF Queued, InQueues, Apart

LEMMA TakeWaits ==
  ASSUME NEW T, queue \in Seq(T), chunk = <<>>, dropped \in Seq(T), Queued, TakeChunk
  PROVE  /\ queue' \in Seq(T) /\ chunk' \in Seq(T) /\ dropped' \in Seq(T) /\ Queued'
         /\ InQueues' = InQueues
<1>1. PICK n \in 1..Len(queue) : chunk' = SubSeq(queue, 1, n) /\ queue' = SubSeq(queue, n + 1, Len(queue))
  <2> DEFINE n == IF Len(queue) < ChunkMax THEN Len(queue) ELSE ChunkMax
  <2>1. n \in 1..Len(queue)
    BY ShapeAssumption DEF TakeChunk, ShapeAssumption
  <2> QED
    BY <2>1 DEF TakeChunk
<1>2. /\ UpdatesOf(queue) = UpdatesOf(chunk') \cup UpdatesOf(queue')
      /\ Apart(chunk', queue') /\ Once(chunk') /\ Once(queue')
      /\ chunk' \in Seq(T) /\ queue' \in Seq(T)
  <2>0. PICK xs : xs = SubSeq(queue, 1, n)
    OBVIOUS
  <2>1. PICK ys : ys = SubSeq(queue, n + 1, Len(queue))
    OBVIOUS
  <2>2. Once(queue)
    BY DEF Queued
  <2>3. /\ UpdatesOf(queue) = UpdatesOf(xs) \cup UpdatesOf(ys)
        /\ Apart(xs, ys) /\ Once(xs) /\ Once(ys)
        /\ xs \in Seq(T) /\ ys \in Seq(T)
    <3>1. xs \in Seq(T) /\ ys \in Seq(T)
      BY <2>0, <2>1
    <3>2. queue = xs \o ys
      BY <2>0, <2>1
    <3> QED
      BY ONLY <2>2, <3>1, <3>2, UpdatesOfCut
  <2> QED
    BY <1>1, <2>0, <2>1, <2>3
<1>3. UpdatesOf(chunk) = {} /\ UNCHANGED dropped
  BY UpdatesOfEmpty DEF TakeChunk
<1> QED
  BY <1>2, <1>3 DEF Queued, InQueues, Apart

LEMMA ReleaseWaits ==
  ASSUME NEW T, queue \in Seq(T), chunk \in Seq(T), dropped \in Seq(T), Queued, HeadThere, ReleaseStep,
         CaptureType
  PROVE  /\ queue' \in Seq(T) /\ chunk' \in Seq(T) /\ dropped' \in Seq(T) /\ Queued'
         /\ \/ \E ws \in Seq(T) : /\ Once(ws) /\ pendingBodies' = Released(ws) /\ UpdatesOf(ws) \subseteq InQueues
                                  /\ InQueues' = InQueues \ UpdatesOf(ws) /\ UNCHANGED stage
            \/ (\E f \in Flows : ImportRelease(f)) /\ InQueues' = InQueues
<1>1. CASE ReleaseDropped
  <2>1. PICK i \in DOMAIN dropped : pendingBodies' = Released(<<dropped[i]>>) /\ dropped' = Without(dropped, i)
    BY <1>1 DEF ReleaseDropped, Without
  <2>2. PICK w : w = dropped[i]
    OBVIOUS
  <2>3. /\ UpdatesOf(dropped) = UpdatesOf(<<w>>) \cup UpdatesOf(dropped')
        /\ Apart(<<w>>, dropped') /\ Once(dropped') /\ dropped' \in Seq(T) /\ w \in T
    BY <2>1, <2>2, UpdatesOfWithout DEF Queued
  <2>4. PICK ws : ws = <<w>>
    OBVIOUS
  <2>5. ws \in Seq(T) /\ Once(ws)
    <3>1. <<w>> \in Seq(T)
      BY <2>3
    <3>2. Once(<<w>>)
      BY UpdatesOfOne
    <3> QED
      BY <2>4, <3>1, <3>2
  <2>6. UNCHANGED <<queue, chunk, stage>> /\ pendingBodies' = Released(ws)
    BY <1>1, <2>1, <2>2, <2>4 DEF ReleaseDropped, captureVars
  <2>7. Queued' /\ UpdatesOf(ws) \subseteq InQueues /\ InQueues' = InQueues \ UpdatesOf(ws)
    BY <2>3, <2>4, <2>6 DEF Queued, InQueues, Apart
  <2> QED
    BY <2>3, <2>5, <2>6, <2>7
<1>2. CASE ReleaseChunk
  <2>1. chunk' = <<>> /\ UNCHANGED <<queue, dropped, stage>> /\ pendingBodies' = Released(chunk)
    BY <1>2 DEF ReleaseChunk, captureVars
  <2>2. UpdatesOf(chunk') = {} /\ Once(chunk')
    BY <2>1, UpdatesOfEmpty
  <2>3. <<>> \in Seq(T)
    OBVIOUS
  <2>4. Queued' /\ UpdatesOf(chunk) \subseteq InQueues /\ InQueues' = InQueues \ UpdatesOf(chunk)
    BY <2>1, <2>2 DEF Queued, InQueues, Apart
  <2> QED
    BY <2>1, <2>3, <2>4 DEF Queued
<1>3. CASE ReplayRelease
  <2>1. /\ UpdatesOf(chunk) = UpdatesOf(<<Head(chunk)>>) \cup UpdatesOf(Tail(chunk))
        /\ Apart(<<Head(chunk)>>, Tail(chunk)) /\ Once(Tail(chunk))
        /\ Head(chunk) \in T /\ Tail(chunk) \in Seq(T)
    BY <1>3, UpdatesOfHead DEF ReplayRelease, Queued, HeadThere
  <2>2. PICK ws : ws = <<Head(chunk)>>
    OBVIOUS
  <2>3. ws \in Seq(T) /\ Once(ws)
    <3>1. <<Head(chunk)>> \in Seq(T)
      BY <2>1
    <3>2. Once(<<Head(chunk)>>)
      BY UpdatesOfOne
    <3> QED
      BY <2>2, <3>1, <3>2
  <2>4. chunk' = Tail(chunk) /\ UNCHANGED <<queue, dropped, stage>> /\ pendingBodies' = Released(ws)
    BY <1>3, <2>2 DEF ReplayRelease, captureVars
  <2>5. Queued' /\ UpdatesOf(ws) \subseteq InQueues /\ InQueues' = InQueues \ UpdatesOf(ws)
    BY <2>1, <2>2, <2>4 DEF Queued, InQueues, Apart
  <2> QED
    BY <2>1, <2>3, <2>4, <2>5
<1>4. ASSUME NEW f \in Flows, ImportRelease(f)
      PROVE  UNCHANGED <<queue, chunk, dropped>>
  BY <1>4 DEF ImportRelease, queueVars
<1> QED
  BY <1>1, <1>2, <1>3, <1>4 DEF ReleaseStep, Queued, InQueues

\* A sequence over a set is one over a larger set.
LEMMA SeqOfMore ==
  ASSUME NEW S, NEW T, S \subseteq T, NEW ws \in Seq(S)
  PROVE  ws \in Seq(T)
OBVIOUS

\* A flow in the queues has been recorded, and that is the end of it.
LEMMA QueuedAreRecorded ==
  ASSUME Waiting
  PROVE  \A f \in InQueues : f \in Flows /\ stage[f] = "recorded" /\ f \notin Imported
<1>1. ASSUME NEW ws \in Seq(Told), NEW f \in UpdatesOf(ws)
      PROVE  f \in Flows /\ stage[f] = "recorded" /\ f \notin Imported
  <2>1. PICK i \in DOMAIN ws : ws[i].kind = "update" /\ ws[i].flow = f
    BY DEF UpdatesOf
  <2>2. ws[i] \in Told
    OBVIOUS
  <2> QED
    BY <2>1, <2>2 DEF Told, Writes
<1> QED
  BY <1>1 DEF Waiting, InQueues

\* Once a flow has been sent its original is settled, and once it is recorded its body.
Settled ==
  \A f \in Flows :
    /\ stage[f] = "recorded" => stage'[f] = "recorded" /\ body'[f] = body[f]
    /\ stage[f] \notin {"new", "held"} => stage'[f] \notin {"new", "held"} /\ original'[f] = original[f]

LEMMA RecordedStays ==
  ASSUME CaptureType, [Next]_vars
  PROVE  Settled
<1> USE DEF CaptureType
<1>1. ASSUME NEW f \in Flows, HoldEdited(f) \/ CaptureBody(f) \/ MissBody(f)
      PROVE  Settled
  BY <1>1 DEF HoldEdited, CaptureBody, MissBody, AwaitsBody, Settled
<1>2. ASSUME NEW f \in Flows, QueueInsert(f) \/ QueueUpdate(f) \/ ImportRelease(f) \/ ImportRow(f)
      PROVE  Settled
  BY <1>2 DEF QueueInsert, QueueUpdate, ImportRelease, ImportRow, Settled
<1>3. CASE UNCHANGED captureVars
  BY <1>3 DEF captureVars, Settled
<1>4. \/ \E f \in Flows : HoldEdited(f) \/ CaptureBody(f) \/ MissBody(f)
      \/ \E f \in Flows : QueueInsert(f) \/ QueueUpdate(f) \/ ImportRelease(f) \/ ImportRow(f)
      \/ UNCHANGED captureVars
  <2>1. QueueStep => UNCHANGED captureVars \/ \E f \in Flows : QueueInsert(f) \/ QueueUpdate(f)
    BY DEF QueueStep, TakeChunk, FailChunk
  <2>2. ReleaseStep => UNCHANGED captureVars \/ \E f \in Flows : ImportRelease(f)
    BY DEF ReleaseStep, ReleaseDropped, ReleaseChunk, ReplayRelease
  <2>3. WriteStep => UNCHANGED captureVars \/ \E f \in Flows : ImportRow(f)
    BY DEF WriteStep, CommitChunk, ReplayWrite, DeleteSynced, DeleteCommits
  <2> QED
    BY StepsOfStore, MergeFrame, UploadFrame, GCFrame, <2>1, <2>2, <2>3 DEF CaptureStep, vars
<1> QED
  BY <1>1, <1>2, <1>3, <1>4

LEMMA CarriedStep == TypeOK /\ Carried /\ [Next]_vars => Carried'
<1> SUFFICES ASSUME TypeOK, Carried, [Next]_vars PROVE Carried'
  OBVIOUS
<1> USE DEF TypeOK, CaptureType
<1>1. ASSUME NEW f \in Flows, CaptureBody(f) PROVE Carried'
  BY <1>1 DEF CaptureBody, AwaitsBody, Carried
<1>2. ASSUME NEW f \in Flows, MissBody(f) PROVE Carried'
  BY <1>2 DEF MissBody, AwaitsBody, Carried
<1>3. ASSUME NEW f \in Flows, QueueInsert(f) PROVE Carried'
  BY <1>3 DEF QueueInsert, Carried
<1>4. ASSUME NEW f \in Flows, QueueUpdate(f) \/ ImportRelease(f) \/ ImportRow(f) PROVE Carried'
  BY <1>4 DEF QueueUpdate, ImportRelease, ImportRow, Carried
<1>5. CASE UNCHANGED captureVars
  BY <1>5 DEF captureVars, Carried
<1>6. ASSUME NEW f \in Flows, HoldEdited(f) PROVE Carried'
  BY <1>6 DEF HoldEdited, Carried
<1>7. QueueStep => UNCHANGED captureVars \/ \E f \in Flows : QueueInsert(f) \/ QueueUpdate(f)
  BY DEF QueueStep, TakeChunk, FailChunk
<1>8. ReleaseStep => UNCHANGED captureVars \/ \E f \in Flows : ImportRelease(f)
  BY DEF ReleaseStep, ReleaseDropped, ReleaseChunk, ReplayRelease
<1>9. WriteStep => UNCHANGED captureVars \/ \E f \in Flows : ImportRow(f)
  BY DEF WriteStep, CommitChunk, ReplayWrite, DeleteSynced, DeleteCommits
<1> QED
  BY StepsOfStore, MergeFrame, UploadFrame, GCFrame, <1>1, <1>2, <1>3, <1>4, <1>5, <1>6, <1>7, <1>8, <1>9
     DEF CaptureStep, vars

\* A flow that has told the queue of its body does not take it back.
LEMMA ToldStays ==
  ASSUME CaptureType, [Next]_vars
  PROVE  Told \subseteq Told'
<1>1. \A w \in Writes : w.flow \in Flows
  BY DEF Writes
<1> QED
  BY RecordedStays, <1>1 DEF Told, Settled

\* What capture queues: an insert first, then the update, each as Told says.
LEMMA QueuedAsTold ==
  ASSUME TypeOK, Carried, NEW f \in Flows, QueueInsert(f) \/ QueueUpdate(f)
  PROVE  \E w \in Told' : /\ Enqueue(w) \/ (Discard(w) /\ f \in void)
                          /\ QueueInsert(f) => w.kind = "insert" /\ w.flow = f /\ Enqueue(w)
                          /\ QueueUpdate(f) => w.kind = "update" /\ w.flow = f
<1> USE DEF TypeOK, CaptureType
<1>1. \A h, g \in Optional : <<h, g>> \in Optional \X Optional
  OBVIOUS
<1>2. NoHash \in Optional /\ original[f] \in Optional /\ body[f] \in Optional
  BY DEF Optional
<1>3. CASE QueueInsert(f)
  <2>1. PICK w : w = [flow |-> f, kind |-> "insert", hashes |-> <<original[f], NoHash>>]
    OBVIOUS
  <2>2. w \in Writes /\ w.kind = "insert" /\ w.flow = f /\ w.hashes = <<original[f], NoHash>>
    BY <1>1, <1>2, <2>1 DEF Writes
  <2>3. Enqueue(w) /\ ~QueueUpdate(f) /\ f \notin Imported /\ original'[f] = original[f] /\ stage'[f] = "sent"
    BY <1>3, <2>1 DEF QueueInsert, QueueUpdate
  <2> QED
    BY <2>2, <2>3 DEF Told
<1>4. CASE QueueUpdate(f)
  <2>1. PICK w : w = [flow |-> f, kind |-> "update", hashes |-> <<original[f], body[f]>>]
    OBVIOUS
  <2>2. w \in Writes /\ w.kind = "update" /\ w.flow = f /\ w.hashes = <<original[f], body[f]>>
    BY <1>1, <1>2, <2>1 DEF Writes
  <2>3. (Enqueue(w) \/ (Discard(w) /\ f \in void)) /\ ~QueueInsert(f) /\ f \notin Imported /\ stage'[f] = "recorded"
        /\ original'[f] = original[f] /\ body'[f] = body[f]
    BY <1>4, <2>1 DEF QueueInsert, QueueUpdate
  <2> QED
    BY <2>2, <2>3 DEF Told
<1> QED
  BY <1>3, <1>4

\* Where the queues go in a step, and with them the flows that they name.
LEMMA WaitsAsTold ==
  ASSUME TypeOK, Waiting, [Next]_vars
  PROVE  queue \in Seq(Told') /\ chunk \in Seq(Told') /\ dropped \in Seq(Told') /\ Queued
<1>1. PICK T : T = Told'
  OBVIOUS
<1>2. Told \subseteq T
  BY <1>1, ToldStays DEF TypeOK
<1> QED
  BY <1>1, <1>2, SeqOfMore DEF Waiting

LEMMA WaitingAdds ==
  ASSUME TypeOK, CarryInv, [Next]_vars, NEW f \in Flows, QueueInsert(f) \/ QueueUpdate(f)
  PROVE  /\ Waiting'
         /\ QueueInsert(f) => InQueues' = InQueues
         /\ QueueUpdate(f) => InQueues' = InQueues \cup {f}
<1> USE DEF CarryInv
<1>1. PICK T : T = Told'
  OBVIOUS
<1>2. queue \in Seq(T) /\ chunk \in Seq(T) /\ dropped \in Seq(T) /\ Queued
  BY <1>1, WaitsAsTold
<1>3. PICK w \in T : /\ Enqueue(w) \/ Discard(w)
                     /\ QueueInsert(f) => w.kind = "insert"
                     /\ QueueUpdate(f) => w.kind = "update" /\ w.flow = f
  BY <1>1, QueuedAsTold
<1>4. QueueUpdate(f) => f \notin InQueues
  BY QueuedAreRecorded DEF QueueUpdate
<1>5. w.kind = "update" => w.flow \notin InQueues
  BY <1>3, <1>4
<1>6. /\ queue' \in Seq(T) /\ chunk' \in Seq(T) /\ dropped' \in Seq(T) /\ Queued'
      /\ InQueues' = InQueues \cup UpdatesOf(<<w>>) /\ UNCHANGED <<chunk, flusher>>
  BY ONLY <1>2, <1>3, <1>5, EnqueueWaits, DiscardWaits
<1>7. Waiting'
  BY <1>1, <1>6 DEF Waiting
<1> QED
  BY <1>3, <1>6, <1>7, UpdatesOfOne

LEMMA WaitingTakes ==
  ASSUME TypeOK, Waiting, [Next]_vars, TakeChunk
  PROVE  Waiting' /\ InQueues' = InQueues
<1>1. PICK T : T = Told'
  OBVIOUS
<1>2. queue \in Seq(T) /\ dropped \in Seq(T) /\ Queued
  BY <1>1, WaitsAsTold
<1>3. chunk = <<>>
  BY DEF TakeChunk, Waiting
<1>4. /\ queue' \in Seq(T) /\ chunk' \in Seq(T) /\ dropped' \in Seq(T) /\ Queued'
      /\ InQueues' = InQueues
  BY ONLY <1>2, TakeChunk, <1>3, TakeWaits
<1>5. flusher' # "idle"
  BY DEF TakeChunk
<1> QED
  BY <1>1, <1>4, <1>5 DEF Waiting

LEMMA WaitingReleases ==
  ASSUME TypeOK, HeadThere, Waiting, [Next]_vars, ReleaseStep
  PROVE  /\ Waiting'
         /\ \/ \E ws \in Seq(Told) : /\ Once(ws) /\ pendingBodies' = Released(ws) /\ UpdatesOf(ws) \subseteq InQueues
                                     /\ InQueues' = InQueues \ UpdatesOf(ws) /\ UNCHANGED stage
            \/ (\E f \in Flows : ImportRelease(f)) /\ InQueues' = InQueues
<1>1. PICK T : T = Told'
  OBVIOUS
<1>2. queue \in Seq(T) /\ chunk \in Seq(T) /\ dropped \in Seq(T) /\ Queued
  BY <1>1, WaitsAsTold
<1>3. /\ queue' \in Seq(T) /\ chunk' \in Seq(T) /\ dropped' \in Seq(T) /\ Queued'
  BY <1>2, ReleaseWaits DEF TypeOK
<1>4. \/ \E ws \in Seq(Told) : /\ Once(ws) /\ pendingBodies' = Released(ws) /\ UpdatesOf(ws) \subseteq InQueues
                               /\ InQueues' = InQueues \ UpdatesOf(ws) /\ UNCHANGED stage
      \/ (\E f \in Flows : ImportRelease(f)) /\ InQueues' = InQueues
  BY ReleaseWaits DEF TypeOK, Waiting
<1>5. flusher' = "idle" => chunk' = <<>>
  <2>1. CASE ReplayRelease
    <3>1. chunk \in Seq(Writes) /\ chunk # <<>>
      BY <2>1 DEF TypeOK, QueueType, HeadThere, ReplayRelease
    <3>2. Tail(chunk) \in Seq(Writes) /\ Len(Tail(chunk)) = Len(chunk) - 1
      BY <3>1, HeadTailProperties
    <3>3. Len(chunk) = 1 => Len(Tail(chunk)) = 0
      BY <3>2
    <3>4. Len(chunk) = 1 => Tail(chunk) = <<>>
      BY <3>2, <3>3, EmptySeq
    <3> QED
      BY <2>1, <3>4 DEF ReplayRelease
  <2> QED
    BY <2>1 DEF ReleaseStep, ReleaseDropped, ReleaseChunk, ImportRelease, queueVars, Waiting
<1> QED
  BY <1>1, <1>3, <1>4, <1>5 DEF Waiting

\* Any other step leaves the queues alone.
LEMMA WaitingStays ==
  ASSUME TypeOK, Waiting, [Next]_vars, ~ReleaseStep, ~TakeChunk,
         \A f \in Flows : ~QueueInsert(f) /\ ~QueueUpdate(f)
  PROVE  Waiting' /\ InQueues' = InQueues
<1>1. PICK T : T = Told'
  OBVIOUS
<1>2. queue \in Seq(T) /\ chunk \in Seq(T) /\ dropped \in Seq(T) /\ Queued
  BY <1>1, WaitsAsTold
<1>3. UNCHANGED <<queue, chunk, dropped>> /\ (flusher' = "idle" => flusher = "idle")
  <2>1. CASE WriteStep \/ FailChunk
    BY <2>1 DEF WriteStep, CommitChunk, ReplayWrite, ImportRow, DeleteSynced, DeleteCommits, FailChunk,
       queueVars
  <2> QED
    BY StepsOfStore, CaptureFrame, MergeFrame, UploadFrame, GCFrame, <2>1 DEF QueueStep, queueVars, vars
<1>4. queue' \in Seq(T) /\ chunk' \in Seq(T) /\ dropped' \in Seq(T)
  BY <1>2, <1>3
<1>5. Queued' /\ InQueues' = InQueues
  BY <1>2, <1>3 DEF Queued, InQueues
<1> QED
  BY <1>1, <1>3, <1>4, <1>5 DEF Waiting

LEMMA CarryStep == TypeOK /\ HeadThere /\ CarryInv /\ [Next]_vars => CarryInv'
BY CarriedStep, WaitingAdds, WaitingTakes, WaitingReleases, WaitingStays DEF CarryInv

\* A capture makes its flow an owner of the content it stored.
LEMMA CaptureBalances ==
  ASSUME TypeOK, CarryInv, Balanced, NEW f \in Flows, CaptureBody(f)
  PROVE  Balanced'
<1> USE DEF TypeOK, BodyType, CaptureType
<1>1. PICK h \in Captured : Finalize(h) /\ body' = [body EXCEPT ![f] = h]
  BY DEF CaptureBody
<1>2. h \in Hashes /\ NoHash \notin Hashes
  BY ShapeAssumption DEF ShapeAssumption
<1>3. stage' = [stage EXCEPT ![f] = "answered"] /\ UNCHANGED <<queue, chunk, dropped>>
  BY DEF CaptureBody, queueVars
<1>4. InQueues' = InQueues
  BY <1>3 DEF InQueues
<1>5. stage[f] \in {"new", "sent"} /\ body[f] = NoHash
  BY DEF CaptureBody, AwaitsBody, CarryInv, Carried
<1>6. f \notin InQueues
  BY <1>5, QueuedAreRecorded DEF CarryInv
<1> SUFFICES ASSUME NEW g \in Hashes, Clear(g)
             PROVE  IsFiniteSet(Owners(g)') /\ pendingBodies'[g] = Cardinality(Owners(g)')
  BY DEF Balanced, Clear, CaptureBody
<1>7. f \notin Owners(g)
  BY <1>2, <1>5 DEF Owners
<1>8. IsFiniteSet(Owners(g)) /\ pendingBodies[g] = Cardinality(Owners(g)) /\ Cardinality(Owners(g)) \in Nat
  BY FS_CardinalityType DEF Balanced
<1>9. CASE g = h
  <2>1. Owners(g)' = Owners(g) \cup {f}
    BY <1>1, <1>3, <1>4, <1>9 DEF Owners
  <2>2. pendingBodies'[g] = pendingBodies[g] + 1
    BY <1>1, <1>9 DEF Finalize
  <2> QED
    BY <1>7, <1>8, <2>1, <2>2, FS_AddElement
<1>10. CASE g # h
  <2>1. Owners(g)' = Owners(g)
    BY <1>1, <1>3, <1>4, <1>7, <1>10 DEF Owners
  <2>2. pendingBodies'[g] = pendingBodies[g]
    BY <1>1, <1>10 DEF Finalize
  <2> QED
    BY <1>8, <2>1, <2>2
<1> QED
  BY <1>9, <1>10

\* Writes that are released take their flows' ownership with them, once each.
LEMMA WritesBalance ==
  ASSUME TypeOK, CarryInv, Balanced, UNCHANGED <<original, body, stage>>,
         NEW ws \in Seq(Told), Once(ws), pendingBodies' = Released(ws),
         UpdatesOf(ws) \subseteq InQueues, InQueues' = InQueues \ UpdatesOf(ws)
  PROVE  Balanced'
<1> SUFFICES ASSUME NEW h \in Hashes, Clear(h)
             PROVE  IsFiniteSet(Owners(h)') /\ pendingBodies'[h] = Cardinality(Owners(h)')
  BY DEF Balanced, Clear
<1>1. PICK S : S = {f \in UpdatesOf(ws) : body[f] = h}
  OBVIOUS
<1>2. IsFiniteSet(S) /\ Mentions(h, ws) = Cardinality(S)
  BY <1>1, MentionsOfUpdates DEF CarryInv
<1>3. \A f \in UpdatesOf(ws) : f \in Flows /\ stage[f] = "recorded"
  BY QueuedAreRecorded DEF CarryInv
<1>4. S \subseteq Owners(h)
  BY <1>1, <1>3 DEF Owners
<1>5. Owners(h)' = Owners(h) \ S
  BY <1>1, <1>3 DEF Owners
<1>6. IsFiniteSet(Owners(h)) /\ pendingBodies[h] = Cardinality(Owners(h)) /\ Cardinality(Owners(h)) \in Nat
  BY FS_CardinalityType DEF Balanced
<1>7. Cardinality(S) \in Nat /\ Cardinality(S) <= Cardinality(Owners(h))
  BY <1>2, <1>4, <1>6, FS_Subset, FS_CardinalityType
<1>8. IsFiniteSet(Owners(h) \ S) /\ Cardinality(Owners(h) \ S) = Cardinality(Owners(h)) - Cardinality(Owners(h) \cap S)
  BY <1>6, FS_Difference
<1>9. Owners(h) \cap S = S
  BY <1>4
<1>10. pendingBodies'[h] = pendingBodies[h] - Mentions(h, ws)
  <2>1. IsFiniteSet(DOMAIN ws)
    BY DomainFinite
  <2> QED
    BY <1>2, <1>6, <1>7, <2>1, ReleasedValue DEF TypeOK, BodyType
<1> QED
  BY <1>2, <1>5, <1>6, <1>8, <1>9, <1>10

\* What an importer hands back is the one body of its flow.
LEMMA MentionsOfBody ==
  ASSUME NEW h \in Hashes, NEW g
  PROVE  Mentions(h, <<[hashes |-> <<NoHash, g>>]>>) = IF g = h THEN 1 ELSE 0
<1> DEFINE ws == <<[hashes |-> <<NoHash, g>>]>>
           A  == {p \in (DOMAIN ws) \X (1..2) : ws[p[1]].hashes[p[2]] = h}
<1>1. h # NoHash
  BY ShapeAssumption DEF ShapeAssumption
<1>2. DOMAIN ws = {1} /\ ws[1].hashes = <<NoHash, g>>
  OBVIOUS
<1> HIDE DEF ws
<1>3. \A p \in {1} \X (1..2) : p = <<1, 1>> \/ p = <<1, 2>>
  OBVIOUS
<1>4. <<1, 2>> \in {1} \X (1..2)
  OBVIOUS
<1>5. CASE g = h
  <2>1. A = {<<1, 2>>}
    BY <1>1, <1>2, <1>3, <1>4, <1>5
  <2> QED
    BY <1>5, <2>1, FS_Singleton DEF ws, Mentions
<1>6. CASE g # h
  <2>1. A = {}
    BY <1>1, <1>2, <1>3, <1>6
  <2> QED
    BY <1>6, <2>1, FS_EmptySet DEF ws, Mentions
<1> QED
  BY <1>5, <1>6

\* An imported flow releases the one ownership it took.
LEMMA ImportBalances ==
  ASSUME TypeOK, CarryInv, Balanced, InQueues' = InQueues, NEW f \in Flows, ImportRelease(f)
  PROVE  Balanced'
<1> USE DEF TypeOK, BodyType, CaptureType
<1>1. PICK ws : ws = <<[hashes |-> <<NoHash, body[f]>>]>>
  OBVIOUS
<1>2. pendingBodies' = Released(ws) /\ stage' = [stage EXCEPT ![f] = "recorded"] /\ UNCHANGED body
      /\ stage[f] \in {"answered", "inserted"} /\ f \in Imported
  BY <1>1 DEF ImportRelease
<1>3. f \notin InQueues
  BY <1>2, QueuedAreRecorded DEF CarryInv
<1> SUFFICES ASSUME NEW h \in Hashes, Clear(h)
             PROVE  IsFiniteSet(Owners(h)') /\ pendingBodies'[h] = Cardinality(Owners(h)')
  BY DEF Balanced, Clear, ImportRelease
<1>4. Mentions(h, ws) = IF body[f] = h THEN 1 ELSE 0
  BY <1>1, MentionsOfBody
<1>5. IsFiniteSet(DOMAIN ws)
  <2>1. ws \in Seq({[hashes |-> <<NoHash, body[f]>>]})
    BY <1>1
  <2> QED
    BY <2>1, DomainFinite
<1>6. IsFiniteSet(Owners(h)) /\ pendingBodies[h] = Cardinality(Owners(h)) /\ Cardinality(Owners(h)) \in Nat
  BY FS_CardinalityType DEF Balanced
<1>7. CASE body[f] = h
  <2>1. f \in Owners(h)
    BY <1>2, <1>7 DEF Owners
  <2>2. Owners(h)' = Owners(h) \ {f}
    BY <1>2, <1>3, <1>7 DEF Owners
  <2>3. IsFiniteSet(Owners(h) \ {f}) /\ Cardinality(Owners(h) \ {f}) = Cardinality(Owners(h)) - 1
    BY <1>6, <2>1, FS_RemoveElement
  <2>4. Cardinality(Owners(h) \ {f}) \in Nat
    BY <2>3, FS_CardinalityType
  <2>5. Mentions(h, ws) <= pendingBodies[h]
    BY <1>4, <1>6, <1>7, <2>3, <2>4
  <2>6. pendingBodies'[h] = pendingBodies[h] - Mentions(h, ws)
    BY <1>2, <1>5, <2>5, ReleasedValue
  <2> QED
    BY <1>4, <1>6, <1>7, <2>2, <2>3, <2>6
<1>8. CASE body[f] # h
  <2>1. Owners(h)' = Owners(h)
    BY <1>2, <1>3, <1>8 DEF Owners
  <2>2. Mentions(h, ws) = 0 /\ Mentions(h, ws) <= pendingBodies[h]
    BY <1>4, <1>6, <1>8
  <2>3. pendingBodies'[h] = pendingBodies[h]
    BY <1>2, <1>5, <1>6, <2>2, ReleasedValue
  <2> QED
    BY <1>6, <2>1, <2>3
<1> QED
  BY <1>7, <1>8

\* The other steps of a flow change neither what it owns nor who is counted.
LEMMA OthersBalance ==
  ASSUME TypeOK, MergeTakesNothing, CarryInv, Balanced, [Next]_vars, ~ReleaseStep,
         \A f \in Flows : ~CaptureBody(f) /\ ~HoldEdited(f)
  PROVE  Balanced'
<1> USE DEF TypeOK, BodyType, CaptureType
<1>0. UNCHANGED original
  BY StepsOfStore, QueueFrame, WriteFrame, MergeFrame, UploadFrame, GCFrame
     DEF CaptureStep, MissBody, captureVars, vars
<1>1. ASSUME UNCHANGED pendingBodies, \A h \in Hashes : Owners(h)' = Owners(h) PROVE Balanced'
  BY <1>1, <1>0 DEF Balanced, Clear
<1>2. \A h \in Hashes : h # NoHash
  BY ShapeAssumption DEF ShapeAssumption
<1>4. ASSUME NEW f \in Flows, QueueInsert(f) \/ QueueUpdate(f) PROVE Balanced'
  <2>1. UNCHANGED <<pendingBodies, body>>
    BY <1>4 DEF QueueInsert, QueueUpdate, bodyVars
  <2>2. CASE QueueInsert(f)
    <3>1. InQueues' = InQueues /\ stage' = [stage EXCEPT ![f] = "sent"] /\ stage[f] \in {"new", "held"}
      BY <2>2, WaitingAdds DEF QueueInsert
    <3> QED
      BY <1>1, <2>1, <3>1 DEF Owners
  <2>3. CASE QueueUpdate(f)
    <3>1. InQueues' = InQueues \cup {f} /\ stage' = [stage EXCEPT ![f] = "recorded"] /\ stage[f] = "answered"
      BY <2>3, WaitingAdds DEF QueueUpdate
    <3> QED
      BY <1>1, <2>1, <3>1 DEF Owners
  <2> QED
    BY <1>4, <2>2, <2>3
<1>5. CASE TakeChunk
  <2>1. InQueues' = InQueues /\ UNCHANGED <<pendingBodies, body, stage>>
    BY <1>5, WaitingTakes DEF CarryInv, TakeChunk, bodyVars, captureVars
  <2> QED
    BY <1>1, <2>1 DEF Owners
<1>6. CASE ~TakeChunk /\ \A f \in Flows : ~QueueInsert(f) /\ ~QueueUpdate(f)
  <2>1. InQueues' = InQueues
    BY <1>6, WaitingStays DEF CarryInv
  <2>2. CASE UNCHANGED <<pendingBodies, body, stage>>
    BY <1>1, <2>1, <2>2 DEF Owners
  <2>3. ASSUME NEW f \in Flows, MissBody(f) PROVE Balanced'
    <3>1. stage' = [stage EXCEPT ![f] = "answered"] /\ UNCHANGED <<pendingBodies, body>> /\ body[f] = NoHash
      BY <2>3 DEF MissBody, AwaitsBody, bodyVars, CarryInv, Carried
    <3> QED
      BY <1>1, <1>2, <2>1, <3>1 DEF Owners
  <2>4. ASSUME NEW f \in Flows, ImportRow(f) PROVE Balanced'
    <3>1. stage' = [stage EXCEPT ![f] = "inserted"] /\ UNCHANGED <<pendingBodies, body>> /\ stage[f] = "answered"
      BY <2>4 DEF ImportRow, bodyVars
    <3> QED
      BY <1>1, <2>1, <3>1 DEF Owners
  <2>5. ASSUME NEW m \in Merges, MergePublishes(m) PROVE Balanced'
    <3>1. UNCHANGED <<body, stage>>
      BY <2>5 DEF MergePublishes, captureVars
    <3>2. \A h \in PeerBodies[m] : pendingBodies[h] = 0
      BY <2>5 DEF MergePublishes, MergeTakesNothing
    <3>3. pendingBodies' = [h \in Hashes |-> pendingBodies[h]]
      BY <2>5, <3>2 DEF MergePublishes
    <3>4. UNCHANGED pendingBodies
      BY <3>3
    <3> QED
      BY <2>2, <3>1, <3>4
  <2>6. CASE MergeStep
    BY <2>2, <2>5, <2>6 DEF MergeStep, MergeStages, MergeProtects, MergeRenames, MergeChecks, MergeInserts,
       MergeReleases, bodyVars, captureVars
  <2>7. CASE CaptureStep
    BY <2>3, <2>7 DEF CaptureStep
  <2>8. CASE WriteStep
    <3>1. UNCHANGED captureVars \/ \E f \in Flows : ImportRow(f)
      BY <2>8 DEF WriteStep, CommitChunk, ReplayWrite, DeleteSynced, DeleteCommits
    <3> QED
      BY <2>2, <2>4, <2>8, <3>1, WriteFrame DEF captureVars, bodyVars
  <2>9. CASE FailChunk \/ UploadStep \/ GCStep \/ UNCHANGED vars
    BY <2>2, <2>9, UploadFrame, GCFrame DEF FailChunk, vars, bodyVars, captureVars
  <2> QED
    BY <1>6, <2>6, <2>7, <2>8, <2>9, StepsOfStore DEF QueueStep
<1> QED
  BY <1>4, <1>5, <1>6

\* An original body is owned by its flow, and counted apart from then on.
LEMMA HoldBalances ==
  ASSUME TypeOK, CarryInv, Balanced, NEW f \in Flows, HoldEdited(f)
  PROVE  Balanced'
<1> USE DEF TypeOK, BodyType, CaptureType
<1>1. PICK h \in Captured : Finalize(h) /\ original' = [original EXCEPT ![f] = h]
  BY DEF HoldEdited
<1>2. h \in Hashes /\ NoHash \notin Hashes
  BY ShapeAssumption DEF ShapeAssumption
<1>3. stage[f] = "new" /\ original[f] = NoHash /\ body[f] = NoHash /\ f \in Edited
  BY DEF HoldEdited, CarryInv, Carried
<1>4. stage' = [stage EXCEPT ![f] = "held"] /\ UNCHANGED <<body, queue, chunk, dropped>>
  BY DEF HoldEdited, queueVars
<1> SUFFICES ASSUME NEW g \in Hashes, Clear(g)'
             PROVE  IsFiniteSet(Owners(g)') /\ pendingBodies'[g] = Cardinality(Owners(g)')
  BY DEF Balanced
<1>5. g # h
  BY <1>1, <1>3 DEF Clear
<1>6. Clear(g)
  BY <1>1, <1>2, <1>3 DEF Clear
<1>7. Owners(g)' = Owners(g)
  BY <1>2, <1>3, <1>4 DEF Owners, InQueues
<1>8. pendingBodies'[g] = pendingBodies[g]
  BY <1>1, <1>5 DEF Finalize
<1> QED
  BY <1>6, <1>7, <1>8 DEF Balanced

LEMMA BalancedStep == BaseInv /\ MergeTakesNothing /\ BalanceInv /\ [Next]_vars => Balanced'
<1> SUFFICES ASSUME BaseInv, MergeTakesNothing, BalanceInv, [Next]_vars PROVE Balanced'
  OBVIOUS
<1> USE DEF BaseInv, BalanceInv
<1>1. CASE ReleaseStep
  <2>1. UNCHANGED <<original, body>>
    BY <1>1, ReleaseFrame
  <2>2. \/ \E ws \in Seq(Told) : /\ Once(ws) /\ pendingBodies' = Released(ws) /\ UpdatesOf(ws) \subseteq InQueues
                                 /\ InQueues' = InQueues \ UpdatesOf(ws) /\ UNCHANGED stage
        \/ (\E f \in Flows : ImportRelease(f)) /\ InQueues' = InQueues
    BY <1>1, WaitingReleases DEF CarryInv
  <2> QED
    BY <2>1, <2>2, WritesBalance, ImportBalances
<1> QED
  BY <1>1, CaptureBalances, HoldBalances, OthersBalance

LEMMA BalanceInit == Init => BalanceInv
<1> SUFFICES ASSUME Init PROVE BalanceInv
  OBVIOUS
<1>1. Carried
  BY DEF Init, Carried
<1>2. <<>> \in Seq(Told)
  OBVIOUS
<1>3. Waiting /\ InQueues = {}
  BY <1>2, UpdatesOfEmpty DEF Init, Waiting, Queued, Apart, InQueues
<1>4. \A h \in Hashes : Owners(h) = {} /\ pendingBodies[h] = 0
  BY ShapeAssumption DEF Init, Owners, ShapeAssumption
<1>5. Balanced
  BY <1>4, FS_EmptySet DEF Balanced
<1> QED
  BY <1>1, <1>3, <1>5 DEF BalanceInv, CarryInv

LEMMA BalanceStep == BaseInv /\ MergeTakesNothing /\ BalanceInv /\ [Next]_vars => BalanceInv'
BY BalancedStep, CarryStep DEF BalanceInv, BaseInv

\* When no merge brings what capture stores, nothing is owned in pendingBodies that a
\* merge could take.
Foreign == \A m \in Merges : PeerBodies[m] \cap Captured = {}

LEMMA ForeignTakesNothing ==
  ASSUME Foreign, BalanceInv
  PROVE  MergeTakesNothing
<1>1. \A m \in Merges : \A h \in PeerBodies[m] : h \in Hashes /\ h \notin Captured /\ h # NoHash
  BY ShapeAssumption DEF Foreign, ShapeAssumption
<1>2. \A m \in Merges : \A h \in PeerBodies[m] : Clear(h) /\ Owners(h) = {}
  BY <1>1, ShapeAssumption DEF Clear, Owners, BalanceInv, CarryInv, Carried, ShapeAssumption
<1> QED
  BY <1>1, <1>2, FS_EmptySet DEF MergeTakesNothing, BalanceInv, Balanced

LEMMA ForeignNeverTakes ==
  ASSUME Foreign
  PROVE  Spec => []MergeTakesNothing
<1>1. BaseInv /\ BalanceInv /\ [Next]_vars => BalanceInv'
  BY BalanceStep, ForeignTakesNothing
<1>2. BalanceInv => MergeTakesNothing
  BY ForeignTakesNothing
<1> QED
  BY BaseInit, BaseStep, BalanceInit, <1>1, <1>2, PTL DEF Spec

\* When no request is edited, and as long as no merge takes an ownership that is not
\* its own, every hash is owned exactly once for each body that is still on its way
\* into a row: no release strips another flow of its file, none is forgotten.
THEOREM OwnersAreCounted ==
  ASSUME Edited = {}
  PROVE  Spec /\ []MergeTakesNothing => []OwnershipBalanced
<1>1. BalanceInv => OwnershipBalanced
  BY OwnersAreOutstanding DEF BalanceInv, Balanced, Clear, OwnershipBalanced
<1>2. Init => BalanceInv
  BY BalanceInit
<1>3. BaseInv /\ MergeTakesNothing /\ BalanceInv /\ [Next]_vars => BalanceInv'
  BY BalanceStep
<1> QED
  BY BaseInit, BaseStep, <1>1, <1>2, <1>3, PTL DEF Spec

\* In particular when merges bring other contents than capture does.
THEOREM ForeignAreCounted ==
  ASSUME Edited = {}, Foreign
  PROVE  Spec => []OwnershipBalanced
<1>1. Spec => []MergeTakesNothing
  BY ForeignNeverTakes
<1>2. Spec /\ []MergeTakesNothing => []OwnershipBalanced
  BY OwnersAreCounted
<1> QED
  BY <1>1, <1>2, PTL

--------------------------------------------------------------------------------
(* The writes of an edited request, in their order *)

\* The flows whose insert is in a queue of writes, a queue in which a flow's insert
\* comes before its update, and a queue whose writes come before those of another.
Kinded(T) == \A v \in T : v.kind \in {"insert", "update"}
InsertsOf(ws) == {ws[i].flow : i \in {k \in DOMAIN ws : ws[k].kind = "insert"}}
InOrder(ws) ==
  \A i, j \in DOMAIN ws : i < j /\ ws[i].flow = ws[j].flow => ws[i].kind = "insert" /\ ws[j].kind = "update"
Follows(xs, ys) ==
  InsertsOf(xs) \cap InsertsOf(ys) = {} /\ UpdatesOf(xs) \cap (InsertsOf(ys) \cup UpdatesOf(ys)) = {}

LEMMA InsertsOfEmpty == InsertsOf(<<>>) = {} /\ InOrder(<<>>)
BY DEF InsertsOf, InOrder

LEMMA InsertsOfOne ==
  ASSUME NEW w
  PROVE  /\ InsertsOf(<<w>>) = (IF w.kind = "insert" THEN {w.flow} ELSE {})
         /\ InOrder(<<w>>)
<1>1. DOMAIN <<w>> = {1} /\ <<w>>[1] = w
  OBVIOUS
<1> QED
  BY <1>1 DEF InsertsOf, InOrder

LEMMA InsertsOfAppend ==
  ASSUME NEW T, NEW ws \in Seq(T), NEW w \in T, w.kind \in {"insert", "update"}, InOrder(ws),
         Kinded(T),
         w.flow \notin UpdatesOf(ws), w.kind = "insert" => w.flow \notin InsertsOf(ws)
  PROVE  /\ InsertsOf(Append(ws, w)) = InsertsOf(ws) \cup InsertsOf(<<w>>)
         /\ UpdatesOf(Append(ws, w)) = UpdatesOf(ws) \cup UpdatesOf(<<w>>)
         /\ InOrder(Append(ws, w))
<1> DEFINE xs == Append(ws, w)
           n  == Len(ws)
<1>1. DOMAIN xs = (DOMAIN ws) \cup {n + 1} /\ n + 1 \notin DOMAIN ws
      /\ xs[n + 1] = w /\ \A i \in DOMAIN ws : xs[i] = ws[i]
  OBVIOUS
<1>0. ~(n + 1 < n + 1) /\ \A i \in DOMAIN ws : ~(n + 1 < i)
  OBVIOUS
<1>2. \A i \in DOMAIN ws : ws[i].kind \in {"insert", "update"}
  BY DEF Kinded
<1> HIDE DEF xs, n
<1>3. InsertsOf(xs) = InsertsOf(ws) \cup InsertsOf(<<w>>)
  <2>1. InsertsOf(xs) = InsertsOf(ws) \cup (IF w.kind = "insert" THEN {w.flow} ELSE {})
    BY <1>1 DEF InsertsOf
  <2> QED
    BY <2>1, InsertsOfOne
<1>4. UpdatesOf(xs) = UpdatesOf(ws) \cup UpdatesOf(<<w>>)
  <2>1. UpdatesOf(xs) = UpdatesOf(ws) \cup (IF w.kind = "update" THEN {w.flow} ELSE {})
    BY <1>1 DEF UpdatesOf
  <2> QED
    BY <2>1, UpdatesOfOne
<1>5. \A i \in DOMAIN ws : ws[i].flow = w.flow => ws[i].kind = "insert" /\ w.kind = "update"
  BY <1>2 DEF UpdatesOf, InsertsOf
<1>6. InOrder(xs)
  BY <1>0, <1>1, <1>5 DEF InOrder
<1> QED
  BY <1>3, <1>4, <1>6 DEF xs

LEMMA InsertsOfCut ==
  ASSUME NEW T, NEW xs \in Seq(T), NEW ys \in Seq(T), NEW ws, ws = xs \o ys, InOrder(ws)
  PROVE  /\ InsertsOf(ws) = InsertsOf(xs) \cup InsertsOf(ys)
         /\ UpdatesOf(ws) = UpdatesOf(xs) \cup UpdatesOf(ys)
         /\ Follows(xs, ys) /\ InOrder(xs) /\ InOrder(ys)
<1> DEFINE n == Len(xs)
<1>1. n \in Nat /\ Len(ys) \in Nat /\ DOMAIN xs = 1..n /\ DOMAIN ys = 1..Len(ys) /\ DOMAIN ws = 1..(n + Len(ys))
  OBVIOUS
<1>2. \A i \in 1..n : ws[i] = xs[i]
  OBVIOUS
<1>3. \A i \in 1..Len(ys) : ws[i + n] = ys[i]
  OBVIOUS
<1> HIDE DEF n
<1>4. \A i \in DOMAIN ws : i \in DOMAIN xs \/ (i - n \in DOMAIN ys /\ ys[i - n] = ws[i])
  <2> SUFFICES ASSUME NEW i \in 1..(n + Len(ys)), i \notin 1..n
               PROVE  i - n \in 1..Len(ys) /\ ys[i - n] = ws[i]
    BY <1>1
  <2>1. i - n \in 1..Len(ys) /\ (i - n) + n = i
    BY <1>1
  <2> QED
    BY <1>3, <2>1
<1>5. \A i \in DOMAIN xs : i \in DOMAIN ws /\ xs[i] = ws[i]
  BY <1>1, <1>2
<1>6. \A i \in DOMAIN ys : i + n \in DOMAIN ws /\ ys[i] = ws[i + n]
  <2> SUFFICES ASSUME NEW i \in 1..Len(ys)
               PROVE  i + n \in 1..(n + Len(ys)) /\ ys[i] = ws[i + n]
    BY <1>1
  <2> QED
    BY <1>1, <1>3
<1>7. \A i \in DOMAIN xs, j \in DOMAIN ys : i < j + n
  BY <1>1
<1>8. InsertsOf(ws) = InsertsOf(xs) \cup InsertsOf(ys) /\ UpdatesOf(ws) = UpdatesOf(xs) \cup UpdatesOf(ys)
  BY ONLY <1>4, <1>5, <1>6 DEF UpdatesOf, InsertsOf
<1>9. Follows(xs, ys)
  <2>1. \A i \in DOMAIN xs, j \in DOMAIN ys : xs[i].flow = ys[j].flow => xs[i].kind = "insert" /\ ys[j].kind = "update"
    BY ONLY <1>5, <1>6, <1>7, InOrder(ws) DEF InOrder
  <2> QED
    BY ONLY <2>1 DEF Follows, InsertsOf, UpdatesOf
<1>10. InOrder(xs)
  BY ONLY <1>5, InOrder(ws) DEF InOrder
<1>11. InOrder(ys)
  <2>1. \A i, j \in DOMAIN ys : i < j => i + n < j + n
    BY <1>1
  <2> QED
    BY ONLY <1>6, <2>1, InOrder(ws) DEF InOrder
<1> QED
  BY <1>8, <1>9, <1>10, <1>11

LEMMA InsertsOfHead ==
  ASSUME NEW T, NEW ws \in Seq(T), ws # <<>>, InOrder(ws)
  PROVE  /\ InsertsOf(ws) = InsertsOf(<<Head(ws)>>) \cup InsertsOf(Tail(ws))
         /\ UpdatesOf(ws) = UpdatesOf(<<Head(ws)>>) \cup UpdatesOf(Tail(ws))
         /\ Follows(<<Head(ws)>>, Tail(ws)) /\ InOrder(Tail(ws))
         /\ Head(ws) \in T /\ Tail(ws) \in Seq(T)
<1>1. Head(ws) \in T /\ Tail(ws) \in Seq(T)
  OBVIOUS
<1>2. <<Head(ws)>> \in Seq(T)
  BY <1>1
<1>3. ws = <<Head(ws)>> \o Tail(ws)
  OBVIOUS
<1> QED
  BY <1>1, <1>2, <1>3, InsertsOfCut

LEMMA InsertsOfWithout ==
  ASSUME NEW T, NEW ws \in Seq(T), NEW i \in DOMAIN ws, InOrder(ws)
  PROVE  /\ InsertsOf(ws) = InsertsOf(<<ws[i]>>) \cup InsertsOf(Without(ws, i))
         /\ UpdatesOf(ws) = UpdatesOf(<<ws[i]>>) \cup UpdatesOf(Without(ws, i))
         /\ InsertsOf(<<ws[i]>>) \cap InsertsOf(Without(ws, i)) = {}
         /\ UpdatesOf(<<ws[i]>>) \cap UpdatesOf(Without(ws, i)) = {}
         /\ InOrder(Without(ws, i)) /\ ws[i] \in T /\ Without(ws, i) \in Seq(T)
<1> DEFINE xs == Without(ws, i)
           at(k) == Shift(k, i)
<1>1. /\ xs \in Seq(T)
      /\ \A k \in DOMAIN xs : at(k) \in (DOMAIN ws) \ {i} /\ xs[k] = ws[at(k)]
      /\ \A j \in (DOMAIN ws) \ {i} : \E k \in DOMAIN xs : at(k) = j
      /\ \A k, l \in DOMAIN xs : k < l => at(k) < at(l)
  BY WithoutOne
<1>2. ws[i] \in T /\ \A j \in DOMAIN ws : j = i \/ i < j \/ j < i
  OBVIOUS
<1> HIDE DEF xs, at
<1>3. /\ InsertsOf(<<ws[i]>>) = (IF ws[i].kind = "insert" THEN {ws[i].flow} ELSE {})
      /\ UpdatesOf(<<ws[i]>>) = (IF ws[i].kind = "update" THEN {ws[i].flow} ELSE {})
  BY InsertsOfOne, UpdatesOfOne
<1>4. \A j \in DOMAIN ws : j = i \/ \E k \in DOMAIN xs : xs[k] = ws[j]
  BY <1>1
<1>5. \A k \in DOMAIN xs : \E j \in (DOMAIN ws) \ {i} : xs[k] = ws[j]
  BY <1>1
<1>6. /\ InsertsOf(ws) = InsertsOf(<<ws[i]>>) \cup InsertsOf(xs)
      /\ UpdatesOf(ws) = UpdatesOf(<<ws[i]>>) \cup UpdatesOf(xs)
  BY <1>3, <1>4, <1>5 DEF InsertsOf, UpdatesOf
<1>7. \A j \in (DOMAIN ws) \ {i} : ws[j].flow = ws[i].flow => ws[j].kind # ws[i].kind
  BY <1>2 DEF InOrder
<1>8. /\ InsertsOf(<<ws[i]>>) \cap InsertsOf(xs) = {}
      /\ UpdatesOf(<<ws[i]>>) \cap UpdatesOf(xs) = {}
  BY <1>3, <1>5, <1>7 DEF InsertsOf, UpdatesOf
<1>9. InOrder(xs)
  BY <1>1 DEF InOrder
<1> QED
  BY <1>1, <1>2, <1>6, <1>8, <1>9 DEF xs

\* Nothing overtakes anything: the flusher's chunk and the dropped writes are older
\* than the queue, and no write is in two places.
InTurn ==
  /\ InOrder(queue) /\ InOrder(chunk) /\ InOrder(dropped)
  /\ Follows(chunk, queue) /\ Follows(dropped, queue)
  /\ InsertsOf(chunk) \cap InsertsOf(dropped) = {} /\ UpdatesOf(chunk) \cap UpdatesOf(dropped) = {}
Early == InsertsOf(queue) \cup InsertsOf(chunk)
InsertsIn == Early \cup InsertsOf(dropped)

\* The flows whose writes are in a queue are beyond the stages that precede them.
LEMMA WritesAreOf ==
  ASSUME NEW ws \in Seq(Told)
  PROVE  /\ \A f \in InsertsOf(ws) : f \in Flows /\ stage[f] \notin {"new", "held"} /\ f \notin Imported
         /\ \A f \in UpdatesOf(ws) : f \in Flows /\ stage[f] = "recorded" /\ f \notin Imported
<1>1. \A i \in DOMAIN ws : ws[i] \in Told
  OBVIOUS
<1> QED
  BY <1>1 DEF InsertsOf, UpdatesOf, Told, Writes

LEMMA KindsOfTold == Kinded(Told)
BY DEF Kinded, Told, Writes

\* A new write goes behind everything of its flow; the oldest may be put out for it.
LEMMA EnqueueInTurn ==
  ASSUME NEW T, queue \in Seq(T), chunk \in Seq(T), dropped \in Seq(T), InTurn,
         Kinded(T),
         NEW w \in T, Enqueue(w), w.flow \notin InQueues, w.kind = "insert" => w.flow \notin InsertsIn
  PROVE  /\ InTurn' /\ InsertsIn' = InsertsIn \cup InsertsOf(<<w>>) /\ Early' \subseteq Early \cup InsertsOf(<<w>>)
         /\ \A g \in void' \ void : g \in InsertsOf(queue) /\ g \notin Early'
<1>0. /\ InsertsOf(<<w>>) \cap InsertsIn = {} /\ UpdatesOf(<<w>>) \cap InQueues = {}
      /\ InsertsOf(<<w>>) \cap InQueues = {}
  BY InsertsOfOne, UpdatesOfOne
<1>1. CASE Len(queue) < QueueMax
  <2>1. queue' = Append(queue, w) /\ UNCHANGED <<chunk, dropped, void>>
    BY <1>1 DEF Enqueue
  <2>2. /\ InsertsOf(queue') = InsertsOf(queue) \cup InsertsOf(<<w>>)
        /\ UpdatesOf(queue') = UpdatesOf(queue) \cup UpdatesOf(<<w>>) /\ InOrder(queue')
    BY <2>1, InsertsOfAppend DEF InTurn, InsertsIn, Early, InQueues, Kinded
  <2> QED
    BY <1>0, <2>1, <2>2 DEF InTurn, InsertsIn, Early, InQueues, Follows
<1>2. CASE ~(Len(queue) < QueueMax)
  <2>1. queue' = Append(Tail(queue), w) /\ dropped' = Append(dropped, Head(queue)) /\ UNCHANGED chunk
    BY <1>2 DEF Enqueue
  <2>2. queue # <<>>
    BY <1>2, ShapeAssumption DEF ShapeAssumption
  <2>3. PICK v, tail : v = Head(queue) /\ tail = Tail(queue)
    OBVIOUS
  <2>4. /\ InsertsOf(queue) = InsertsOf(<<v>>) \cup InsertsOf(tail)
        /\ UpdatesOf(queue) = UpdatesOf(<<v>>) \cup UpdatesOf(tail)
        /\ Follows(<<v>>, tail) /\ InOrder(tail) /\ v \in T /\ tail \in Seq(T)
    BY <2>2, <2>3, InsertsOfHead DEF InTurn
  <2>5. /\ InsertsOf(queue') = InsertsOf(tail) \cup InsertsOf(<<w>>)
        /\ UpdatesOf(queue') = UpdatesOf(tail) \cup UpdatesOf(<<w>>) /\ InOrder(queue')
    <3>1. w.flow \notin UpdatesOf(tail) /\ (w.kind = "insert" => w.flow \notin InsertsOf(tail))
      BY <2>4 DEF InsertsIn, Early, InQueues
    <3>2. w.kind \in {"insert", "update"} /\ queue' = Append(tail, w)
      BY <2>1, <2>3 DEF Kinded
    <3> QED
      BY <2>4, <3>1, <3>2, InsertsOfAppend
  <2>6. /\ InsertsOf(dropped') = InsertsOf(dropped) \cup InsertsOf(<<v>>)
        /\ UpdatesOf(dropped') = UpdatesOf(dropped) \cup UpdatesOf(<<v>>) /\ InOrder(dropped')
    <3>1. v.flow \notin UpdatesOf(dropped) /\ (v.kind = "insert" => v.flow \notin InsertsOf(dropped))
      BY <2>4, InsertsOfOne, UpdatesOfOne DEF InTurn, Follows, Kinded
    <3>2. v.kind \in {"insert", "update"} /\ dropped' = Append(dropped, v)
      BY <2>1, <2>3, <2>4 DEF Kinded
    <3> QED
      BY <2>4, <3>1, <3>2, InsertsOfAppend DEF InTurn
  <2>7. InsertsIn' = InsertsIn \cup InsertsOf(<<w>>) /\ Early' \subseteq Early \cup InsertsOf(<<w>>)
    BY <2>1, <2>4, <2>5, <2>6 DEF InsertsIn, Early
  <2>8. Follows(chunk', queue')
    BY <1>0, <2>1, <2>4, <2>5 DEF InTurn, InsertsIn, Early, InQueues, Follows
  <2>9. Follows(dropped', queue')
    BY <1>0, <2>1, <2>4, <2>5, <2>6 DEF InTurn, InsertsIn, Early, InQueues, Follows
  <2>10. InsertsOf(chunk') \cap InsertsOf(dropped') = {} /\ UpdatesOf(chunk') \cap UpdatesOf(dropped') = {}
    BY <2>1, <2>4, <2>6 DEF InTurn, Follows
  <2>11. void' \ void \subseteq InsertsOf(<<v>>)
    BY <1>2, <2>3, InsertsOfOne DEF Enqueue
  <2>12. InsertsOf(<<v>>) \subseteq InsertsOf(queue) /\ InsertsOf(<<v>>) \cap Early' = {}
    BY <1>0, <2>1, <2>4, <2>5 DEF InTurn, Follows, Early, InsertsIn
  <2> QED
    BY <2>1, <2>5, <2>6, <2>7, <2>8, <2>9, <2>10, <2>11, <2>12 DEF InTurn
<1> QED
  BY <1>1, <1>2

\* The update of a flow whose insert is gone is put with the dropped writes.
LEMMA DiscardInTurn ==
  ASSUME NEW T, dropped \in Seq(T), InTurn, Kinded(T),
         NEW w \in T, Discard(w), w.kind = "update", w.flow \notin InQueues, w.flow \notin Early
  PROVE  InTurn' /\ InsertsIn' = InsertsIn /\ Early' = Early /\ UNCHANGED void
<1>1. dropped' = Append(dropped, w) /\ UNCHANGED <<queue, chunk, void>>
  BY DEF Discard
<1>2. InsertsOf(<<w>>) = {} /\ UpdatesOf(<<w>>) = {w.flow}
  BY InsertsOfOne, UpdatesOfOne
<1>3. /\ InsertsOf(dropped') = InsertsOf(dropped) \cup InsertsOf(<<w>>)
      /\ UpdatesOf(dropped') = UpdatesOf(dropped) \cup UpdatesOf(<<w>>) /\ InOrder(dropped')
  BY <1>1, InsertsOfAppend DEF InTurn, InQueues
<1> QED
  BY <1>1, <1>2, <1>3 DEF InTurn, Follows, InsertsIn, Early, InQueues

LEMMA TakeInTurn ==
  ASSUME NEW T, queue \in Seq(T), chunk = <<>>, InTurn, TakeChunk
  PROVE  /\ InTurn' /\ InsertsIn' = InsertsIn /\ Early' = Early
<1>1. PICK n \in 1..Len(queue) : chunk' = SubSeq(queue, 1, n) /\ queue' = SubSeq(queue, n + 1, Len(queue))
  <2> DEFINE n == IF Len(queue) < ChunkMax THEN Len(queue) ELSE ChunkMax
  <2>1. n \in 1..Len(queue)
    BY ShapeAssumption DEF TakeChunk, ShapeAssumption
  <2> QED
    BY <2>1 DEF TakeChunk
<1>2. /\ InsertsOf(queue) = InsertsOf(chunk') \cup InsertsOf(queue')
      /\ UpdatesOf(queue) = UpdatesOf(chunk') \cup UpdatesOf(queue')
      /\ Follows(chunk', queue') /\ InOrder(chunk') /\ InOrder(queue')
  <2>0. PICK xs, ys : xs = SubSeq(queue, 1, n) /\ ys = SubSeq(queue, n + 1, Len(queue))
    OBVIOUS
  <2>1. xs \in Seq(T) /\ ys \in Seq(T)
    BY <2>0
  <2>2. queue = xs \o ys
    BY <2>0
  <2>3. /\ InsertsOf(queue) = InsertsOf(xs) \cup InsertsOf(ys) /\ UpdatesOf(queue) = UpdatesOf(xs) \cup UpdatesOf(ys)
        /\ Follows(xs, ys) /\ InOrder(xs) /\ InOrder(ys)
    <3>1. InOrder(queue)
      BY DEF InTurn
    <3>2. InOrder(xs \o ys)
      BY ONLY <2>2, <3>1
    <3>3. xs \in Seq(T)
      BY ONLY <2>1
    <3>4. ys \in Seq(T)
      BY ONLY <2>1
    <3>5. /\ InsertsOf(xs \o ys) = InsertsOf(xs) \cup InsertsOf(ys)
          /\ UpdatesOf(xs \o ys) = UpdatesOf(xs) \cup UpdatesOf(ys)
          /\ Follows(xs, ys) /\ InOrder(xs) /\ InOrder(ys)
      BY ONLY <3>2, <3>3, <3>4, InsertsOfCut
    <3> QED
      BY ONLY <2>2, <3>5
  <2> QED
    BY <1>1, <2>0, <2>3
<1>3. InsertsOf(chunk) = {} /\ UNCHANGED dropped
  BY InsertsOfEmpty DEF TakeChunk
<1> QED
  BY <1>2, <1>3 DEF InTurn, InsertsIn, Early, Follows

\* Writes leave the chunk from the head, the dropped ones anyhow; none is an update
\* whose insert is still to come, but for a dropped one whose insert is in the chunk.
LEMMA ReleaseInTurn ==
  ASSUME NEW T, queue \in Seq(T), chunk \in Seq(T), dropped \in Seq(T), InTurn, HeadThere, ReleaseStep
  PROVE  /\ InTurn' /\ Early' \subseteq Early
         /\ \/ \E ws \in Seq(T) :
                 /\ InOrder(ws) /\ pendingBodies' = Released(ws) /\ UNCHANGED stage
                 /\ InsertsOf(ws) \subseteq InsertsIn /\ InsertsIn' = InsertsIn \ InsertsOf(ws)
                 /\ UpdatesOf(ws) \subseteq InQueues /\ InQueues' = InQueues \ UpdatesOf(ws)
                 /\ UpdatesOf(ws) \cap Early' \subseteq UpdatesOf(dropped) \cap InsertsOf(chunk)
            \/ (\E f \in Flows : ImportRelease(f)) /\ UNCHANGED <<queue, chunk, dropped>>
<1>1. CASE ReleaseDropped
  <2>1. PICK i \in DOMAIN dropped : pendingBodies' = Released(<<dropped[i]>>) /\ dropped' = Without(dropped, i)
    BY <1>1 DEF ReleaseDropped, Without
  <2>2. PICK v : v = dropped[i]
    OBVIOUS
  <2>3. /\ InsertsOf(dropped) = InsertsOf(<<v>>) \cup InsertsOf(dropped')
        /\ UpdatesOf(dropped) = UpdatesOf(<<v>>) \cup UpdatesOf(dropped')
        /\ InsertsOf(<<v>>) \cap InsertsOf(dropped') = {} /\ UpdatesOf(<<v>>) \cap UpdatesOf(dropped') = {}
        /\ InOrder(dropped') /\ v \in T
    BY <2>1, <2>2, InsertsOfWithout DEF InTurn
  <2>4. PICK ws : ws = <<v>>
    OBVIOUS
  <2>5. ws \in Seq(T) /\ InOrder(ws)
    <3>1. <<v>> \in Seq(T)
      BY <2>3
    <3>2. InOrder(<<v>>)
      BY InsertsOfOne
    <3> QED
      BY ONLY <2>4, <3>1, <3>2
  <2>6. UNCHANGED <<queue, chunk, stage>> /\ pendingBodies' = Released(ws)
    BY <1>1, <2>1, <2>2, <2>4 DEF ReleaseDropped, captureVars
  <2>7. InTurn'
    BY <2>3, <2>6 DEF InTurn, Follows
  <2>8. /\ InsertsOf(ws) \subseteq InsertsIn /\ InsertsIn' = InsertsIn \ InsertsOf(ws)
    BY <2>3, <2>4, <2>6 DEF InTurn, Follows, InsertsIn, Early
  <2>9. UpdatesOf(ws) \subseteq InQueues /\ InQueues' = InQueues \ UpdatesOf(ws)
    BY <2>3, <2>4, <2>6 DEF InTurn, Follows, InQueues
  <2>10. Early' = Early /\ UpdatesOf(ws) \cap Early \subseteq UpdatesOf(dropped) \cap InsertsOf(chunk)
    BY <2>3, <2>4, <2>6 DEF InTurn, Follows, Early
  <2> QED
    BY <2>5, <2>6, <2>7, <2>8, <2>9, <2>10
<1>2. CASE ReleaseChunk
  <2>1. chunk' = <<>> /\ UNCHANGED <<queue, dropped, stage>> /\ pendingBodies' = Released(chunk)
    BY <1>2 DEF ReleaseChunk, captureVars
  <2>2. UpdatesOf(chunk') = {} /\ InsertsOf(chunk') = {} /\ InOrder(chunk')
    BY <2>1, UpdatesOfEmpty, InsertsOfEmpty
  <2>3. InTurn'
    BY <2>1, <2>2 DEF InTurn, Follows
  <2>4. InsertsOf(chunk) \subseteq InsertsIn /\ InsertsIn' = InsertsIn \ InsertsOf(chunk)
    BY <2>1, <2>2 DEF InTurn, Follows, InsertsIn, Early
  <2>5. UpdatesOf(chunk) \subseteq InQueues /\ InQueues' = InQueues \ UpdatesOf(chunk)
    BY <2>1, <2>2 DEF InTurn, Follows, InQueues
  <2>6. Early' \subseteq Early /\ UpdatesOf(chunk) \cap Early' = {}
    BY <2>1, <2>2 DEF InTurn, Follows, Early
  <2>7. InOrder(chunk)
    BY DEF InTurn
  <2> QED
    BY <2>1, <2>3, <2>4, <2>5, <2>6, <2>7
<1>3. CASE ReplayRelease
  <2>1. PICK v, tail : v = Head(chunk) /\ tail = Tail(chunk)
    OBVIOUS
  <2>2. /\ InsertsOf(chunk) = InsertsOf(<<v>>) \cup InsertsOf(tail)
        /\ UpdatesOf(chunk) = UpdatesOf(<<v>>) \cup UpdatesOf(tail)
        /\ Follows(<<v>>, tail) /\ InOrder(tail) /\ v \in T /\ tail \in Seq(T)
    BY <1>3, <2>1, InsertsOfHead DEF ReplayRelease, HeadThere, InTurn
  <2>3. PICK ws : ws = <<v>>
    OBVIOUS
  <2>4. ws \in Seq(T) /\ InOrder(ws)
    <3>1. <<v>> \in Seq(T)
      BY <2>2
    <3>2. InOrder(<<v>>)
      BY InsertsOfOne
    <3> QED
      BY ONLY <2>3, <3>1, <3>2
  <2>5. chunk' = tail /\ UNCHANGED <<queue, dropped, stage>> /\ pendingBodies' = Released(ws)
    BY <1>3, <2>1, <2>3 DEF ReplayRelease, captureVars
  <2>6. InTurn'
    BY <2>2, <2>5 DEF InTurn, Follows
  <2>7. /\ InsertsOf(ws) \subseteq InsertsIn /\ InsertsIn' = InsertsIn \ InsertsOf(ws)
    BY <2>2, <2>3, <2>5 DEF InTurn, Follows, InsertsIn, Early
  <2>8. UpdatesOf(ws) \subseteq InQueues /\ InQueues' = InQueues \ UpdatesOf(ws)
    BY <2>2, <2>3, <2>5 DEF InTurn, Follows, InQueues
  <2>9. Early' \subseteq Early /\ UpdatesOf(ws) \cap Early' = {}
    BY <2>2, <2>3, <2>5 DEF InTurn, Follows, Early
  <2> QED
    BY <2>4, <2>5, <2>6, <2>7, <2>8, <2>9
<1>4. ASSUME NEW f \in Flows, ImportRelease(f)
      PROVE  UNCHANGED <<queue, chunk, dropped>>
  BY <1>4 DEF ImportRelease, queueVars
<1>5. UNCHANGED <<queue, chunk, dropped>> => InTurn' /\ Early' = Early
  BY DEF InTurn, Early
<1> QED
  BY <1>1, <1>2, <1>3, <1>4, <1>5 DEF ReleaseStep

--------------------------------------------------------------------------------
(* Edited requests *)

\* What keeps the bodies of edited requests, whose original is released by the insert
\* and by the update: an edited flow shares no content with another one, and its update
\* is not put out of a full queue while the flusher still has its insert.
OwnContents ==
  \A f \in Edited : \A g \in Flows \ {f} :
    {original[f], body[f]} \cap {original[g], body[g]} \subseteq {NoHash}
NoneOvertaken == Edited \cap UpdatesOf(dropped) \cap InsertsOf(chunk) = {}
Parted == OwnContents /\ NoneOvertaken /\ MergeTakesNothing

\* Until its update has been released, a flow owns its original for the insert that is
\* on its way, and once more where its body is the same; no insert is left behind by
\* its update; a row that the insert made has the original; and of a void flow no
\* insert is on its way.
InsertOut(f) == stage[f] = "held" \/ f \in InsertsIn
Ahead(f) == stage[f] # "recorded" \/ f \in InQueues
OriginalOwned ==
  \A f \in Edited :
    original[f] # NoHash /\ Ahead(f) =>
      pendingBodies[original[f]] >= (IF InsertOut(f) THEN 1 ELSE 0) + (IF body[f] = original[f] THEN 1 ELSE 0)
InsertAhead == \A f \in Edited \cap Early : Ahead(f)
OriginalInRow ==
  \A f \in live \cap Flows :
    stage[f] \notin {"new", "held"} /\ (original[f] # NoHash => original[f] \in rows[f])
VoidGone == \A f \in void : f \notin Early /\ stage[f] \notin {"new", "held"}
EditedInv == InTurn /\ OriginalOwned /\ InsertAhead /\ OriginalInRow /\ VoidGone

\* A flow stays void while no insert is queued and no flow becomes void.
LEMMA VoidStays ==
  ASSUME TypeOK, VoidGone, [Next]_vars, void' \subseteq void, Early' \subseteq Early
  PROVE  VoidGone'
BY RecordedStays DEF VoidGone, Settled, TypeOK, QueueType

\* The writes of a queue mention an original once, for its insert, if its update is not there.
LEMMA MentionsOfOriginal ==
  ASSUME OwnContents, NEW f \in Edited, f \in Flows, original[f] # NoHash, NEW ws \in Seq(Told), InOrder(ws),
         f \notin UpdatesOf(ws)
  PROVE  Mentions(original[f], ws) = IF f \in InsertsOf(ws) THEN 1 ELSE 0
<1> DEFINE h == original[f]
           A == {p \in (DOMAIN ws) \X (1..2) : ws[p[1]].hashes[p[2]] = h}
<1>1. \A i \in DOMAIN ws : ws[i] \in Told
  OBVIOUS
<1>2. \A i \in DOMAIN ws : ws[i].kind = "insert" \/ ws[i].flow # f
  BY <1>1, KindsOfTold DEF UpdatesOf, Kinded
<1>3. \A i \in DOMAIN ws : /\ ws[i].hashes[1] = h => ws[i].flow = f
                           /\ ws[i].flow = f => ws[i].hashes[1] = h /\ ws[i].hashes[2] # h
                           /\ ws[i].hashes[2] # h
  <2> SUFFICES ASSUME NEW i \in DOMAIN ws
               PROVE  /\ ws[i].hashes[1] = h => ws[i].flow = f
                      /\ ws[i].flow = f => ws[i].hashes[1] = h /\ ws[i].hashes[2] # h
                      /\ ws[i].hashes[2] # h
    OBVIOUS
  <2>1. PICK w : w = ws[i]
    OBVIOUS
  <2>2. w \in Told /\ (w.kind = "insert" \/ w.flow # f)
    BY <1>1, <1>2, <2>1
  <2>3. /\ w.flow \in Flows /\ w.hashes[1] = original[w.flow]
        /\ w.hashes[2] = NoHash \/ (w.kind = "update" /\ w.hashes[2] = body[w.flow])
    BY <2>2 DEF Told, Writes
  <2>4. w.flow # f => original[w.flow] # h /\ body[w.flow] # h
    BY <2>3 DEF OwnContents
  <2>5. /\ w.hashes[1] = h => w.flow = f
        /\ w.flow = f => w.hashes[1] = h
        /\ w.hashes[2] # h
    BY <2>2, <2>3, <2>4
  <2> QED
    BY <2>1, <2>5
<1>4. \A p \in A : p[1] \in DOMAIN ws /\ p = <<p[1], 1>> /\ ws[p[1]].flow = f
  <2> SUFFICES ASSUME NEW p \in A PROVE p[1] \in DOMAIN ws /\ p = <<p[1], 1>> /\ ws[p[1]].flow = f
    OBVIOUS
  <2>1. p[1] \in DOMAIN ws /\ p[2] \in 1..2 /\ p = <<p[1], p[2]>> /\ ws[p[1]].hashes[p[2]] = h
    OBVIOUS
  <2>2. p[2] = 1 \/ p[2] = 2
    BY <2>1
  <2> QED
    BY <1>3, <2>1, <2>2
<1>5. CASE f \in InsertsOf(ws)
  <2>1. PICK i \in DOMAIN ws : ws[i].flow = f
    BY <1>5 DEF InsertsOf
  <2>2. \A j \in DOMAIN ws : ws[j].flow = f => j = i
    <3>1. \A j \in DOMAIN ws : j < i \/ j = i \/ i < j
      OBVIOUS
    <3> QED
      BY <1>2, <2>1, <3>1 DEF InOrder
  <2>3. <<i, 1>> \in A
    BY <1>3, <2>1
  <2>4. A = {<<i, 1>>}
    <3> HIDE DEF A
    <3> QED
      BY <1>4, <2>2, <2>3
  <2> QED
    BY <1>5, <2>4, FS_Singleton DEF Mentions
<1>6. CASE f \notin InsertsOf(ws)
  <2>1. \A i \in DOMAIN ws : ws[i].flow # f
    BY <1>2, <1>6 DEF InsertsOf
  <2>2. A = {}
    <3> HIDE DEF A
    <3> QED
      BY <1>4, <2>1
  <2> QED
    BY <1>6, <2>2, FS_EmptySet DEF Mentions
<1> QED
  BY <1>5, <1>6

\* What an edited flow owns does not change when neither the bodies nor the queues do.
LEMMA OriginalKeeps ==
  ASSUME OriginalOwned, UNCHANGED <<pendingBodies, original, body>>,
         \A f \in Edited : InsertOut(f)' = InsertOut(f) /\ Ahead(f)' = Ahead(f)
  PROVE  OriginalOwned'
BY DEF OriginalOwned

\* The insert of a held flow takes over its ownership, the update comes behind it.
LEMMA EditedAdds ==
  ASSUME TypeOK, CarryInv, EditedInv, [Next]_vars, NEW f \in Flows, QueueInsert(f) \/ QueueUpdate(f)
  PROVE  InTurn' /\ OriginalOwned' /\ InsertAhead' /\ VoidGone'
<1> USE DEF CarryInv, EditedInv
<1>1. PICK T : T = Told'
  OBVIOUS
<1>2. queue \in Seq(T) /\ chunk \in Seq(T) /\ dropped \in Seq(T)
  BY <1>1, WaitsAsTold
<1>3. PICK w \in T : /\ Enqueue(w) \/ (Discard(w) /\ f \in void)
                     /\ QueueInsert(f) => w.kind = "insert" /\ w.flow = f /\ Enqueue(w)
                     /\ QueueUpdate(f) => w.kind = "update" /\ w.flow = f
  BY <1>1, QueuedAsTold
<1>4. f \notin InQueues /\ (QueueInsert(f) => f \notin InsertsIn)
  <2>1. QueueInsert(f) => stage[f] \in {"new", "held"}
    BY DEF QueueInsert
  <2>2. QueueUpdate(f) => stage[f] = "answered"
    BY DEF QueueUpdate
  <2> QED
    BY <2>1, <2>2, WritesAreOf DEF InQueues, InsertsIn, Early, Waiting
<1>5. w.flow \notin InQueues /\ (w.kind = "insert" => w.flow \notin InsertsIn)
  BY <1>3, <1>4
<1>6. Kinded(T)
  BY <1>1 DEF Kinded, Told, Writes
<1>7. /\ InTurn' /\ InsertsIn' = InsertsIn \cup InsertsOf(<<w>>)
      /\ Early' \subseteq Early \cup InsertsOf(<<w>>)
      /\ \A g \in void' \ void : g \in InsertsOf(queue) /\ g \notin Early'
  <2>1. CASE Enqueue(w)
    BY ONLY <1>2, <1>5, <1>6, <2>1, w \in T, EnqueueInTurn, EditedInv DEF EditedInv
  <2>2. CASE Discard(w) /\ f \in void /\ ~Enqueue(w)
    <3>1. w.kind = "update" /\ w.flow = f /\ f \notin Early
      BY <1>3, <2>2 DEF VoidGone
    <3>2. InTurn' /\ InsertsIn' = InsertsIn /\ Early' = Early /\ UNCHANGED void
      BY ONLY <1>2, <1>5, <1>6, <2>2, <3>1, w \in T, DiscardInTurn, EditedInv DEF EditedInv
    <3>3. InsertsOf(<<w>>) = {}
      BY <3>1, InsertsOfOne
    <3> QED
      BY <3>2, <3>3
  <2> QED
    BY <1>3, <2>1, <2>2
<1>8. UNCHANGED <<pendingBodies, original, body>>
  BY DEF QueueInsert, QueueUpdate, bodyVars
<1>9. VoidGone'
  <2>1. \A g \in InsertsOf(<<w>>) : g \notin void
    BY <1>3, InsertsOfOne DEF VoidGone, QueueInsert
  <2>2. \A g \in InsertsOf(queue) : g \in Flows /\ stage[g] \notin {"new", "held"}
    BY WritesAreOf DEF Waiting
  <2>3. ASSUME NEW g \in void' PROVE g \notin Early' /\ g \in Flows /\ stage[g] \notin {"new", "held"}
    BY <1>7, <2>1, <2>2, <2>3 DEF VoidGone, TypeOK, QueueType
  <2> QED
    BY <2>3, RecordedStays DEF VoidGone, Settled, TypeOK
<1>10. CASE QueueInsert(f)
  <2>1. InQueues' = InQueues /\ stage' = [stage EXCEPT ![f] = "sent"] /\ stage[f] \in {"new", "held"}
        /\ (f \in Edited => stage[f] = "held")
    BY <1>10, WaitingAdds DEF QueueInsert
  <2>2. InsertsIn' = InsertsIn \cup {f} /\ Early' \subseteq Early \cup {f}
    BY <1>3, <1>7, <1>10, InsertsOfOne
  <2>3. \A g \in Edited : InsertOut(g)' = InsertOut(g) /\ Ahead(g)' = Ahead(g)
    BY <2>1, <2>2, ShapeAssumption DEF InsertOut, Ahead, TypeOK, CaptureType, ShapeAssumption
  <2>4. InsertAhead'
    BY <2>1, <2>2, <2>3 DEF InsertAhead, Ahead, TypeOK, CaptureType
  <2> QED
    BY <1>7, <1>8, <1>9, <2>3, <2>4, OriginalKeeps
<1>11. CASE QueueUpdate(f)
  <2>1. InQueues' = InQueues \cup {f} /\ stage' = [stage EXCEPT ![f] = "recorded"] /\ stage[f] = "answered"
    BY <1>11, WaitingAdds DEF QueueUpdate
  <2>2. InsertsIn' = InsertsIn /\ Early' \subseteq Early
    BY <1>3, <1>7, <1>11, InsertsOfOne
  <2>3. \A g \in Edited : InsertOut(g)' = InsertOut(g) /\ Ahead(g)' = Ahead(g)
    BY <2>1, <2>2, ShapeAssumption DEF InsertOut, Ahead, TypeOK, CaptureType, ShapeAssumption
  <2>4. InsertAhead'
    BY <2>2, <2>3 DEF InsertAhead
  <2> QED
    BY <1>7, <1>8, <1>9, <2>3, <2>4, OriginalKeeps
<1> QED
  BY <1>10, <1>11

LEMMA EditedTakes ==
  ASSUME TypeOK, CarryInv, EditedInv, [Next]_vars, TakeChunk
  PROVE  InTurn' /\ OriginalOwned' /\ InsertAhead' /\ VoidGone'
<1> USE DEF CarryInv, EditedInv
<1>1. chunk = <<>>
  BY DEF TakeChunk, Waiting
<1>2. PICK T : queue \in Seq(T)
  BY DEF Waiting
<1>3. InTurn' /\ InsertsIn' = InsertsIn /\ Early' = Early
  BY <1>1, <1>2, TakeInTurn
<1>4. InQueues' = InQueues /\ UNCHANGED <<pendingBodies, original, body, stage>>
  BY WaitingTakes DEF TakeChunk, bodyVars, captureVars
<1>5. \A g \in Edited : InsertOut(g)' = InsertOut(g) /\ Ahead(g)' = Ahead(g)
  BY <1>3, <1>4 DEF InsertOut, Ahead
<1>6. VoidGone'
  BY <1>3, VoidStays DEF TakeChunk
<1> QED
  BY <1>3, <1>4, <1>5, <1>6, OriginalKeeps DEF InsertAhead

\* A release takes an original from its owners only with the insert, or with the
\* update when no insert is left to come.
LEMMA EditedReleases ==
  ASSUME TypeOK, HeadThere, CarryInv, EditedInv, OwnContents, NoneOvertaken, [Next]_vars, ReleaseStep
  PROVE  InTurn' /\ OriginalOwned' /\ InsertAhead' /\ VoidGone'
<1> USE DEF CarryInv, EditedInv, TypeOK, BodyType, CaptureType
<1>1. queue \in Seq(Told) /\ chunk \in Seq(Told) /\ dropped \in Seq(Told)
  BY DEF Waiting
<1>2. /\ InTurn' /\ Early' \subseteq Early
      /\ \/ \E ws \in Seq(Told) :
              /\ InOrder(ws) /\ pendingBodies' = Released(ws) /\ UNCHANGED stage
              /\ InsertsOf(ws) \subseteq InsertsIn /\ InsertsIn' = InsertsIn \ InsertsOf(ws)
              /\ UpdatesOf(ws) \subseteq InQueues /\ InQueues' = InQueues \ UpdatesOf(ws)
              /\ UpdatesOf(ws) \cap Early' \subseteq UpdatesOf(dropped) \cap InsertsOf(chunk)
         \/ (\E f \in Flows : ImportRelease(f)) /\ UNCHANGED <<queue, chunk, dropped>>
  BY <1>1, ReleaseInTurn
<1>3. UNCHANGED <<original, body>>
  BY ReleaseFrame
<1>4. ASSUME NEW f \in Edited PROVE f \in Flows /\ (original[f] # NoHash => original[f] \in Hashes)
  BY ShapeAssumption DEF ShapeAssumption, Optional
<1>5. ASSUME NEW ws \in Seq(Told), InOrder(ws), pendingBodies' = Released(ws), UNCHANGED stage,
             InsertsOf(ws) \subseteq InsertsIn, InsertsIn' = InsertsIn \ InsertsOf(ws),
             UpdatesOf(ws) \subseteq InQueues, InQueues' = InQueues \ UpdatesOf(ws),
             UpdatesOf(ws) \cap Early' \subseteq UpdatesOf(dropped) \cap InsertsOf(chunk)
      PROVE  OriginalOwned' /\ InsertAhead'
  <2>1. ASSUME NEW f \in Edited, original[f] # NoHash, Ahead(f)'
        PROVE  pendingBodies'[original[f]] >= (IF InsertOut(f)' THEN 1 ELSE 0) + (IF body[f] = original[f] THEN 1 ELSE 0)
    <3>1. f \notin UpdatesOf(ws) /\ Ahead(f)
      BY <1>4, <1>5, <2>1, WritesAreOf DEF Ahead
    <3>2. f \in InsertsOf(ws) => InsertOut(f) /\ ~InsertOut(f)'
      BY <1>5, WritesAreOf DEF InsertOut
    <3>3. f \notin InsertsOf(ws) => InsertOut(f)' = InsertOut(f)
      BY <1>5 DEF InsertOut
    <3>4. Mentions(original[f], ws) = IF f \in InsertsOf(ws) THEN 1 ELSE 0
      BY <1>4, <1>5, <2>1, <3>1, MentionsOfOriginal
    <3>5. pendingBodies[original[f]] >= (IF InsertOut(f) THEN 1 ELSE 0) + (IF body[f] = original[f] THEN 1 ELSE 0)
          /\ pendingBodies[original[f]] \in Nat
      BY <1>4, <2>1, <3>1 DEF OriginalOwned
    <3>6. IsFiniteSet(DOMAIN ws)
      BY DomainFinite
    <3>7. Mentions(original[f], ws) <= pendingBodies[original[f]]
      BY <3>2, <3>4, <3>5
    <3>8. pendingBodies'[original[f]] = pendingBodies[original[f]] - Mentions(original[f], ws)
      BY <1>4, <1>5, <2>1, <3>6, <3>7, ReleasedValue
    <3> QED
      BY <3>2, <3>3, <3>4, <3>5, <3>8
  <2>2. ASSUME NEW f \in Edited \cap Early' PROVE Ahead(f)'
    <3>1. Ahead(f)
      BY <1>2 DEF InsertAhead
    <3>2. f \notin UpdatesOf(ws)
      BY <1>5 DEF NoneOvertaken
    <3> QED
      BY <1>5, <3>1, <3>2 DEF Ahead
  <2> QED
    BY <1>3, <2>1, <2>2 DEF OriginalOwned, InsertAhead
<1>6. ASSUME NEW g \in Flows, ImportRelease(g), UNCHANGED <<queue, chunk, dropped>>
      PROVE  OriginalOwned' /\ InsertAhead'
  <2>1. PICK ws : ws = <<[hashes |-> <<NoHash, body[g]>>]>>
    OBVIOUS
  <2>2. pendingBodies' = Released(ws) /\ stage' = [stage EXCEPT ![g] = "recorded"] /\ g \notin Edited
    BY <1>6, <2>1, ShapeAssumption DEF ImportRelease, ShapeAssumption
  <2>3. \A f \in Edited : InsertOut(f)' = InsertOut(f) /\ Ahead(f)' = Ahead(f)
    BY <1>6, <2>2 DEF InsertOut, Ahead, InsertsIn, Early, InQueues
  <2>4. ASSUME NEW f \in Edited, original[f] # NoHash PROVE pendingBodies'[original[f]] = pendingBodies[original[f]]
    <3>1. original[f] # body[g]
      BY <2>2, <2>4 DEF OwnContents
    <3>2. Mentions(original[f], ws) = 0
      BY <1>4, <2>1, <2>4, <3>1, MentionsOfBody
    <3>3. IsFiniteSet(DOMAIN ws)
      <4>1. ws \in Seq({[hashes |-> <<NoHash, body[g]>>]})
        BY <2>1
      <4> QED
        BY <4>1, DomainFinite
    <3>4. pendingBodies[original[f]] \in Nat
      BY <1>4, <2>4
    <3> QED
      BY <1>4, <2>2, <2>4, <3>2, <3>3, <3>4, ReleasedValue
  <2> QED
    BY <1>3, <1>6, <2>3, <2>4 DEF OriginalOwned, InsertAhead, Early
<1>7. VoidGone'
  <2>1. void' \subseteq void
    BY DEF ReleaseStep, ReleaseDropped, ReleaseChunk, ReplayRelease, ImportRelease, queueVars
  <2> QED
    BY <1>2, <2>1, VoidStays
<1> QED
  BY <1>2, <1>5, <1>6, <1>7

\* An original is owned when it is stored, and a body that is the same once more.
LEMMA EditedCaptures ==
  ASSUME TypeOK, CarryInv, EditedInv, [Next]_vars, CaptureStep
  PROVE  InTurn' /\ OriginalOwned' /\ InsertAhead' /\ VoidGone'
<1> USE DEF CarryInv, EditedInv, TypeOK, BodyType, CaptureType
<1>1. UNCHANGED <<queue, chunk, dropped, void>>
  BY CaptureFrame DEF queueVars
<1>2. InTurn' /\ Early' = Early /\ InsertsIn' = InsertsIn /\ InQueues' = InQueues
  BY <1>1 DEF InTurn, Early, InsertsIn, InQueues
<1>3. ASSUME NEW f \in Flows, HoldEdited(f) PROVE OriginalOwned' /\ InsertAhead'
  <2>1. PICK h \in Captured : Finalize(h) /\ original' = [original EXCEPT ![f] = h]
    BY <1>3 DEF HoldEdited
  <2>2. h \in Hashes /\ NoHash \notin Hashes
    BY ShapeAssumption DEF ShapeAssumption
  <2>3. stage[f] = "new" /\ body[f] = NoHash /\ stage' = [stage EXCEPT ![f] = "held"] /\ UNCHANGED body
    BY <1>3 DEF HoldEdited, Carried
  <2>4. f \notin InsertsIn /\ f \notin InQueues
    BY <2>3, WritesAreOf DEF InsertsIn, Early, InQueues, Waiting
  <2>5. \A g \in Hashes : pendingBodies'[g] = IF g = h THEN pendingBodies[g] + 1 ELSE pendingBodies[g]
    BY <2>1 DEF Finalize
  <2>6. ASSUME NEW g \in Edited, original'[g] # NoHash, Ahead(g)'
        PROVE  pendingBodies'[original'[g]] >= (IF InsertOut(g)' THEN 1 ELSE 0) + (IF body'[g] = original'[g] THEN 1 ELSE 0)
    <3>0. g \in Flows /\ original'[g] \in Hashes /\ pendingBodies[original'[g]] \in Nat
      BY <2>1, <2>2, <2>6, ShapeAssumption DEF ShapeAssumption, Optional
    <3>1. CASE g = f
      BY <2>1, <2>2, <2>3, <2>5, <3>0, <3>1
    <3>2. CASE g # f
      <4>1. original'[g] = original[g] /\ stage'[g] = stage[g] /\ body'[g] = body[g]
        BY <2>1, <2>3, <3>0, <3>2
      <4>2. Ahead(g) /\ InsertOut(g)' = InsertOut(g)
        BY <1>2, <2>6, <4>1 DEF Ahead, InsertOut
      <4>3. pendingBodies[original[g]] >= (IF InsertOut(g) THEN 1 ELSE 0) + (IF body[g] = original[g] THEN 1 ELSE 0)
        BY <2>6, <4>1, <4>2 DEF OriginalOwned
      <4> QED
        BY <2>5, <3>0, <4>1, <4>2, <4>3
    <3> QED
      BY <3>1, <3>2
  <2>7. InsertAhead'
    BY <1>2, <2>3 DEF InsertAhead, Ahead
  <2> QED
    BY <2>6, <2>7 DEF OriginalOwned
<1>4. ASSUME NEW f \in Flows, CaptureBody(f) PROVE OriginalOwned' /\ InsertAhead'
  <2>1. PICK h \in Captured : Finalize(h) /\ body' = [body EXCEPT ![f] = h]
    BY <1>4 DEF CaptureBody
  <2>2. h \in Hashes /\ NoHash \notin Hashes
    BY ShapeAssumption DEF ShapeAssumption
  <2>3. stage[f] \in {"new", "sent"} /\ body[f] = NoHash /\ stage' = [stage EXCEPT ![f] = "answered"]
        /\ UNCHANGED original /\ (f \in Edited => stage[f] = "sent")
    BY <1>4, ShapeAssumption DEF CaptureBody, AwaitsBody, Carried, ShapeAssumption
  <2>4. f \notin InQueues
    BY <2>3, QueuedAreRecorded
  <2>5. \A g \in Hashes : pendingBodies'[g] = IF g = h THEN pendingBodies[g] + 1 ELSE pendingBodies[g]
    BY <2>1 DEF Finalize
  <2>6. \A g \in Edited : InsertOut(g)' = InsertOut(g) /\ Ahead(g)' = Ahead(g)
    BY <1>2, <2>3 DEF InsertOut, Ahead
  <2>7. ASSUME NEW g \in Edited, original[g] # NoHash, Ahead(g)
        PROVE  pendingBodies'[original[g]] >= (IF InsertOut(g) THEN 1 ELSE 0) + (IF body'[g] = original[g] THEN 1 ELSE 0)
    <3>0. g \in Flows /\ original[g] \in Hashes /\ pendingBodies[original[g]] \in Nat
      BY <2>7, ShapeAssumption DEF ShapeAssumption, Optional
    <3>1. pendingBodies[original[g]] >= (IF InsertOut(g) THEN 1 ELSE 0) + (IF body[g] = original[g] THEN 1 ELSE 0)
      BY <2>7 DEF OriginalOwned
    <3>2. CASE g = f
      BY <2>1, <2>2, <2>3, <2>5, <3>0, <3>1, <3>2
    <3>3. CASE g # f
      <4>1. body'[g] = body[g]
        BY <2>1, <3>0, <3>3
      <4> QED
        BY <2>5, <3>0, <3>1, <4>1
    <3> QED
      BY <3>2, <3>3
  <2> QED
    BY <1>2, <2>3, <2>6, <2>7 DEF OriginalOwned, InsertAhead
<1>5. ASSUME NEW f \in Flows, MissBody(f) PROVE OriginalOwned' /\ InsertAhead'
  <2>1. stage[f] \in {"new", "sent"} /\ stage' = [stage EXCEPT ![f] = "answered"]
        /\ UNCHANGED <<pendingBodies, original, body>>
    BY <1>5 DEF MissBody, AwaitsBody, bodyVars
  <2>2. \A g \in Edited : InsertOut(g)' = InsertOut(g) /\ Ahead(g)' = Ahead(g)
    BY <1>2, <2>1 DEF InsertOut, Ahead
  <2> QED
    BY <1>2, <2>1, <2>2, OriginalKeeps DEF InsertAhead
<1>6. VoidGone'
  BY <1>1, <1>2, VoidStays
<1> QED
  BY <1>2, <1>3, <1>4, <1>5, <1>6 DEF CaptureStep

\* The other steps change neither the queues nor what flows own; a merge takes nothing.
LEMMA EditedStays ==
  ASSUME TypeOK, CarryInv, EditedInv, MergeTakesNothing, [Next]_vars, ~CaptureStep, ~ReleaseStep, ~TakeChunk,
         \A f \in Flows : ~QueueInsert(f) /\ ~QueueUpdate(f)
  PROVE  InTurn' /\ OriginalOwned' /\ InsertAhead' /\ VoidGone'
<1> USE DEF CarryInv, EditedInv, TypeOK, BodyType, CaptureType
<1>1. UNCHANGED <<queue, chunk, dropped, void, original, body>>
  BY StepsOfStore, WriteFrame, MergeFrame, UploadFrame, GCFrame
     DEF QueueStep, FailChunk, captureVars, queueVars, vars
<1>2. InTurn' /\ Early' = Early /\ InsertsIn' = InsertsIn /\ InQueues' = InQueues
  BY <1>1 DEF InTurn, Early, InsertsIn, InQueues
<1>3. \A f \in Edited : stage'[f] = stage[f]
  <2>1. ASSUME NEW g \in Flows, ImportRow(g) PROVE \A f \in Edited : stage'[f] = stage[f]
    BY <2>1, ShapeAssumption DEF ImportRow, ShapeAssumption
  <2>2. WriteStep => UNCHANGED stage \/ \E g \in Flows : ImportRow(g)
    BY DEF WriteStep, CommitChunk, ReplayWrite, DeleteSynced, DeleteCommits, captureVars
  <2> QED
    BY StepsOfStore, MergeFrame, UploadFrame, GCFrame, <2>1, <2>2 DEF QueueStep, FailChunk, captureVars, vars
<1>4. UNCHANGED pendingBodies
  <2>1. ASSUME NEW m \in Merges, MergePublishes(m) PROVE UNCHANGED pendingBodies
    <3>1. \A h \in PeerBodies[m] : pendingBodies[h] = 0
      BY <2>1 DEF MergePublishes, MergeTakesNothing
    <3>2. pendingBodies' = [h \in Hashes |-> pendingBodies[h]]
      BY <2>1, <3>1 DEF MergePublishes
    <3> QED
      BY <3>2
  <2>2. MergeStep => UNCHANGED pendingBodies
    BY <2>1 DEF MergeStep, MergeStages, MergeProtects, MergeRenames, MergeChecks, MergeInserts, MergeReleases,
       bodyVars
  <2> QED
    BY StepsOfStore, WriteFrame, UploadFrame, GCFrame, <2>2 DEF QueueStep, FailChunk, bodyVars, vars
<1>5. \A f \in Edited : InsertOut(f)' = InsertOut(f) /\ Ahead(f)' = Ahead(f)
  BY <1>2, <1>3 DEF InsertOut, Ahead
<1>6. VoidGone'
  BY <1>1, <1>2, VoidStays
<1> QED
  BY <1>1, <1>2, <1>4, <1>5, <1>6, OriginalKeeps DEF InsertAhead

\* A row gets the hashes of the last write of its flow, the update if there is one: the
\* order of the writes decides it, and no row is set by two of them.
LEMMA ApplyRow ==
  ASSUME NEW ws \in Seq(Told), InOrder(ws), Apply(ws), NEW r \in Rows
  PROVE  /\ live' = live \cup InsertsOf(ws)
         /\ \/ r \notin live' /\ rows'[r] = {}
            \/ r \in live' /\ r \in live /\ rows'[r] = rows[r]
            \/ r \in live' /\ \E w \in Told : /\ w.flow = r /\ rows'[r] = Referenced(w)
                                              /\ w.kind = "update" => r \in UpdatesOf(ws)
<1> DEFINE last(f) == {i \in DOMAIN ws : ws[i].flow = f /\ \A k \in DOMAIN ws : ws[k].flow = f => k <= i}
           at(f)   == {i \in DOMAIN ws : ws[i].flow = f}
<1>1. live' = live \cup InsertsOf(ws)
  BY DEF Apply, InsertsOf
<1>2. rows'[r] = IF r \notin live' THEN {}
                 ELSE IF last(r) = {} THEN rows[r]
                 ELSE UNION {Referenced(ws[i]) : i \in last(r)}
  BY DEF Apply
<1>3. \A i \in DOMAIN ws : ws[i] \in Told /\ ws[i].kind \in {"insert", "update"}
  BY KindsOfTold DEF Kinded
<1>4. ASSUME NEW i \in DOMAIN ws, ws[i].flow = r, \A k \in at(r) : k <= i, r \in live'
      PROVE  \E w \in Told : w.flow = r /\ rows'[r] = Referenced(w) /\ (w.kind = "update" => r \in UpdatesOf(ws))
  <2>1. last(r) = {i}
    <3>1. i \in last(r)
      BY <1>4
    <3>2. ASSUME NEW j \in last(r) PROVE j = i
      <4>1. j \in at(r) /\ i <= j
        BY <1>4
      <4>2. j <= i
        BY <1>4, <4>1
      <4>3. i \in Nat /\ j \in Nat
        BY <4>1, DOMAIN ws = 1..Len(ws), Len(ws) \in Nat
      <4> QED
        BY <4>1, <4>2, <4>3
    <3> HIDE DEF last
    <3> QED
      BY <3>1, <3>2
  <2>2. rows'[r] = Referenced(ws[i])
    <3> HIDE DEF last
    <3> QED
      BY <1>2, <1>4, <2>1
  <2>3. ws[i].kind = "update" => r \in UpdatesOf(ws)
    BY <1>4 DEF UpdatesOf
  <2> QED
    BY <1>3, <1>4, <2>2, <2>3
<1>5. \A i, k \in DOMAIN ws : i \in Nat /\ k \in Nat
  BY DOMAIN ws = 1..Len(ws), Len(ws) \in Nat
<1>6. CASE r \in live' /\ r \in UpdatesOf(ws)
  <2>1. PICK i \in DOMAIN ws : ws[i].kind = "update" /\ ws[i].flow = r
    BY <1>6 DEF UpdatesOf
  <2>2. \A k \in at(r) : ~(i < k)
    BY <2>1 DEF InOrder
  <2>3. \A k \in at(r) : k <= i
    BY <1>5, <2>2
  <2> QED
    BY <1>1, <1>4, <1>6, <2>1, <2>3
<1>7. CASE r \in live' /\ r \notin UpdatesOf(ws) /\ r \in InsertsOf(ws)
  <2>1. PICK i \in DOMAIN ws : ws[i].kind = "insert" /\ ws[i].flow = r
    BY <1>7 DEF InsertsOf
  <2>2. \A k \in at(r) : ws[k].kind = "insert"
    BY <1>3, <1>7 DEF UpdatesOf
  <2>3. \A k \in at(r) : ~(i < k)
    BY <2>1, <2>2 DEF InOrder
  <2>4. \A k \in at(r) : k <= i
    BY <1>5, <2>3
  <2> QED
    BY <1>1, <1>4, <1>7, <2>1, <2>4
<1>8. CASE r \in live' /\ r \notin UpdatesOf(ws) /\ r \notin InsertsOf(ws)
  <2>1. last(r) = {}
    BY <1>3, <1>8 DEF UpdatesOf, InsertsOf
  <2> HIDE DEF last
  <2> QED
    BY <1>1, <1>2, <1>8, <2>1
<1>9. CASE r \notin live'
  BY <1>1, <1>2, <1>9
<1> QED
  BY <1>6, <1>7, <1>8, <1>9

\* What the flusher lands is of its chunk: all of it, or the first of its writes.
LEMMA LandedWrites ==
  ASSUME CarryInv, InTurn, CommitChunk \/ ReplayWrite
  PROVE  \/ UNCHANGED rowVars
         \/ \E ws \in Seq(Told) : /\ InOrder(ws) /\ Apply(ws)
                                  /\ InsertsOf(ws) \subseteq InsertsOf(chunk) /\ UpdatesOf(ws) \subseteq UpdatesOf(chunk)
<1>1. chunk \in Seq(Told) /\ InOrder(chunk)
  BY DEF CarryInv, Waiting, InTurn
<1>2. CASE CommitChunk
  <2>1. Apply(chunk)
    BY <1>2 DEF CommitChunk
  <2> QED
    BY <1>1, <2>1
<1>3. CASE ReplayWrite
  <2>1. chunk # <<>> /\ (Apply(<<Head(chunk)>>) \/ UNCHANGED rowVars)
    BY <1>3 DEF ReplayWrite
  <2>2. PICK T : T = Told
    OBVIOUS
  <2>3. /\ InsertsOf(chunk) = InsertsOf(<<Head(chunk)>>) \cup InsertsOf(Tail(chunk))
        /\ UpdatesOf(chunk) = UpdatesOf(<<Head(chunk)>>) \cup UpdatesOf(Tail(chunk))
        /\ Head(chunk) \in T
    BY <1>1, <2>1, <2>2, InsertsOfHead
  <2>4. <<Head(chunk)>> \in Seq(T)
    BY <2>3
  <2>5. InOrder(<<Head(chunk)>>)
    BY InsertsOfOne
  <2> QED
    BY ONLY <2>1, <2>2, <2>3, <2>4, <2>5
<1> QED
  BY <1>2, <1>3

\* A row that is there has the original of its flow.
LEMMA OriginalInRowStep ==
  ASSUME BaseInv, CarryInv, EditedInv, [Next]_vars
  PROVE  OriginalInRow'
<1> USE DEF EditedInv, BaseInv, TypeOK
<1>1. \A f \in Flows : /\ f \in Rows
                       /\ stage[f] \notin {"new", "held"} => stage'[f] \notin {"new", "held"} /\ original'[f] = original[f]
  BY RecordedStays DEF Settled, Rows
<1>2. CASE UNCHANGED rowVars
  BY <1>1, <1>2 DEF OriginalInRow, rowVars
<1>3. ASSUME NEW ws \in Seq(Told), InOrder(ws), Apply(ws) PROVE OriginalInRow'
  <2> SUFFICES ASSUME NEW f \in live' \cap Flows
               PROVE  stage'[f] \notin {"new", "held"} /\ (original'[f] # NoHash => original'[f] \in rows'[f])
    BY DEF OriginalInRow
  <2>1. CASE f \in live /\ rows'[f] = rows[f]
    BY <1>1, <2>1 DEF OriginalInRow
  <2>2. ASSUME NEW w \in Told, w.flow = f, rows'[f] = Referenced(w)
        PROVE  stage'[f] \notin {"new", "held"} /\ (original'[f] # NoHash => original'[f] \in rows'[f])
    <3>1. stage[f] \notin {"new", "held"} /\ w.hashes[1] = original[f]
      BY <2>2 DEF Told
    <3> QED
      BY <1>1, <2>2, <3>1 DEF Referenced
  <2> QED
    BY <1>1, <1>3, <2>1, <2>2, ApplyRow
<1>4. CASE CommitChunk \/ ReplayWrite
  BY <1>2, <1>3, <1>4, LandedWrites
<1>5. ASSUME NEW f \in Flows, ImportRow(f) PROVE OriginalInRow'
  <2>1. original[f] = NoHash
    BY <1>5, ShapeAssumption DEF ImportRow, CarryInv, Carried, ShapeAssumption
  <2>2. stage[f] = "answered"
    BY <1>5 DEF ImportRow
  <2>3. CASE live' = live \cup {f} /\ rows' = [rows EXCEPT ![f] = {body[f]} \ {NoHash}]
    <3> SUFFICES ASSUME NEW g \in live' \cap Flows
                 PROVE  stage'[g] \notin {"new", "held"} /\ (original'[g] # NoHash => original'[g] \in rows'[g])
      BY DEF OriginalInRow
    <3>1. CASE g = f
      BY <1>1, <2>1, <2>2, <3>1
    <3>2. CASE g # f
      <4>1. g \in live /\ rows'[g] = rows[g]
        BY <1>1, <2>3, <3>2 DEF RowType
      <4> QED
        BY <1>1, <4>1 DEF OriginalInRow
    <3> QED
      BY <3>1, <3>2
  <2> QED
    BY <1>2, <1>5, <2>3 DEF ImportRow
<1>6. ASSUME NEW q \in Rows, DeleteCommits(q) PROVE OriginalInRow'
  <2>1. live' = live \ {q} /\ rows' = [rows EXCEPT ![q] = {}]
    BY <1>6 DEF DeleteCommits
  <2>2. \A f \in live' \cap Flows : f \in live /\ rows'[f] = rows[f]
    BY <1>1, <2>1 DEF RowType
  <2> QED
    BY <1>1, <2>2 DEF OriginalInRow
<1>7. ASSUME NEW m \in Merges, MergeInserts(m) PROVE OriginalInRow'
  <2>1. CASE live' = live \cup {m} /\ rows' = [rows EXCEPT ![m] = PeerBodies[m]]
    <3>1. \A f \in live' \cap Flows : f \in live /\ rows'[f] = rows[f]
      BY <1>1, <2>1, ShapeAssumption DEF RowType, ShapeAssumption
    <3> QED
      BY <1>1, <3>1 DEF OriginalInRow
  <2> QED
    BY <1>2, <1>7, <2>1 DEF MergeInserts
<1>8. \/ UNCHANGED rowVars \/ CommitChunk \/ ReplayWrite
      \/ \E f \in Flows : ImportRow(f)
      \/ \E q \in Rows : DeleteCommits(q)
      \/ \E m \in Merges : MergeInserts(m)
  <2>1. MergeStep => UNCHANGED rowVars \/ \E m \in Merges : MergeInserts(m)
    BY DEF MergeStep, MergeStages, MergeProtects, MergeRenames, MergeChecks, MergePublishes, MergeReleases
  <2>2. WriteStep => \/ UNCHANGED rowVars \/ CommitChunk \/ ReplayWrite
                     \/ \E f \in Flows : ImportRow(f)
                     \/ \E q \in Rows : DeleteCommits(q)
    BY DEF WriteStep, DeleteSynced
  <2> QED
    BY StepsOfStore, CaptureFrame, QueueFrame, ReleaseFrame, UploadFrame, GCFrame, <2>1, <2>2 DEF vars
<1> QED
  BY <1>2, <1>4, <1>5, <1>6, <1>7, <1>8

LEMMA EditedInit == Init => EditedInv
<1> SUFFICES ASSUME Init PROVE EditedInv
  OBVIOUS
<1>1. InTurn /\ InsertsIn = {} /\ Early = {}
  BY InsertsOfEmpty, UpdatesOfEmpty DEF Init, InTurn, Follows, InsertsIn, Early
<1>2. OriginalOwned
  BY ShapeAssumption DEF Init, OriginalOwned, ShapeAssumption
<1>3. InsertAhead /\ OriginalInRow /\ VoidGone
  BY <1>1 DEF Init, InsertAhead, OriginalInRow, VoidGone
<1> QED
  BY <1>1, <1>2, <1>3 DEF EditedInv

LEMMA EditedStep == BaseInv /\ CarryInv /\ EditedInv /\ Parted /\ [Next]_vars => EditedInv'
<1> SUFFICES ASSUME BaseInv, CarryInv, EditedInv, Parted, [Next]_vars PROVE EditedInv'
  OBVIOUS
<1> USE DEF BaseInv, Parted
<1>1. OriginalInRow'
  BY OriginalInRowStep
<1>2. CASE CaptureStep
  BY <1>1, <1>2, EditedCaptures DEF EditedInv
<1>3. CASE ReleaseStep
  BY <1>1, <1>3, EditedReleases DEF EditedInv
<1>4. CASE TakeChunk
  BY <1>1, <1>4, EditedTakes DEF EditedInv
<1>5. ASSUME NEW f \in Flows, QueueInsert(f) \/ QueueUpdate(f) PROVE EditedInv'
  BY <1>1, <1>5, EditedAdds DEF EditedInv
<1>6. CASE ~CaptureStep /\ ~ReleaseStep /\ ~TakeChunk /\ \A f \in Flows : ~QueueInsert(f) /\ ~QueueUpdate(f)
  BY <1>1, <1>6, EditedStays DEF EditedInv
<1> QED
  BY <1>2, <1>3, <1>4, <1>5, <1>6

\* A body that is on its way into a row is owned, by its flow's capture ...
LEMMA OutstandingOwned ==
  ASSUME TypeOK, BalanceInv, OriginalOwned, OwnContents, NEW f \in Flows, body[f] \in Hashes, f \in Owners(body[f])
  PROVE  pendingBodies[body[f]] > 0
<1>1. CASE Clear(body[f])
  BY <1>1, FS_EmptySet, FS_CardinalityType DEF BalanceInv, Balanced
<1>2. CASE ~Clear(body[f])
  <2>1. PICK e \in Edited : original[e] = body[f]
    BY <1>2 DEF Clear
  <2>2. body[f] # NoHash /\ e \in Flows
    BY ShapeAssumption DEF ShapeAssumption
  <2>3. e = f
    <3>1. ASSUME e # f PROVE FALSE
      <4>1. f \in Flows \ {e}
        BY <3>1
      <4>2. {original[e], body[e]} \cap {original[f], body[f]} \subseteq {NoHash}
        BY <4>1 DEF OwnContents
      <4> QED
        BY <2>1, <2>2, <4>2
    <3> QED
      BY <3>1
  <2>4. Ahead(f)
    BY DEF Owners, Ahead
  <2>5. pendingBodies[body[f]] >= (IF InsertOut(f) THEN 1 ELSE 0) + 1
    BY <2>1, <2>2, <2>3, <2>4 DEF OriginalOwned
  <2>6. pendingBodies[body[f]] \in Nat
    BY DEF TypeOK, BodyType
  <2> QED
    BY <2>5, <2>6
<1> QED
  BY <1>1, <1>2

\* ... and so is an original, until the insert has landed.
LEMMA OriginalOut ==
  ASSUME TypeOK, EditedInv, NEW f \in Edited, original[f] # NoHash, stage[f] = "held" \/ f \in Early
  PROVE  original[f] \in Hashes /\ pendingBodies[original[f]] > 0
<1>1. original[f] \in Hashes
  BY ShapeAssumption DEF TypeOK, CaptureType, Optional, ShapeAssumption
<1>2. Ahead(f) /\ InsertOut(f)
  BY DEF EditedInv, InsertAhead, Ahead, InsertOut, InsertsIn
<1>3. pendingBodies[original[f]] >= 1 + (IF body[f] = original[f] THEN 1 ELSE 0)
  BY <1>2 DEF EditedInv, OriginalOwned
<1>4. pendingBodies[original[f]] \in Nat
  BY <1>1 DEF TypeOK, BodyType
<1> QED
  BY <1>1, <1>3, <1>4

--------------------------------------------------------------------------------
(* What is on disk *)

\* The bodies of a merge stay there unless a refused upload takes one away that a
\* merge has renamed into place meanwhile: files are renamed without bodyMu.
Undisturbed == Rejects => Merges = {}

\* A file is removed by the pass, and then it is neither owned nor seen, or with a
\* refused image that was not there before.
LEMMA WhatIsRemoved ==
  ASSUME BaseInv, PassInv, [Next]_vars, NEW h \in disk \ disk'
  PROVE  \/ (\E g \in Hashes : GCRemoves(g)) /\ gc = "walk" /\ ~Owned(h) /\ h \notin Seen
         \/ UploadRefused /\ ~upload.existed /\ h = upload.hash
<1> USE DEF BaseInv, TypeOK, BodyType
<1>1. CASE CaptureStep
  BY <1>1 DEF CaptureStep, HoldEdited, CaptureBody, MissBody, Finalize, bodyVars
<1>2. CASE MergeStep
  BY <1>2 DEF MergeStep, MergeStages, MergeProtects, MergeRenames, MergeChecks, MergeInserts, MergePublishes,
     MergeReleases, bodyVars
<1>3. CASE UploadStep
  BY <1>3 DEF UploadStep, UploadBegins, UploadStores, UploadAttaches, UploadRefused, bodyVars
<1>4. CASE GCStep
  <2>1. PICK g \in Hashes : GCRemoves(g)
    BY <1>4 DEF GCStep, GCBegins, GCReadsFlows, GCReadsFindings, GCEnds, GCVisits, bodyVars
  <2>2. h = g /\ ~Owned(h) /\ h \notin bodyGCClaimed /\ gc = "walk" /\ h \in orphans
    BY <2>1 DEF GCRemoves
  <2>3. h \notin referenced
    BY <2>2 DEF PassInv, Walked
  <2> QED
    BY <2>1, <2>2, <2>3 DEF Seen
<1> QED
  BY StepsOfStore, QueueFrame, ReleaseFrame, WriteFrame, <1>1, <1>2, <1>3, <1>4 DEF bodyVars, vars

\* The merge's own contents through every step.
LEMMA MergedStep ==
  BaseInv /\ PassInv /\ Undisturbed /\ MergedBodiesKept /\ [Next]_vars => MergedBodiesKept'
<1> SUFFICES ASSUME BaseInv, PassInv, Undisturbed, MergedBodiesKept, [Next]_vars,
                    NEW m \in Merges, merging'[m] \in {"checked", "inserted"}, NEW h \in PeerBodies[m]
             PROVE  h \in disk'
  BY DEF MergedBodiesKept
<1> USE DEF BaseInv, TypeOK, MergeType
<1>1. h \in Hashes
  BY ShapeAssumption DEF ShapeAssumption
<1>2. CASE merging[m] \in {"checked", "inserted"}
  <2>1. mergeBodies[h] > 0
    BY <1>1, <1>2, MergeOwns
  <2>2. h \in disk /\ Owned(h) /\ ~UploadRefused
    BY <1>2, <2>1 DEF MergedBodiesKept, Owned, UploadRefused, Undisturbed
  <2> QED
    BY <2>2, WhatIsRemoved
<1>3. CASE merging[m] \notin {"checked", "inserted"}
  <2>1. PICK n \in Merges : \/ MergeStages(n) \/ MergeProtects(n) \/ MergeRenames(n) \/ MergeChecks(n)
                            \/ MergeInserts(n) \/ MergePublishes(n) \/ MergeReleases(n)
    BY <1>3, StepsOfStore, CaptureFrame, QueueFrame, ReleaseFrame, WriteFrame, UploadFrame, GCFrame
       DEF MergeStep, mergeVars, vars
  <2>2. MergeChecks(m)
    BY <1>3, <2>1 DEF MergeStages, MergeProtects, MergeRenames, MergeChecks, MergeInserts, MergePublishes,
       MergeReleases
  <2> QED
    BY <2>2 DEF MergeChecks, bodyVars
<1> QED
  BY <1>2, <1>3

\* From the check to the commit of a peer's flow all its bodies are there, whatever
\* a pass does meanwhile.
THEOREM MergesAreKept ==
  ASSUME Undisturbed
  PROVE  Spec => []MergedBodiesKept
<1>1. Init => MergedBodiesKept
  BY DEF Init, MergedBodiesKept
<1>2. BaseInv /\ PassInv /\ MergedBodiesKept /\ [Next]_vars => MergedBodiesKept'
  BY MergedStep
<1> QED
  BY BaseInit, BaseStep, PassInit, PassStep, <1>1, <1>2, PTL DEF Spec

\* A pass forgets nothing it has seen, until it is over.
LEMMA SeenGrows ==
  ASSUME BaseInv, PassInv, [Next]_vars
  PROVE  /\ gc' \in {"flows", "walk"} => gc \in {"begun", "flows", "walk"} /\ Seen \subseteq Seen'
         /\ gc' = "flows" => gc = "flows" \/ GCReadsFlows
         /\ gc' = "walk" => gc = "walk" \/ GCReadsFindings
<1> USE DEF BaseInv, TypeOK, GCType
<1>1. CASE ~GCStep
  <2>1. UNCHANGED gcVars /\ (gc # "idle" => Announced)
    BY <1>1, OthersAnnounce
  <2> QED
    BY <2>1 DEF gcVars, Announced, Seen
<1>2. CASE GCStep
  BY <1>2 DEF GCStep, GCBegins, GCReadsFlows, GCReadsFindings, GCEnds, GCVisits, GCRemoves, Seen, bodyVars
<1> QED
  BY <1>1, <1>2

\* A hash comes to be owned with its file there, and never while an upload goes on.
LEMMA PendingGrows ==
  ASSUME BaseInv, [Next]_vars, NEW h \in Hashes, pendingBodies'[h] > 0
  PROVE  pendingBodies[h] > 0 \/ (h \in disk' /\ CaptureStep /\ Unlocked)
<1> USE DEF BaseInv, TypeOK, BodyType
<1>1. CASE CaptureStep
  <2>1. Captured \subseteq Hashes
    BY ShapeAssumption DEF ShapeAssumption
  <2>2. UNCHANGED bodyVars \/ \E g \in Hashes : Finalize(g)
    BY <1>1, <2>1 DEF CaptureStep, HoldEdited, CaptureBody, MissBody
  <2> QED
    BY <1>1, <2>2 DEF Finalize, bodyVars
<1>2. CASE ReleaseStep
  <2>1. pendingBodies'[h] <= pendingBodies[h] /\ pendingBodies'[h] \in Nat
    BY <1>2, ReleaseValue, ReleasedValue
  <2> QED
    BY <2>1
<1>3. CASE MergeStep
  BY <1>3 DEF MergeStep, MergeStages, MergeProtects, MergeRenames, MergeChecks, MergeInserts, MergePublishes,
     MergeReleases, bodyVars
<1> QED
  BY StepsOfStore, QueueFrame, WriteFrame, UploadFrame, GCFrame, <1>1, <1>2, <1>3 DEF bodyVars, vars

\* The hashes that writes bring to a row are owned.
LEMMA BroughtOwned ==
  ASSUME TypeOK, BalanceInv, EditedInv, OwnContents, NEW ws \in Seq(Told), InOrder(ws), Apply(ws),
         InsertsOf(ws) \subseteq Early, UpdatesOf(ws) \subseteq InQueues, NEW r \in Rows, NEW h \in rows'[r] \ rows[r]
  PROVE  h \in Hashes /\ pendingBodies[h] > 0
<1>1. live' = live \cup InsertsOf(ws) /\ r \in live'
  BY ApplyRow
<1>2. PICK w \in Told : /\ w.flow = r /\ rows'[r] = Referenced(w)
                        /\ w.kind = "update" => r \in UpdatesOf(ws)
  BY ApplyRow
<1>3. /\ r \in Flows /\ h # NoHash /\ w.hashes[1] = original[r] /\ (h = w.hashes[1] \/ h = w.hashes[2])
      /\ w.hashes[2] = NoHash \/ (w.kind = "update" /\ w.hashes[2] = body[r] /\ stage[r] = "recorded")
  BY <1>2 DEF Told, Writes, Referenced
<1>4. CASE h = original[r]
  <2>1. r \in Edited /\ r \notin live
    BY <1>3, <1>4 DEF BalanceInv, CarryInv, Carried, EditedInv, OriginalInRow
  <2>2. r \in Early
    BY <1>1, <2>1
  <2> QED
    BY <1>3, <1>4, <2>1, <2>2, OriginalOut
<1>5. CASE h = body[r] /\ w.kind = "update"
  <2>1. h \in Hashes /\ r \in Owners(h)
    BY <1>2, <1>3, <1>5 DEF TypeOK, CaptureType, Optional, Owners
  <2> QED
    BY <1>3, <1>5, <2>1, OutstandingOwned DEF EditedInv
<1> QED
  BY <1>3, <1>4, <1>5

\* A row gets only hashes that are owned, or those of a merge that has found them.
LEMMA RowsGain ==
  ASSUME BaseInv, BalanceInv, EditedInv, OwnContents, \A r \in Rows : r \notin live => rows[r] = {}, [Next]_vars,
         NEW r \in Rows
  PROVE  /\ \A h \in rows'[r] : \/ h \in rows[r]
                                \/ WriteStep /\ h \in Hashes /\ pendingBodies[h] > 0
                                \/ \E m \in Merges : MergeInserts(m) /\ h \in PeerBodies[m]
         /\ r \notin live' => rows'[r] = {}
<1> USE DEF BaseInv, TypeOK, RowType
<1>1. ASSUME NEW ws \in Seq(Told), InOrder(ws), Apply(ws),
             InsertsOf(ws) \subseteq InsertsOf(chunk), UpdatesOf(ws) \subseteq UpdatesOf(chunk)
      PROVE  /\ \A h \in rows'[r] : h \in rows[r] \/ (h \in Hashes /\ pendingBodies[h] > 0)
             /\ r \notin live' => rows'[r] = {}
  <2>1. InsertsOf(ws) \subseteq Early /\ UpdatesOf(ws) \subseteq InQueues
    BY <1>1 DEF Early, InQueues
  <2>2. \A h \in rows'[r] \ rows[r] : h \in Hashes /\ pendingBodies[h] > 0
    BY <1>1, <2>1, BroughtOwned
  <2>3. r \notin live' => rows'[r] = {}
    BY <1>1, ApplyRow
  <2> QED
    BY <2>2, <2>3
<1>2. CASE UNCHANGED rowVars
  BY <1>2 DEF rowVars
<1>3. CASE CommitChunk \/ ReplayWrite
  <2>1. WriteStep
    BY <1>3 DEF WriteStep
  <2> QED
    BY <1>1, <1>2, <1>3, <2>1, LandedWrites DEF BalanceInv, EditedInv
<1>4. ASSUME NEW f \in Flows, ImportRow(f)
      PROVE  /\ \A h \in rows'[r] : h \in rows[r] \/ (WriteStep /\ h \in Hashes /\ pendingBodies[h] > 0)
             /\ r \notin live' => rows'[r] = {}
  <2>1. WriteStep /\ stage[f] = "answered"
    BY <1>4 DEF WriteStep, ImportRow
  <2>2. ASSUME NEW h \in {body[f]} \ {NoHash} PROVE h \in Hashes /\ pendingBodies[h] > 0
    <3>1. h \in Hashes
      BY DEF CaptureType, Optional
    <3>2. f \in Owners(h)
      BY <2>1, <2>2 DEF Owners
    <3> QED
      BY <2>2, <3>1, <3>2, OutstandingOwned DEF EditedInv
  <2>3. \/ live' = live \cup {f} /\ rows' = [rows EXCEPT ![f] = {body[f]} \ {NoHash}]
        \/ UNCHANGED rowVars
    BY <1>4 DEF ImportRow
  <2> QED
    BY <2>1, <2>2, <2>3 DEF rowVars
<1>5. ASSUME NEW q \in Rows, DeleteSynced(q) \/ DeleteCommits(q)
      PROVE  rows'[r] \subseteq rows[r] /\ (r \notin live' => rows'[r] = {})
  BY <1>5 DEF DeleteSynced, DeleteCommits, rowVars
<1>6. ASSUME NEW m \in Merges, MergeInserts(m)
      PROVE  /\ \A h \in rows'[r] : h \in rows[r] \/ h \in PeerBodies[m]
             /\ r \notin live' => rows'[r] = {}
  BY <1>6 DEF MergeInserts, rowVars
<1>7. MergeStep => UNCHANGED rowVars \/ \E m \in Merges : MergeInserts(m)
  BY DEF MergeStep, MergeStages, MergeProtects, MergeRenames, MergeChecks, MergePublishes, MergeReleases
<1> QED
  BY StepsOfStore, CaptureFrame, QueueFrame, ReleaseFrame, UploadFrame, GCFrame,
     <1>2, <1>3, <1>4, <1>5, <1>6, <1>7 DEF WriteStep, vars

\* What is owned has its file; rows and images resolve, and a pass has seen them
\* from the moment it read them; an upload that may take its file away again is
\* the only one to know that file.
OwnedThere  == \A h \in Hashes : pendingBodies[h] > 0 => h \in disk
RowsThere   == \A r \in Rows : rows[r] \subseteq disk /\ (r \notin live => rows[r] = {})
ImagesThere == images \subseteq disk
RowsSeen    == gc \in {"flows", "walk"} => \A r \in Rows : rows[r] \subseteq Seen
ImagesSeen  == gc = "walk" => images \subseteq Seen
UploadThere == bodyMu = "stored" => upload.hash \in disk /\ (gc # "idle" => upload.hash \in bodyGCClaimed)
UploadFresh ==
  bodyMu # "free" /\ ~upload.existed /\ Rejects =>
    /\ pendingBodies[upload.hash] = 0 /\ upload.hash \notin images
    /\ \A r \in Rows : upload.hash \notin rows[r]
SafeInv ==
  /\ OwnedThere /\ RowsThere /\ ImagesThere /\ RowsSeen /\ ImagesSeen
  /\ UploadThere /\ UploadFresh /\ MergedBodiesKept

KnownInv == BaseInv /\ PassInv /\ BalanceInv /\ EditedInv /\ SafeInv

\* Only an upload changes the images, and only the one it has stored.
LEMMA ImagesGain ==
  ASSUME [Next]_vars
  PROVE  UNCHANGED images \/ (UploadAttaches /\ images' = images \cup {upload.hash})
BY StepsOfStore, CaptureFrame, QueueFrame, ReleaseFrame, WriteFrame, MergeFrame, GCFrame
   DEF UploadStep, UploadBegins, UploadStores, UploadAttaches, UploadRefused, uploadVars, vars

\* What is owned, in a row or in an image stays on disk.
LEMMA KnownStays ==
  ASSUME KnownInv, [Next]_vars, NEW h \in disk,
         pendingBodies[h] > 0 \/ h \in images \/ \E r \in Rows : h \in rows[r]
  PROVE  h \in disk'
<1> USE DEF KnownInv, SafeInv
<1> SUFFICES ASSUME h \notin disk' PROVE FALSE
  OBVIOUS
<1>1. CASE UploadRefused /\ ~upload.existed /\ h = upload.hash
  <2>1. Rejects /\ bodyMu # "free"
    BY <1>1 DEF UploadRefused
  <2>2. pendingBodies[h] = 0 /\ h \notin images /\ \A r \in Rows : h \notin rows[r]
    BY <1>1, <2>1 DEF UploadFresh
  <2> QED
    BY <2>2
<1>2. CASE gc = "walk" /\ ~Owned(h) /\ h \notin Seen
  BY <1>2 DEF RowsSeen, ImagesSeen, Owned
<1> QED
  BY <1>1, <1>2, WhatIsRemoved

LEMMA OwnedThereStep == KnownInv /\ [Next]_vars => OwnedThere'
BY PendingGrows, KnownStays DEF KnownInv, SafeInv, OwnedThere

LEMMA RowsThereStep == KnownInv /\ OwnContents /\ [Next]_vars => RowsThere'
<1> SUFFICES ASSUME KnownInv, OwnContents, [Next]_vars, NEW r \in Rows
             PROVE  rows'[r] \subseteq disk' /\ (r \notin live' => rows'[r] = {})
  BY DEF RowsThere
<1> USE DEF KnownInv, SafeInv
<1>1. \A q \in Rows : q \notin live => rows[q] = {}
  BY DEF RowsThere
<1>2. r \notin live' => rows'[r] = {}
  BY <1>1, RowsGain
<1>3. ASSUME NEW h \in rows'[r] PROVE h \in disk'
  <2>1. CASE h \in rows[r]
    BY <2>1, KnownStays DEF RowsThere
  <2>2. CASE h \in Hashes /\ pendingBodies[h] > 0
    BY <2>2, KnownStays DEF OwnedThere
  <2>3. ASSUME NEW m \in Merges, MergeInserts(m), h \in PeerBodies[m] PROVE h \in disk'
    <3>1. PeerBodies[m] \subseteq disk /\ UNCHANGED disk
      BY <2>3 DEF MergeInserts, MergedBodiesKept, bodyVars
    <3> QED
      BY <2>3, <3>1
  <2> QED
    BY <1>1, <1>3, <2>1, <2>2, <2>3, RowsGain
<1> QED
  BY <1>2, <1>3

LEMMA ImagesThereStep == KnownInv /\ [Next]_vars => ImagesThere'
<1> SUFFICES ASSUME KnownInv, [Next]_vars, NEW h \in images' PROVE h \in disk'
  BY DEF ImagesThere
<1> USE DEF KnownInv, SafeInv
<1>1. CASE h \in images
  BY <1>1, KnownStays DEF ImagesThere
<1>2. CASE UploadAttaches /\ h = upload.hash
  BY <1>2 DEF UploadAttaches, UploadThere, bodyVars
<1> QED
  BY <1>1, <1>2, ImagesGain

LEMMA RowsSeenStep == KnownInv /\ OwnContents /\ [Next]_vars => RowsSeen'
<1> SUFFICES ASSUME KnownInv, OwnContents, [Next]_vars, gc' \in {"flows", "walk"}, NEW r \in Rows
             PROVE  rows'[r] \subseteq Seen'
  BY DEF RowsSeen
<1> USE DEF KnownInv, SafeInv
<1>1. gc # "idle" /\ Seen \subseteq Seen'
  BY SeenGrows
<1>2. CASE gc \in {"flows", "walk"}
  <2> SUFFICES ASSUME NEW h \in rows'[r] PROVE h \in Seen
    BY <1>1
  <2>1. CASE h \in rows[r]
    BY <1>2, <2>1 DEF RowsSeen
  <2>2. CASE h \in Hashes /\ pendingBodies[h] > 0
    BY <1>1, <2>2 DEF PassInv, OwnersSeen, Owned
  <2>3. ASSUME NEW m \in Merges, MergeInserts(m), h \in PeerBodies[m] PROVE h \in Seen
    <3>1. h \in Hashes /\ merging[m] = "checked"
      BY <2>3, ShapeAssumption DEF MergeInserts, ShapeAssumption
    <3>2. mergeBodies[h] > 0
      BY <2>3, <3>1, MergeOwns DEF BaseInv
    <3> QED
      BY <1>1, <3>1, <3>2 DEF PassInv, OwnersSeen, Owned
  <2> QED
    BY <2>1, <2>2, <2>3, RowsGain DEF RowsThere
<1>3. CASE gc \notin {"flows", "walk"}
  <2>1. GCReadsFlows
    BY <1>3, SeenGrows DEF GCReadsFindings
  <2>2. referenced' = referenced \cup UNION {rows[q] : q \in live} /\ UNCHANGED rows
    BY <2>1 DEF GCReadsFlows, rowVars
  <2> QED
    BY <2>2 DEF Seen, RowsThere
<1> QED
  BY <1>2, <1>3

LEMMA ImagesSeenStep == KnownInv /\ [Next]_vars => ImagesSeen'
<1> SUFFICES ASSUME KnownInv, [Next]_vars, gc' = "walk", NEW h \in images' PROVE h \in Seen'
  BY DEF ImagesSeen
<1> USE DEF KnownInv, SafeInv
<1>1. Seen \subseteq Seen'
  BY SeenGrows
<1>2. CASE GCReadsFindings
  BY <1>2 DEF GCReadsFindings, Seen, uploadVars
<1>3. CASE gc = "walk"
  <2>1. CASE h \in images
    BY <1>1, <1>3, <2>1 DEF ImagesSeen
  <2>2. CASE UploadAttaches /\ h = upload.hash
    BY <1>1, <1>3, <2>2 DEF UploadAttaches, UploadThere, Seen
  <2> QED
    BY <2>1, <2>2, ImagesGain
<1> QED
  BY <1>2, <1>3, SeenGrows

LEMMA UploadThereStep == KnownInv /\ [Next]_vars => UploadThere'
<1> SUFFICES ASSUME KnownInv, [Next]_vars PROVE UploadThere'
  OBVIOUS
<1> USE DEF KnownInv, SafeInv, UploadThere
<1>1. CASE UploadStores
  BY <1>1 DEF UploadStores, Claim, gcVars
<1>2. CASE UploadStep /\ ~UploadStores
  BY <1>2 DEF UploadStep, UploadBegins, UploadAttaches, UploadRefused
<1>3. CASE UNCHANGED uploadVars
  <2> SUFFICES ASSUME bodyMu = "stored"
               PROVE  upload.hash \in disk' /\ (gc' # "idle" => upload.hash \in bodyGCClaimed')
    BY <1>3 DEF uploadVars
  <2>0. upload.hash \in disk /\ (gc # "idle" => upload.hash \in bodyGCClaimed)
    OBVIOUS
  <2>1. upload.hash \in disk'
    <3>1. ~\E g \in Hashes : GCRemoves(g)
      BY DEF GCRemoves, Unlocked
    <3>2. ~UploadRefused
      BY <1>3 DEF UploadRefused, uploadVars
    <3> QED
      BY <3>1, <3>2, WhatIsRemoved
  <2>2. CASE GCStep
    <3>1. UNCHANGED bodyGCClaimed /\ (gc' # "idle" => gc # "idle")
      BY <2>2 DEF GCStep, GCBegins, GCReadsFlows, GCReadsFindings, GCEnds, GCVisits, GCRemoves, Unlocked, bodyVars
    <3> QED
      BY ONLY <2>0, <2>1, <3>1
  <2>3. CASE ~GCStep
    <3>1. UNCHANGED gcVars /\ (gc # "idle" => Announced)
      BY <2>3, OthersAnnounce
    <3> QED
      BY <2>0, <2>1, <3>1 DEF gcVars, Announced
  <2> QED
    BY <2>1, <2>2, <2>3, <1>3 DEF uploadVars
<1> QED
  BY StepsOfStore, CaptureFrame, QueueFrame, ReleaseFrame, WriteFrame, MergeFrame, GCFrame, <1>1, <1>2, <1>3
     DEF vars

LEMMA UploadFreshStep == KnownInv /\ OwnContents /\ Undisturbed /\ [Next]_vars => UploadFresh'
<1> SUFFICES ASSUME KnownInv, OwnContents, Undisturbed, [Next]_vars, bodyMu' # "free", ~upload'.existed, Rejects
             PROVE  /\ pendingBodies'[upload'.hash] = 0 /\ upload'.hash \notin images'
                    /\ \A r \in Rows : upload'.hash \notin rows'[r]
  BY DEF UploadFresh
<1> USE DEF KnownInv, SafeInv, BaseInv, TypeOK
<1>1. ASSUME NEW h \in Hashes, UploadBegins(h)
      PROVE  /\ pendingBodies'[h] = 0 /\ h \notin images' /\ \A r \in Rows : h \notin rows'[r]
             /\ upload'.hash = h
  <2>1. upload' = [hash |-> h, existed |-> h \in disk] /\ UNCHANGED <<pendingBodies, images, rows>>
    BY <1>1 DEF UploadBegins, bodyVars, rowVars
  <2>2. h \notin disk
    BY <2>1
  <2>3. pendingBodies[h] = 0
    BY <2>2 DEF OwnedThere, BodyType
  <2> QED
    BY <2>1, <2>2, <2>3 DEF RowsThere, ImagesThere
<1>2. CASE \A h \in Hashes : ~UploadBegins(h)
  <2>1. bodyMu # "free" /\ UNCHANGED upload
    BY <1>2, StepsOfStore, CaptureFrame, QueueFrame, ReleaseFrame, WriteFrame, MergeFrame, GCFrame
       DEF UploadStep, UploadStores, UploadAttaches, UploadRefused, uploadVars, vars
  <2>2. upload.hash \in Hashes
    BY <2>1 DEF UploadNamed
  <2>3. pendingBodies[upload.hash] = 0 /\ upload.hash \notin images /\ \A r \in Rows : upload.hash \notin rows[r]
    BY <2>1 DEF UploadFresh
  <2>4. pendingBodies'[upload.hash] = 0
    <3>1. ~(pendingBodies'[upload.hash] > 0)
      BY <2>1, <2>2, <2>3, PendingGrows DEF Unlocked
    <3>2. pendingBodies'[upload.hash] \in Nat
      BY <2>2, BodyTypeStep DEF BodyType
    <3> QED
      BY <3>1, <3>2
  <2>5. upload.hash \notin images'
    BY <2>3, ImagesGain DEF UploadAttaches
  <2>6. \A r \in Rows : upload.hash \notin rows'[r]
    BY <2>3, RowsGain DEF Undisturbed, RowsThere
  <2> QED
    BY <2>1, <2>4, <2>5, <2>6
<1> QED
  BY <1>1, <1>2

LEMMA SafeInit == Init => SafeInv
BY DEF Init, SafeInv, OwnedThere, RowsThere, ImagesThere, RowsSeen, ImagesSeen, UploadThere, UploadFresh,
   MergedBodiesKept

LEMMA SafeStep == KnownInv /\ OwnContents /\ Undisturbed /\ [Next]_vars => SafeInv'
BY OwnedThereStep, RowsThereStep, ImagesThereStep, RowsSeenStep, ImagesSeenStep, UploadThereStep,
   UploadFreshStep, MergedStep DEF KnownInv, SafeInv

\* The invariants that the others are relative to, put together.
LEMMA KnownAlways ==
  ASSUME Undisturbed
  PROVE  Spec /\ []Parted => []KnownInv
<1>1. Init => KnownInv
  BY BaseInit, PassInit, BalanceInit, EditedInit, SafeInit DEF KnownInv
<1>2. KnownInv /\ Parted /\ [Next]_vars => KnownInv'
  BY BaseStep, PassStep, BalanceStep, EditedStep, SafeStep DEF KnownInv, BalanceInv, Parted
<1> QED
  BY <1>1, <1>2, PTL DEF Spec

\* The conditions hold by themselves when no request is edited and merges bring other
\* contents than capture does.
LEMMA UneditedParted ==
  ASSUME Edited = {}, Foreign
  PROVE  Spec => []Parted
<1>1. Spec => []MergeTakesNothing
  BY ForeignNeverTakes
<1>2. MergeTakesNothing => Parted
  BY DEF OwnContents, NoneOvertaken, Parted
<1> QED
  BY <1>1, <1>2, PTL

\* When no refused upload meets a merge, and as long as edited requests have contents
\* of their own and are not overtaken and merges take no ownership, a committed row and
\* an image of a finding always find their files: a pass never removes a file that is
\* still referenced.
THEOREM ReferencesAreKept ==
  ASSUME Undisturbed
  PROVE  Spec /\ []Parted => []ReferencesResolve
<1>1. KnownInv => ReferencesResolve
  BY DEF KnownInv, SafeInv, RowsThere, ImagesThere, ReferencesResolve, BaseInv, TypeOK, RowType
<1>2. Spec /\ []Parted => []KnownInv
  BY KnownAlways
<1> QED
  BY <1>1, <1>2, PTL

\* Under the same conditions a captured body is there from its capture until its
\* write has been applied and released, through drops, failed chunks and replays.
THEOREM CapturesAreKept ==
  ASSUME Undisturbed
  PROVE  Spec /\ []Parted => []CapturedBodyKept
<1>1. KnownInv /\ OwnContents => CapturedBodyKept
  <2> SUFFICES ASSUME KnownInv, OwnContents, NEW f \in Flows, OutstandingBody(f) PROVE body[f] \in disk
    BY DEF CapturedBodyKept
  <2> USE DEF KnownInv
  <2>1. body[f] \in Hashes
    BY DEF OutstandingBody, BaseInv, TypeOK, CaptureType, Optional
  <2>2. f \in Owners(body[f])
    BY <2>1, OwnersAreOutstanding
  <2>3. pendingBodies[body[f]] > 0
    BY <2>1, <2>2, OutstandingOwned DEF BaseInv, EditedInv
  <2> QED
    BY <2>1, <2>3 DEF SafeInv, OwnedThere
<1>2. Parted => OwnContents
  BY DEF Parted
<1>3. Spec /\ []Parted => []KnownInv
  BY KnownAlways
<1> QED
  BY <1>1, <1>2, <1>3, PTL

\* So is the body of an edited request as the client sent it, from the moment it is
\* stored until the insert that names it has landed and been released, although the
\* update releases it once more.
THEOREM OriginalsAreKept ==
  ASSUME Undisturbed
  PROVE  Spec /\ []Parted => []OriginalBodyKept
<1>1. KnownInv => OriginalBodyKept
  <2> SUFFICES ASSUME KnownInv, NEW f \in Edited, original[f] # NoHash,
                      \/ stage[f] = "held"
                      \/ \E q \in {queue, chunk} : \E i \in DOMAIN q : q[i].flow = f /\ q[i].kind = "insert"
               PROVE  original[f] \in disk
    BY DEF OriginalBodyKept
  <2> USE DEF KnownInv
  <2>1. stage[f] = "held" \/ f \in Early
    BY DEF Early, InsertsOf
  <2>2. original[f] \in Hashes /\ pendingBodies[original[f]] > 0
    BY <2>1, OriginalOut DEF BaseInv
  <2> QED
    BY <2>2 DEF SafeInv, OwnedThere
<1>2. Spec /\ []Parted => []KnownInv
  BY KnownAlways
<1> QED
  BY <1>1, <1>2, PTL

\* When no request is edited and merges bring other contents than capture does, rows,
\* images and captured bodies keep their files with no condition on the behaviour.
THEOREM UneditedAreKept ==
  ASSUME Edited = {}, Foreign, Undisturbed
  PROVE  Spec => [](ReferencesResolve /\ CapturedBodyKept)
<1>1. Spec => []Parted
  BY UneditedParted
<1>2. Spec /\ []Parted => []ReferencesResolve
  BY ReferencesAreKept
<1>3. Spec /\ []Parted => []CapturedBodyKept
  BY CapturesAreKept
<1> QED
  BY <1>1, <1>2, <1>3, PTL

================================================================================
