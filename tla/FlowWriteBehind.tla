-------------------------- MODULE FlowWriteBehind --------------------------
(***************************************************************************)
(* The write-behind queue of captured flows (internal/store/writebehind.go):*)
(* the proxy enqueues inserts, updates and tag unions without waiting; one  *)
(* flusher goroutine applies them to SQLite in chunks; readers and deletions *)
(* wait for it; Close drains it, or gives up on it.                         *)
(*                                                                         *)
(* A write is its number n (the order of acceptance), its kind and its flow.*)
(* A flow's row is the number of the insert or update it shows, and the     *)
(* numbers of the tag writes that reached it.                              *)
(***************************************************************************)
EXTENDS Naturals, Sequences, FiniteSets

CONSTANTS BufCap,    \* flowBufCap: queued writes beyond which the oldest is dropped
          BatchMax,  \* flowBatchMax: writes per SQLite transaction
          PassMax,   \* drain passes of one unbounded drainUntilIdle
          WaitMax,   \* flushes of one waitFlow
          MaxFlows,  \* bound: flow ids
          MaxWrites, \* bound: enqueue calls that get past the closed check
          Bad,       \* numbers of the writes SQLite refuses whatever happens
          Clients    \* goroutines that read or delete flows

ASSUME BoundsAssumption ==
  /\ BufCap \in Nat \ {0} /\ BatchMax \in Nat \ {0}
  /\ PassMax \in Nat \ {0} /\ WaitMax \in Nat \ {0}
  /\ MaxFlows \in Nat /\ MaxWrites \in Nat
  /\ Bad \subseteq 1..MaxWrites

VARIABLES
  \* the queue, guarded by flowMu
  nextFlowID, pending, pendingN, void, inFlight, closed, dropped, wake,
  \* commands to the flusher: the lock callers hold, the channel, the answer, and
  \* whether that is an error
  cmdMu, opCh, answered, erred,
  giveUp,
  \* the flusher: where it is, the command it serves, its batch
  pc, cmd, pass, chunk, rest,
  \* SQLite
  dbOpen, rowVer, rowTags,
  \* Close, and the clients
  closer, client,
  \* history: writes accepted, the fate of each, flows deleted while capture was open
  accepted, fate, deleted

queueVars   == <<nextFlowID, pending, pendingN, void, inFlight, closed, dropped, wake>>
cmdVars     == <<cmdMu, opCh, answered, erred>>
flusherVars == <<pc, cmd, pass, chunk, rest>>
dbVars      == <<dbOpen, rowVer, rowTags>>
clientVars  == <<closer, client>>
histVars    == <<accepted, fate, deleted>>
vars == <<queueVars, cmdVars, giveUp, flusherVars, dbVars, clientVars, histVars>>

Flows == 1..MaxFlows
Kinds == {"insert", "update", "tags"}
Write == [n : 1..MaxWrites, kind : Kinds, id : Flows]
Commands == {"none", "flush", "close"}
Nobody == "nobody"
Closer == "closer"

\* Who waits for whom is told apart: no client goroutine is the closer, or nobody.
ASSUME ClientsAssumption == Nobody \notin Clients /\ Closer \notin Clients

Settled == {"committed", "skipped", "failed", "dropped"}
Fates == {"none", "queued"} \cup Settled
ClientState == [at : {"idle", "check", "lock", "wait", "act"}, want : {"read", "delete"},
                id : 0..MaxFlows, seen : 0..MaxWrites, tries : Nat]
Idle == [at |-> "idle", want |-> "read", id |-> 0, seen |-> 0, tries |-> 0]

-----------------------------------------------------------------------------
\* Bookkeeping helpers

Members(s) == {s[i] : i \in DOMAIN s}
CountOf(s, f) == Cardinality({i \in DOMAIN s : s[i].id = f})
Less(a, b) == IF a > b THEN a - b ELSE 0

\* Fault: once for every flow of s.
FinishPendingOnce(s) == [f \in Flows |-> IF CountOf(s, f) > 0 THEN Less(pendingN[f], 1) ELSE pendingN[f]]

\* finishFlowPendingLocked, once for every write of s
FinishPending(s) == [f \in Flows |-> Less(pendingN[f], CountOf(s, f))]

\* completeOp / completeOps: retire s; a void mark goes with the last write of its flow
Complete(s) ==
  /\ pendingN' = FinishPending(s)
  /\ void' = void \ {w.id : w \in {x \in Members(s) : pendingN'[x.id] = 0}}

SetFate(ws, what) ==
  fate' = [n \in 1..MaxWrites |-> IF \E w \in ws : w.n = n THEN what ELSE fate[n]]

\* The flows that dropping ws makes void: those whose insert is among them
Inserts(ws) == {w.id : w \in {x \in ws : x.kind = "insert"}}

\* Fault: a whole run of writes counts once.
CountDroppedOnce(s) == dropped' = IF s = <<>> THEN dropped ELSE dropped + 1

\* abandonOps: every write of s is counted as dropped
CountDropped(s) == dropped' = dropped + Len(s)

\* abandonPending: the whole queue is discarded, and counted
AbandonPending ==
  /\ pending' = <<>>
  /\ inFlight' = FALSE
  /\ pendingN' = FinishPending(pending)
  /\ void' = void \cup Inserts(Members(pending))
  /\ CountDropped(pending)
  /\ SetFate(Members(pending), "dropped")

\* Faults: only the queue is looked at, not what the flusher took from it.
QueueNotEmpty == pending # <<>>
QueuedID(f) == \E w \in Members(pending) : w.id = f

\* flowsBusy and flowBusyID
FlowsBusy == pending # <<>> \/ inFlight \/ \E f \in Flows : pendingN[f] > 0
BusyID(f) == pendingN[f] > 0

-----------------------------------------------------------------------------
Init ==
  /\ nextFlowID = 0 /\ pending = <<>> /\ pendingN = [f \in Flows |-> 0]
  /\ void = {} /\ inFlight = FALSE /\ closed = FALSE /\ dropped = 0 /\ wake = FALSE
  /\ cmdMu = Nobody /\ opCh = "none" /\ answered = FALSE /\ erred = FALSE
  /\ giveUp = FALSE
  /\ pc = "select" /\ cmd = "none" /\ pass = 0 /\ chunk = <<>> /\ rest = <<>>
  /\ dbOpen = TRUE /\ rowVer = [f \in Flows |-> 0] /\ rowTags = [f \in Flows |-> {}]
  /\ closer = "open"
  /\ client = [c \in Clients |-> Idle]
  /\ accepted = 0 /\ fate = [n \in 1..MaxWrites |-> "none"] /\ deleted = {}

-----------------------------------------------------------------------------
\* Enqueueing: one flowMu section

WakeWhenIdle == wake' = (wake \/ ~inFlight)

Full == Len(pending) >= BufCap

\* The oldest queued write, the one to drop, is of flow f
Drops(f) == Full /\ Head(pending).id = f

\* wakeFlowLocked: the channel holds one token
WakeFlow == wake' = TRUE

\* dropOldestFlowLocked, the append, bumpFlowPendingLocked, wakeFlowLocked
Append1(w) ==
  LET kept == IF Full THEN Tail(pending) ELSE pending
  IN  /\ pending' = Append(kept, w)
      /\ pendingN' = [f \in Flows |-> Less(pendingN[f], IF Drops(f) THEN 1 ELSE 0)
                                     + (IF f = w.id THEN 1 ELSE 0)]
      /\ void' = IF Full THEN void \cup Inserts({Head(pending)}) ELSE void
      /\ dropped' = IF Full THEN dropped + 1 ELSE dropped
      /\ WakeFlow
      /\ accepted' = w.n
      /\ fate' = [n \in 1..MaxWrites |->
                    IF n = w.n THEN "queued"
                    ELSE IF Full /\ n = Head(pending).n THEN "dropped" ELSE fate[n]]

EnqueueInsertFlow ==
  /\ ~closed /\ accepted < MaxWrites /\ nextFlowID < MaxFlows
  /\ nextFlowID' = nextFlowID + 1
  /\ Append1([n |-> accepted + 1, kind |-> "insert", id |-> nextFlowID + 1])
  /\ UNCHANGED <<inFlight, closed, cmdVars, giveUp, flusherVars, dbVars, clientVars, deleted>>

\* EnqueueUpdateFlow and EnqueueAddFlowTags: discarded at once when the flow's
\* insert was dropped and nothing of the flow is queued.
EnqueueMore(kind, f) ==
  /\ ~closed /\ accepted < MaxWrites
  /\ IF f \in void /\ pendingN[f] = 0
       THEN /\ accepted' = accepted + 1
            /\ fate' = [fate EXCEPT ![accepted + 1] = "skipped"]
            /\ UNCHANGED <<pending, pendingN, void, dropped, wake>>
       ELSE Append1([n |-> accepted + 1, kind |-> kind, id |-> f])
  /\ UNCHANGED <<nextFlowID, inFlight, closed, cmdVars, giveUp, flusherVars, dbVars,
                 clientVars, deleted>>

EnqueueUpdateFlow  == \E f \in 1..nextFlowID : EnqueueMore("update", f)
EnqueueAddFlowTags == \E f \in 1..nextFlowID : EnqueueMore("tags", f)

-----------------------------------------------------------------------------
\* The flusher goroutine

\* flowFlusher's select: a wake-up, or a command
Woken ==
  /\ pc = "select" /\ wake
  /\ wake' = FALSE /\ cmd' = "none" /\ pass' = 0 /\ pc' = "drain"
  /\ UNCHANGED <<nextFlowID, pending, pendingN, void, inFlight, closed, dropped, cmdVars,
                 giveUp, chunk, rest, dbVars, clientVars, histVars>>

Commanded ==
  /\ pc = "select" /\ opCh # "none"
  /\ opCh' = "none" /\ cmd' = opCh /\ pass' = 0 /\ pc' = "drain" /\ erred' = FALSE
  /\ UNCHANGED <<queueVars, cmdMu, answered, giveUp, chunk, rest, dbVars, clientVars, histVars>>

\* Faults: the close command does not end the loop; only it is answered.
DrainReturnsToSelect ==
  /\ answered' = (answered \/ cmd # "none")
  /\ pc' = "select" /\ cmd' = "none" /\ pass' = 0
DrainReturnsSilently ==
  /\ answered' = (answered \/ cmd = "close")
  /\ pc' = IF cmd = "close" THEN "exit" ELSE "select"
  /\ cmd' = "none" /\ pass' = 0

\* drainUntilIdle is over: answer the command, and exit when it was a close
DrainReturns ==
  /\ answered' = (answered \/ cmd # "none")
  /\ pc' = IF cmd = "close" THEN "exit" ELSE "select"
  /\ cmd' = "none" /\ pass' = 0

\* The drain that serves a command met an error; drainUntilIdle returns the first one.
Errs == erred' = (erred \/ cmd # "none")

\* drainUntilIdle gives up: told to, or (serving a close) past the deadline
DrainAbandons ==
  /\ pc = "drain" /\ (giveUp \/ cmd = "close")
  /\ AbandonPending
  /\ DrainReturns /\ Errs
  /\ UNCHANGED <<nextFlowID, closed, wake, cmdMu, opCh, giveUp, chunk, rest, dbVars,
                 clientVars, accepted, deleted>>

DrainIdle ==
  /\ pc = "drain" /\ ~giveUp /\ pending = <<>>
  /\ DrainReturns
  /\ UNCHANGED <<queueVars, cmdMu, opCh, erred, giveUp, chunk, rest, dbVars, clientVars, histVars>>

\* drainOnce takes the whole queue as its batch
TakeBatch ==
  /\ pc = "drain" /\ ~giveUp /\ pending # <<>>
  /\ rest' = pending /\ pending' = <<>> /\ inFlight' = TRUE
  /\ pc' = "chunk"
  /\ UNCHANGED <<nextFlowID, pendingN, void, closed, dropped, wake, cmdVars, giveUp, cmd, pass,
                 chunk, dbVars, clientVars, histVars>>

\* Fault: the newest writes of the batch go first.
SplitFromTail ==
  LET size == IF Len(rest) > BatchMax THEN BatchMax ELSE Len(rest)
  IN  /\ chunk' = SubSeq(rest, Len(rest) - size + 1, Len(rest))
      /\ rest' = SubSeq(rest, 1, Len(rest) - size)

SplitBatch ==
  LET size == IF Len(rest) > BatchMax THEN BatchMax ELSE Len(rest)
  IN  /\ chunk' = SubSeq(rest, 1, size)
      /\ rest' = SubSeq(rest, size + 1, Len(rest))

NextChunk ==
  /\ pc = "chunk" /\ rest # <<>> /\ ~giveUp
  /\ SplitBatch
  /\ pc' = "tx"
  /\ UNCHANGED <<queueVars, cmdVars, giveUp, cmd, pass, dbVars, clientVars, histVars>>

\* abandonOps on the rest of the batch: counted, the pending counts stay
AbandonRest ==
  /\ pc = "chunk" /\ rest # <<>> /\ giveUp
  /\ CountDropped(rest)
  /\ SetFate(Members(rest), "dropped")
  /\ rest' = <<>>
  /\ UNCHANGED <<nextFlowID, pending, pendingN, void, inFlight, closed, wake, cmdVars, giveUp,
                 pc, cmd, pass, chunk, dbVars, clientVars, accepted, deleted>>

\* drainOnce is over: another pass of drainUntilIdle, or its pass cap
BatchDone ==
  /\ pc = "chunk" /\ rest = <<>>
  /\ inFlight' = FALSE
  /\ IF cmd # "close" /\ pass + 1 >= PassMax
       THEN DrainReturns
       ELSE /\ pass' = (IF cmd = "close" THEN 0 ELSE pass + 1) /\ pc' = "drain"
            /\ UNCHANGED <<cmd, answered>>
  /\ UNCHANGED <<nextFlowID, pending, pendingN, void, closed, dropped, wake, cmdMu, opCh, erred,
                 giveUp, chunk, rest, dbVars, clientVars, histVars>>

\* The writes of a chunk that find a row: their flow is not void, and it has a
\* row or the chunk inserts it before them.
Landing(s) ==
  {i \in DOMAIN s : /\ s[i].id \notin void
                    /\ \/ rowVer[s[i].id] > 0
                       \/ \E j \in 1..i : s[j].id = s[i].id /\ s[j].kind = "insert"}

\* The row of f after the landing writes ran in order: the last one's content,
\* and the union of the tags.
ShowsLast(s, f, v) ==
  LET content == {i \in Landing(s) : s[i].id = f /\ s[i].kind # "tags"}
  IN  IF content = {} THEN v = rowVer[f]
      ELSE \E i \in content : v = s[i].n /\ \A j \in content : j <= i

RowsAfter(s) ==
  /\ rowVer' \in [Flows -> 0..MaxWrites]
  /\ \A f \in Flows : ShowsLast(s, f, rowVer'[f])
  /\ rowTags' = [f \in Flows |-> rowTags[f] \cup
       {s[i].n : i \in {j \in Landing(s) : s[j].id = f /\ s[j].kind = "tags"}}]

\* applyFlowBatchTx commits the whole chunk ...
TxCommit ==
  /\ pc = "tx" /\ dbOpen
  /\ \A i \in Landing(chunk) : chunk[i].n \notin Bad
  /\ RowsAfter(chunk)
  /\ fate' = [n \in 1..MaxWrites |->
                IF \E i \in DOMAIN chunk : chunk[i].n = n
                  THEN IF \E i \in Landing(chunk) : chunk[i].n = n THEN "committed" ELSE "skipped"
                  ELSE fate[n]]
  /\ pc' = "complete"
  /\ UNCHANGED <<queueVars, cmdVars, giveUp, cmd, pass, chunk, rest, dbOpen, clientVars,
                 accepted, deleted>>

\* Fault: a failed chunk is not replayed.
TxFailLosesChunk ==
  /\ pc = "tx" /\ pc' = "complete"
  /\ SetFate(Members(chunk), "failed")
  /\ UNCHANGED <<queueVars, cmdVars, giveUp, cmd, pass, chunk, rest, dbVars, clientVars,
                 accepted, deleted>>
\* ... or fails (begin, one of its writes, or commit) and has written nothing
TxFail ==
  /\ pc = "tx" /\ pc' = "replay"
  /\ UNCHANGED <<queueVars, cmdVars, giveUp, cmd, pass, chunk, rest, dbVars, clientVars, histVars>>

\* completeOps, after the commit
CompleteChunk ==
  /\ pc = "complete"
  /\ Complete(chunk)
  /\ chunk' = <<>> /\ pc' = "chunk"
  /\ UNCHANGED <<nextFlowID, pending, inFlight, closed, dropped, wake, cmdVars, giveUp, cmd, pass,
                 rest, dbVars, clientVars, histVars>>

\* applyFlowOpsOneByOne: the head of the chunk in a transaction of its own; what
\* becomes of tags is logged only.
ReplayOne ==
  /\ pc = "replay" /\ chunk # <<>> /\ ~giveUp
  /\ LET w == Head(chunk)
         one == <<w>>
         skips == w.id \in void \/ (dbOpen /\ Landing(one) = {})
         ok == dbOpen /\ w.n \notin Bad
     IN  /\ IF ~skips /\ ok THEN RowsAfter(one) ELSE UNCHANGED <<rowVer, rowTags>>
         /\ SetFate({w}, IF skips THEN "skipped" ELSE IF ok THEN "committed" ELSE "failed")
         /\ IF skips \/ ok \/ w.kind = "tags" THEN UNCHANGED erred ELSE Errs
  /\ pc' = "completeOne"
  /\ UNCHANGED <<queueVars, cmdMu, opCh, answered, giveUp, cmd, pass, chunk, rest, dbOpen, clientVars,
                 accepted, deleted>>

CompleteOne ==
  /\ pc = "completeOne"
  /\ Complete(<<Head(chunk)>>)
  /\ chunk' = Tail(chunk) /\ pc' = "replay"
  /\ UNCHANGED <<nextFlowID, pending, inFlight, closed, dropped, wake, cmdVars, giveUp, cmd, pass,
                 rest, dbVars, clientVars, histVars>>

\* The replay is over, or told to give up on what is left of the chunk
ReplayDone ==
  /\ pc = "replay" /\ (chunk = <<>> \/ giveUp)
  /\ CountDropped(chunk)
  /\ SetFate(Members(chunk), "dropped")
  /\ chunk' = <<>> /\ pc' = "chunk"
  /\ UNCHANGED <<nextFlowID, pending, pendingN, void, inFlight, closed, wake, cmdVars, giveUp,
                 cmd, pass, rest, dbVars, clientVars, accepted, deleted>>

Flusher ==
  \/ Woken \/ Commanded \/ DrainAbandons \/ DrainIdle \/ TakeBatch \/ NextChunk \/ AbandonRest
  \/ BatchDone \/ TxCommit \/ TxFail \/ CompleteChunk \/ ReplayOne \/ CompleteOne \/ ReplayDone

-----------------------------------------------------------------------------
\* Clients: GetFlow (waitFlow, then the read) and DeleteFlows (syncFlows, then
\* the delete). `seen` is the last write accepted when the call began.

ClientBegins(c) ==
  /\ client[c].at = "idle"
  /\ \E want \in {"read", "delete"}, f \in 1..nextFlowID :
       client' = [client EXCEPT ![c] = [at |-> "check", want |-> want, id |-> f,
                                        seen |-> accepted, tries |-> 0]]
  /\ UNCHANGED <<queueVars, cmdVars, giveUp, flusherVars, dbVars, closer, histVars>>

\* waitFlow looks at the flow's count, up to WaitMax times; syncFlows looks at
\* the whole queue, once.
MustFlush(k) == IF k.want = "read" THEN BusyID(k.id) /\ k.tries < WaitMax
                                   ELSE FlowsBusy /\ k.tries = 0

ClientChecks(c) ==
  /\ client[c].at = "check"
  /\ \/ MustFlush(client[c]) /\ client' = [client EXCEPT ![c].at = "lock"]
     \/ ~MustFlush(client[c]) /\ client' = [client EXCEPT ![c].at = "act"]
  /\ UNCHANGED <<queueVars, cmdVars, giveUp, flusherVars, dbVars, closer, histVars>>

\* FlushFlows: refused when closed, otherwise its command is sent
ClientLocks(c) ==
  /\ client[c].at = "lock" /\ cmdMu = Nobody
  /\ IF closed
       THEN /\ client' = [client EXCEPT ![c].at = "act"]
            /\ UNCHANGED <<cmdMu, opCh>>
       ELSE /\ client' = [client EXCEPT ![c].at = "wait"]
            /\ cmdMu' = c /\ opCh' = "flush"
  /\ UNCHANGED <<queueVars, answered, erred, giveUp, flusherVars, dbVars, closer, histVars>>

\* waitFlow looks again, but not after an error.
ClientFlushed(c) ==
  /\ client[c].at = "wait" /\ answered
  /\ answered' = FALSE /\ cmdMu' = Nobody
  /\ client' = [client EXCEPT ![c].at = IF erred THEN "act" ELSE "check", ![c].tries = @ + 1]
  /\ UNCHANGED <<queueVars, opCh, erred, giveUp, flusherVars, dbVars, closer, histVars>>

ClientActs(c) ==
  /\ client[c].at = "act"
  /\ IF client[c].want = "delete" /\ dbOpen
       THEN /\ rowVer' = [rowVer EXCEPT ![client[c].id] = 0]
            /\ rowTags' = [rowTags EXCEPT ![client[c].id] = {}]
            /\ deleted' = IF closed THEN deleted ELSE deleted \cup {client[c].id}
       ELSE UNCHANGED <<rowVer, rowTags, deleted>>
  /\ client' = [client EXCEPT ![c] = Idle]
  /\ UNCHANGED <<queueVars, cmdVars, giveUp, flusherVars, dbOpen, closer, accepted, fate>>

ClientStep(c) == ClientChecks(c) \/ ClientLocks(c) \/ ClientFlushed(c) \/ ClientActs(c)

-----------------------------------------------------------------------------
\* Close: shutdownFlows, then db.Close

CloseBegins ==
  /\ closer = "open" /\ cmdMu = Nobody
  /\ cmdMu' = Closer /\ closed' = TRUE /\ opCh' = "close" /\ closer' = "draining"
  /\ UNCHANGED <<nextFlowID, pending, pendingN, void, inFlight, dropped, wake, answered, erred, giveUp,
                 flusherVars, dbVars, client, histVars>>

CloseDrained ==
  /\ closer = "draining" /\ answered /\ pc = "exit"
  /\ answered' = FALSE /\ cmdMu' = Nobody /\ closer' = "drained"
  /\ UNCHANGED <<queueVars, opCh, erred, giveUp, flusherVars, dbVars, client, histVars>>

\* flowDrainTimeout: give up, then discard the queue
CloseTimesOut ==
  /\ closer = "draining"
  /\ giveUp' = TRUE /\ closer' = "givingUp"
  /\ UNCHANGED <<queueVars, cmdVars, flusherVars, dbVars, client, histVars>>

CloseAbandons ==
  /\ closer = "givingUp"
  /\ AbandonPending
  /\ cmdMu' = Nobody /\ closer' = "gaveUp"
  /\ UNCHANGED <<nextFlowID, closed, wake, opCh, answered, erred, giveUp, flusherVars, dbVars, client,
                 accepted, deleted>>

CloseDatabase ==
  /\ closer \in {"drained", "gaveUp"}
  /\ dbOpen' = FALSE /\ closer' = "closed"
  /\ UNCHANGED <<queueVars, cmdVars, giveUp, flusherVars, rowVer, rowTags, client, histVars>>

CloseStep == CloseDrained \/ CloseAbandons \/ CloseDatabase

-----------------------------------------------------------------------------
Next ==
  \/ EnqueueInsertFlow \/ EnqueueUpdateFlow \/ EnqueueAddFlowTags
  \/ Flusher
  \/ \E c \in Clients : ClientBegins(c) \/ ClientStep(c)
  \/ CloseBegins \/ CloseTimesOut \/ CloseStep

Spec == Init /\ [][Next]_vars

\* The goroutines keep running: the flusher, a call that has begun, and Close
\* once it has begun. flowCmdMu is a sync.Mutex, whose starvation mode hands
\* the lock to every waiter in turn.
Fairness ==
  /\ WF_vars(Flusher)
  /\ \A c \in Clients : /\ WF_vars(ClientChecks(c) \/ ClientFlushed(c) \/ ClientActs(c))
                        /\ SF_vars(ClientLocks(c))
  /\ WF_vars(CloseStep)

FairSpec == Spec /\ Fairness

-----------------------------------------------------------------------------
\* Properties

\* The domains of the variables, group by group
QueueType ==
  /\ nextFlowID \in 0..MaxFlows /\ pending \in Seq(Write) /\ pendingN \in [Flows -> Nat]
  /\ void \subseteq Flows /\ dropped \in Nat
  /\ inFlight \in BOOLEAN /\ closed \in BOOLEAN /\ wake \in BOOLEAN
ControlType ==
  /\ cmdMu \in Clients \cup {Nobody, Closer} /\ opCh \in Commands /\ answered \in BOOLEAN
  /\ erred \in BOOLEAN
  /\ giveUp \in BOOLEAN /\ cmd \in Commands /\ pass \in Nat
  /\ pc \in {"select", "drain", "chunk", "tx", "complete", "replay", "completeOne", "exit"}
  /\ closer \in {"open", "draining", "givingUp", "drained", "gaveUp", "closed"}
BatchType == chunk \in Seq(Write) /\ rest \in Seq(Write)
RowsType ==
  /\ dbOpen \in BOOLEAN
  /\ rowVer \in [Flows -> 0..MaxWrites] /\ rowTags \in [Flows -> SUBSET (1..MaxWrites)]
HistoryType ==
  accepted \in 0..MaxWrites /\ fate \in [1..MaxWrites -> Fates] /\ deleted \subseteq Flows

\* Every variable stays in its domain (the whole state of the store's write
\* queue, internal/store/store.go Store).
TypeOK ==
  QueueType /\ ControlType /\ BatchType /\ RowsType /\ HistoryType
    /\ client \in [Clients -> ClientState]

\* A queued write always has a wake-up on its way: when the flusher goes back
\* to its select (also after the pass cap left writes behind), the queue is
\* empty or wakeFlowLocked's token is there.
NoLostWakeup == pc = "select" /\ pending # <<>> => wake

\* Until shutdown gives up, the busy count of a flow is exactly the number of its
\* writes the queue or the flusher still holds. So a reader that finds the flow
\* idle (flowBusyID) finds its row, and no count is leaked that would keep
\* readers waiting: every bump has its finishFlowPendingLocked.
BusyIsExact ==
  ~giveUp => \A f \in Flows : pendingN[f] = CountOf(chunk \o rest \o pending, f)

\* waitFlow and syncFlows wait long enough: when the call goes on to SQLite and
\* the store is open, every write of the flow accepted before the call began
\* has been applied or is known to be lost.
ReadsSeeCapture ==
  \A c \in Clients : client[c].at = "act" /\ ~closed =>
    \A w \in Members(chunk \o rest \o pending) :
      w.id = client[c].id /\ w.n <= client[c].seen => fate[w.n] # "queued"

\* A flow deleted through DeleteFlows never comes back through a write that was
\* still queued when it was deleted.
DeletedStaysDeleted == \A f \in deleted : rowVer[f] = 0 /\ rowTags[f] = {}

\* FlowsDropped counts exactly the writes lost to the full buffer and to shutdown.
DroppedIsExact == dropped = Cardinality({n \in 1..MaxWrites : fate[n] = "dropped"})

\* What the database shows is what was told of each write: a row and its tags come
\* from committed writes only, a flow whose insert was dropped (flowVoid) has
\* neither, and "every good write still lands, the bad one fails alone": a write is
\* only ever refused for itself, or because the database is closed.
RowsMatchFates ==
  /\ \A f \in Flows :
       /\ rowVer[f] > 0 => fate[rowVer[f]] = "committed"
       /\ \A n \in rowTags[f] : fate[n] = "committed" /\ rowVer[f] > 0
  /\ \A f \in void : rowVer[f] = 0 /\ rowTags[f] = {}
  /\ dbOpen => \A n \in 1..MaxWrites : fate[n] = "failed" => n \in Bad

\* Every accepted write is eventually applied or known to be lost.
EveryWriteSettles ==
  \A n \in 1..MaxWrites : fate[n] = "queued" ~> fate[n] \in Settled

\* A read or a delete that has begun comes to its end.
CallsReturn == \A c \in Clients : client[c].at # "idle" ~> client[c].at = "idle"

\* Close ends, and so does the flusher.
CloseTerminates == closer # "open" ~> (closer = "closed" /\ pc = "exit")

\* The queue keeps the promise of FlowCapture.
Promise == INSTANCE FlowCapture WITH
  waiting <- {w \in Members(chunk \o rest \o pending) : fate[w.n] = "queued"}
PromiseSpec == Promise!Spec
=============================================================================
