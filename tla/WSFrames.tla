-------------------------------- MODULE WSFrames --------------------------------
(***************************************************************************)
(* Captured WebSocket frames on their way to the database                   *)
(* (internal/store/wsframes.go): SaveWSFrame queues a frame and drops the   *)
(* oldest when the queue is full; one flusher writes the queue when it is   *)
(* long, when a timer fires or when it is asked to, and trims the flows it  *)
(* wrote to.  Frames whose transaction fails are gone.                      *)
(***************************************************************************)
EXTENDS Naturals, Sequences, FiniteSets, Functions

CONSTANTS
  Flows,         \* upgraded connections whose frames are captured
  Callers,       \* goroutines that flush, delete or close
  BufCap,        \* wsFrameBufCap
  BatchSize,     \* wsFrameBatchSize
  PerFlow,       \* wsFramesPerFlow
  MaxFrames,     \* bound: frames saved
  MaxCalls       \* bound: calls per caller

ASSUME FramesAssumption ==
  /\ BufCap \in Nat \ {0} /\ BatchSize \in 1..BufCap /\ PerFlow \in Nat \ {0}
  /\ MaxFrames \in Nat /\ MaxCalls \in Nat /\ Flows # {}

VARIABLES
  pending,   \* wsPending
  batch,     \* what the flusher has taken
  rows,      \* ws_frames: rows with their id, the frame's number and its flow
  lastId,    \* the last id of ws_frames (AUTOINCREMENT: none is given twice)
  inserted,  \* wsInserted: rows since the last trim
  dirty,     \* wsDirty: flows written to since the last trim
  dropped,   \* wsDropped
  closed, wake, armed,
  flusher,   \* where the flusher is
  serving,   \* the caller whose request it is serving
  cmdMu,     \* who holds wsCmdMu
  call,      \* what each caller is doing, and how many frames were saved before
  calls,
  saved,     \* frames saved so far: a frame is its number and its flow
  lost,      \* history: frames of failed transactions
  gone       \* history: frames of this flow up to this number were deleted

queueVars == <<pending, wake, dropped, saved>>
tableVars == <<rows, lastId, inserted, dirty, lost, gone>>
callVars == <<cmdMu, call, calls, closed>>
flusherVars == <<batch, flusher, serving, armed>>
vars == <<queueVars, tableVars, callVars, flusherVars>>

Frames == [n : 1..MaxFrames, flow : Flows]
Idle == [at |-> "idle", what |-> "none", flow |-> CHOOSE f \in Flows : TRUE, upto |-> 0]
OfFlow(f) == {x \in rows : x.flow = f}
Line == batch \o pending
InQueue == Range(Line)

Init ==
  /\ pending = <<>> /\ batch = <<>> /\ rows = {} /\ lastId = 0
  /\ inserted = 0 /\ dirty = {} /\ dropped = 0 /\ saved = 0
  /\ lost = 0 /\ gone = [f \in Flows |-> 0]
  /\ closed = FALSE /\ wake = FALSE /\ armed = FALSE
  /\ flusher = "look" /\ serving = {} /\ cmdMu = {}
  /\ call = [c \in Callers |-> Idle] /\ calls = [c \in Callers |-> 0]

--------------------------------------------------------------------------------
\* SaveWSFrame, when there is room ...
Enqueue(f, queue) ==
  /\ ~closed /\ saved < MaxFrames
  /\ saved' = saved + 1
  /\ pending' = Append(queue, [n |-> saved', flow |-> f])
  /\ wake' = TRUE
  /\ UNCHANGED <<tableVars, callVars, flusherVars>>

SaveWSFrame(f) == Len(pending) < BufCap /\ Enqueue(f, pending) /\ UNCHANGED dropped

\* Fault: the frame that makes room is not counted.
SaveUncounted(f) == Len(pending) >= BufCap /\ Enqueue(f, Tail(pending)) /\ UNCHANGED dropped

\* ... and when there is none.
SaveDropping(f) ==
  /\ Len(pending) >= BufCap /\ Enqueue(f, Tail(pending))
  /\ dropped' = dropped + 1

--------------------------------------------------------------------------------
\* flushWSPending takes the whole queue.
Take(for) ==
  /\ batch' = pending /\ pending' = <<>>
  /\ flusher' = "write" /\ serving' = for
  /\ armed' = FALSE
  /\ UNCHANGED <<dropped, saved, tableVars, callVars>>

\* The loop looks at the length first: after a write it may be enough already.
LongEnough == flusher = "look" /\ Len(pending) >= BatchSize /\ Take({}) /\ UNCHANGED wake

NotLongEnough ==
  /\ flusher = "look" /\ Len(pending) < BatchSize
  /\ flusher' = "wait"
  /\ UNCHANGED <<queueVars, tableVars, callVars, batch, serving, armed>>

WokenLong ==
  /\ flusher = "wait" /\ wake /\ wake' = FALSE
  /\ Len(pending) >= BatchSize /\ Take({})

\* Fault: the timer is armed by the first frame ever only.
WokenOnce ==
  /\ flusher = "wait" /\ wake /\ wake' = FALSE
  /\ Len(pending) < BatchSize
  /\ armed' = (armed \/ (pending # <<>> /\ pending[1].n = 1))
  /\ flusher' = "look"
  /\ UNCHANGED <<pending, dropped, saved, tableVars, callVars, batch, serving>>

\* A short queue arms the timer.
Woken ==
  /\ flusher = "wait" /\ wake /\ wake' = FALSE
  /\ Len(pending) < BatchSize
  /\ armed' = (armed \/ pending # <<>>)
  /\ flusher' = "look"
  /\ UNCHANGED <<pending, dropped, saved, tableVars, callVars, batch, serving>>

TimerFires == flusher = "wait" /\ armed /\ Take({}) /\ UNCHANGED wake

Asked(c) == flusher = "wait" /\ call[c].at = "asked" /\ Take({c}) /\ UNCHANGED wake

\* The caller that is served gets the result, and the lock back.
Answers ==
  /\ call' = [c \in Callers |-> IF c \in serving THEN [call[c] EXCEPT !.at = "flushed"] ELSE call[c]]
  /\ cmdMu' = cmdMu \ serving
  /\ flusher' = IF \E c \in serving : call[c].what = "close" THEN "exit" ELSE "look"
  /\ batch' = <<>> /\ serving' = {}
  /\ UNCHANGED <<calls, closed, armed, queueVars>>

\* The newest PerFlow rows of each of these flows stay.
Trimmed(s, flows) ==
  {x \in s : x.flow \in flows =>
     Cardinality({y \in s : y.flow = x.flow /\ y.id > x.id}) < PerFlow}

\* The rows of a batch get the next ids, in its order.
Row(i) == [id |-> lastId + i, n |-> batch[i].n, flow |-> batch[i].flow]
Written == rows \cup {Row(i) : i \in DOMAIN batch}
Touched == dirty \cup {x.flow : x \in Range(batch)}

WriteBatch ==
  /\ flusher = "write" /\ inserted + Len(batch) < PerFlow
  /\ rows' = Written /\ lastId' = lastId + Len(batch)
  /\ inserted' = inserted + Len(batch) /\ dirty' = Touched
  /\ Answers
  /\ UNCHANGED <<lost, gone>>

\* Fault: the flows of this batch are not trimmed yet.
WriteForgetting ==
  /\ flusher = "write" /\ inserted + Len(batch) >= PerFlow
  /\ rows' = Trimmed(Written, dirty) /\ lastId' = lastId + Len(batch)
  /\ inserted' = 0 /\ dirty' = {}
  /\ Answers
  /\ UNCHANGED <<lost, gone>>

\* The transaction that brings the rows since the last trim to PerFlow trims.
WriteAndTrim ==
  /\ flusher = "write" /\ inserted + Len(batch) >= PerFlow
  /\ rows' = Trimmed(Written, Touched) /\ lastId' = lastId + Len(batch)
  /\ inserted' = 0 /\ dirty' = {}
  /\ Answers
  /\ UNCHANGED <<lost, gone>>

WriteFails ==
  /\ flusher = "write" /\ batch # <<>>
  /\ lost' = lost + Len(batch)
  /\ Answers
  /\ UNCHANGED <<rows, lastId, inserted, dirty, gone>>

--------------------------------------------------------------------------------
\* FlushWSFrames for its own sake or before DeleteFlows, and shutdownWS of Close.
Call(c, request) ==
  /\ call[c] = Idle /\ calls[c] < MaxCalls
  /\ calls' = [calls EXCEPT ![c] = @ + 1]
  /\ call' = [call EXCEPT ![c] = request]
  /\ UNCHANGED <<cmdMu, closed, queueVars, tableVars, flusherVars>>

Requests ==
  {[Idle EXCEPT !.at = "lock", !.what = w] : w \in {"flush", "close"}}
    \cup {[at |-> "lock", what |-> "delete", flow |-> f, upto |-> saved] : f \in Flows}

\* wsCmdMu: the request is made, and Close shuts SaveWSFrame out ...
Lock(c) ==
  /\ call[c].at = "lock" /\ cmdMu = {} /\ ~closed
  /\ cmdMu' = {c} /\ closed' = (call[c].what = "close")
  /\ call' = [call EXCEPT ![c].at = "asked"]
  /\ UNCHANGED <<calls, queueVars, tableVars, flusherVars>>

\* ... or the store is closed already: errWSFramesClosed, and wsStopOnce.
LockClosed(c) ==
  /\ call[c].at = "lock" /\ cmdMu = {} /\ closed
  /\ call' = [call EXCEPT ![c].at = "flushed"]
  /\ UNCHANGED <<cmdMu, calls, closed, queueVars, tableVars, flusherVars>>

\* Fault: frames are deleted as far as they are rows already.
DeleteFlowsAtOnce(c) ==
  LET f == call[c].flow IN
  /\ call[c].at \in {"lock", "flushed"} /\ call[c].what = "delete"
  /\ rows' = rows \ OfFlow(f)
  /\ gone' = [gone EXCEPT ![f] = IF @ < call[c].upto THEN call[c].upto ELSE @]
  /\ call' = [call EXCEPT ![c] = Idle]
  /\ UNCHANGED <<cmdMu, calls, closed, lastId, inserted, dirty, lost, queueVars, flusherVars>>

\* DeleteFlows, after its flush: its own transaction.
DeleteFlows(c) ==
  LET f == call[c].flow IN
  /\ call[c].at = "flushed" /\ call[c].what = "delete"
  /\ rows' = rows \ OfFlow(f)
  /\ gone' = [gone EXCEPT ![f] = IF @ < call[c].upto THEN call[c].upto ELSE @]
  /\ call' = [call EXCEPT ![c] = Idle]
  /\ UNCHANGED <<cmdMu, calls, closed, lastId, inserted, dirty, lost, queueVars, flusherVars>>

Return(c) ==
  /\ call[c].at = "flushed"  \* a delete that fails, too
  /\ call' = [call EXCEPT ![c] = Idle]
  /\ UNCHANGED <<cmdMu, calls, closed, queueVars, tableVars, flusherVars>>

--------------------------------------------------------------------------------
Flusher ==
  \/ LongEnough \/ NotLongEnough \/ WokenLong \/ Woken \/ TimerFires
  \/ (\E c \in Callers : Asked(c)) \/ WriteBatch \/ WriteAndTrim \/ WriteFails

CallStep(c) == Lock(c) \/ LockClosed(c) \/ DeleteFlows(c) \/ Return(c)

Next ==
  \/ \E f \in Flows : SaveWSFrame(f) \/ SaveDropping(f)
  \/ Flusher
  \/ \E c \in Callers : CallStep(c)
  \/ \E c \in Callers, request \in Requests : Call(c, request)

Spec == Init /\ [][Next]_vars

\* The flusher is a goroutine of its own and its timer fires; a caller that can go
\* on does, and a mutex that is free again and again is got in the end.
FairSpec ==
  /\ Spec
  /\ WF_vars(Flusher) /\ \A c \in Callers : SF_vars(CallStep(c))

--------------------------------------------------------------------------------
TypeOK ==
  /\ pending \in Seq(Frames) /\ Len(pending) <= BufCap
  /\ batch \in Seq(Frames)
  /\ rows \subseteq [id : 1..lastId, n : 1..MaxFrames, flow : Flows]
  /\ inserted \in 0..(PerFlow - 1) /\ dirty \subseteq Flows
  /\ {dropped, lost, lastId, saved} \subseteq 0..MaxFrames /\ gone \in [Flows -> 0..MaxFrames]
  /\ {closed, wake, armed} \subseteq BOOLEAN
  /\ flusher \in {"look", "wait", "write", "exit"}
  /\ serving \subseteq Callers /\ cmdMu \subseteq Callers
  /\ call \in [Callers -> [at : {"idle", "lock", "asked", "flushed"}, flow : Flows,
                           what : {"none", "flush", "delete", "close"}, upto : 0..MaxFrames]]

\* Every saved frame is still queued, became a row, was counted by WSFramesDropped, or
\* was in a transaction that failed: there is no other way out.  The rows, the batch and
\* the queue have the frames in the order in which they were saved, none twice,
\* whichever trigger writes them.
Accounted ==
  /\ saved = lastId + Len(Line) + dropped + lost
  /\ \A i, j \in DOMAIN Line : i < j => Line[i].n < Line[j].n
  /\ \A x \in rows, y \in InQueue : x.n < y.n
  /\ \A x, y \in rows : (x.id = y.id => x = y) /\ (x.id < y.id => x.n < y.n)

\* "so a long-lived WebSocket can't grow ws_frames without bound" (wsFramesPerFlow):
\* trimming once per PerFlow inserted rows of all flows keeps each below twice that.
Retained == \A f \in Flows : Cardinality(OfFlow(f)) < 2 * PerFlow

\* "Persist queued WebSocket frames first so the ws_frames delete below sees them":
\* no frame that was saved before its flow was deleted is left or comes back.
DeletedStayGone ==
  \A x \in rows \cup InQueue : x.n > gone[x.flow]

\* A saved frame does not stay in the queue, also when no other frame ever follows.
FramesSettle ==
  \A n \in 1..MaxFrames : (\E x \in InQueue : x.n = n) ~> ~\E x \in InQueue : x.n = n

================================================================================
