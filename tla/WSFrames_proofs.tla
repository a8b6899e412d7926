----------------------------- MODULE WSFrames_proofs -----------------------------
(***************************************************************************)
(* Theorems about the WebSocket frame queue, for any flows, callers, sizes  *)
(* of the buffer, of a batch and of what is kept of a flow, and any number  *)
(* of frames and calls.                                                     *)
(***************************************************************************)
EXTENDS WSFrames, FiniteSetTheorems, WellFoundedInduction, TLAPS

--------------------------------------------------------------------------------
(* Sets of rows *)

\* A set of numbers that is not empty has a least one.
LEMMA LeastOf ==
  ASSUME NEW S \in SUBSET Nat, S # {}
  PROVE  \E m \in S : \A k \in S : m <= k
<1>1. PICK m \in S : \A k \in S : ~ (<<k, m>> \in OpToRel(<, Nat))
  BY NatLessThanWellFounded, WFMin
<1>2. \A k \in S : <<k, m>> \in Nat \X Nat
  OBVIOUS
<1>3. \A k \in S : ~(k < m)
  BY <1>1, <1>2 DEF OpToRel
<1> QED
  BY <1>3

Above(T, x) == {y \in T : y.id > x.id}
Newest(T, k) == {x \in T : Cardinality(Above(T, x)) < k}

\* Of a finite set with distinct ids, at most k elements have fewer than k elements above them.
LEMMA NewestAreFew ==
  ASSUME NEW T, IsFiniteSet(T), NEW k \in Nat \ {0},
         \A x \in T : x.id \in Nat,
         \A x, y \in T : x.id = y.id => x = y
  PROVE  Cardinality(Newest(T, k)) <= k
<1> DEFINE K == Newest(T, k)
<1>1. IsFiniteSet(K) /\ Cardinality(K) \in Nat
  BY FS_Subset, FS_CardinalityType, K \in SUBSET T DEF Newest
<1>2. CASE K = {}
  BY <1>2, FS_EmptySet
<1>3. CASE K # {}
  <2>1. {x.id : x \in K} \in SUBSET Nat /\ {x.id : x \in K} # {}
    BY <1>3 DEF Newest
  <2>2. PICK i \in {x.id : x \in K} : \A j \in {x.id : x \in K} : i <= j
    BY <2>1, LeastOf
  <2>3. PICK m \in K : m.id = i
    OBVIOUS
  <2>4. \A x \in K : m.id <= x.id
    BY <2>2, <2>3 DEF Newest
  <2>5. \A x \in K \ {m} : x.id > m.id
    BY <2>4 DEF Newest
  <2>6. K \ {m} \in SUBSET Above(T, m) /\ Above(T, m) \in SUBSET T
    BY <2>5 DEF Newest, Above
  <2>7. IsFiniteSet(Above(T, m))
    BY <2>6, FS_Subset
  <2>8. Cardinality(K \ {m}) <= Cardinality(Above(T, m)) /\ Cardinality(Above(T, m)) \in Nat
    BY <2>6, <2>7, FS_Subset, FS_CardinalityType
  <2>9. Cardinality(K \ {m}) = Cardinality(K) - 1
    BY <1>1, <2>4, FS_RemoveElement
  <2>10. Cardinality(Above(T, m)) < k
    BY <2>4 DEF Newest
  <2> QED
    BY <1>1, <2>8, <2>9, <2>10
<1> QED
  BY <1>2, <1>3

--------------------------------------------------------------------------------
(* The inductive invariant *)

CallRecords ==
  [at : {"idle", "lock", "asked", "flushed"}, flow : Flows,
   what : {"none", "flush", "delete", "close"}, upto : 0..MaxFrames]

QueueTypes ==
  /\ pending \in Seq(Frames) /\ Len(pending) <= BufCap
  /\ batch \in Seq(Frames)
  /\ saved \in 0..MaxFrames /\ dropped \in Nat /\ lost \in Nat

RowTypes ==
  /\ lastId \in Nat /\ inserted \in 0..(PerFlow - 1) /\ dirty \subseteq Flows
  /\ IsFiniteSet(rows)
  /\ rows \subseteq [id : 1..lastId, n : 1..MaxFrames, flow : Flows]
  /\ gone \in [Flows -> 0..MaxFrames]

CallTypes ==
  /\ closed \in BOOLEAN /\ wake \in BOOLEAN /\ armed \in BOOLEAN
  /\ flusher \in {"look", "wait", "write", "exit"}
  /\ serving \subseteq Callers /\ cmdMu \subseteq Callers
  /\ call \in [Callers -> CallRecords]

\* The flusher holds frames, and serves a caller, only while it writes.
Resting == flusher # "write" => batch = <<>> /\ serving = {}

BaseInv == QueueTypes /\ RowTypes /\ CallTypes /\ Resting

--------------------------------------------------------------------------------
(* Types *)

LEMMA IdleType == Idle \in CallRecords /\ Idle.at = "idle" /\ Idle.what = "none" /\ Idle.upto = 0
<1>1. (CHOOSE f \in Flows : TRUE) \in Flows
  BY FramesAssumption DEF FramesAssumption
<1>2. 0 \in 0..MaxFrames
  BY FramesAssumption DEF FramesAssumption
<1> QED
  BY <1>1, <1>2 DEF Idle, CallRecords

\* What a caller may ask for is a record of a call.
LEMMA RequestType ==
  ASSUME saved \in 0..MaxFrames, NEW request \in Requests
  PROVE  request \in CallRecords /\ request.at = "lock" /\ request.upto <= saved
<1>1. ASSUME NEW w \in {"flush", "close"}, request = [Idle EXCEPT !.at = "lock", !.what = w]
      PROVE  request \in CallRecords /\ request.at = "lock" /\ request.upto <= saved
  <2>1. request.upto = 0 /\ request.at = "lock" /\ request \in CallRecords
    BY <1>1, IdleType DEF CallRecords
  <2> QED
    BY <2>1, FramesAssumption DEF FramesAssumption
<1>2. ASSUME NEW f \in Flows, request = [at |-> "lock", what |-> "delete", flow |-> f, upto |-> saved]
      PROVE  request \in CallRecords /\ request.at = "lock" /\ request.upto <= saved
  BY <1>2 DEF CallRecords
<1> QED
  BY <1>1, <1>2 DEF Requests

LEMMA BaseInit == Init => BaseInv
<1> SUFFICES ASSUME Init PROVE BaseInv
  OBVIOUS
<1>1. 0 \in 0..MaxFrames /\ 0 \in 0..(PerFlow - 1) /\ 0 <= BufCap
  BY FramesAssumption DEF FramesAssumption
<1>2. <<>> \in Seq(Frames) /\ Len(<<>>) = 0
  OBVIOUS
<1>3. QueueTypes
  BY <1>1, <1>2 DEF Init, QueueTypes
<1>4. RowTypes
  BY <1>1, FS_EmptySet DEF Init, RowTypes
<1>5. CallTypes
  BY IdleType DEF Init, CallTypes
<1> QED
  BY <1>3, <1>4, <1>5 DEF BaseInv, Resting, Init

LEMMA QueueTypesStep == BaseInv /\ [Next]_vars => QueueTypes'
<1> SUFFICES ASSUME BaseInv, [Next]_vars PROVE QueueTypes'
  OBVIOUS
<1> USE DEF BaseInv
<1>0. MaxFrames \in Nat /\ BufCap \in Nat /\ BufCap > 0
  BY FramesAssumption DEF FramesAssumption
<1>1. ASSUME NEW f \in Flows, NEW queue \in Seq(Frames), Enqueue(f, queue), Len(queue) < BufCap,
             dropped' \in Nat
      PROVE  QueueTypes'
  <2>1. saved' \in 0..MaxFrames /\ saved' \in 1..MaxFrames
    BY <1>0, <1>1 DEF Enqueue, QueueTypes
  <2>2. [n |-> saved', flow |-> f] \in Frames
    BY <2>1 DEF Frames
  <2>3. pending' \in Seq(Frames) /\ Len(pending') = Len(queue) + 1
    BY <1>1, <2>2 DEF Enqueue
  <2> QED
    BY <1>0, <1>1, <2>1, <2>3 DEF Enqueue, QueueTypes, flusherVars, tableVars
<1>2. ASSUME NEW f \in Flows, SaveWSFrame(f) PROVE QueueTypes'
  BY <1>1, <1>2 DEF SaveWSFrame, QueueTypes
<1>3. ASSUME NEW f \in Flows, SaveDropping(f) PROVE QueueTypes'
  <2>1. Len(pending) = BufCap /\ Len(pending) > 0
    BY <1>0, <1>3 DEF SaveDropping, QueueTypes
  <2>2. Tail(pending) \in Seq(Frames) /\ Len(Tail(pending)) = Len(pending) - 1
    BY <2>1 DEF QueueTypes
  <2>3. Len(Tail(pending)) < BufCap /\ dropped' \in Nat /\ Enqueue(f, Tail(pending))
    BY <1>0, <1>3, <2>1, <2>2 DEF SaveDropping, QueueTypes
  <2> QED
    BY <1>1, <2>2, <2>3
<1>4. ASSUME NEW for, Take(for) PROVE QueueTypes'
  <2>1. <<>> \in Seq(Frames) /\ Len(<<>>) = 0
    OBVIOUS
  <2>2. batch' = pending /\ pending' = <<>> /\ UNCHANGED <<saved, dropped, lost>>
    BY <1>4 DEF Take, tableVars
  <2>3. Len(pending') <= BufCap
    BY <1>0, <2>1, <2>2
  <2> QED
    BY <2>1, <2>2, <2>3 DEF QueueTypes
<1>5. ASSUME Answers, lost' \in Nat PROVE QueueTypes'
  <2>1. <<>> \in Seq(Frames)
    OBVIOUS
  <2> QED
    BY <1>5, <2>1 DEF Answers, QueueTypes, queueVars
<1>6. CASE Flusher
  <2>1. CASE LongEnough \/ WokenLong \/ TimerFires \/ \E c \in Callers : Asked(c)
    BY <1>4, <2>1 DEF LongEnough, WokenLong, TimerFires, Asked
  <2>2. CASE NotLongEnough \/ Woken
    BY <2>2 DEF NotLongEnough, Woken, QueueTypes, queueVars, tableVars
  <2>3. CASE WriteBatch \/ WriteAndTrim
    BY <1>5, <2>3 DEF WriteBatch, WriteAndTrim, QueueTypes
  <2>4. CASE WriteFails
    <3>1. lost' \in Nat
      BY <2>4 DEF WriteFails, QueueTypes
    <3> QED
      BY <1>5, <2>4, <3>1 DEF WriteFails
  <2> QED
    BY <1>6, <2>1, <2>2, <2>3, <2>4 DEF Flusher
<1>7. ASSUME UNCHANGED <<pending, batch, saved, dropped, lost>> PROVE QueueTypes'
  BY <1>7 DEF QueueTypes
<1>8. ASSUME NEW c \in Callers, CallStep(c) PROVE QueueTypes'
  BY <1>7, <1>8 DEF CallStep, Lock, LockClosed, DeleteFlows, Return, queueVars, tableVars, flusherVars
<1>9. ASSUME NEW c \in Callers, NEW request \in Requests, Call(c, request) PROVE QueueTypes'
  BY <1>7, <1>9 DEF Call, queueVars, tableVars, flusherVars
<1>10. CASE UNCHANGED vars
  BY <1>7, <1>10 DEF vars, queueVars, tableVars, flusherVars
<1> QED
  BY <1>2, <1>3, <1>6, <1>8, <1>9, <1>10 DEF Next

\* The rows of a batch are as many as its frames, at most, and are rows.
NewRows == {Row(i) : i \in DOMAIN batch}

\* A batch adds no more rows than it has frames ...
LEMMA NewRowsFinite ==
  ASSUME QueueTypes
  PROVE  IsFiniteSet(NewRows) /\ Cardinality(NewRows) \in Nat /\ Cardinality(NewRows) <= Len(batch)
<1> DEFINE g == [i \in 1..Len(batch) |-> Row(i)]
<1>1. Len(batch) \in Nat /\ DOMAIN batch = 1..Len(batch)
  BY DEF QueueTypes
<1>2. g \in Surjection(1..Len(batch), NewRows)
  BY <1>1 DEF NewRows, Surjection
<1>3. IsFiniteSet(1..Len(batch)) /\ Cardinality(1..Len(batch)) = Len(batch)
  <2>1. 1 \in Int /\ Len(batch) \in Int /\ (1 > Len(batch) => Len(batch) = 0)
    BY <1>1
  <2> QED
    BY <1>1, <2>1, FS_Interval
<1> QED
  BY <1>2, <1>3, FS_Surjection, FS_CardinalityType

\* ... and well typed, ...
LEMMA NewRowsAreRows ==
  ASSUME QueueTypes, RowTypes
  PROVE  NewRows \subseteq [id : (lastId + 1)..(lastId + Len(batch)), n : 1..MaxFrames, flow : Flows]
<1> SUFFICES ASSUME NEW i \in DOMAIN batch
             PROVE  Row(i) \in [id : (lastId + 1)..(lastId + Len(batch)), n : 1..MaxFrames, flow : Flows]
  BY DEF NewRows
<1>1. batch[i] \in Frames /\ i \in 1..Len(batch) /\ Len(batch) \in Nat
  BY DEF QueueTypes
<1>2. lastId + i \in (lastId + 1)..(lastId + Len(batch))
  BY <1>1 DEF RowTypes
<1>3. batch[i].n \in 1..MaxFrames /\ batch[i].flow \in Flows
  BY <1>1 DEF Frames
<1> QED
  BY <1>2, <1>3 DEF Row

\* ... and so is the table a transaction writes.
LEMMA WrittenTypes ==
  ASSUME QueueTypes, RowTypes
  PROVE  /\ IsFiniteSet(Written) /\ lastId + Len(batch) \in Nat
         /\ Written \subseteq [id : 1..(lastId + Len(batch)), n : 1..MaxFrames, flow : Flows]
<1>1. IsFiniteSet(Written)
  BY NewRowsFinite, FS_Union DEF Written, NewRows, RowTypes
<1>2. Len(batch) \in Nat /\ lastId \in Nat
  BY DEF QueueTypes, RowTypes
<1>3. 1..lastId \subseteq 1..(lastId + Len(batch))
  BY <1>2
<1>4. (lastId + 1)..(lastId + Len(batch)) \subseteq 1..(lastId + Len(batch))
  BY <1>2
<1>5. rows \subseteq [id : 1..(lastId + Len(batch)), n : 1..MaxFrames, flow : Flows]
  BY <1>3 DEF RowTypes
<1>6. NewRows \subseteq [id : 1..(lastId + Len(batch)), n : 1..MaxFrames, flow : Flows]
  BY <1>4, NewRowsAreRows
<1> QED
  BY <1>1, <1>2, <1>5, <1>6 DEF Written, NewRows

LEMMA TouchedType == ASSUME QueueTypes, RowTypes PROVE Touched \subseteq Flows
<1>1. ASSUME NEW i \in DOMAIN batch PROVE batch[i].flow \in Flows
  <2>1. batch[i] \in Frames
    BY DEF QueueTypes
  <2> QED
    BY <2>1 DEF Frames
<1> QED
  BY <1>1 DEF Touched, Range, RowTypes

LEMMA RowTypesStep == BaseInv /\ [Next]_vars => RowTypes'
<1> SUFFICES ASSUME BaseInv, [Next]_vars PROVE RowTypes'
  OBVIOUS
<1> USE DEF BaseInv
<1>0. MaxFrames \in Nat /\ PerFlow \in Nat /\ PerFlow > 0
  BY FramesAssumption DEF FramesAssumption
<1>1. ASSUME UNCHANGED tableVars PROVE RowTypes'
  BY <1>1 DEF RowTypes, tableVars
<1>2. CASE WriteBatch
  <2>1. rows' = Written /\ lastId' = lastId + Len(batch) /\ inserted' = inserted + Len(batch)
        /\ inserted + Len(batch) < PerFlow /\ dirty' = Touched /\ gone' = gone
    BY <1>2 DEF WriteBatch
  <2>2. inserted' \in 0..(PerFlow - 1)
    BY <1>0, <2>1 DEF RowTypes, QueueTypes
  <2> QED
    BY <2>1, <2>2, WrittenTypes, TouchedType DEF RowTypes
<1>3. CASE WriteAndTrim
  <2>1. rows' = Trimmed(Written, Touched) /\ lastId' = lastId + Len(batch) /\ inserted' = 0
        /\ dirty' = {} /\ gone' = gone
    BY <1>3 DEF WriteAndTrim
  <2>2. rows' \subseteq Written
    BY <2>1 DEF Trimmed
  <2>3. IsFiniteSet(rows')
    BY <2>2, WrittenTypes, FS_Subset
  <2>4. inserted' \in 0..(PerFlow - 1)
    BY <1>0, <2>1
  <2> QED
    BY <2>1, <2>2, <2>3, <2>4, WrittenTypes DEF RowTypes
<1>4. CASE WriteFails
  BY <1>4 DEF WriteFails, RowTypes
<1>5. ASSUME NEW c \in Callers, DeleteFlows(c) PROVE RowTypes'
  <2>1. rows' \subseteq rows /\ UNCHANGED <<lastId, inserted, dirty>>
    BY <1>5 DEF DeleteFlows
  <2>2. IsFiniteSet(rows')
    BY <2>1, FS_Subset DEF RowTypes
  <2>3. call[c].upto \in 0..MaxFrames
    BY DEF CallTypes, CallRecords
  <2>4. gone' \in [Flows -> 0..MaxFrames]
    BY <1>5, <2>3 DEF DeleteFlows, RowTypes
  <2> QED
    BY <2>1, <2>2, <2>4 DEF RowTypes
<1>6. CASE Flusher
  <2>1. CASE LongEnough \/ WokenLong \/ TimerFires \/ (\E c \in Callers : Asked(c)) \/ NotLongEnough \/ Woken
    BY <1>1, <2>1 DEF LongEnough, WokenLong, TimerFires, Asked, Take, NotLongEnough, Woken
  <2> QED
    BY <1>2, <1>3, <1>4, <1>6, <2>1 DEF Flusher
<1>7. ASSUME NEW f \in Flows, SaveWSFrame(f) \/ SaveDropping(f) PROVE RowTypes'
  BY <1>1, <1>7 DEF SaveWSFrame, SaveDropping, Enqueue
<1>8. ASSUME NEW c \in Callers, CallStep(c) PROVE RowTypes'
  BY <1>1, <1>5, <1>8 DEF CallStep, Lock, LockClosed, Return
<1>9. ASSUME NEW c \in Callers, NEW request \in Requests, Call(c, request) PROVE RowTypes'
  BY <1>1, <1>9 DEF Call
<1>10. CASE UNCHANGED vars
  BY <1>1, <1>10 DEF vars
<1> QED
  BY <1>6, <1>7, <1>8, <1>9, <1>10 DEF Next

\* A caller moves on.
LEMMA MovesOn ==
  ASSUME CallTypes, NEW c \in Callers, NEW at \in {"idle", "lock", "asked", "flushed"}
  PROVE  [call EXCEPT ![c].at = at] \in [Callers -> CallRecords]
BY DEF CallTypes, CallRecords

\* Answering the waiting callers.
LEMMA AnswersTypes ==
  ASSUME CallTypes, Answers
  PROVE  CallTypes'
<1>1. ASSUME NEW c \in Callers PROVE call'[c] \in CallRecords
  <2>1. call[c] \in CallRecords
    BY DEF CallTypes
  <2>2. [call[c] EXCEPT !.at = "flushed"] \in CallRecords
    BY <2>1 DEF CallRecords
  <2>3. call'[c] = [call[c] EXCEPT !.at = "flushed"] \/ call'[c] = call[c]
    BY DEF Answers
  <2> QED
    BY <2>1, <2>2, <2>3
<1>2. call' \in [Callers -> CallRecords]
  BY <1>1 DEF Answers
<1>3. flusher' \in {"exit", "look"} /\ serving' = {} /\ cmdMu' \subseteq cmdMu
      /\ UNCHANGED <<closed, wake, armed>>
  BY DEF Answers, queueVars
<1> QED
  BY <1>2, <1>3 DEF CallTypes

LEMMA CallTypesStep == BaseInv /\ [Next]_vars => CallTypes' /\ Resting'
<1> SUFFICES ASSUME BaseInv, [Next]_vars PROVE CallTypes' /\ Resting'
  OBVIOUS
<1> USE DEF BaseInv
<1>1. ASSUME UNCHANGED <<callVars, flusherVars>>, wake' \in BOOLEAN PROVE CallTypes' /\ Resting'
  BY <1>1 DEF CallTypes, Resting, callVars, flusherVars
<1>2. ASSUME NEW for \in SUBSET Callers, Take(for), wake' \in BOOLEAN PROVE CallTypes' /\ Resting'
  <2>1. flusher' = "write" /\ serving' = for /\ armed' = FALSE /\ UNCHANGED callVars
    BY <1>2 DEF Take
  <2> QED
    BY <1>2, <2>1 DEF CallTypes, Resting, callVars
<1>3. ASSUME Answers PROVE CallTypes' /\ Resting'
  <2>1. batch' = <<>> /\ serving' = {}
    BY <1>3 DEF Answers
  <2> QED
    BY <1>3, <2>1, AnswersTypes DEF Resting
<1>4. CASE Flusher
  <2>1. CASE LongEnough \/ TimerFires
    BY <1>2, <2>1 DEF LongEnough, TimerFires, CallTypes
  <2>2. CASE WokenLong
    BY <1>2, <2>2 DEF WokenLong
  <2>3. ASSUME NEW c \in Callers, Asked(c) PROVE CallTypes' /\ Resting'
    <3>1. {c} \in SUBSET Callers /\ Take({c}) /\ wake' \in BOOLEAN
      BY <2>3 DEF Asked, CallTypes
    <3> QED
      BY <1>2, <3>1
  <2>4. CASE NotLongEnough
    <3>1. flusher = "look" /\ flusher' = "wait" /\ UNCHANGED <<callVars, batch, serving, armed, wake>>
      BY <2>4 DEF NotLongEnough, queueVars
    <3> QED
      BY <3>1 DEF CallTypes, Resting, callVars
  <2>5. CASE Woken
    <3>1. flusher = "wait" /\ flusher' = "look" /\ UNCHANGED <<callVars, batch, serving>>
      BY <2>5 DEF Woken
    <3>2. wake' \in BOOLEAN /\ armed' \in BOOLEAN
      BY <2>5 DEF Woken, CallTypes
    <3> QED
      BY <3>1, <3>2 DEF CallTypes, Resting, callVars
  <2>6. CASE WriteBatch \/ WriteAndTrim \/ WriteFails
    BY <1>3, <2>6 DEF WriteBatch, WriteAndTrim, WriteFails
  <2> QED
    BY <1>4, <2>1, <2>2, <2>3, <2>4, <2>5, <2>6 DEF Flusher
<1>5. ASSUME NEW f \in Flows, SaveWSFrame(f) \/ SaveDropping(f) PROVE CallTypes' /\ Resting'
  BY <1>1, <1>5 DEF SaveWSFrame, SaveDropping, Enqueue
<1>6. ASSUME UNCHANGED <<flusherVars, wake>>, cmdMu' \subseteq Callers, closed' \in BOOLEAN,
             call' \in [Callers -> CallRecords]
      PROVE  CallTypes' /\ Resting'
  BY <1>6 DEF CallTypes, Resting, flusherVars
<1>7. ASSUME NEW c \in Callers, CallStep(c) PROVE CallTypes' /\ Resting'
  <2>1. call \in [Callers -> CallRecords] /\ Idle \in CallRecords
    BY IdleType DEF CallTypes
  <2>2. CASE Lock(c)
    <3>1. cmdMu' \subseteq Callers /\ closed' \in BOOLEAN /\ UNCHANGED <<flusherVars, wake>>
      BY <2>2 DEF Lock, queueVars
    <3>2. call' \in [Callers -> CallRecords]
      BY <2>2, MovesOn DEF Lock
    <3> QED
      BY <1>6, <3>1, <3>2
  <2>3. CASE LockClosed(c)
    <3>1. call' \in [Callers -> CallRecords]
      BY <2>3, MovesOn DEF LockClosed
    <3> QED
      BY <1>6, <2>3, <3>1 DEF LockClosed, queueVars, CallTypes
  <2>4. CASE DeleteFlows(c)
    <3>1. call' \in [Callers -> CallRecords]
      BY <2>1, <2>4 DEF DeleteFlows
    <3> QED
      BY <1>6, <2>4, <3>1 DEF DeleteFlows, queueVars, CallTypes
  <2>5. CASE Return(c)
    <3>1. call' \in [Callers -> CallRecords]
      BY <2>1, <2>5 DEF Return
    <3> QED
      BY <1>6, <2>5, <3>1 DEF Return, queueVars, CallTypes
  <2> QED
    BY <1>7, <2>2, <2>3, <2>4, <2>5 DEF CallStep
<1>8. ASSUME NEW c \in Callers, NEW request \in Requests, Call(c, request) PROVE CallTypes' /\ Resting'
  <2>1. request \in CallRecords
    BY RequestType DEF QueueTypes
  <2>2. call' \in [Callers -> CallRecords]
    BY <1>8, <2>1 DEF Call, CallTypes
  <2> QED
    BY <1>6, <1>8, <2>2 DEF Call, queueVars, CallTypes
<1>9. CASE UNCHANGED vars
  BY <1>1, <1>9 DEF vars, queueVars, CallTypes
<1> QED
  BY <1>4, <1>5, <1>7, <1>8, <1>9 DEF Next

LEMMA BaseStep == BaseInv /\ [Next]_vars => BaseInv'
BY QueueTypesStep, RowTypesStep, CallTypesStep DEF BaseInv

--------------------------------------------------------------------------------
(* The order of the frames *)

Ascending(s) == \A i, j \in DOMAIN s : i < j => s[i].n < s[j].n
SavedSoFar(s) == \A i \in DOMAIN s : s[i].n <= saved
Precede(s, t) == \A i \in DOMAIN s, j \in DOMAIN t : s[i].n < t[j].n
RowsPrecede(s) == \A x \in rows, i \in DOMAIN s : x.n < s[i].n
RowsAscend(set) == \A x, y \in set : (x.id = y.id => x = y) /\ (x.id < y.id => x.n < y.n)

\* Rows, batch and queue have the frames in the order in which they were saved.
OrderInv ==
  /\ Ascending(batch) /\ Ascending(pending) /\ Precede(batch, pending)
  /\ SavedSoFar(batch) /\ SavedSoFar(pending)
  /\ RowsPrecede(batch) /\ RowsPrecede(pending) /\ RowsAscend(rows)
  /\ \A x \in rows : x.n <= saved

\* What holds of every frame of a queue holds of every frame of its tail.
LEMMA TailElements ==
  ASSUME NEW s \in Seq(Frames), Len(s) > 0
  PROVE  /\ DOMAIN Tail(s) = 1..(Len(s) - 1)
         /\ \A i \in DOMAIN Tail(s) : i + 1 \in DOMAIN s /\ Tail(s)[i] = s[i + 1]
OBVIOUS

\* The elements of a sequence with one appended.
LEMMA AppendElements ==
  ASSUME NEW s \in Seq(Frames), NEW x \in Frames
  PROVE  /\ DOMAIN Append(s, x) = 1..(Len(s) + 1) /\ DOMAIN s = 1..Len(s) /\ Len(s) \in Nat
         /\ \A i \in DOMAIN s : Append(s, x)[i] = s[i]
         /\ Append(s, x)[Len(s) + 1] = x
OBVIOUS

\* What may become of the queue before a frame is added to it.
Room(queue) ==
  /\ queue \in Seq(Frames)
  /\ Ascending(queue) /\ Precede(batch, queue) /\ SavedSoFar(queue) /\ RowsPrecede(queue)

\* Dropping the oldest frame makes room for one.
LEMMA TailIsRoom ==
  ASSUME BaseInv, OrderInv, Len(pending) > 0
  PROVE  Room(Tail(pending))
<1>1. pending \in Seq(Frames)
  BY DEF BaseInv, QueueTypes
<1>2. Tail(pending) \in Seq(Frames)
  BY <1>1
<1>3. /\ DOMAIN Tail(pending) \subseteq Nat
      /\ \A i \in DOMAIN Tail(pending) : i + 1 \in DOMAIN pending /\ Tail(pending)[i] = pending[i + 1]
  BY <1>1, TailElements
<1>4. Ascending(Tail(pending))
  <2> SUFFICES ASSUME NEW i \in DOMAIN Tail(pending), NEW j \in DOMAIN Tail(pending), i < j
               PROVE  Tail(pending)[i].n < Tail(pending)[j].n
    BY DEF Ascending
  <2>1. i + 1 < j + 1
    BY <1>3
  <2> QED
    BY <1>3, <2>1 DEF OrderInv, Ascending
<1>5. Precede(batch, Tail(pending)) /\ SavedSoFar(Tail(pending)) /\ RowsPrecede(Tail(pending))
  BY <1>3 DEF OrderInv, Precede, SavedSoFar, RowsPrecede
<1> QED
  BY <1>2, <1>4, <1>5 DEF Room

\* A frame that is queued is the last of the line.
LEMMA OrderEnqueued ==
  ASSUME BaseInv, OrderInv, NEW f \in Flows, NEW queue, Room(queue), Enqueue(f, queue)
  PROVE  OrderInv'
<1> DEFINE x == [n |-> saved + 1, flow |-> f]
<1>1. saved \in Nat /\ saved + 1 \in 1..MaxFrames /\ batch \in Seq(Frames)
  BY FramesAssumption DEF BaseInv, QueueTypes, Enqueue, FramesAssumption
<1>2. x \in Frames /\ x.n = saved + 1 /\ queue \in Seq(Frames)
  BY <1>1 DEF Frames, Room
<1>3. saved' = saved + 1 /\ pending' = Append(queue, x) /\ UNCHANGED <<rows, batch>>
  BY DEF Enqueue, tableVars, flusherVars
<1> HIDE DEF x
<1>4. ASSUME NEW i \in DOMAIN pending'
      PROVE  (i \in DOMAIN queue /\ pending'[i] = queue[i]) \/ (i = Len(queue) + 1 /\ pending'[i] = x)
  BY <1>2, <1>3, <1>4, AppendElements
<1>5. DOMAIN queue = 1..Len(queue) /\ Len(queue) \in Nat
  BY <1>2
<1>6. ASSUME NEW i \in DOMAIN queue PROVE queue[i].n \in Nat /\ queue[i].n < saved + 1
  <2>1. queue[i] \in Frames
    BY <1>2
  <2>2. queue[i].n \in Nat
    BY <2>1 DEF Frames
  <2> QED
    BY <1>1, <2>2 DEF Room, SavedSoFar
<1>7. Ascending(pending)'
  <2> SUFFICES ASSUME NEW i \in DOMAIN pending', NEW j \in DOMAIN pending', i < j
               PROVE  pending'[i].n < pending'[j].n
    BY DEF Ascending
  <2>1. i \in DOMAIN queue /\ pending'[i] = queue[i]
    <3>1. DOMAIN pending' = 1..(Len(queue) + 1)
      BY <1>2, <1>3, AppendElements
    <3> QED
      BY <1>4, <1>5, <3>1
  <2>2. CASE j \in DOMAIN queue /\ pending'[j] = queue[j]
    BY <2>1, <2>2 DEF Room, Ascending
  <2>3. CASE pending'[j] = x
    BY <1>2, <1>6, <2>1, <2>3
  <2> QED
    BY <1>4, <2>2, <2>3
<1>8. SavedSoFar(pending)' /\ SavedSoFar(batch)'
  <2>1. \A i \in DOMAIN batch : batch[i].n \in Nat
    <3> SUFFICES ASSUME NEW i \in DOMAIN batch PROVE batch[i].n \in Nat
      OBVIOUS
    <3>1. batch[i] \in Frames
      BY <1>1
    <3> QED
      BY <3>1 DEF Frames
  <2>2. SavedSoFar(batch)'
    BY <1>1, <1>3, <2>1 DEF OrderInv, SavedSoFar
  <2>3. SavedSoFar(pending)'
    BY <1>1, <1>2, <1>3, <1>4, <1>6 DEF SavedSoFar
  <2> QED
    BY <2>2, <2>3
<1>9. Precede(batch, pending)'
  <2> SUFFICES ASSUME NEW i \in DOMAIN batch, NEW j \in DOMAIN pending' PROVE batch[i].n < pending'[j].n
    BY <1>3 DEF Precede
  <2>1. batch[i] \in Frames
    BY <1>1
  <2>2. batch[i].n \in Nat /\ batch[i].n < saved + 1
    BY <1>1, <2>1 DEF OrderInv, SavedSoFar, Frames
  <2> QED
    BY <1>2, <1>4, <2>2 DEF Room, Precede
<1>10. RowsPrecede(pending)' /\ RowsPrecede(batch)' /\ \A r \in rows' : r.n <= saved'
  <2>1. ASSUME NEW r \in rows PROVE r.n \in Nat /\ r.n < saved + 1 /\ r.n <= saved + 1
    BY <1>1 DEF OrderInv, BaseInv, RowTypes
  <2>2. RowsPrecede(pending)'
    BY <1>2, <1>3, <1>4, <2>1 DEF Room, RowsPrecede
  <2> QED
    BY <1>3, <2>1, <2>2 DEF OrderInv, RowsPrecede
<1> QED
  BY <1>3, <1>7, <1>8, <1>9, <1>10 DEF OrderInv, Ascending, RowsAscend

\* The rows of a batch come after the rows that are there.
LEMMA WrittenAscends ==
  ASSUME BaseInv, OrderInv
  PROVE  /\ RowsAscend(Written)
         /\ \A x \in Written : x.n <= saved /\ \A i \in DOMAIN pending : x.n < pending[i].n
<1>0. lastId \in Nat /\ Len(batch) \in Nat /\ DOMAIN batch = 1..Len(batch)
  BY DEF BaseInv, RowTypes, QueueTypes
<1>1. ASSUME NEW i \in DOMAIN batch
      PROVE  Row(i).id = lastId + i /\ Row(i).n = batch[i].n /\ Row(i).flow = batch[i].flow
  BY DEF Row
<1>2. ASSUME NEW i \in DOMAIN batch, NEW j \in DOMAIN batch
      PROVE  /\ Row(i).id = Row(j).id => Row(i) = Row(j)
             /\ Row(i).id < Row(j).id => Row(i).n < Row(j).n
  <2>1. i \in Nat /\ j \in Nat
    BY <1>0
  <2>2. (lastId + i = lastId + j => i = j) /\ (lastId + i < lastId + j => i < j)
    BY <1>0, <2>1
  <2> QED
    BY <1>1, <2>2 DEF OrderInv, Ascending
<1>3. ASSUME NEW x \in rows, NEW j \in DOMAIN batch
      PROVE  x.id < Row(j).id /\ ~(Row(j).id < x.id) /\ x.id # Row(j).id /\ x.n < Row(j).n
  <2>1. x.id \in 1..lastId /\ j \in 1..Len(batch)
    BY <1>0 DEF BaseInv, RowTypes
  <2>2. x.id < lastId + j /\ ~(lastId + j < x.id) /\ x.id # lastId + j
    BY <1>0, <2>1
  <2> QED
    BY <1>1, <2>2 DEF OrderInv, RowsPrecede
<1>4. RowsAscend(Written)
  <2> SUFFICES ASSUME NEW x \in Written, NEW y \in Written
               PROVE  (x.id = y.id => x = y) /\ (x.id < y.id => x.n < y.n)
    BY DEF RowsAscend
  <2>1. CASE x \in rows /\ y \in rows
    BY <2>1 DEF OrderInv, RowsAscend
  <2>2. CASE x \in rows /\ y \in NewRows
    BY <1>3, <2>2 DEF NewRows
  <2>3. CASE x \in NewRows /\ y \in rows
    BY <1>3, <2>3 DEF NewRows
  <2>4. CASE x \in NewRows /\ y \in NewRows
    BY <1>2, <2>4 DEF NewRows
  <2> QED
    BY <2>1, <2>2, <2>3, <2>4 DEF Written, NewRows
<1>5. ASSUME NEW x \in Written
      PROVE  x.n <= saved /\ \A i \in DOMAIN pending : x.n < pending[i].n
  <2>1. CASE x \in rows
    BY <2>1 DEF OrderInv, RowsPrecede
  <2>2. CASE x \in NewRows
    BY <1>1, <2>2 DEF NewRows, OrderInv, SavedSoFar, Precede
  <2> QED
    BY <2>1, <2>2 DEF Written, NewRows
<1> QED
  BY <1>4, <1>5

LEMMA OrderInit == Init => OrderInv
BY DEF Init, OrderInv, Ascending, SavedSoFar, Precede, RowsPrecede, RowsAscend

\* An empty sequence has no order to keep.
LEMMA NothingToOrder ==
  ASSUME NEW s, s = <<>>
  PROVE  /\ Ascending(s) /\ SavedSoFar(s) /\ RowsPrecede(s)
         /\ \A t : Precede(s, t) /\ Precede(t, s)
BY DEF Ascending, SavedSoFar, RowsPrecede, Precede

LEMMA OrderStep == BaseInv /\ OrderInv /\ [Next]_vars => OrderInv'
<1> SUFFICES ASSUME BaseInv, OrderInv, [Next]_vars PROVE OrderInv'
  OBVIOUS
<1>1. ASSUME UNCHANGED <<rows, batch, pending, saved>> PROVE OrderInv'
  BY <1>1 DEF OrderInv, Ascending, SavedSoFar, Precede, RowsPrecede, RowsAscend
<1>2. ASSUME NEW for, Take(for), flusher # "write" PROVE OrderInv'
  <2>1. batch' = pending /\ pending' = <<>> /\ UNCHANGED <<rows, saved>>
    BY <1>2 DEF Take, tableVars
  <2>2. Ascending(batch)' /\ SavedSoFar(batch)' /\ RowsPrecede(batch)' /\ RowsAscend(rows)'
        /\ \A x \in rows' : x.n <= saved'
    BY <2>1 DEF OrderInv, Ascending, SavedSoFar, RowsPrecede, RowsAscend
  <2>3. Ascending(pending)' /\ SavedSoFar(pending)' /\ RowsPrecede(pending)' /\ Precede(batch, pending)'
    BY <2>1 DEF Ascending, SavedSoFar, RowsPrecede, Precede
  <2> QED
    BY <2>2, <2>3 DEF OrderInv
<1>3. ASSUME rows' \subseteq Written, batch' = <<>>, UNCHANGED <<pending, saved>> PROVE OrderInv'
  <2>1. Ascending(pending)' /\ SavedSoFar(pending)'
    BY <1>3 DEF OrderInv, Ascending, SavedSoFar
  <2>2. RowsPrecede(pending)' /\ RowsAscend(rows)' /\ \A x \in rows' : x.n <= saved'
    BY <1>3, WrittenAscends DEF RowsPrecede, RowsAscend
  <2>3. Ascending(batch)' /\ SavedSoFar(batch)' /\ RowsPrecede(batch)' /\ Precede(batch, pending)'
    BY <1>3 DEF Ascending, SavedSoFar, RowsPrecede, Precede
  <2> QED
    BY <2>1, <2>2, <2>3 DEF OrderInv
<1>4. ASSUME rows' \subseteq rows, UNCHANGED <<batch, pending, saved>> PROVE OrderInv'
  BY <1>4 DEF OrderInv, Ascending, SavedSoFar, Precede, RowsPrecede, RowsAscend
<1>5. CASE Flusher
  <2>1. CASE LongEnough \/ WokenLong \/ TimerFires \/ \E c \in Callers : Asked(c)
    BY <1>2, <2>1 DEF LongEnough, WokenLong, TimerFires, Asked
  <2>2. CASE NotLongEnough \/ Woken
    BY <1>1, <2>2 DEF NotLongEnough, Woken, queueVars, tableVars
  <2>3. CASE WriteBatch
    BY <1>3, <2>3 DEF WriteBatch, Answers, queueVars
  <2>4. CASE WriteAndTrim
    BY <1>3, <2>4 DEF WriteAndTrim, Trimmed, Answers, queueVars
  <2>5. CASE WriteFails
    BY <1>3, <2>5 DEF WriteFails, Written, Answers, queueVars
  <2> QED
    BY <1>5, <2>1, <2>2, <2>3, <2>4, <2>5 DEF Flusher
<1>6. ASSUME NEW f \in Flows, SaveWSFrame(f) PROVE OrderInv'
  <2>1. Room(pending) /\ Enqueue(f, pending)
    BY <1>6 DEF SaveWSFrame, Room, OrderInv, BaseInv, QueueTypes
  <2> QED
    BY <2>1, OrderEnqueued
<1>7. ASSUME NEW f \in Flows, SaveDropping(f) PROVE OrderInv'
  <2>1. Len(pending) > 0
    BY <1>7, FramesAssumption DEF FramesAssumption, SaveDropping, BaseInv, QueueTypes
  <2>2. Room(Tail(pending)) /\ Enqueue(f, Tail(pending))
    BY <1>7, <2>1, TailIsRoom DEF SaveDropping
  <2> QED
    BY <2>2, OrderEnqueued
<1>8. ASSUME NEW c \in Callers, CallStep(c) PROVE OrderInv'
  BY <1>1, <1>4, <1>8 DEF CallStep, Lock, LockClosed, DeleteFlows, Return, queueVars, tableVars, flusherVars
<1>9. ASSUME NEW c \in Callers, NEW request \in Requests, Call(c, request) PROVE OrderInv'
  BY <1>1, <1>9 DEF Call, queueVars, tableVars, flusherVars
<1>10. CASE UNCHANGED vars
  BY <1>1, <1>10 DEF vars, queueVars, tableVars, flusherVars
<1> QED
  BY <1>5, <1>6, <1>7, <1>8, <1>9, <1>10 DEF Next

--------------------------------------------------------------------------------
(* The count of the frames *)

CountInv == saved = lastId + Len(batch) + Len(pending) + dropped + lost

LEMMA CountStep == BaseInv /\ CountInv /\ [Next]_vars => CountInv'
<1> SUFFICES ASSUME BaseInv, CountInv, [Next]_vars PROVE CountInv'
  OBVIOUS
<1>0. /\ pending \in Seq(Frames) /\ batch \in Seq(Frames) /\ Len(pending) \in Nat /\ Len(batch) \in Nat
      /\ saved \in Nat /\ lastId \in Nat /\ dropped \in Nat /\ lost \in Nat /\ Len(<<>>) = 0
  BY FramesAssumption DEF BaseInv, QueueTypes, RowTypes, FramesAssumption
<1>1. ASSUME UNCHANGED <<lastId, batch, pending, saved, dropped, lost>> PROVE CountInv'
  BY <1>1 DEF CountInv
<1>2. ASSUME NEW for, Take(for), flusher # "write" PROVE CountInv'
  <2>1. batch' = pending /\ pending' = <<>> /\ UNCHANGED <<lastId, saved, dropped, lost>> /\ batch = <<>>
    BY <1>2 DEF Take, tableVars, BaseInv, Resting
  <2> QED
    BY <1>0, <2>1 DEF CountInv
<1>3. CASE Flusher
  <2>1. CASE LongEnough \/ WokenLong \/ TimerFires \/ \E c \in Callers : Asked(c)
    BY <1>2, <2>1 DEF LongEnough, WokenLong, TimerFires, Asked
  <2>2. CASE NotLongEnough \/ Woken
    BY <1>1, <2>2 DEF NotLongEnough, Woken, queueVars, tableVars
  <2>3. CASE WriteBatch \/ WriteAndTrim
    <3>1. lastId' = lastId + Len(batch) /\ batch' = <<>> /\ UNCHANGED <<pending, saved, dropped, lost>>
      BY <2>3 DEF WriteBatch, WriteAndTrim, Answers, queueVars
    <3> QED
      BY <1>0, <3>1 DEF CountInv
  <2>4. CASE WriteFails
    <3>1. lost' = lost + Len(batch) /\ batch' = <<>> /\ UNCHANGED <<pending, saved, dropped, lastId>>
      BY <2>4 DEF WriteFails, Answers, queueVars
    <3> QED
      BY <1>0, <3>1 DEF CountInv
  <2> QED
    BY <1>3, <2>1, <2>2, <2>3, <2>4 DEF Flusher
<1>4. ASSUME NEW f \in Flows, NEW queue \in Seq(Frames), Enqueue(f, queue)
      PROVE  Len(pending') = Len(queue) + 1 /\ saved' = saved + 1 /\ UNCHANGED <<lastId, batch, lost>>
  <2>1. pending' = Append(queue, [n |-> saved', flow |-> f]) /\ saved' = saved + 1
        /\ UNCHANGED <<lastId, batch, lost>>
    BY <1>4 DEF Enqueue, tableVars, flusherVars
  <2> QED
    BY <2>1
<1>5. ASSUME NEW f \in Flows, SaveWSFrame(f) PROVE CountInv'
  BY <1>0, <1>4, <1>5 DEF SaveWSFrame, CountInv
<1>6. ASSUME NEW f \in Flows, SaveDropping(f) PROVE CountInv'
  <2>1. Len(pending) > 0
    BY <1>0, <1>6, FramesAssumption DEF FramesAssumption, SaveDropping
  <2>2. Tail(pending) \in Seq(Frames) /\ Len(Tail(pending)) = Len(pending) - 1
    BY <1>0, <2>1
  <2>3. Len(pending') = Len(pending) /\ saved' = saved + 1 /\ dropped' = dropped + 1
        /\ UNCHANGED <<lastId, batch, lost>>
    <3>1. Enqueue(f, Tail(pending)) /\ dropped' = dropped + 1
      BY <1>6 DEF SaveDropping
    <3>2. Len(pending') = Len(Tail(pending)) + 1 /\ saved' = saved + 1 /\ UNCHANGED <<lastId, batch, lost>>
      BY <1>4, <2>2, <3>1
    <3> QED
      BY <1>0, <2>2, <3>1, <3>2
  <2> QED
    BY <1>0, <2>3 DEF CountInv
<1>7. ASSUME NEW c \in Callers, CallStep(c) PROVE CountInv'
  BY <1>1, <1>7 DEF CallStep, Lock, LockClosed, DeleteFlows, Return, queueVars, tableVars, flusherVars
<1>8. ASSUME NEW c \in Callers, NEW request \in Requests, Call(c, request) PROVE CountInv'
  BY <1>1, <1>8 DEF Call, queueVars, tableVars, flusherVars
<1>9. CASE UNCHANGED vars
  BY <1>1, <1>9 DEF vars, queueVars, tableVars, flusherVars
<1> QED
  BY <1>3, <1>5, <1>6, <1>7, <1>8, <1>9 DEF Next

LEMMA CountInit == Init => CountInv
<1> SUFFICES ASSUME Init PROVE CountInv
  OBVIOUS
<1>1. Len(<<>>) = 0
  OBVIOUS
<1> QED
  BY <1>1 DEF Init, CountInv

FrameInv == BaseInv /\ OrderInv /\ CountInv

LEMMA FrameInvariant == Spec => []FrameInv
<1>1. Init => FrameInv
  BY BaseInit, OrderInit, CountInit DEF FrameInv
<1>2. FrameInv /\ [Next]_vars => FrameInv'
  BY BaseStep, OrderStep, CountStep DEF FrameInv
<1> QED
  BY <1>1, <1>2, PTL DEF Spec

\* An element of the line is one of the batch or, after it, of the queue.
LEMMA LineElements ==
  ASSUME QueueTypes
  PROVE  /\ Len(Line) = Len(batch) + Len(pending)
         /\ \A i \in DOMAIN Line :
              \/ i \in DOMAIN batch /\ Line[i] = batch[i]
              \/ /\ i > Len(batch) /\ i - Len(batch) \in DOMAIN pending
                 /\ Line[i] = pending[i - Len(batch)]
<1>1. /\ batch \in Seq(Frames) /\ pending \in Seq(Frames)
      /\ Len(batch) \in Nat /\ Len(pending) \in Nat
      /\ DOMAIN batch = 1..Len(batch) /\ DOMAIN pending = 1..Len(pending)
  BY DEF QueueTypes
<1>2. Len(batch \o pending) = Len(batch) + Len(pending)
      /\ DOMAIN (batch \o pending) = 1..(Len(batch) + Len(pending))
  BY <1>1
<1>3. \A i \in 1..(Len(batch) + Len(pending)) :
        (batch \o pending)[i] = IF i <= Len(batch) THEN batch[i] ELSE pending[i - Len(batch)]
  BY <1>1
<1>4. ASSUME NEW i \in 1..(Len(batch) + Len(pending))
      PROVE  \/ i \in 1..Len(batch) /\ i <= Len(batch)
             \/ i > Len(batch) /\ ~(i <= Len(batch)) /\ i - Len(batch) \in 1..Len(pending)
  BY <1>1
<1> QED
  BY <1>1, <1>2, <1>3, <1>4 DEF Line

LEMMA FramesAreAccounted == FrameInv => Accounted
<1> SUFFICES ASSUME FrameInv PROVE Accounted
  OBVIOUS
<1>0. QueueTypes /\ RowTypes /\ OrderInv /\ CountInv
  BY DEF FrameInv, BaseInv
<1>1. saved = lastId + Len(Line) + dropped + lost
  <2>1. Len(batch) \in Nat /\ Len(pending) \in Nat /\ lastId \in Nat /\ dropped \in Nat /\ lost \in Nat
    BY <1>0 DEF QueueTypes, RowTypes
  <2> QED
    BY <1>0, <2>1, LineElements DEF CountInv
<1>2. ASSUME NEW i \in DOMAIN Line, NEW j \in DOMAIN Line, i < j PROVE Line[i].n < Line[j].n
  <2>0. i \in Nat /\ j \in Nat /\ Len(batch) \in Nat /\ DOMAIN batch = 1..Len(batch)
    <3>1. batch \in Seq(Frames) /\ pending \in Seq(Frames)
      BY <1>0 DEF QueueTypes
    <3>2. Line \in Seq(Frames)
      BY <3>1 DEF Line
    <3> QED
      BY <3>1, <3>2
  <2>1. CASE j \in DOMAIN batch /\ Line[j] = batch[j]
    <3>1. ~(i > Len(batch))
      BY <1>2, <2>0, <2>1
    <3>2. i \in DOMAIN batch /\ Line[i] = batch[i]
      BY <1>0, <3>1, LineElements
    <3> QED
      BY <1>0, <1>2, <2>1, <3>2 DEF OrderInv, Ascending
  <2>2. CASE j > Len(batch) /\ j - Len(batch) \in DOMAIN pending /\ Line[j] = pending[j - Len(batch)]
    <3>1. CASE i \in DOMAIN batch /\ Line[i] = batch[i]
      BY <1>0, <2>2, <3>1 DEF OrderInv, Precede
    <3>2. CASE i > Len(batch) /\ i - Len(batch) \in DOMAIN pending /\ Line[i] = pending[i - Len(batch)]
      <4>1. i - Len(batch) < j - Len(batch)
        BY <1>2, <2>0
      <4> QED
        BY <1>0, <2>2, <3>2, <4>1 DEF OrderInv, Ascending
    <3> QED
      BY <1>0, <3>1, <3>2, LineElements
  <2> QED
    BY <1>0, <2>1, <2>2, LineElements
<1>3. ASSUME NEW x \in rows, NEW y \in InQueue PROVE x.n < y.n
  <2>1. PICK i \in DOMAIN Line : y = Line[i]
    BY DEF InQueue, Range
  <2> QED
    BY <1>0, <2>1, LineElements DEF OrderInv, RowsPrecede
<1>4. \A x, y \in rows : (x.id = y.id => x = y) /\ (x.id < y.id => x.n < y.n)
  BY <1>0 DEF OrderInv, RowsAscend
<1> QED
  BY <1>1, <1>2, <1>3, <1>4 DEF Accounted

\* Whatever writes the frames, and whatever fails: each saved frame is queued, became a
\* row, was counted as dropped or was in a failed transaction, and their order is kept.
THEOREM FramesAccounted == Spec => []Accounted
BY FrameInvariant, FramesAreAccounted, PTL

LEMMA FrameTypes == FrameInv => TypeOK
<1> SUFFICES ASSUME FrameInv PROVE TypeOK
  OBVIOUS
<1>0. QueueTypes /\ RowTypes /\ CallTypes /\ CountInv
  BY DEF FrameInv, BaseInv
<1>1. Len(batch) \in Nat /\ Len(pending) \in Nat
  BY <1>0 DEF QueueTypes
<1>2. dropped \in 0..MaxFrames /\ lost \in 0..MaxFrames /\ lastId \in 0..MaxFrames /\ saved \in 0..MaxFrames
  BY <1>0, <1>1, FramesAssumption DEF FramesAssumption, QueueTypes, RowTypes, CountInv
<1> QED
  BY <1>0, <1>2 DEF TypeOK, QueueTypes, RowTypes, CallTypes, CallRecords

\* The variables stay in their domains: in particular the queue keeps its bound, and
\* the rows since the last trim stay below the number that is kept of a flow.
THEOREM FramesTyped == Spec => []TypeOK
BY FrameInvariant, FrameTypes, PTL

--------------------------------------------------------------------------------
(* What is kept of a flow *)

\* A flow that was not written to since the last trim has what a trim leaves at most;
\* one that was has as many rows more as were inserted since then, at most.
KeptInv ==
  \A f \in Flows :
    /\ f \in dirty => Cardinality(OfFlow(f)) <= PerFlow + inserted
    /\ f \notin dirty => Cardinality(OfFlow(f)) <= PerFlow

WrittenOf(f) == {x \in Written : x.flow = f}

\* A flow has finitely many rows.
LEMMA OfFlowFinite ==
  ASSUME BaseInv, NEW f
  PROVE  IsFiniteSet(OfFlow(f)) /\ Cardinality(OfFlow(f)) \in Nat
<1>1. OfFlow(f) \in SUBSET rows /\ IsFiniteSet(rows)
  BY DEF OfFlow, BaseInv, RowTypes
<1> QED
  BY <1>1, FS_Subset, FS_CardinalityType

\* A batch adds as many rows to a flow as it has frames, at most, and none to a flow
\* that it does not touch.
LEMMA RowsAdded ==
  ASSUME BaseInv, NEW f \in Flows
  PROVE  /\ IsFiniteSet(WrittenOf(f)) /\ Cardinality(WrittenOf(f)) \in Nat
         /\ Cardinality(WrittenOf(f)) <= Cardinality(OfFlow(f)) + Len(batch)
         /\ f \notin Touched => WrittenOf(f) = OfFlow(f)
<1> DEFINE new == {x \in NewRows : x.flow = f}
<1>1. IsFiniteSet(NewRows) /\ Cardinality(NewRows) \in Nat /\ Cardinality(NewRows) <= Len(batch)
      /\ Len(batch) \in Nat
  BY NewRowsFinite DEF BaseInv, QueueTypes
<1>2. new \in SUBSET NewRows
  OBVIOUS
<1>3. IsFiniteSet(new) /\ Cardinality(new) \in Nat /\ Cardinality(new) <= Cardinality(NewRows)
  BY <1>1, <1>2, FS_Subset, FS_CardinalityType
<1>4. WrittenOf(f) = OfFlow(f) \cup new
  BY DEF WrittenOf, OfFlow, Written, NewRows
<1>5. f \notin Touched => new = {}
  BY DEF NewRows, Row, Touched, Range
<1> HIDE DEF new
<1>6. IsFiniteSet(OfFlow(f)) /\ Cardinality(OfFlow(f)) \in Nat
  BY OfFlowFinite
<1>7. IsFiniteSet(OfFlow(f) \cap new) /\ Cardinality(OfFlow(f) \cap new) \in Nat
  BY <1>6, FS_Intersection, FS_CardinalityType
<1>8. /\ IsFiniteSet(OfFlow(f) \cup new) /\ Cardinality(OfFlow(f) \cup new) \in Nat
      /\ Cardinality(OfFlow(f) \cup new)
           = Cardinality(OfFlow(f)) + Cardinality(new) - Cardinality(OfFlow(f) \cap new)
  BY <1>3, <1>6, FS_Union, FS_CardinalityType
<1>9. Cardinality(OfFlow(f) \cup new) <= Cardinality(OfFlow(f)) + Len(batch)
  BY <1>1, <1>3, <1>6, <1>7, <1>8
<1>10. f \notin Touched => OfFlow(f) \cup new = OfFlow(f)
  BY <1>5
<1> QED
  BY <1>4, <1>8, <1>9, <1>10

\* A trim leaves no more than PerFlow rows of a flow that it is for, and all of another.
LEMMA RowsTrimmed ==
  ASSUME BaseInv, OrderInv, NEW f \in Flows
  PROVE  LET left == {x \in Trimmed(Written, Touched) : x.flow = f} IN
         /\ f \in Touched => Cardinality(left) <= PerFlow
         /\ f \notin Touched => left = OfFlow(f)
<1> DEFINE left == {x \in Trimmed(Written, Touched) : x.flow = f}
<1>1. CASE f \in Touched
  <2>1. ASSUME NEW x \in Written, x.flow = f
        PROVE  {y \in Written : y.flow = x.flow /\ y.id > x.id} = Above(WrittenOf(f), x)
    BY <2>1 DEF Above, WrittenOf
  <2>2. left = Newest(WrittenOf(f), PerFlow)
    BY <1>1, <2>1 DEF Newest, WrittenOf, Trimmed
  <2>3. \A x \in WrittenOf(f) : x.id \in Nat
    BY WrittenTypes DEF WrittenOf, BaseInv
  <2>4. \A x, y \in WrittenOf(f) : x.id = y.id => x = y
    BY WrittenAscends DEF WrittenOf, RowsAscend
  <2>5. Cardinality(Newest(WrittenOf(f), PerFlow)) <= PerFlow
    BY <2>3, <2>4, RowsAdded, NewestAreFew, FramesAssumption DEF FramesAssumption
  <2> QED
    BY <1>1, <2>2, <2>5
<1>2. CASE f \notin Touched
  <2>1. left = WrittenOf(f)
    BY <1>2 DEF Trimmed, WrittenOf
  <2> QED
    BY <1>2, <2>1, RowsAdded
<1> QED
  BY <1>1, <1>2

LEMMA KeptInit == Init => KeptInv
<1> SUFFICES ASSUME Init PROVE KeptInv
  OBVIOUS
<1>1. \A f : OfFlow(f) = {}
  BY DEF Init, OfFlow
<1>2. Cardinality({}) = 0 /\ PerFlow \in Nat /\ inserted = 0
  BY FS_EmptySet, FramesAssumption DEF FramesAssumption, Init
<1> QED
  BY <1>1, <1>2 DEF KeptInv

LEMMA KeptStep == BaseInv /\ OrderInv /\ KeptInv /\ [Next]_vars => KeptInv'
<1> SUFFICES ASSUME BaseInv, OrderInv, KeptInv, [Next]_vars PROVE KeptInv'
  OBVIOUS
<1>0. PerFlow \in Nat /\ inserted \in Nat /\ Len(batch) \in Nat
  BY FramesAssumption DEF FramesAssumption, BaseInv, RowTypes, QueueTypes
<1>1. ASSUME UNCHANGED <<rows, inserted, dirty>> PROVE KeptInv'
  BY <1>1 DEF KeptInv, OfFlow
<1>2. CASE WriteBatch
  <2>1. rows' = Written /\ inserted' = inserted + Len(batch) /\ dirty' = Touched
    BY <1>2 DEF WriteBatch
  <2> SUFFICES ASSUME NEW f \in Flows
               PROVE  /\ f \in dirty' => Cardinality(OfFlow(f)') <= PerFlow + inserted'
                      /\ f \notin dirty' => Cardinality(OfFlow(f)') <= PerFlow
    BY DEF KeptInv
  <2>2. OfFlow(f)' = WrittenOf(f)
    BY <2>1 DEF OfFlow, WrittenOf
  <2>3. Cardinality(OfFlow(f)) \in Nat /\ Cardinality(OfFlow(f)) <= PerFlow + inserted
    BY <1>0, OfFlowFinite DEF KeptInv
  <2>4. CASE f \in Touched
    BY <1>0, <2>1, <2>2, <2>3, <2>4, RowsAdded
  <2>5. CASE f \notin Touched
    <3>1. f \notin dirty
      BY <2>5 DEF Touched
    <3> QED
      BY <2>1, <2>2, <2>5, <3>1, RowsAdded DEF KeptInv
  <2> QED
    BY <2>4, <2>5
<1>3. CASE WriteAndTrim
  <2>1. rows' = Trimmed(Written, Touched) /\ inserted' = 0 /\ dirty' = {}
    BY <1>3 DEF WriteAndTrim
  <2> SUFFICES ASSUME NEW f \in Flows
               PROVE  Cardinality(OfFlow(f)') <= PerFlow
    BY <2>1 DEF KeptInv
  <2>2. OfFlow(f)' = {x \in Trimmed(Written, Touched) : x.flow = f}
    BY <2>1 DEF OfFlow
  <2>3. f \notin Touched => f \notin dirty
    BY DEF Touched
  <2> QED
    BY <2>2, <2>3, RowsTrimmed DEF KeptInv
<1>4. ASSUME NEW c \in Callers, DeleteFlows(c) PROVE KeptInv'
  <2>1. rows' \subseteq rows /\ UNCHANGED <<inserted, dirty>>
    BY <1>4 DEF DeleteFlows
  <2>2. ASSUME NEW f \in Flows
        PROVE  Cardinality(OfFlow(f)') <= Cardinality(OfFlow(f)) /\ Cardinality(OfFlow(f)') \in Nat
               /\ Cardinality(OfFlow(f)) \in Nat
    <3>1. OfFlow(f)' \in SUBSET OfFlow(f)
      BY <2>1 DEF OfFlow
    <3> QED
      BY <3>1, OfFlowFinite, FS_Subset, FS_CardinalityType
  <2> QED
    BY <1>0, <2>1, <2>2 DEF KeptInv
<1>5. CASE Flusher
  <2>1. CASE LongEnough \/ WokenLong \/ TimerFires \/ \E c \in Callers : Asked(c)
    BY <1>1, <2>1 DEF LongEnough, WokenLong, TimerFires, Asked, Take, tableVars
  <2>2. CASE NotLongEnough \/ Woken \/ WriteFails
    BY <1>1, <2>2 DEF NotLongEnough, Woken, WriteFails, tableVars
  <2> QED
    BY <1>2, <1>3, <1>5, <2>1, <2>2 DEF Flusher
<1>6. ASSUME NEW f \in Flows, SaveWSFrame(f) \/ SaveDropping(f) PROVE KeptInv'
  BY <1>1, <1>6 DEF SaveWSFrame, SaveDropping, Enqueue, tableVars
<1>7. ASSUME NEW c \in Callers, CallStep(c) PROVE KeptInv'
  BY <1>1, <1>4, <1>7 DEF CallStep, Lock, LockClosed, Return, tableVars
<1>8. ASSUME NEW c \in Callers, NEW request \in Requests, Call(c, request) PROVE KeptInv'
  BY <1>1, <1>8 DEF Call, tableVars
<1>9. CASE UNCHANGED vars
  BY <1>1, <1>9 DEF vars, tableVars
<1> QED
  BY <1>5, <1>6, <1>7, <1>8, <1>9 DEF Next

\* However the frames of the flows mix and however large the batches are, the table
\* keeps fewer than twice PerFlow rows of each flow.
THEOREM FramesRetained == Spec => []Retained
<1>1. FrameInv /\ KeptInv => Retained
  <2> SUFFICES ASSUME FrameInv, KeptInv, NEW f \in Flows PROVE Cardinality(OfFlow(f)) < 2 * PerFlow
    BY DEF Retained
  <2>1. PerFlow \in Nat /\ PerFlow > 0 /\ inserted \in 0..(PerFlow - 1)
    BY FramesAssumption DEF FramesAssumption, FrameInv, BaseInv, RowTypes
  <2>2. Cardinality(OfFlow(f)) \in Nat /\ Cardinality(OfFlow(f)) <= PerFlow + inserted
    BY <2>1, OfFlowFinite DEF KeptInv, FrameInv
  <2> QED
    BY <2>1, <2>2
<1>2. FrameInv /\ KeptInv /\ [Next]_vars => KeptInv'
  BY KeptStep DEF FrameInv
<1> QED
  BY <1>1, <1>2, KeptInit, FrameInvariant, PTL DEF Spec

--------------------------------------------------------------------------------
(* What was deleted *)

\* wsCmdMu is held by the one caller that waits for the flusher, or is served.
LockInv ==
  /\ \A c \in Callers : c \in cmdMu <=> call[c].at = "asked"
  /\ \A c, d \in cmdMu : c = d
  /\ serving \subseteq cmdMu

\* After Close nothing is queued: the flusher that serves it has taken what there was.
ClosedInv ==
  closed => /\ cmdMu = {} => batch = <<>> /\ pending = <<>>
            /\ serving # {} => pending = <<>>

LaterThan(s, k) == \A i \in DOMAIN s : s[i].n > k

\* A caller whose flush was taken up has the frames saved before its call behind it:
\* they are not queued any more, and not in the batch either once it was answered.
FlushedInv ==
  /\ \A c \in Callers : call[c].upto <= saved
  /\ \A c \in serving : LaterThan(pending, call[c].upto)
  /\ \A c \in Callers : call[c].at = "flushed" =>
       LaterThan(batch, call[c].upto) /\ LaterThan(pending, call[c].upto)

LaterThanGone(s) == \A i \in DOMAIN s : s[i].n > gone[s[i].flow]

GoneInv ==
  /\ \A f \in Flows : gone[f] <= saved
  /\ LaterThanGone(batch) /\ LaterThanGone(pending)
  /\ \A x \in rows : x.n > gone[x.flow]

DeletedInv == LockInv /\ ClosedInv /\ FlushedInv /\ GoneInv

\* A save adds the frame with the next number and may take out the oldest.
Saves(f) == SaveWSFrame(f) \/ SaveDropping(f)

\* What a save leaves in the line was there, or is the frame saved.
LEMMA SavedElements ==
  ASSUME BaseInv, NEW f \in Flows, Saves(f)
  PROVE  /\ saved' = saved + 1 /\ saved \in Nat /\ ~closed
         /\ UNCHANGED <<tableVars, callVars, flusherVars>>
         /\ \A i \in DOMAIN pending' :
              \/ pending'[i] = [n |-> saved + 1, flow |-> f]
              \/ \E j \in DOMAIN pending : pending'[i] = pending[j]
<1>0. saved \in 0..MaxFrames /\ MaxFrames \in Nat /\ pending \in Seq(Frames)
  BY FramesAssumption DEF FramesAssumption, BaseInv, QueueTypes
<1>1. ASSUME NEW queue \in Seq(Frames), Enqueue(f, queue),
             \A i \in DOMAIN queue : \E j \in DOMAIN pending : queue[i] = pending[j]
      PROVE  \A i \in DOMAIN pending' :
               \/ pending'[i] = [n |-> saved + 1, flow |-> f]
               \/ \E j \in DOMAIN pending : pending'[i] = pending[j]
  <2>1. pending' = Append(queue, [n |-> saved + 1, flow |-> f]) /\ saved + 1 \in 1..MaxFrames
    BY <1>0, <1>1 DEF Enqueue
  <2>2. [n |-> saved + 1, flow |-> f] \in Frames
    BY <2>1 DEF Frames
  <2>3. ASSUME NEW i \in DOMAIN pending'
        PROVE  (i \in DOMAIN queue /\ pending'[i] = queue[i]) \/ pending'[i] = [n |-> saved + 1, flow |-> f]
    BY <2>1, <2>2, <2>3, AppendElements
  <2> QED
    BY <1>1, <2>3
<1>2. CASE SaveWSFrame(f)
  BY <1>0, <1>1, <1>2 DEF SaveWSFrame, Enqueue
<1>3. CASE SaveDropping(f)
  <2>1. Len(pending) > 0
    BY <1>0, <1>3, FramesAssumption DEF FramesAssumption, SaveDropping
  <2>2. Tail(pending) \in Seq(Frames)
        /\ \A i \in DOMAIN Tail(pending) : \E j \in DOMAIN pending : Tail(pending)[i] = pending[j]
    BY <1>0, <2>1, TailElements
  <2>3. Enqueue(f, Tail(pending))
    BY <1>3 DEF SaveDropping
  <2>4. saved' = saved + 1 /\ ~closed /\ UNCHANGED <<tableVars, callVars, flusherVars>>
    BY <2>3 DEF Enqueue
  <2>5. \A i \in DOMAIN pending' :
          \/ pending'[i] = [n |-> saved + 1, flow |-> f]
          \/ \E j \in DOMAIN pending : pending'[i] = pending[j]
    BY <1>1, <2>2, <2>3
  <2> QED
    BY <1>0, <2>4, <2>5
<1> QED
  BY <1>2, <1>3 DEF Saves

\* The flusher takes the queue when it holds nothing.
TakeFor(for) == Take(for) /\ flusher # "write" /\ (for = {} \/ \E c \in cmdMu : for = {c})

\* The steps, by what they do to the queue and to the calls.
LEMMA StepsOfFrames ==
  ASSUME BaseInv, LockInv, [Next]_vars
  PROVE  \/ \E f \in Flows : Saves(f)
         \/ \E for \in SUBSET Callers : TakeFor(for)
         \/ Answers /\ rows' \subseteq Written /\ UNCHANGED gone
         \/ \E c \in Callers : Lock(c) \/ LockClosed(c) \/ DeleteFlows(c) \/ Return(c)
         \/ \E c \in Callers, request \in Requests : Call(c, request)
         \/ UNCHANGED <<pending, saved, rows, gone, callVars, batch, serving>>
<1>1. CASE Flusher
  <2>1. CASE LongEnough \/ WokenLong \/ TimerFires
    BY <2>1 DEF LongEnough, WokenLong, TimerFires, TakeFor
  <2>2. ASSUME NEW c \in Callers, Asked(c) PROVE TakeFor({c})
    <3>1. c \in cmdMu
      BY <2>2 DEF Asked, LockInv
    <3> QED
      BY <2>2, <3>1 DEF Asked, TakeFor
  <2>3. CASE WriteBatch
    BY <2>3 DEF WriteBatch
  <2>4. CASE WriteAndTrim
    BY <2>4 DEF WriteAndTrim, Trimmed
  <2>5. CASE WriteFails
    BY <2>5 DEF WriteFails, Written
  <2>6. CASE NotLongEnough \/ Woken
    BY <2>6 DEF NotLongEnough, Woken, queueVars, tableVars
  <2> QED
    BY <1>1, <2>1, <2>2, <2>3, <2>4, <2>5, <2>6 DEF Flusher
<1>2. CASE UNCHANGED vars
  BY <1>2 DEF vars, queueVars, tableVars, flusherVars
<1> QED
  BY <1>1, <1>2 DEF Next, CallStep, Saves

LEMMA LockStep == BaseInv /\ LockInv /\ [Next]_vars => LockInv'
<1> SUFFICES ASSUME BaseInv, LockInv, [Next]_vars PROVE LockInv'
  OBVIOUS
<1>0. call \in [Callers -> CallRecords] /\ cmdMu \subseteq Callers
  BY DEF BaseInv, CallTypes
<1>1. ASSUME UNCHANGED <<cmdMu, call>>, serving' \subseteq cmdMu PROVE LockInv'
  BY <1>1 DEF LockInv
<1>2. ASSUME NEW f \in Flows, Saves(f) PROVE LockInv'
  BY <1>1, <1>2, SavedElements DEF LockInv, callVars, flusherVars
<1>3. ASSUME NEW for \in SUBSET Callers, TakeFor(for) PROVE LockInv'
  BY <1>1, <1>3 DEF TakeFor, Take, callVars
<1>4. CASE Answers
  <2>1. cmdMu' = cmdMu \ serving /\ serving' = {}
    BY <1>4 DEF Answers
  <2>2. ASSUME NEW c \in Callers PROVE c \in cmdMu' <=> call'[c].at = "asked"
    <3>1. CASE c \in serving
      <4>1. call'[c].at = "flushed"
        BY <1>0, <1>4, <3>1 DEF Answers, CallRecords
      <4> QED
        BY <2>1, <3>1, <4>1
    <3>2. CASE c \notin serving
      <4>1. call'[c] = call[c]
        BY <1>4, <3>2 DEF Answers
      <4> QED
        BY <2>1, <3>2, <4>1 DEF LockInv
    <3> QED
      BY <3>1, <3>2
  <2> QED
    BY <2>1, <2>2 DEF LockInv
<1>5. ASSUME NEW c \in Callers, Lock(c) PROVE LockInv'
  <2>1. cmdMu = {} /\ cmdMu' = {c} /\ call' = [call EXCEPT ![c].at = "asked"] /\ serving' = serving
    BY <1>5 DEF Lock, flusherVars
  <2>2. \A d \in Callers : d \in cmdMu' <=> call'[d].at = "asked"
    BY <1>0, <2>1 DEF LockInv, CallRecords
  <2> QED
    BY <2>1, <2>2 DEF LockInv
<1>6. ASSUME NEW c \in Callers, UNCHANGED <<cmdMu, serving>>, call[c].at # "asked",
             call'[c].at # "asked", \A d \in Callers \ {c} : call'[d] = call[d]
      PROVE  LockInv'
  BY <1>6 DEF LockInv
<1>7. ASSUME NEW c \in Callers, LockClosed(c) \/ DeleteFlows(c) \/ Return(c) PROVE LockInv'
  <2>1. UNCHANGED <<cmdMu, serving>>
    BY <1>7 DEF LockClosed, DeleteFlows, Return, flusherVars
  <2>2. call[c].at \in {"lock", "flushed"}
    BY <1>7 DEF LockClosed, DeleteFlows, Return
  <2>3. CASE LockClosed(c)
    <3>1. call'[c].at = "flushed" /\ \A d \in Callers \ {c} : call'[d] = call[d]
      BY <1>0, <2>3 DEF LockClosed, CallRecords
    <3> QED
      BY <1>6, <2>1, <2>2, <3>1
  <2>4. CASE DeleteFlows(c) \/ Return(c)
    <3>1. call' = [call EXCEPT ![c] = Idle]
      BY <2>4 DEF DeleteFlows, Return
    <3>2. call'[c].at # "asked" /\ \A d \in Callers \ {c} : call'[d] = call[d]
      BY <1>0, <3>1, IdleType
    <3> QED
      BY <1>6, <2>1, <2>2, <3>2
  <2> QED
    BY <1>7, <2>3, <2>4
<1>8. ASSUME NEW c \in Callers, NEW request \in Requests, Call(c, request) PROVE LockInv'
  <2>1. request.at = "lock" /\ call[c].at = "idle"
    BY <1>8, RequestType, IdleType DEF Call, BaseInv, QueueTypes
  <2>2. UNCHANGED <<cmdMu, serving>> /\ call' = [call EXCEPT ![c] = request]
    BY <1>8 DEF Call, flusherVars
  <2> QED
    BY <1>0, <1>6, <2>1, <2>2
<1>9. CASE UNCHANGED <<pending, saved, rows, gone, callVars, batch, serving>>
  BY <1>1, <1>9 DEF LockInv, callVars
<1> QED
  BY <1>2, <1>3, <1>4, <1>5, <1>7, <1>8, <1>9, StepsOfFrames

LEMMA ClosedStep == BaseInv /\ LockInv /\ ClosedInv /\ [Next]_vars => ClosedInv'
<1> SUFFICES ASSUME BaseInv, LockInv, ClosedInv, [Next]_vars PROVE ClosedInv'
  OBVIOUS
<1>1. ASSUME UNCHANGED <<pending, batch, closed, cmdMu, serving>> PROVE ClosedInv'
  BY <1>1 DEF ClosedInv
<1>2. ASSUME NEW f \in Flows, Saves(f) PROVE ClosedInv'
  BY <1>2, SavedElements DEF ClosedInv, callVars
<1>3. ASSUME NEW for \in SUBSET Callers, TakeFor(for) PROVE ClosedInv'
  <2>1. batch' = pending /\ pending' = <<>> /\ UNCHANGED <<closed, cmdMu>>
    BY <1>3 DEF TakeFor, Take, callVars
  <2> QED
    BY <2>1 DEF ClosedInv
<1>4. CASE Answers
  <2>1. batch' = <<>> /\ serving' = {} /\ cmdMu' = cmdMu \ serving /\ UNCHANGED <<closed, pending>>
    BY <1>4 DEF Answers, queueVars
  <2>2. ASSUME closed, cmdMu' = {} PROVE pending = <<>>
    BY <2>1, <2>2 DEF ClosedInv
  <2> QED
    BY <2>1, <2>2 DEF ClosedInv
<1>5. ASSUME NEW c \in Callers, Lock(c) PROVE ClosedInv'
  <2>1. cmdMu' = {c} /\ cmdMu = {} /\ UNCHANGED <<pending, batch, serving>>
    BY <1>5 DEF Lock, queueVars, flusherVars
  <2> QED
    BY <2>1 DEF ClosedInv, LockInv
<1>6. ASSUME NEW c \in Callers, LockClosed(c) \/ DeleteFlows(c) \/ Return(c) PROVE ClosedInv'
  BY <1>1, <1>6 DEF LockClosed, DeleteFlows, Return, queueVars, flusherVars
<1>7. ASSUME NEW c \in Callers, NEW request \in Requests, Call(c, request) PROVE ClosedInv'
  BY <1>1, <1>7 DEF Call, queueVars, flusherVars
<1>8. CASE UNCHANGED <<pending, saved, rows, gone, callVars, batch, serving>>
  BY <1>1, <1>8 DEF callVars
<1> QED
  BY <1>2, <1>3, <1>4, <1>5, <1>6, <1>7, <1>8, StepsOfFrames

LEMMA FlushedStep == BaseInv /\ LockInv /\ ClosedInv /\ FlushedInv /\ [Next]_vars => FlushedInv'
<1> SUFFICES ASSUME BaseInv, LockInv, ClosedInv, FlushedInv, [Next]_vars PROVE FlushedInv'
  OBVIOUS
<1>0. call \in [Callers -> CallRecords] /\ serving \subseteq Callers /\ saved \in 0..MaxFrames
      /\ MaxFrames \in Nat
  BY FramesAssumption DEF FramesAssumption, BaseInv, CallTypes, QueueTypes
<1>1. ASSUME UNCHANGED <<pending, batch, saved, call, serving>> PROVE FlushedInv'
  BY <1>1 DEF FlushedInv, LaterThan
<1>2. ASSUME NEW f \in Flows, Saves(f) PROVE FlushedInv'
  <2>1. saved' = saved + 1 /\ saved \in Nat /\ UNCHANGED <<call, serving, batch>>
    BY <1>2, SavedElements DEF callVars, flusherVars
  <2>2. ASSUME NEW c \in Callers PROVE call[c].upto \in Nat /\ call[c].upto <= saved
    BY <1>0 DEF CallRecords, FlushedInv
  <2>3. ASSUME NEW c \in Callers, LaterThan(pending, call[c].upto)
        PROVE  LaterThan(pending', call[c].upto)
    <3> SUFFICES ASSUME NEW i \in DOMAIN pending' PROVE pending'[i].n > call[c].upto
      BY DEF LaterThan
    <3>1. CASE pending'[i] = [n |-> saved + 1, flow |-> f]
      BY <2>1, <2>2, <3>1
    <3>2. CASE \E j \in DOMAIN pending : pending'[i] = pending[j]
      BY <2>3, <3>2 DEF LaterThan
    <3> QED
      BY <1>2, <3>1, <3>2, SavedElements
  <2>4. \A c \in Callers : call'[c].upto <= saved'
    BY <2>1, <2>2
  <2>5. \A c \in serving' : LaterThan(pending', call'[c].upto)
    BY <1>0, <2>1, <2>3 DEF FlushedInv
  <2>6. \A c \in Callers : call'[c].at = "flushed" =>
          LaterThan(batch', call'[c].upto) /\ LaterThan(pending', call'[c].upto)
    BY <2>1, <2>3 DEF FlushedInv
  <2> QED
    BY <2>4, <2>5, <2>6 DEF FlushedInv, LaterThan
<1>3. ASSUME NEW for \in SUBSET Callers, TakeFor(for) PROVE FlushedInv'
  <2>1. batch' = pending /\ pending' = <<>> /\ UNCHANGED <<call, saved>>
    BY <1>3 DEF TakeFor, Take, callVars
  <2>2. \A k : LaterThan(pending', k)
    BY <2>1 DEF LaterThan
  <2>3. \A c \in Callers : call[c].at = "flushed" => LaterThan(batch', call[c].upto)
    BY <2>1 DEF FlushedInv
  <2>4. \A c \in Callers : call'[c].upto <= saved'
    BY <2>1 DEF FlushedInv
  <2> QED
    BY <2>1, <2>2, <2>3, <2>4 DEF FlushedInv, LaterThan
<1>4. CASE Answers
  <2>1. batch' = <<>> /\ serving' = {} /\ UNCHANGED <<saved, pending>>
    BY <1>4 DEF Answers, queueVars
  <2>2. \A k : LaterThan(batch', k)
    BY <2>1 DEF LaterThan
  <2>3. ASSUME NEW c \in Callers
        PROVE  /\ call'[c].upto = call[c].upto
               /\ c \in serving \/ call'[c] = call[c]
    BY <1>0, <1>4 DEF Answers, CallRecords
  <2>4. \A c \in Callers : call'[c].upto <= saved'
    BY <2>1, <2>3 DEF FlushedInv
  <2>5. ASSUME NEW c \in Callers, call'[c].at = "flushed"
        PROVE  LaterThan(batch', call'[c].upto) /\ LaterThan(pending', call'[c].upto)
    <3>1. LaterThan(pending, call[c].upto)
      BY <2>3, <2>5 DEF FlushedInv
    <3> QED
      BY <2>1, <2>2, <2>3, <3>1
  <2> QED
    BY <2>1, <2>4, <2>5 DEF FlushedInv, LaterThan
<1>5. ASSUME NEW c \in Callers, UNCHANGED <<pending, batch, saved, serving>>, c \notin serving,
             call'[c].upto <= saved, \A d \in Callers \ {c} : call'[d] = call[d],
             call'[c].at = "flushed" =>
               LaterThan(batch, call'[c].upto) /\ LaterThan(pending, call'[c].upto)
      PROVE  FlushedInv'
  <2>1. \A d \in Callers : call'[d].upto <= saved'
    BY <1>5 DEF FlushedInv
  <2>2. \A d \in serving' : LaterThan(pending', call'[d].upto)
    BY <1>0, <1>5 DEF FlushedInv
  <2>3. \A d \in Callers : call'[d].at = "flushed" =>
          LaterThan(batch', call'[d].upto) /\ LaterThan(pending', call'[d].upto)
    BY <1>5 DEF FlushedInv
  <2> QED
    BY <2>1, <2>2, <2>3 DEF FlushedInv, LaterThan
<1>6. ASSUME NEW c \in Callers, Lock(c) \/ LockClosed(c) \/ DeleteFlows(c) \/ Return(c) PROVE FlushedInv'
  <2>1. UNCHANGED <<pending, batch, saved, serving>>
    BY <1>6 DEF Lock, LockClosed, DeleteFlows, Return, queueVars, flusherVars
  <2>2. c \notin serving
    <3>1. call[c].at # "asked"
      BY <1>6 DEF Lock, LockClosed, DeleteFlows, Return
    <3> QED
      BY <3>1 DEF LockInv
  <2>3. CASE Lock(c)
    <3>1. call'[c].at = "asked" /\ call'[c].upto = call[c].upto /\ \A d \in Callers \ {c} : call'[d] = call[d]
      BY <1>0, <2>3 DEF Lock, CallRecords
    <3> QED
      BY <1>5, <2>1, <2>2, <3>1 DEF FlushedInv
  <2>4. CASE LockClosed(c)
    <3>1. call'[c].upto = call[c].upto /\ \A d \in Callers \ {c} : call'[d] = call[d]
      BY <1>0, <2>4 DEF LockClosed, CallRecords
    <3>2. batch = <<>> /\ pending = <<>>
      BY <2>4 DEF LockClosed, ClosedInv
    <3>3. \A k : LaterThan(batch, k) /\ LaterThan(pending, k)
      BY <3>2 DEF LaterThan
    <3> QED
      BY <1>5, <2>1, <2>2, <3>1, <3>3 DEF FlushedInv
  <2>5. CASE DeleteFlows(c) \/ Return(c)
    <3>1. call' = [call EXCEPT ![c] = Idle]
      BY <2>5 DEF DeleteFlows, Return
    <3>2. call'[c] = Idle /\ \A d \in Callers \ {c} : call'[d] = call[d]
      BY <1>0, <3>1
    <3>3. call'[c].upto <= saved /\ call'[c].at # "flushed"
      BY <1>0, <3>2, IdleType
    <3> QED
      BY <1>5, <2>1, <2>2, <3>2, <3>3
  <2> QED
    BY <1>6, <2>3, <2>4, <2>5
<1>7. ASSUME NEW c \in Callers, NEW request \in Requests, Call(c, request) PROVE FlushedInv'
  <2>1. request.at = "lock" /\ call[c].at = "idle" /\ request.upto <= saved
    BY <1>0, <1>7, RequestType, IdleType DEF Call
  <2>2. UNCHANGED <<pending, batch, saved, serving>> /\ call' = [call EXCEPT ![c] = request]
    BY <1>7 DEF Call, queueVars, flusherVars
  <2>3. c \notin serving
    BY <2>1 DEF LockInv
  <2>4. call'[c] = request /\ \A d \in Callers \ {c} : call'[d] = call[d]
    BY <1>0, <2>2
  <2> QED
    BY <1>5, <2>1, <2>2, <2>3, <2>4
<1>8. CASE UNCHANGED <<pending, saved, rows, gone, callVars, batch, serving>>
  BY <1>1, <1>8 DEF callVars
<1> QED
  BY <1>2, <1>3, <1>4, <1>6, <1>7, <1>8, StepsOfFrames

LEMMA GoneStep == BaseInv /\ LockInv /\ FlushedInv /\ GoneInv /\ [Next]_vars => GoneInv'
<1> SUFFICES ASSUME BaseInv, LockInv, FlushedInv, GoneInv, [Next]_vars PROVE GoneInv'
  OBVIOUS
<1>0. /\ pending \in Seq(Frames) /\ batch \in Seq(Frames) /\ saved \in 0..MaxFrames /\ MaxFrames \in Nat
      /\ gone \in [Flows -> 0..MaxFrames] /\ call \in [Callers -> CallRecords]
  BY FramesAssumption DEF FramesAssumption, BaseInv, QueueTypes, RowTypes, CallTypes
<1>1. ASSUME UNCHANGED <<pending, batch, rows, saved, gone>> PROVE GoneInv'
  BY <1>1 DEF GoneInv, LaterThanGone
<1>2. ASSUME NEW f \in Flows, Saves(f) PROVE GoneInv'
  <2>1. saved' = saved + 1 /\ saved \in Nat /\ UNCHANGED <<rows, gone, batch>>
    BY <1>2, SavedElements DEF tableVars, flusherVars
  <2>2. ASSUME NEW g \in Flows PROVE gone[g] \in Nat /\ gone[g] <= saved
    BY <1>0 DEF GoneInv
  <2>3. \A g \in Flows : gone'[g] <= saved'
    BY <2>1, <2>2
  <2>4. LaterThanGone(pending)'
    <3> SUFFICES ASSUME NEW i \in DOMAIN pending' PROVE pending'[i].n > gone[pending'[i].flow]
      BY <2>1 DEF LaterThanGone
    <3>1. CASE pending'[i] = [n |-> saved + 1, flow |-> f]
      BY <2>1, <2>2, <3>1
    <3>2. CASE \E j \in DOMAIN pending : pending'[i] = pending[j]
      BY <3>2 DEF GoneInv, LaterThanGone
    <3> QED
      BY <1>2, <3>1, <3>2, SavedElements
  <2> QED
    BY <2>1, <2>3, <2>4 DEF GoneInv, LaterThanGone
<1>3. ASSUME NEW for \in SUBSET Callers, TakeFor(for) PROVE GoneInv'
  <2>1. batch' = pending /\ pending' = <<>> /\ UNCHANGED <<rows, saved, gone>>
    BY <1>3 DEF TakeFor, Take, tableVars
  <2> QED
    BY <2>1 DEF GoneInv, LaterThanGone
<1>4. CASE Answers /\ rows' \subseteq Written /\ UNCHANGED gone
  <2>1. batch' = <<>> /\ UNCHANGED <<saved, pending, gone>>
    BY <1>4 DEF Answers, queueVars
  <2>2. ASSUME NEW x \in Written PROVE x.n > gone[x.flow]
    <3>1. CASE x \in rows
      BY <3>1 DEF GoneInv
    <3>2. CASE x \in NewRows
      BY <3>2 DEF NewRows, Row, GoneInv, LaterThanGone
    <3> QED
      BY <3>1, <3>2 DEF Written, NewRows
  <2> QED
    BY <1>4, <2>1, <2>2 DEF GoneInv, LaterThanGone
<1>5. ASSUME NEW c \in Callers, DeleteFlows(c) PROVE GoneInv'
  <2> DEFINE f == call[c].flow
             k == call[c].upto
  <2>1. f \in Flows /\ k \in Nat /\ k <= saved
    BY <1>0 DEF CallRecords, FlushedInv
  <2>2. LaterThan(batch, k) /\ LaterThan(pending, k)
    BY <1>5 DEF DeleteFlows, FlushedInv
  <2>3. rows' = rows \ OfFlow(f) /\ UNCHANGED <<batch, pending, saved>>
        /\ gone' = [gone EXCEPT ![f] = IF @ < k THEN k ELSE @]
    BY <1>5 DEF DeleteFlows, queueVars, flusherVars
  <2> HIDE DEF f, k
  <2>4. gone'[f] \in {gone[f], k} /\ \A g \in Flows \ {f} : gone'[g] = gone[g]
    BY <1>0, <2>1, <2>3
  <2>5. \A g \in Flows : gone'[g] <= saved'
    BY <2>1, <2>3, <2>4 DEF GoneInv
  <2>6. ASSUME NEW x \in Frames, x.n > gone[x.flow], x.n > k PROVE x.n > gone'[x.flow]
    BY <2>4, <2>6 DEF Frames
  <2>7. ASSUME NEW s \in Seq(Frames), LaterThan(s, k), LaterThanGone(s)
        PROVE  \A i \in DOMAIN s : s[i].n > gone'[s[i].flow]
    BY <2>6, <2>7 DEF LaterThan, LaterThanGone
  <2>8. LaterThanGone(batch)' /\ LaterThanGone(pending)'
    BY <1>0, <2>2, <2>3, <2>7 DEF GoneInv, LaterThanGone
  <2>9. ASSUME NEW x \in rows' PROVE x.n > gone'[x.flow]
    <3>1. x \in rows /\ x.flow # f /\ x.flow \in Flows
      BY <2>3 DEF OfFlow, BaseInv, RowTypes
    <3> QED
      BY <2>4, <3>1 DEF GoneInv
  <2> QED
    BY <2>5, <2>8, <2>9 DEF GoneInv
<1>6. ASSUME NEW c \in Callers, Lock(c) \/ LockClosed(c) \/ Return(c) PROVE GoneInv'
  BY <1>1, <1>6 DEF Lock, LockClosed, Return, queueVars, tableVars, flusherVars
<1>7. ASSUME NEW c \in Callers, NEW request \in Requests, Call(c, request) PROVE GoneInv'
  BY <1>1, <1>7 DEF Call, queueVars, tableVars, flusherVars
<1>8. CASE UNCHANGED <<pending, saved, rows, gone, callVars, batch, serving>>
  BY <1>1, <1>8
<1> QED
  BY <1>2, <1>3, <1>4, <1>5, <1>6, <1>7, <1>8, StepsOfFrames

LEMMA DeletedInit == Init => DeletedInv
<1> SUFFICES ASSUME Init PROVE DeletedInv
  OBVIOUS
<1>1. LockInv /\ ClosedInv
  BY IdleType DEF Init, LockInv, ClosedInv
<1>2. 0 <= saved /\ saved = 0
  BY DEF Init
<1>3. FlushedInv
  BY <1>2, IdleType DEF Init, FlushedInv
<1>4. GoneInv
  BY <1>2 DEF Init, GoneInv, LaterThanGone
<1> QED
  BY <1>1, <1>3, <1>4 DEF DeletedInv

\* A frame that was saved before its flow was deleted is neither left nor comes back:
\* the deletion waits for the flush of what was queued when it was called, also when the
\* frames of that flush were lost, and when Close came in between.
THEOREM DeletedFramesStayGone == Spec => []DeletedStayGone
<1>1. FrameInv /\ DeletedInv => DeletedStayGone
  <2> SUFFICES ASSUME QueueTypes, GoneInv, NEW x \in rows \cup InQueue PROVE x.n > gone[x.flow]
    BY DEF FrameInv, BaseInv, DeletedInv, DeletedStayGone
  <2>1. CASE x \in rows
    BY <2>1 DEF GoneInv
  <2>2. CASE x \in InQueue
    <3>1. PICK i \in DOMAIN Line : x = Line[i]
      BY <2>2 DEF InQueue, Range
    <3> QED
      BY <3>1, LineElements DEF GoneInv, LaterThanGone
  <2> QED
    BY <2>1, <2>2
<1>2. FrameInv /\ DeletedInv /\ [Next]_vars => DeletedInv'
  BY LockStep, ClosedStep, FlushedStep, GoneStep DEF FrameInv, DeletedInv
<1> QED
  BY <1>1, <1>2, DeletedInit, FrameInvariant, PTL DEF Spec

================================================================================
