------------------------ MODULE InterceptQueue_proofs ------------------------
(***************************************************************************)
(* Theorems about the intercept engine, for any messages, any number of     *)
(* operators and any number of changes.                                     *)
(***************************************************************************)
EXTENDS InterceptQueue, TLAPS

-----------------------------------------------------------------------------
(* Types *)

ValueType ==
  /\ enabled \subseteq Sides /\ queue \subseteq Items /\ entered \subseteq Items
  /\ seq \in 0..MaxSeq
  /\ dropPending \subseteq Items
  /\ outbox \subseteq 1..MaxSeq /\ notified \subseteq 1..MaxSeq

CallType ==
  /\ holder \in [Items -> {"new", "waiting", "canceled", "over"}]
  /\ verdict \in [Items -> Verdicts]

Slots == {<<>>} \cup {<<d>> : d \in Decisions}

AnswerType ==
  /\ done \in [Items -> Slots]
  /\ op \in [Operators -> [job : Jobs, items : SUBSET Items, gen : 0..MaxSeq]]

\* A release carries the generation of the change that began it: TypeOK needs it,
\* because that generation is what Finish announces.
GenerationKnown == \A c \in Operators : Releasing(c) => op[c].gen \in 1..MaxSeq

TypeInv == ValueType /\ CallType /\ AnswerType /\ GenerationKnown

LEMMA TypeParts == TypeInv => TypeOK
BY DEF TypeInv, TypeOK, ValueType, CallType, AnswerType, Slots

\* A change gets a generation within the bound.
LEMMA ChangedType ==
  ASSUME ValueType, Changed
  PROVE  seq' \in 1..MaxSeq /\ seq' \in 0..MaxSeq
BY SidesAssumption DEF ValueType, Changed, SidesAssumption

\* Taking the decision out of a channel leaves it empty.
LEMMA SlotType ==
  ASSUME NEW s \in Slots, s # <<>>
  PROVE  Head(s) \in Decisions /\ Tail(s) = <<>> /\ s = <<Head(s)>>
<1>1. PICK d \in Decisions : s = <<d>>
  BY DEF Slots
<1>2. Head(<<d>>) = d /\ Tail(<<d>>) = <<>>
  OBVIOUS
<1> QED
  BY <1>1, <1>2

\* What a release decides is a decision.
LEMMA DecisionType == ASSUME NEW c, NEW m PROVE Decision(c, m) \in Decisions
<1>1. Decision(c, m) = "forward" \/ Decision(c, m) = "drop"
  BY DEF Decision
<1> QED
  BY <1>1 DEF Decisions

LEMMA InitType == Init => TypeInv
<1> SUFFICES ASSUME Init PROVE TypeInv
  OBVIOUS
<1>1. ValueType
  BY SidesAssumption DEF Init, HoldInit, ValueType, SidesAssumption
<1>2. CallType
  BY DEF Init, CallType, Verdicts
<1>3. AnswerType
  BY SidesAssumption DEF Init, AnswerType, Idle, Jobs, Slots, SidesAssumption
<1>4. GenerationKnown
  BY DEF Init, Idle, GenerationKnown, Releasing
<1> QED
  BY <1>1, <1>2, <1>3, <1>4 DEF TypeInv

\* An operator's request, as a step writes it down.
LEMMA OpType ==
  ASSUME AnswerType, GenerationKnown, NEW c \in Operators,
         NEW job \in Jobs, NEW items \in SUBSET Items, NEW g \in 0..MaxSeq,
         job \in {"forwarded", "dropped", "drained"} => g \in 1..MaxSeq,
         op' = [op EXCEPT ![c] = [job |-> job, items |-> items, gen |-> g]]
  PROVE  /\ op' \in [Operators -> [job : Jobs, items : SUBSET Items, gen : 0..MaxSeq]]
         /\ GenerationKnown'
<1>1. \A d \in Operators : op'[d] = IF d = c THEN [job |-> job, items |-> items, gen |-> g] ELSE op[d]
  BY DEF AnswerType
<1>2. op' \in [Operators -> [job : Jobs, items : SUBSET Items, gen : 0..MaxSeq]]
  BY DEF AnswerType
<1>3. GenerationKnown'
  BY <1>1 DEF GenerationKnown, Releasing
<1> QED
  BY <1>2, <1>3

LEMMA IdleType ==
  ASSUME AnswerType, GenerationKnown, NEW c \in Operators, op' = [op EXCEPT ![c] = Idle]
  PROVE  /\ op' \in [Operators -> [job : Jobs, items : SUBSET Items, gen : 0..MaxSeq]]
         /\ GenerationKnown'
<1>1. "idle" \in Jobs /\ {} \in SUBSET Items /\ 0 \in 0..MaxSeq
  BY SidesAssumption DEF Jobs, SidesAssumption
<1>2. op' = [op EXCEPT ![c] = [job |-> "idle", items |-> {}, gen |-> 0]]
  BY DEF Idle
<1> QED
  BY <1>1, <1>2, OpType

LEMMA NextType == TypeInv /\ [Next]_vars => TypeInv'
<1> SUFFICES ASSUME ValueType, CallType, AnswerType, GenerationKnown, [Next]_vars
             PROVE  ValueType' /\ CallType' /\ AnswerType' /\ GenerationKnown'
  BY DEF TypeInv
<1> USE DEF vars, holdVars, callVars, notifyVars
<1>1. ASSUME NEW n \in 1..MaxSeq, Notify(n)
      PROVE  ValueType' /\ CallType' /\ AnswerType' /\ GenerationKnown'
  BY <1>1 DEF Notify, ValueType, CallType, AnswerType, GenerationKnown, Releasing
<1>2. ASSUME NEW m \in Items, PassUnheld(m)
      PROVE  ValueType' /\ CallType' /\ AnswerType' /\ GenerationKnown'
  BY <1>2 DEF PassUnheld, ValueType, CallType, AnswerType, Verdicts, GenerationKnown, Releasing
<1>3. ASSUME NEW m \in Items, Hold(m)
      PROVE  ValueType' /\ CallType' /\ AnswerType' /\ GenerationKnown'
  <2>1. seq' \in 1..MaxSeq /\ seq' \in 0..MaxSeq
    BY <1>3, ChangedType DEF Hold, Enter
  <2> QED
    BY <1>3, <2>1 DEF Hold, Enter, Announce, ValueType, CallType, AnswerType, GenerationKnown, Releasing
<1>4. ASSUME NEW m \in Items, Decided(m)
      PROVE  ValueType' /\ CallType' /\ AnswerType' /\ GenerationKnown'
  <2>1. Head(done[m]) \in Verdicts /\ Tail(done[m]) = <<>>
    BY <1>4, SlotType DEF Decided, AnswerType, Verdicts
  <2>2. AnswerType'
    BY <1>4, <2>1 DEF Decided, AnswerType, Slots
  <2> QED
    BY <1>4, <2>1, <2>2 DEF Decided, ValueType, CallType, GenerationKnown, Releasing
<1>5. ASSUME NEW m \in Items, CancelHeld(m)
      PROVE  ValueType' /\ CallType' /\ AnswerType' /\ GenerationKnown'
  <2>1. seq' \in 1..MaxSeq /\ seq' \in 0..MaxSeq
    BY <1>5, ChangedType DEF CancelHeld, Leave
  <2> QED
    BY <1>5, <2>1
       DEF CancelHeld, Leave, Announce, ValueType, CallType, AnswerType, Verdicts, GenerationKnown, Releasing
<1>6. ASSUME NEW m \in Items, CancelLate(m)
      PROVE  ValueType' /\ CallType' /\ AnswerType' /\ GenerationKnown'
  BY <1>6 DEF CancelLate, ValueType, CallType, AnswerType, GenerationKnown, Releasing
<1>7. ASSUME NEW m \in Items, Schedule(m) \/ Undo(m)
      PROVE  ValueType' /\ CallType' /\ AnswerType' /\ GenerationKnown'
  BY <1>7 DEF Schedule, Undo, ValueType, CallType, AnswerType, GenerationKnown, Releasing
<1>8. ASSUME NEW c \in Operators, NEW m \in Items, BeginForward(c, m) \/ BeginDrop(c, m)
      PROVE  ValueType' /\ CallType' /\ AnswerType' /\ GenerationKnown'
  <2>1. PICK job \in {"forward", "drop"} : Begin(c, m, job)
    BY <1>8 DEF BeginForward, BeginDrop
  <2>a. job \in Jobs /\ {m} \in SUBSET Items /\ 0 \in 0..MaxSeq
    BY SidesAssumption DEF Jobs, SidesAssumption
  <2>b. op' = [op EXCEPT ![c] = [job |-> job, items |-> {m}, gen |-> 0]] /\ done' = done
    BY <2>1 DEF Begin
  <2>2. AnswerType' /\ GenerationKnown'
    BY <2>a, <2>b, OpType DEF AnswerType
  <2> QED
    BY <2>1, <2>2 DEF Begin, ValueType, CallType
<1>9. ASSUME NEW c \in Operators, NEW m \in Items, Send(c, m)
      PROVE  ValueType' /\ CallType' /\ AnswerType' /\ GenerationKnown'
  <2>1. <<Decision(c, m)>> \in Slots
    BY DecisionType DEF Slots
  <2>2. AnswerType' /\ GenerationKnown'
    BY <1>9, <2>1 DEF Send, AnswerType, GenerationKnown, Releasing
  <2> QED
    BY <1>9, <2>2 DEF Send, ValueType, CallType
<1>10. ASSUME NEW c \in Operators, NEW s \in Sides, Enable(c, s) \/ Disable(c, s)
       PROVE  ValueType' /\ CallType' /\ AnswerType' /\ GenerationKnown'
  <2>1. seq' \in 1..MaxSeq /\ seq' \in 0..MaxSeq
    BY <1>10, ChangedType DEF Enable, Disable, SwitchOn, SwitchOff
  <2>2. PICK items \in SUBSET Items : op' = [op EXCEPT ![c] = [job |-> "drained", items |-> items, gen |-> seq']]
    BY <1>10 DEF Enable, Disable, ValueType
  <2>3. AnswerType' /\ GenerationKnown'
    BY <1>10, <2>1, <2>2, OpType DEF Enable, Disable, AnswerType, Jobs
  <2> QED
    BY <1>10, <2>1, <2>3 DEF Enable, Disable, SwitchOn, SwitchOff, ValueType, CallType
<1>11. ASSUME NEW c \in Operators, TakeForward(c) \/ TakeDrop(c)
       PROVE  ValueType' /\ CallType' /\ AnswerType' /\ GenerationKnown'
  <2>1. PICK m \in queue, job \in {"forwarded", "dropped"} : Take(c, m, job)
    BY <1>11 DEF TakeForward, TakeDrop
  <2>2. seq' \in 1..MaxSeq /\ seq' \in 0..MaxSeq
    BY <2>1, ChangedType DEF Take, Leave
  <2>3. {m} \in SUBSET Items /\ job \in Jobs
    BY <2>1 DEF ValueType, Jobs
  <2>4. /\ op' \in [Operators -> [job : Jobs, items : SUBSET Items, gen : 0..MaxSeq]]
        /\ GenerationKnown'
    BY <2>1, <2>2, <2>3, OpType DEF Take
  <2>5. done' = done /\ UNCHANGED <<outbox, notified, dropPending, holder, verdict>>
    BY <1>11 DEF TakeForward, TakeDrop
  <2> QED
    BY <2>1, <2>2, <2>4, <2>5 DEF Take, Leave, ValueType, CallType, AnswerType
<1>12. ASSUME NEW c \in Operators, Refused(c)
       PROVE  ValueType' /\ CallType' /\ AnswerType' /\ GenerationKnown'
  <2>1. AnswerType' /\ GenerationKnown'
    BY <1>12, IdleType DEF Refused, AnswerType
  <2> QED
    BY <1>12, <2>1 DEF Refused, ValueType, CallType
<1>13. ASSUME NEW c \in Operators, Finish(c)
       PROVE  ValueType' /\ CallType' /\ AnswerType' /\ GenerationKnown'
  <2>1. AnswerType' /\ GenerationKnown'
    BY <1>13, IdleType DEF Finish, AnswerType
  <2>2. op[c].gen \in 1..MaxSeq
    BY <1>13 DEF Finish, GenerationKnown
  <2> QED
    BY <1>13, <2>1, <2>2 DEF Finish, ValueType, CallType
<1>14. CASE UNCHANGED vars
  BY <1>14 DEF ValueType, CallType, AnswerType, GenerationKnown, Releasing
<1> QED
  BY <1>1, <1>2, <1>3, <1>4, <1>5, <1>6, <1>7, <1>8, <1>9, <1>10, <1>11, <1>12, <1>13, <1>14 DEF Next

\* The variables of the intercept engine stay in their domains (TypeOK): what is
\* announced is always the generation of a change that was made.
THEOREM InterceptTypes == Spec => []TypeOK
<1>1. Spec => []TypeInv
  BY InitType, NextType, PTL DEF Spec
<1> QED
  BY <1>1, TypeParts, PTL
-----------------------------------------------------------------------------
(* Nobody is stranded *)

\* A queued message waits, with an empty channel.
QueuedWaits == \A m \in queue : holder[m] = "waiting" /\ done[m] = <<>>

\* A decision is only ever in the channel of a goroutine that will take it.
AnsweredWaits == \A m \in Items : done[m] # <<>> => holder[m] \in {"waiting", "canceled"}

\* The parts of NeverStranded.
WaitsForSomething ==
  \A m \in Items : holder[m] \in {"waiting", "canceled"} => m \in queue \/ done[m] # <<>> \/ Due(m)
DueWaits ==
  \A c \in Operators : Releasing(c) =>
    \A m \in op[c].items : done[m] = <<>> /\ m \notin queue /\ holder[m] \in {"waiting", "canceled"}
DueOnce ==
  \A c, d \in Operators : Releasing(c) /\ Releasing(d) /\ c # d => op[c].items \cap op[d].items = {}

HoldInv == QueuedWaits /\ AnsweredWaits /\ WaitsForSomething /\ DueWaits /\ DueOnce

\* What NeverStranded says, from the parts of the invariant.
LEMMA StrandedParts == ASSUME TypeInv, HoldInv PROVE NeverStranded
BY DEF HoldInv, NeverStranded, WaitsForSomething, DueWaits, DueOnce, Due, TypeInv, AnswerType

LEMMA InitHoldInv == Init => HoldInv
BY DEF Init, HoldInit, HoldInv, QueuedWaits, AnsweredWaits, WaitsForSomething, DueWaits, DueOnce, Due,
       Releasing, Idle

\* What a step does to the requests of the operators other than the one it is of.
OthersKeep(c) == \A d \in Operators : d # c => op'[d] = op[d]

LEMMA NextHoldInv == TypeInv /\ HoldInv /\ [Next]_vars => HoldInv'
<1> SUFFICES ASSUME ValueType, CallType, AnswerType,
                    QueuedWaits, AnsweredWaits, WaitsForSomething, DueWaits, DueOnce, [Next]_vars
             PROVE  QueuedWaits' /\ AnsweredWaits' /\ WaitsForSomething' /\ DueWaits' /\ DueOnce'
  BY DEF HoldInv, TypeInv
<1> USE DEF vars, holdVars, callVars, notifyVars, QueuedWaits, AnsweredWaits, WaitsForSomething, DueWaits,
            DueOnce, Due, Releasing
<1>1. ASSUME NEW n \in 1..MaxSeq, Notify(n)
      PROVE  QueuedWaits' /\ AnsweredWaits' /\ WaitsForSomething' /\ DueWaits' /\ DueOnce'
  BY <1>1 DEF Notify
<1>2. ASSUME NEW m \in Items, PassUnheld(m)
      PROVE  QueuedWaits' /\ AnsweredWaits' /\ WaitsForSomething' /\ DueWaits' /\ DueOnce'
  BY <1>2 DEF PassUnheld, CallType
<1>3. ASSUME NEW m \in Items, Hold(m)
      PROVE  QueuedWaits' /\ AnsweredWaits' /\ WaitsForSomething' /\ DueWaits' /\ DueOnce'
  BY <1>3 DEF Hold, Enter, CallType
<1>4. ASSUME NEW m \in Items, Decided(m)
      PROVE  QueuedWaits' /\ AnsweredWaits' /\ WaitsForSomething' /\ DueWaits' /\ DueOnce'
  <2>1. Tail(done[m]) = <<>>
    BY <1>4, SlotType DEF Decided, AnswerType
  <2> QED
    BY <1>4, <2>1 DEF Decided, CallType, AnswerType
<1>5. ASSUME NEW m \in Items, CancelHeld(m)
      PROVE  QueuedWaits' /\ AnsweredWaits' /\ WaitsForSomething' /\ DueWaits' /\ DueOnce'
  BY <1>5 DEF CancelHeld, Leave, CallType
<1>6. ASSUME NEW m \in Items, CancelLate(m)
      PROVE  QueuedWaits' /\ AnsweredWaits' /\ WaitsForSomething' /\ DueWaits' /\ DueOnce'
  BY <1>6 DEF CancelLate, CallType
<1>7. ASSUME NEW m \in Items, Schedule(m) \/ Undo(m)
      PROVE  QueuedWaits' /\ AnsweredWaits' /\ WaitsForSomething' /\ DueWaits' /\ DueOnce'
  BY <1>7 DEF Schedule, Undo
<1>8. ASSUME NEW c \in Operators, NEW m \in Items, BeginForward(c, m) \/ BeginDrop(c, m)
      PROVE  QueuedWaits' /\ AnsweredWaits' /\ WaitsForSomething' /\ DueWaits' /\ DueOnce'
  <2>1. OthersKeep(c) /\ op[c].job = "idle" /\ op'[c].job \in {"forward", "drop"}
    BY <1>8 DEF BeginForward, BeginDrop, Begin, OthersKeep, Idle, AnswerType
  <2>2. UNCHANGED <<queue, holder, done>>
    BY <1>8 DEF BeginForward, BeginDrop, Begin
  <2> QED
    BY <2>1, <2>2 DEF OthersKeep
<1>9. ASSUME NEW c \in Operators, NEW m \in Items, Send(c, m)
      PROVE  QueuedWaits' /\ AnsweredWaits' /\ WaitsForSomething' /\ DueWaits' /\ DueOnce'
  <2>1. OthersKeep(c) /\ op'[c].job = op[c].job /\ op'[c].items = op[c].items \ {m}
    BY <1>9 DEF Send, OthersKeep, AnswerType
  <2>2. UNCHANGED <<queue, holder>>
    BY <1>9 DEF Send
  <2>3. /\ \A k \in Items : k # m => done'[k] = done[k]
        /\ done'[m] # <<>> /\ m \in op[c].items
    BY <1>9 DEF Send, AnswerType
  <2>4. Releasing(c) /\ holder[m] \in {"waiting", "canceled"} /\ m \notin queue
    BY <1>9, <2>3 DEF Send
  <2>5. \A d \in Operators : d # c /\ Releasing(d) => m \notin op[d].items
    BY <2>3, <2>4
  <2> QED
    BY <2>1, <2>2, <2>3, <2>4, <2>5 DEF OthersKeep, AnswerType, ValueType
<1>10. ASSUME NEW c \in Operators, NEW s \in Sides, Enable(c, s)
       PROVE  QueuedWaits' /\ AnsweredWaits' /\ WaitsForSomething' /\ DueWaits' /\ DueOnce'
  <2>1. OthersKeep(c) /\ op[c].job = "idle" /\ op'[c].items = {}
    BY <1>10 DEF Enable, OthersKeep, Idle, AnswerType
  <2>2. UNCHANGED <<queue, holder, done>>
    BY <1>10 DEF Enable, SwitchOn
  <2> QED
    BY <2>1, <2>2 DEF OthersKeep
<1>11. ASSUME NEW c \in Operators, NEW s \in Sides, Disable(c, s)
       PROVE  QueuedWaits' /\ AnsweredWaits' /\ WaitsForSomething' /\ DueWaits' /\ DueOnce'
  <2>1. /\ OthersKeep(c) /\ op[c].job = "idle"
        /\ op'[c].job = "drained" /\ op'[c].items = queue \cap OfSide(s)
    BY <1>11 DEF Disable, OthersKeep, Idle, AnswerType
  <2>2. UNCHANGED <<holder, done>> /\ queue' = queue \ OfSide(s)
    BY <1>11 DEF Disable, SwitchOff
  <2> QED
    BY <2>1, <2>2 DEF OthersKeep, ValueType
<1>12. ASSUME NEW c \in Operators, TakeForward(c) \/ TakeDrop(c)
       PROVE  QueuedWaits' /\ AnsweredWaits' /\ WaitsForSomething' /\ DueWaits' /\ DueOnce'
  <2>1. PICK m \in queue, job \in {"forwarded", "dropped"} : Take(c, m, job)
    BY <1>12 DEF TakeForward, TakeDrop
  <2>2. op[c].job \in {"forward", "drop"} /\ UNCHANGED <<holder, done>>
    BY <1>12 DEF TakeForward, TakeDrop
  <2>3. OthersKeep(c) /\ op'[c].job = job /\ op'[c].items = {m} /\ queue' = queue \ {m}
    BY <2>1 DEF Take, Leave, OthersKeep, AnswerType
  <2> QED
    BY <2>1, <2>2, <2>3 DEF OthersKeep, ValueType
<1>13. ASSUME NEW c \in Operators, Refused(c) \/ Finish(c)
       PROVE  QueuedWaits' /\ AnsweredWaits' /\ WaitsForSomething' /\ DueWaits' /\ DueOnce'
  <2>1. OthersKeep(c) /\ op'[c].job = "idle" /\ (Releasing(c) => op[c].items = {})
    BY <1>13 DEF Refused, Finish, OthersKeep, Idle, AnswerType
  <2>2. UNCHANGED <<queue, holder, done>>
    BY <1>13 DEF Refused, Finish
  <2> QED
    BY <2>1, <2>2 DEF OthersKeep
<1>14. CASE UNCHANGED vars
  BY <1>14
<1> QED
  BY <1>1, <1>2, <1>3, <1>4, <1>5, <1>6, <1>7, <1>8, <1>9, <1>10, <1>11, <1>12, <1>13, <1>14 DEF Next

\* A goroutine whose message has left the queue has its decision in its channel
\* or coming from the one release that took the message (NeverStranded).
THEOREM NobodyIsStranded == Spec => []NeverStranded
<1>1. Spec => [](TypeInv /\ HoldInv)
  BY InitType, NextType, InitHoldInv, NextHoldInv, PTL DEF Spec
<1>2. TypeInv /\ HoldInv => NeverStranded
  BY StrandedParts
<1> QED
  BY <1>1, <1>2, PTL

-----------------------------------------------------------------------------
(* A scheduled drop wins *)

\* A message is told to go on only by its verdict: until then it has none.
UndecidedHasNone == \A m \in Items : holder[m] # "over" => verdict[m] = "none"

\* A forward that has taken its message took it unmarked, and a mark needs the queue.
ForwardsUnmarked ==
  \A c \in Operators : op[c].job = "forwarded" => op[c].items \cap dropPending = {}

DropInv == UndecidedHasNone /\ ForwardsUnmarked /\ ScheduledDropWins

LEMMA InitDropInv == Init => DropInv
BY DEF Init, HoldInit, DropInv, UndecidedHasNone, ForwardsUnmarked, ScheduledDropWins

\* What a release decides on a marked message is a drop.
LEMMA MarkedIsDropped ==
  ASSUME NEW c \in Operators, NEW m \in dropPending, m \in op[c].items, Releasing(c), ForwardsUnmarked
  PROVE  Decision(c, m) = "drop"
<1>1. op[c].job # "forwarded"
  BY DEF ForwardsUnmarked
<1>2. op[c].job = "dropped" \/ op[c].job = "drained"
  BY <1>1 DEF Releasing
<1> QED
  BY <1>2 DEF Decision

LEMMA NextDropInv == TypeInv /\ HoldInv /\ DropInv /\ [Next]_vars => DropInv'
<1> SUFFICES ASSUME ValueType, CallType, AnswerType, QueuedWaits, AnsweredWaits, DueWaits,
                    UndecidedHasNone, ForwardsUnmarked, ScheduledDropWins, [Next]_vars
             PROVE  UndecidedHasNone' /\ ForwardsUnmarked' /\ ScheduledDropWins'
  BY DEF TypeInv, HoldInv, DropInv
<1> USE DEF vars, holdVars, callVars, notifyVars, UndecidedHasNone, ForwardsUnmarked, ScheduledDropWins
<1>1. ASSUME NEW n \in 1..MaxSeq, Notify(n)
      PROVE  UndecidedHasNone' /\ ForwardsUnmarked' /\ ScheduledDropWins'
  BY <1>1 DEF Notify
<1>2. ASSUME NEW m \in Items, PassUnheld(m) \/ CancelHeld(m) \/ CancelLate(m)
      PROVE  UndecidedHasNone' /\ ForwardsUnmarked' /\ ScheduledDropWins'
  BY <1>2 DEF PassUnheld, CancelHeld, CancelLate, CallType, ValueType
<1>3. ASSUME NEW m \in Items, Hold(m)
      PROVE  UndecidedHasNone' /\ ForwardsUnmarked' /\ ScheduledDropWins'
  BY <1>3 DEF Hold, Enter, CallType
<1>4. ASSUME NEW m \in Items, Decided(m)
      PROVE  UndecidedHasNone' /\ ForwardsUnmarked' /\ ScheduledDropWins'
  <2>1. Tail(done[m]) = <<>> /\ done[m] = <<Head(done[m])>>
    BY <1>4, SlotType DEF Decided, AnswerType
  <2>2. m \in dropPending => Head(done[m]) # "forward"
    BY <2>1
  <2>3. <<>> # <<"forward">>
    OBVIOUS
  <2> QED
    BY <1>4, <2>1, <2>2, <2>3 DEF Decided, CallType, AnswerType, ValueType
<1>5. ASSUME NEW m \in Items, Schedule(m)
      PROVE  UndecidedHasNone' /\ ForwardsUnmarked' /\ ScheduledDropWins'
  <2>1. holder[m] = "waiting" /\ done[m] = <<>> /\ verdict[m] = "none"
    BY <1>5 DEF Schedule, QueuedWaits
  <2>2. \A c \in Operators : op[c].job = "forwarded" => m \notin op[c].items
    BY <1>5 DEF Schedule, DueWaits, Releasing
  <2> QED
    BY <1>5, <2>1, <2>2 DEF Schedule
<1>6. ASSUME NEW m \in Items, Undo(m)
      PROVE  UndecidedHasNone' /\ ForwardsUnmarked' /\ ScheduledDropWins'
  BY <1>6 DEF Undo
<1>7. ASSUME NEW c \in Operators, NEW m \in Items, BeginForward(c, m) \/ BeginDrop(c, m)
      PROVE  UndecidedHasNone' /\ ForwardsUnmarked' /\ ScheduledDropWins'
  <2>1. OthersKeep(c) /\ op'[c].job \in {"forward", "drop"}
    BY <1>7 DEF BeginForward, BeginDrop, Begin, OthersKeep, AnswerType
  <2>2. UNCHANGED <<holder, verdict, done, dropPending>>
    BY <1>7 DEF BeginForward, BeginDrop, Begin
  <2> QED
    BY <2>1, <2>2 DEF OthersKeep
<1>8. ASSUME NEW c \in Operators, NEW m \in Items, Send(c, m)
      PROVE  UndecidedHasNone' /\ ForwardsUnmarked' /\ ScheduledDropWins'
  <2>1. OthersKeep(c) /\ op'[c].job = op[c].job /\ op'[c].items \subseteq op[c].items
    BY <1>8 DEF Send, OthersKeep, AnswerType
  <2>2. m \in dropPending => Decision(c, m) = "drop"
    BY <1>8, MarkedIsDropped DEF Send
  <2>3. <<"drop">> # <<"forward">>
    OBVIOUS
  <2>4. m \in dropPending => done'[m] = <<"drop">>
    BY <1>8, <2>2 DEF Send, AnswerType
  <2>5. \A k \in Items : k # m => done'[k] = done[k]
    BY <1>8 DEF Send, AnswerType
  <2> QED
    BY <1>8, <2>1, <2>3, <2>4, <2>5 DEF Send, OthersKeep, ValueType
<1>9. ASSUME NEW c \in Operators, NEW s \in Sides, Enable(c, s) \/ Disable(c, s)
      PROVE  UndecidedHasNone' /\ ForwardsUnmarked' /\ ScheduledDropWins'
  <2>1. OthersKeep(c) /\ op'[c].job = "drained"
    BY <1>9 DEF Enable, Disable, OthersKeep, AnswerType
  <2>2. UNCHANGED <<holder, verdict, done, dropPending>>
    BY <1>9 DEF Enable, Disable
  <2> QED
    BY <2>1, <2>2 DEF OthersKeep
<1>10. ASSUME NEW c \in Operators, TakeForward(c)
       PROVE  UndecidedHasNone' /\ ForwardsUnmarked' /\ ScheduledDropWins'
  <2>1. PICK m \in queue \ dropPending : Take(c, m, "forwarded")
    BY <1>10 DEF TakeForward
  <2>2. OthersKeep(c) /\ op'[c].items = {m}
    BY <2>1 DEF Take, OthersKeep, AnswerType
  <2>3. UNCHANGED <<holder, verdict, done, dropPending>>
    BY <1>10 DEF TakeForward
  <2> QED
    BY <2>1, <2>2, <2>3 DEF OthersKeep
<1>11. ASSUME NEW c \in Operators, TakeDrop(c)
       PROVE  UndecidedHasNone' /\ ForwardsUnmarked' /\ ScheduledDropWins'
  <2>1. OthersKeep(c) /\ op'[c].job = "dropped"
    BY <1>11 DEF TakeDrop, Take, OthersKeep, AnswerType
  <2>2. UNCHANGED <<holder, verdict, done, dropPending>>
    BY <1>11 DEF TakeDrop
  <2> QED
    BY <2>1, <2>2 DEF OthersKeep
<1>12. ASSUME NEW c \in Operators, Refused(c) \/ Finish(c)
       PROVE  UndecidedHasNone' /\ ForwardsUnmarked' /\ ScheduledDropWins'
  <2>1. OthersKeep(c) /\ op'[c].job = "idle"
    BY <1>12 DEF Refused, Finish, OthersKeep, Idle, AnswerType
  <2>2. UNCHANGED <<holder, verdict, done, dropPending>>
    BY <1>12 DEF Refused, Finish
  <2> QED
    BY <2>1, <2>2 DEF OthersKeep
<1>13. CASE UNCHANGED vars
  BY <1>13
<1> QED
  BY <1>1, <1>2, <1>3, <1>4, <1>5, <1>6, <1>7, <1>8, <1>9, <1>10, <1>11, <1>12, <1>13 DEF Next

\* A message whose drop is scheduled and was not undone is never told to go on,
\* by a forward or by a drain that runs meanwhile (ScheduledDropWins).
THEOREM DropWins == Spec => []ScheduledDropWins
<1>1. Spec => [](TypeInv /\ HoldInv /\ DropInv)
  BY InitType, NextType, InitHoldInv, NextHoldInv, InitDropInv, NextDropInv, PTL DEF Spec
<1>2. TypeInv /\ HoldInv /\ DropInv => ScheduledDropWins
  BY DEF DropInv
<1> QED
  BY <1>1, <1>2, PTL

-----------------------------------------------------------------------------
(* A side that is off holds nothing *)

\* Nobody waits on a gate that is switched off (OffHoldsNothing).
THEOREM OffIsEmpty == Spec => []OffHoldsNothing
<1>1. Init => OffHoldsNothing
  BY DEF Init, HoldInit, OffHoldsNothing
<1>2. TypeInv /\ OffHoldsNothing /\ [Next]_vars => OffHoldsNothing'
  <2> SUFFICES ASSUME ValueType, OffHoldsNothing, [Next]_vars PROVE OffHoldsNothing'
    BY DEF TypeInv
  <2> USE DEF vars, holdVars, callVars, notifyVars, OffHoldsNothing
  <2>1. ASSUME NEW m \in Items, Hold(m) \/ CancelHeld(m) PROVE OffHoldsNothing'
    BY <2>1 DEF Hold, CancelHeld, Enter, Leave
  <2>2. ASSUME NEW c \in Operators, NEW s \in Sides, Enable(c, s) \/ Disable(c, s) PROVE OffHoldsNothing'
    BY <2>2 DEF Enable, Disable, SwitchOn, SwitchOff, OfSide, ValueType
  <2>3. ASSUME NEW c \in Operators, TakeForward(c) \/ TakeDrop(c) PROVE OffHoldsNothing'
    BY <2>3 DEF TakeForward, TakeDrop, Take, Leave
  <2>4. ASSUME \/ \E n \in 1..MaxSeq : Notify(n)
               \/ \E m \in Items : PassUnheld(m) \/ Decided(m) \/ CancelLate(m) \/ Schedule(m) \/ Undo(m)
               \/ \E c \in Operators, m \in Items : BeginForward(c, m) \/ BeginDrop(c, m) \/ Send(c, m)
               \/ \E c \in Operators : Refused(c) \/ Finish(c)
               \/ UNCHANGED vars
        PROVE  OffHoldsNothing'
    BY <2>4 DEF Notify, PassUnheld, Decided, CancelLate, Schedule, Undo, BeginForward, BeginDrop, Begin,
                Send, Refused, Finish
  <2> QED
    BY <2>1, <2>2, <2>3, <2>4 DEF Next
<1> QED
  BY <1>1, <1>2, InitType, NextType, PTL DEF Spec

-----------------------------------------------------------------------------
(* Every change is counted once *)

\* Two releases never carry the same generation.
CarriedOnce ==
  \A c, d \in Operators : Releasing(c) /\ Releasing(d) /\ c # d => op[c].gen # op[d].gen

CountInv == EveryChangeCounted /\ CarriedOnce

\* What the releases carry is the same when each carries what it did.
LEMMA CarriedSame ==
  ASSUME \A c \in Operators : Releasing(c)' = Releasing(c) /\ (Releasing(c) => op'[c].gen = op[c].gen)
  PROVE  Carried' = Carried
BY DEF Carried

\* A new generation is the next number.
LEMMA NewGeneration ==
  ASSUME ValueType, Changed
  PROVE  1..seq' = (1..seq) \cup {seq'} /\ seq' \notin 1..seq
<1>1. seq \in Nat /\ seq' = seq + 1
  BY SidesAssumption DEF ValueType, Changed, SidesAssumption
<1> QED
  BY <1>1

\* A change that is announced at once: its generation is new to all three sets.
LEMMA AnnouncedIsCounted ==
  ASSUME TypeInv, CountInv, Changed, Announce, UNCHANGED op
  PROVE  CountInv'
<1>1. Carried' = Carried
  BY CarriedSame DEF Releasing
<1>2. /\ outbox' = outbox \cup {seq'} /\ notified' = notified
      /\ 1..seq' = (1..seq) \cup {seq'} /\ seq' \notin 1..seq
  BY NewGeneration DEF Announce, TypeInv
<1>3. EveryChangeCounted'
  BY <1>1, <1>2 DEF CountInv, EveryChangeCounted
<1> QED
  BY <1>3 DEF CountInv, CarriedOnce, Releasing

\* A change that its release carries until the decisions are out.
LEMMA CarriedIsCounted ==
  ASSUME TypeInv, CountInv, Changed, NEW c \in Operators, ~Releasing(c), Releasing(c)',
         op'[c].gen = seq', OthersKeep(c), UNCHANGED notifyVars
  PROVE  CountInv'
<1>1. Carried' = Carried \cup {seq'}
  BY DEF Carried, OthersKeep, Releasing
<1>2. 1..seq' = (1..seq) \cup {seq'} /\ seq' \notin 1..seq
  BY NewGeneration DEF TypeInv
<1>3. EveryChangeCounted'
  BY <1>1, <1>2 DEF CountInv, EveryChangeCounted, notifyVars
<1>4. \A d \in Operators : Releasing(d) => op[d].gen # seq'
  BY <1>2 DEF CountInv, EveryChangeCounted, Carried
<1>5. CarriedOnce'
  BY <1>4 DEF CountInv, CarriedOnce, OthersKeep, Releasing
<1> QED
  BY <1>3, <1>5 DEF CountInv

\* Steps that make no change and announce none: each operator carries what it did.
LEMMA NothingCounted ==
  ASSUME CountInv, UNCHANGED <<seq, outbox, notified>>,
         \A c \in Operators : Releasing(c)' = Releasing(c) /\ (Releasing(c) => op'[c].gen = op[c].gen)
  PROVE  CountInv'
<1>1. EveryChangeCounted'
  BY CarriedSame DEF CountInv, EveryChangeCounted
<1>2. CarriedOnce'
  BY DEF CountInv, CarriedOnce
<1> QED
  BY <1>1, <1>2 DEF CountInv

\* The count through every action.
LEMMA NextCountInv == TypeInv /\ CountInv /\ [Next]_vars => CountInv'
<1> SUFFICES ASSUME TypeInv, ValueType, AnswerType, CountInv, [Next]_vars PROVE CountInv'
  BY DEF TypeInv
<1>1. ASSUME NEW n \in 1..MaxSeq, Notify(n) PROVE CountInv'
  <2>1. /\ outbox' = outbox \ {n} /\ notified' = notified \cup {n} /\ n \in outbox
        /\ UNCHANGED <<seq, op>>
    BY <1>1 DEF Notify, holdVars
  <2>2. Carried' = Carried
    BY <2>1, CarriedSame DEF Releasing
  <2>3. EveryChangeCounted'
    BY <2>1, <2>2 DEF CountInv, EveryChangeCounted
  <2> QED
    BY <2>1, <2>3 DEF CountInv, CarriedOnce, Releasing
<1>2. ASSUME NEW m \in Items, Hold(m) \/ CancelHeld(m) PROVE CountInv'
  BY <1>2, AnnouncedIsCounted DEF Hold, CancelHeld, Enter, Leave
<1>3. ASSUME NEW c \in Operators, NEW s \in Sides, Enable(c, s) \/ Disable(c, s) PROVE CountInv'
  <2>1. /\ op[c].job = "idle" /\ op'[c].job = "drained" /\ op'[c].gen = seq' /\ OthersKeep(c)
        /\ Changed /\ UNCHANGED notifyVars
    BY <1>3 DEF Enable, Disable, SwitchOn, SwitchOff, Idle, OthersKeep, AnswerType
  <2> QED
    BY <2>1, CarriedIsCounted DEF Releasing
<1>4. ASSUME NEW c \in Operators, TakeForward(c) \/ TakeDrop(c) PROVE CountInv'
  <2>1. PICK m \in queue, job \in {"forwarded", "dropped"} : Take(c, m, job)
    BY <1>4 DEF TakeForward, TakeDrop
  <2>2. op[c].job \in {"forward", "drop"} /\ UNCHANGED notifyVars
    BY <1>4 DEF TakeForward, TakeDrop
  <2>3. op'[c].job = job /\ op'[c].gen = seq' /\ OthersKeep(c) /\ Changed
    BY <2>1 DEF Take, Leave, OthersKeep, AnswerType
  <2> QED
    BY <2>2, <2>3, CarriedIsCounted DEF Releasing
<1>5. ASSUME NEW c \in Operators, Finish(c) PROVE CountInv'
  <2>1. /\ Releasing(c) /\ op'[c].job = "idle" /\ OthersKeep(c) /\ outbox' = outbox \cup {op[c].gen}
        /\ UNCHANGED <<seq, notified>>
    BY <1>5 DEF Finish, Idle, OthersKeep, AnswerType, holdVars
  <2>2. Carried' = Carried \ {op[c].gen}
    BY <2>1 DEF Carried, Releasing, OthersKeep, CountInv, CarriedOnce
  <2>3. op[c].gen \in Carried
    BY <2>1 DEF Carried
  <2>4. EveryChangeCounted'
    BY <2>1, <2>2, <2>3 DEF CountInv, EveryChangeCounted
  <2>5. CarriedOnce'
    BY <2>1 DEF CountInv, CarriedOnce, OthersKeep, Releasing
  <2> QED
    BY <2>4, <2>5 DEF CountInv
<1>6. ASSUME NEW m \in Items,
             PassUnheld(m) \/ Decided(m) \/ CancelLate(m) \/ Schedule(m) \/ Undo(m)
      PROVE  CountInv'
  <2>1. UNCHANGED <<seq, outbox, notified, op>>
    BY <1>6 DEF PassUnheld, Decided, CancelLate, Schedule, Undo, holdVars, notifyVars
  <2> QED
    BY <2>1, NothingCounted DEF Releasing
<1>7. ASSUME NEW c \in Operators,
             \/ \E m \in Items : BeginForward(c, m) \/ BeginDrop(c, m)
             \/ Refused(c)
      PROVE  CountInv'
  <2>1. /\ OthersKeep(c) /\ op[c].job \in {"idle", "forward", "drop"}
        /\ op'[c].job \in {"idle", "forward", "drop"}
    BY <1>7 DEF BeginForward, BeginDrop, Begin, Refused, OthersKeep, Idle, AnswerType
  <2>2. UNCHANGED <<seq, outbox, notified>>
    BY <1>7 DEF BeginForward, BeginDrop, Begin, Refused, holdVars, notifyVars
  <2> QED
    BY <2>1, <2>2, NothingCounted DEF Releasing, OthersKeep
<1>8. ASSUME NEW c \in Operators, NEW m \in Items, Send(c, m) PROVE CountInv'
  <2>1. OthersKeep(c) /\ op'[c].job = op[c].job /\ op'[c].gen = op[c].gen
    BY <1>8 DEF Send, OthersKeep, AnswerType
  <2>2. UNCHANGED <<seq, outbox, notified>>
    BY <1>8 DEF Send, holdVars, notifyVars
  <2> QED
    BY <2>1, <2>2, NothingCounted DEF Releasing, OthersKeep
<1>9. CASE UNCHANGED vars
  <2>1. UNCHANGED <<seq, outbox, notified, op>>
    BY <1>9 DEF vars, holdVars, notifyVars
  <2> QED
    BY <2>1, NothingCounted DEF Releasing
<1> QED
  BY <1>1, <1>2, <1>3, <1>4, <1>5, <1>6, <1>7, <1>8, <1>9 DEF Next

\* However operators, drains and cancellations interleave, each generation is
\* notified, on its way, or carried by the one release that made it, and nowhere
\* twice (EveryChangeCounted): a mirror that misses a generation sees a gap.
THEOREM ChangesAreCounted == Spec => []EveryChangeCounted
<1>1. Init => CountInv
  <2> SUFFICES ASSUME Init PROVE CountInv
    OBVIOUS
  <2>1. \A c \in Operators : ~Releasing(c)
    BY DEF Init, Releasing, Idle
  <2>2. Carried = {} /\ 1..seq = {} /\ outbox = {} /\ notified = {}
    BY <2>1 DEF Init, HoldInit, Carried
  <2> QED
    BY <2>1, <2>2 DEF CountInv, EveryChangeCounted, CarriedOnce
<1>2. CountInv => EveryChangeCounted
  BY DEF CountInv
<1> QED
  BY <1>1, <1>2, InitType, NextType, NextCountInv, PTL DEF Spec

-----------------------------------------------------------------------------
(* The engine implements the two hold queues *)

\* The goroutines, the channels and the decisions change the queues by the steps of
\* HoldQueue only: a message is queued once, on a side that is on, and leaves once,
\* one generation per change.
THEOREM EngineHolds == Spec => HoldSpec
<1>1. Init => HoldInit
  BY DEF Init
<1>2. TypeInv /\ [Next]_vars => [HoldNext]_holdVars
  <2> SUFFICES ASSUME ValueType, [Next]_vars PROVE HoldNext \/ UNCHANGED holdVars
    BY DEF TypeInv
  <2>1. ASSUME NEW m \in Items, Hold(m) \/ CancelHeld(m) PROVE HoldNext
    BY <2>1 DEF Hold, CancelHeld, HoldNext
  <2>2. ASSUME NEW c \in Operators, NEW s \in Sides, Enable(c, s) \/ Disable(c, s) PROVE HoldNext
    BY <2>2 DEF Enable, Disable, HoldNext
  <2>3. ASSUME NEW c \in Operators, TakeForward(c) \/ TakeDrop(c) PROVE HoldNext
    <3>1. PICK m \in queue : Leave(m)
      BY <2>3 DEF TakeForward, TakeDrop, Take
    <3> QED
      BY <3>1 DEF HoldNext, ValueType
  <2>4. ASSUME \/ \E n \in 1..MaxSeq : Notify(n)
               \/ \E m \in Items : PassUnheld(m) \/ Decided(m) \/ CancelLate(m) \/ Schedule(m) \/ Undo(m)
               \/ \E c \in Operators, m \in Items : BeginForward(c, m) \/ BeginDrop(c, m) \/ Send(c, m)
               \/ \E c \in Operators : Refused(c) \/ Finish(c)
               \/ UNCHANGED vars
        PROVE  UNCHANGED holdVars
    BY <2>4 DEF vars, Notify, PassUnheld, Decided, CancelLate, Schedule, Undo, BeginForward, BeginDrop,
                Begin, Send, Refused, Finish
  <2> QED
    BY <2>1, <2>2, <2>3, <2>4 DEF Next
<1> QED
  BY <1>1, <1>2, InitType, NextType, PTL DEF Spec, HoldSpec
==============================================================================
