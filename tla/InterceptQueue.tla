---------------------------- MODULE InterceptQueue ----------------------------
(***************************************************************************)
(* The intercept engine with its goroutines (internal/intercept): proxy     *)
(* goroutines that hold a message and wait for a decision or for their      *)
(* client to go away; operators, several at once, that forward it, drop it, *)
(* schedule a drop or switch interception off; and the notification of each *)
(* change, sent after the lock is let go.                                   *)
(*                                                                         *)
(* Requests and responses are handled alike (intercept.go, response.go);    *)
(* a message knows its side.  The generation counter is shared.             *)
(***************************************************************************)
EXTENDS HoldQueue, Sequences

CONSTANTS Operators  \* requests to the control API that may run at once

VARIABLES
  holder,   \* how far the call that holds each message got
  done,     \* the decisions put into each message's channel, of capacity one
  dropPending,  \* messages an operator has scheduled to drop
  op,       \* what each operator's request is doing
  outbox,   \* changes applied but not yet notified: generation and goroutine
  notified, \* generations the notifier was called with
  verdict   \* what each held message was told

callVars   == <<holder, verdict>>
notifyVars == <<outbox, notified>>
vars == <<holdVars, callVars, done, dropPending, op, notifyVars>>

Decisions == {"forward", "drop"}
Verdicts == {"none", "unheld", "canceled"} \cup Decisions
Jobs == {"idle", "forward", "drop", "forwarded", "dropped", "drained"}

Idle == [job |-> "idle", items |-> {}, gen |-> 0]

Init ==
  /\ HoldInit
  /\ holder = [m \in Items |-> "new"] /\ verdict = [m \in Items |-> "none"]
  /\ done = [m \in Items |-> <<>>]
  /\ dropPending = {}
  /\ op = [c \in Operators |-> Idle]
  /\ outbox = {} /\ notified = {}

\* emit runs once the lock is free, in the goroutine that made the change.
Announce == outbox' = outbox \cup {seq'} /\ UNCHANGED notified

Notify(n) ==
  /\ n \in outbox
  /\ outbox' = outbox \ {n} /\ notified' = notified \cup {n}
  /\ UNCHANGED <<holdVars, callVars, done, dropPending, op>>

(* ------------------------- the goroutine of a message ------------------- *)

\* Interception is off, or the filter does not match.
PassUnheld(m) ==
  /\ holder[m] = "new"
  /\ holder' = [holder EXCEPT ![m] = "over"] /\ verdict' = [verdict EXCEPT ![m] = "unheld"]
  /\ UNCHANGED <<holdVars, done, dropPending, op, notifyVars>>

\* Fault: whether the side is on was looked at before the lock was taken.
HoldAnyway(m) ==
  /\ holder[m] = "new" /\ Changed /\ Announce
  /\ queue' = queue \cup {m} /\ entered' = entered \cup {m}
  /\ holder' = [holder EXCEPT ![m] = "waiting"]
  /\ UNCHANGED <<enabled, verdict, done, dropPending, op>>

\* Between one lock and its release: the side is on, and the message is queued.
Hold(m) ==
  /\ holder[m] = "new"
  /\ Enter(m) /\ Announce
  /\ holder' = [holder EXCEPT ![m] = "waiting"]
  /\ UNCHANGED <<verdict, done, dropPending, op>>

\* The select takes the decision, or the receive that follows a lost cancellation.
Decided(m) ==
  /\ holder[m] \in {"waiting", "canceled"} /\ done[m] # <<>>
  /\ verdict' = [verdict EXCEPT ![m] = Head(done[m])]
  /\ done' = [done EXCEPT ![m] = Tail(@)]
  /\ holder' = [holder EXCEPT ![m] = "over"]
  /\ UNCHANGED <<holdVars, dropPending, op, notifyVars>>

\* The client goes away while its message is still queued ...
CancelHeld(m) ==
  /\ holder[m] = "waiting"
  /\ Leave(m) /\ Announce
  /\ holder' = [holder EXCEPT ![m] = "over"] /\ verdict' = [verdict EXCEPT ![m] = "canceled"]
  /\ UNCHANGED <<done, dropPending, op>>

\* ... or after somebody has taken it: their decision is on its way.
CancelLate(m) ==
  /\ holder[m] = "waiting" /\ m \notin queue
  /\ holder' = [holder EXCEPT ![m] = "canceled"]
  /\ UNCHANGED <<verdict, holdVars, done, dropPending, op, notifyVars>>

(* ------------------------------- operators ------------------------------ *)

\* Forward and Drop first look the message up ...
Begin(c, m, job) ==
  /\ op[c] = Idle /\ m \in queue
  /\ op' = [op EXCEPT ![c] = [job |-> job, items |-> {m}, gen |-> 0]]
  /\ UNCHANGED <<holdVars, callVars, done, dropPending, notifyVars>>

BeginForward(c, m) == Begin(c, m, "forward")
BeginDrop(c, m) == Begin(c, m, "drop")

Take(c, m, job) ==
  /\ Leave(m)
  /\ op' = [op EXCEPT ![c] = [job |-> job, items |-> {m}, gen |-> seq']]

\* Fault: Forward relies on what it saw when it looked the message up.
TakesMarked(c) ==
  \E m \in op[c].items :
    /\ op[c].job = "forward" /\ m \in queue
    /\ Take(c, m, "forwarded")
    /\ UNCHANGED <<callVars, done, dropPending, notifyVars>>

\* ... then takeForForward takes it under one lock, unless a drop is scheduled ...
TakeForward(c) ==
  \E m \in op[c].items :
    /\ op[c].job = "forward" /\ m \in queue \ dropPending
    /\ Take(c, m, "forwarded")
    /\ UNCHANGED <<callVars, done, dropPending, notifyVars>>

\* ... or removeReq takes it whatever is scheduled.
TakeDrop(c) ==
  \E m \in op[c].items :
    /\ op[c].job = "drop" /\ m \in queue
    /\ Take(c, m, "dropped")
    /\ UNCHANGED <<callVars, done, dropPending, notifyVars>>

\* ErrNotHeld, ErrDropPending, or an edited request that does not parse.
Refused(c) ==
  /\ op[c].job \in {"forward", "drop"}
  /\ op[c].job = "drop" => op[c].items \cap queue = {}
  /\ op' = [op EXCEPT ![c] = Idle]
  /\ UNCHANGED <<holdVars, callVars, done, dropPending, notifyVars>>

\* SetEnabled and SetResponseEnabled: what was held is to be drained.
Enable(c, s) ==
  /\ op[c] = Idle /\ SwitchOn(s)
  /\ op' = [op EXCEPT ![c] = [job |-> "drained", items |-> {}, gen |-> seq']]
  /\ UNCHANGED <<callVars, done, dropPending, notifyVars>>

\* Fault: the list of drained messages is built again from both queues.
DisableBoth(c, s) ==
  /\ op[c] = Idle /\ SwitchOff(s)
  /\ op' = [op EXCEPT ![c] = [job |-> "drained", items |-> queue, gen |-> seq']]
  /\ UNCHANGED <<callVars, done, dropPending, notifyVars>>

\* Fault: what was held is cleared, and not drained.
DisableForgets(c, s) ==
  /\ op[c] = Idle /\ SwitchOff(s)
  /\ op' = [op EXCEPT ![c] = [job |-> "drained", items |-> {}, gen |-> seq']]
  /\ UNCHANGED <<callVars, done, dropPending, notifyVars>>

Disable(c, s) ==
  /\ op[c] = Idle /\ SwitchOff(s)
  /\ op' = [op EXCEPT ![c] = [job |-> "drained", items |-> queue \cap OfSide(s), gen |-> seq']]
  /\ UNCHANGED <<callVars, done, dropPending, notifyVars>>

\* A drain drops what is scheduled to drop, and forwards the rest.
Decision(c, m) ==
  CASE op[c].job = "forwarded" -> "forward"
    [] op[c].job = "dropped" -> "drop"
    [] op[c].job = "drained" /\ m \in dropPending -> "drop"
    [] OTHER -> "forward"

Releasing(c) == op[c].job \in {"forwarded", "dropped", "drained"}

\* One decision goes into the message's channel; a full channel would block.
Send(c, m) ==
  /\ Releasing(c) /\ m \in op[c].items /\ done[m] = <<>>
  /\ done' = [done EXCEPT ![m] = <<Decision(c, m)>>]
  /\ op' = [op EXCEPT ![c].items = @ \ {m}]
  /\ UNCHANGED <<holdVars, callVars, dropPending, notifyVars>>

\* Fault: a change that drained nothing is not announced.
FinishQuietly(c) ==
  /\ Releasing(c) /\ op[c].items = {}
  /\ outbox' = IF op[c].job = "drained" THEN outbox ELSE outbox \cup {op[c].gen}
  /\ op' = [op EXCEPT ![c] = Idle]
  /\ UNCHANGED <<holdVars, callVars, done, dropPending, notified>>

\* The decisions are out: the change is announced.
Finish(c) ==
  /\ Releasing(c) /\ op[c].items = {}
  /\ outbox' = outbox \cup {op[c].gen}
  /\ op' = [op EXCEPT ![c] = Idle]
  /\ UNCHANGED <<holdVars, callVars, done, dropPending, notified>>

\* SetDropPending, SetResponseDropPending: a drop is scheduled, or undone.
Schedule(m) ==
  /\ m \in queue \ dropPending
  /\ dropPending' = dropPending \cup {m}
  /\ UNCHANGED <<holdVars, callVars, done, op, notifyVars>>

Undo(m) ==
  /\ m \in queue \cap dropPending
  /\ dropPending' = dropPending \ {m}
  /\ UNCHANGED <<holdVars, callVars, done, op, notifyVars>>

Next ==
  \/ \E n \in 1..MaxSeq : Notify(n)
  \/ \E m \in Items : \/ PassUnheld(m) \/ Hold(m) \/ Decided(m) \/ CancelHeld(m) \/ CancelLate(m)
                      \/ Schedule(m) \/ Undo(m)
  \/ \E c \in Operators :
       \/ \E m \in Items : BeginForward(c, m) \/ BeginDrop(c, m) \/ Send(c, m)
       \/ \E s \in Sides : Enable(c, s) \/ Disable(c, s)
       \/ TakeForward(c) \/ TakeDrop(c) \/ Refused(c) \/ Finish(c)

\* Goroutines that can go on do: a receive whose decision is there, a release
\* that has begun, a notification.  Clients and operators owe nothing.
Fairness ==
  /\ \A m \in Items : WF_vars(Decided(m))
  /\ \A c \in Operators : WF_vars(Finish(c)) /\ \A m \in Items : WF_vars(Send(c, m))
  /\ \A n \in 1..MaxSeq : WF_vars(Notify(n))

Spec == Init /\ [][Next]_vars /\ Fairness

(* ------------------------------ properties ------------------------------ *)

\* Every variable stays in its domain.
TypeOK ==
  /\ enabled \in SUBSET Sides /\ queue \in SUBSET Items /\ entered \in SUBSET Items
  /\ seq \in 0..MaxSeq
  /\ holder \in [Items -> {"new", "waiting", "canceled", "over"}]
  /\ verdict \in [Items -> Verdicts]
  /\ done \in [Items -> {<<>>} \cup {<<d>> : d \in Decisions}]
  /\ dropPending \in SUBSET Items
  /\ op \in [Operators -> [job : Jobs, items : SUBSET Items, gen : 0..MaxSeq]]
  /\ outbox \in SUBSET (1..MaxSeq) /\ notified \in SUBSET (1..MaxSeq)

Due(m) == \E c \in Operators : Releasing(c) /\ m \in op[c].items

\* A goroutine that waits for a message nobody holds any more has its decision
\* in its channel or coming from exactly the release that took the message: it
\* does not hang, and no second release finds the channel full.
NeverStranded ==
  \A m \in Items :
    /\ holder[m] \in {"waiting", "canceled"} => m \in queue \/ done[m] # <<>> \/ Due(m)
    /\ Due(m) => done[m] = <<>> /\ m \notin queue /\ holder[m] \in {"waiting", "canceled"}
    /\ \A c, d \in Operators :
         Releasing(c) /\ Releasing(d) /\ m \in op[c].items \cap op[d].items => c = d

\* A message whose drop is scheduled and was not undone is never sent on, by a
\* forward or by a drain that runs at the same time.
ScheduledDropWins ==
  \A m \in dropPending : verdict[m] # "forward" /\ done[m] # <<"forward">>

\* A side that is off holds nothing, so that nobody waits on a gate no UI shows.
OffHoldsNothing == \A m \in queue : SideOf[m] \in enabled

\* Every generation is announced once: notified, on its way to be, or carried
\* by the release that made it.
Carried == {op[c].gen : c \in {d \in Operators : Releasing(d)}}
EveryChangeCounted ==
  /\ notified \cup outbox \cup Carried = 1..seq
  /\ notified \cap outbox = {} /\ (notified \cup outbox) \cap Carried = {}

\* A message that has been taken from the queue gets its answer.
TakenIsAnswered ==
  \A m \in Items : holder[m] = "waiting" /\ m \notin queue ~> holder[m] = "over"

==============================================================================
