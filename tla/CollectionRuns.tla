----------------------------- MODULE CollectionRuns -----------------------------
(***************************************************************************)
(* The collection runs of a control server (internal/collrun): Start lets   *)
(* at most MaxActive runs go on at once and registers each when it has a    *)
(* name; a run that ends is remembered and the oldest remembered ones are   *)
(* forgotten.  Between the two, operators pause, resume and abort a run and *)
(* answer the question it may ask at its end.                               *)
(***************************************************************************)
EXTENDS Naturals, Sequences, FiniteSets, SequencesExt

CONSTANTS
  Runs,        \* calls of Start, and the runs they launch
  Operators,   \* who may act on a run at once
  MaxActive,   \* Manager.MaxActive
  Keep,        \* Manager.Keep
  MaxRequests, \* bound: requests of a run
  MaxOps       \* bound: what operators do in one behaviour

ASSUME RunsAssumption ==
  MaxActive \in Nat \ {0} /\ Keep \in Nat \ {0} /\ MaxRequests \in Nat /\ MaxOps \in Nat

VARIABLES
  call,      \* the Start of each run
  starting,  \* slots reserved by Start calls that are not registered yet
  runs,      \* the runs that Get finds
  order,     \* those that were remembered, oldest first
  phase,     \* the goroutine of each run
  named,     \* the run has its uid
  failed,    \* the run ended with an error
  left,      \* requests it has yet to send
  status,    \* what a snapshot says
  paused,    \* Runner.paused
  gate,      \* the run's waitPaused: not in it, or on a resume channel that is open, or closed
  canceled,  \* the run's context has ended
  answer,    \* the buffered decide channel, "none" when it is empty
  decision,  \* what became of the variable writes
  op,        \* the second half of what each operator is doing
  ops,
  first,     \* history: the first answer that Decide accepted
  late       \* history: registered by Start after it was forgotten

managerVars == <<call, starting, runs, order, late>>
runVars == <<phase, named, failed, left, status, paused, gate, canceled>>
answerVars == <<answer, decision, first>>
opVars == <<op, ops>>
vars == <<managerVars, runVars, answerVars, opVars>>

Answers == {"keep", "discard"}
Free == [run |-> "none", what |-> "none"]

Finished(r) == phase[r] \in {"finished", "remembered"}
Active == {r \in runs : ~Finished(r)}

Init ==
  /\ call = [r \in Runs |-> "none"] /\ starting = 0
  /\ runs = {} /\ order = <<>> /\ late = {}
  /\ phase = [r \in Runs |-> "none"]
  /\ named = [r \in Runs |-> FALSE] /\ failed = [r \in Runs |-> FALSE]
  /\ left = [r \in Runs |-> 0] /\ status = [r \in Runs |-> "starting"]
  /\ paused = [r \in Runs |-> FALSE] /\ gate = [r \in Runs |-> "open"]
  /\ canceled = [r \in Runs |-> FALSE]
  /\ answer = [r \in Runs |-> "none"] /\ decision = [r \in Runs |-> "none"]
  /\ op = [o \in Operators |-> Free] /\ ops = 0 /\ first = [r \in Runs |-> "none"]

--------------------------------------------------------------------------------
\* Start: the slot is reserved under the lock, and the run launched.
Launch(r) ==
  /\ call[r] = "none"
  /\ call' = [call EXCEPT ![r] = "waiting"]
  /\ phase' = [phase EXCEPT ![r] = "launched"]
  /\ UNCHANGED <<runs, order, late, named, failed, left, status, paused, gate, canceled, answerVars, opVars>>

\* Fault: only registered runs are counted.
StartUnreserved(r) == Launch(r) /\ Cardinality(Active) < MaxActive /\ UNCHANGED starting

Start(r) ==
  /\ Launch(r) /\ Cardinality(Active) + starting < MaxActive
  /\ starting' = starting + 1

TooManyRuns(r) ==
  /\ call[r] = "none" /\ Cardinality(Active) + starting >= MaxActive
  /\ call' = [call EXCEPT ![r] = "refused"]
  /\ UNCHANGED <<starting, runs, order, late, runVars, answerVars, opVars>>

\* The start event or the end of the run lets Start go on: the run is registered
\* in the same critical section in which the slot is given back.
Returns(r) ==
  /\ call[r] = "waiting"
  /\ call' = [call EXCEPT ![r] = "returned"]
  /\ starting' = starting - 1
  /\ runs' = IF failed[r] THEN runs ELSE runs \cup {r}
  /\ late' = IF phase[r] = "remembered" /\ named[r] /\ r \notin runs THEN late \cup {r} ELSE late
  /\ UNCHANGED <<order, runVars, answerVars, opVars>>

StartReturns(r) == (phase[r] # "launched" \/ failed[r]) /\ Returns(r)

--------------------------------------------------------------------------------
\* Runner.Run: bad options or nothing to run end it with an error, unapproved
\* scripts with a report and no start event ...
Misused(r) ==
  /\ phase[r] = "launched"
  /\ phase' = [phase EXCEPT ![r] = "finished"] /\ failed' = [failed EXCEPT ![r] = TRUE]
  /\ status' = [status EXCEPT ![r] = "ended"]
  /\ UNCHANGED <<managerVars, named, left, paused, gate, canceled, answerVars, opVars>>

NotApproved(r) ==
  /\ phase[r] = "launched"
  /\ phase' = [phase EXCEPT ![r] = "finished"] /\ named' = [named EXCEPT ![r] = TRUE]
  /\ status' = [status EXCEPT ![r] = "ended"]
  /\ UNCHANGED <<managerVars, failed, left, paused, gate, canceled, answerVars, opVars>>

\* ... and otherwise it says that it has started.
Begin(r) ==
  /\ phase[r] = "launched"
  /\ phase' = [phase EXCEPT ![r] = "loop"] /\ named' = [named EXCEPT ![r] = TRUE]
  /\ status' = [status EXCEPT ![r] = "running"]
  /\ \E n \in 1..MaxRequests : left' = [left EXCEPT ![r] = n]
  /\ UNCHANGED <<managerVars, failed, paused, gate, canceled, answerVars, opVars>>

\* waitPaused: the run takes the resume channel as it is now and waits on it.
HoldPaused(r) ==
  /\ phase[r] = "loop" /\ left[r] > 0 /\ paused[r] /\ gate[r] = "open"
  /\ gate' = [gate EXCEPT ![r] = "held"]
  /\ UNCHANGED <<managerVars, phase, named, failed, left, status, paused, canceled, answerVars, opVars>>

Goes(r) ==
  /\ phase[r] = "loop" /\ left[r] > 0
  /\ left' = [left EXCEPT ![r] = IF canceled[r] THEN 0 ELSE @ - 1]
  /\ gate' = [gate EXCEPT ![r] = "open"]
  /\ UNCHANGED <<managerVars, phase, named, failed, status, paused, canceled, answerVars, opVars>>

\* Fault: only the channel wakes a paused run, not the end of its context.
RequestUnpaused(r) == Goes(r) /\ (gate[r] = "woken" \/ (gate[r] = "open" /\ ~paused[r]))

\* One turn of the loop, which waitPaused lets through; an ended context ends it.
\* A run that was woken does not look again: a Pause after the Resume holds it at its
\* next request only.
SendRequest(r) ==
  /\ Goes(r)
  /\ \/ gate[r] = "open" /\ ~paused[r]
     \/ gate[r] = "woken"
     \/ gate[r] = "held" /\ canceled[r]

\* finishPersist: nothing to ask, or waitDecision says so in the status and waits.
NothingToAsk(r) ==
  /\ phase[r] = "loop" /\ left[r] = 0
  /\ phase' = [phase EXCEPT ![r] = "settled"]
  /\ UNCHANGED <<managerVars, named, failed, left, status, paused, gate, canceled, answerVars, opVars>>

Ask(r) ==
  /\ phase[r] = "loop" /\ left[r] = 0
  /\ phase' = [phase EXCEPT ![r] = "ask"] /\ status' = [status EXCEPT ![r] = "awaiting_persist"]
  /\ UNCHANGED <<managerVars, named, failed, left, paused, gate, canceled, answerVars, opVars>>

Settle(r, what) ==
  /\ phase[r] = "ask"
  /\ phase' = [phase EXCEPT ![r] = "settled"] /\ decision' = [decision EXCEPT ![r] = what]
  /\ UNCHANGED <<managerVars, named, failed, left, status, paused, gate, canceled, first, opVars>>

Answered(r) ==
  /\ answer[r] # "none" /\ Settle(r, answer[r])
  /\ answer' = [answer EXCEPT ![r] = "none"]

Unanswered(r) == canceled[r] /\ Settle(r, "discard") /\ UNCHANGED answer

\* finish: the status and the closed done channel, under the run's lock.
Finish(r) ==
  /\ phase[r] = "settled"
  /\ phase' = [phase EXCEPT ![r] = "finished"] /\ status' = [status EXCEPT ![r] = "ended"]
  /\ UNCHANGED <<managerVars, named, failed, left, paused, gate, canceled, answerVars, opVars>>

\* Fault: the bound is applied before the run is added.
RememberLate(r) ==
  /\ phase[r] = "finished" /\ phase' = [phase EXCEPT ![r] = "remembered"]
  /\ LET kept == SelectSeq(order, LAMBDA x : x \in runs)
         gone == IF Len(kept) > Keep THEN {Head(kept)} ELSE {}
     IN /\ runs' = (runs \ gone) \cup {x \in {r} : named[r]}
        /\ order' = SelectSeq(kept, LAMBDA x : x \notin gone) \o (IF named[r] THEN <<r>> ELSE <<>>)
  /\ UNCHANGED <<call, starting, late, named, failed, left, status, paused, gate, canceled, answerVars, opVars>>

\* remember: the run comes last; the oldest ones beyond Keep are forgotten.
Remember(r) ==
  /\ phase[r] = "finished" /\ phase' = [phase EXCEPT ![r] = "remembered"]
  /\ IF named[r]
     THEN LET all == Append(order, r)
              gone == {all[i] : i \in 1..(Len(all) - Keep)}
          IN /\ runs' = (runs \cup {r}) \ gone
             /\ order' = IF Len(all) > Keep THEN SubSeq(all, Len(all) - Keep + 1, Len(all)) ELSE all
     ELSE UNCHANGED <<runs, order>>
  /\ UNCHANGED <<call, starting, late, named, failed, left, status, paused, gate, canceled, answerVars, opVars>>

--------------------------------------------------------------------------------
\* What operators do to a run they found.
Does(o, r, what) ==
  /\ op[o] = Free /\ ops < MaxOps /\ r \in runs
  /\ op' = [op EXCEPT ![o] = [run |-> r, what |-> what]] /\ ops' = ops + 1

Says(o, what) == op[o].what = what /\ op' = [op EXCEPT ![o] = Free] /\ UNCHANGED ops

\* Pause and Resume act on the runner first, then on the status.
Pause(o, r) ==
  /\ Does(o, r, "paused")
  /\ paused' = [paused EXCEPT ![r] = TRUE]
  /\ UNCHANGED <<managerVars, phase, named, failed, left, status, gate, canceled, answerVars>>

Wake(r) ==
  /\ paused' = [paused EXCEPT ![r] = FALSE]
  /\ gate' = [gate EXCEPT ![r] = IF @ = "held" THEN "woken" ELSE @]

Resume(o, r) ==
  /\ Does(o, r, "running") /\ Wake(r)
  /\ UNCHANGED <<managerVars, phase, named, failed, left, status, canceled, answerVars>>

SaysPaused(o) ==
  /\ Says(o, "paused")
  /\ status' = [status EXCEPT ![op[o].run] = IF @ = "running" THEN "paused" ELSE @]
  /\ UNCHANGED <<managerVars, phase, named, failed, left, paused, gate, canceled, answerVars>>

SaysRunning(o) ==
  /\ Says(o, "running")
  /\ status' = [status EXCEPT ![op[o].run] = IF @ = "paused" THEN "running" ELSE @]
  /\ UNCHANGED <<managerVars, phase, named, failed, left, paused, gate, canceled, answerVars>>

\* Abort ends the context, and wakes a paused run.
Abort(r) ==
  /\ r \in runs /\ ~canceled[r] /\ ops < MaxOps /\ ops' = ops + 1
  /\ canceled' = [canceled EXCEPT ![r] = TRUE] /\ Wake(r)
  /\ UNCHANGED <<managerVars, phase, named, failed, left, status, answerVars, op>>

\* Close: the context of every run, later ones included, ends.
Close ==
  /\ ops < MaxOps /\ ops' = ops + 1
  /\ canceled' = [r \in Runs |-> TRUE]
  /\ UNCHANGED <<managerVars, phase, named, failed, left, status, paused, gate, answerVars, op>>

\* Decide: the status is looked at, then the answer offered to the channel.
Decide(o, r) ==
  /\ status[r] = "awaiting_persist"
  /\ \E what \in Answers : Does(o, r, what)
  /\ UNCHANGED <<managerVars, runVars, answerVars>>

Accepted(o) ==
  /\ \E what \in Answers :
       /\ Says(o, what)
       /\ answer' = [answer EXCEPT ![op[o].run] = what]
       /\ first' = [first EXCEPT ![op[o].run] = IF @ = "none" THEN what ELSE @]
  /\ UNCHANGED <<managerVars, runVars, decision>>

\* Fault: a later answer takes the place of one that was not read yet.
OfferReplaces(o) == Accepted(o)

Offer(o) == Accepted(o) /\ answer[op[o].run] = "none"

OfferFull(o) ==
  /\ \E what \in Answers : Says(o, what) /\ answer[op[o].run] # "none"
  /\ UNCHANGED <<managerVars, runVars, answerVars>>

--------------------------------------------------------------------------------
RunStep(r) ==
  \/ Misused(r) \/ NotApproved(r) \/ Begin(r) \/ HoldPaused(r) \/ SendRequest(r)
  \/ NothingToAsk(r) \/ Ask(r) \/ Answered(r) \/ Unanswered(r) \/ Finish(r) \/ Remember(r)

Next ==
  \/ \E r \in Runs : Start(r) \/ TooManyRuns(r) \/ StartReturns(r) \/ RunStep(r)
  \/ \E o \in Operators, r \in Runs : Pause(o, r) \/ Resume(o, r) \/ Decide(o, r)
  \/ \E o \in Operators : SaysPaused(o) \/ SaysRunning(o) \/ Offer(o) \/ OfferFull(o)
  \/ \E r \in Runs : Abort(r)
  \/ Close

Spec == Init /\ [][Next]_vars

\* The goroutines of a run and of its Start go on; no operator has to do anything.
FairSpec ==
  /\ Spec
  /\ \A r \in Runs : WF_vars(RunStep(r)) /\ WF_vars(StartReturns(r))

--------------------------------------------------------------------------------
TypeOK ==
  /\ call \in [Runs -> {"none", "waiting", "returned", "refused"}]
  /\ starting \in 0..MaxActive /\ runs \subseteq Runs /\ late \subseteq Runs
  /\ order \in Seq(Runs)
  /\ phase \in [Runs -> {"none", "launched", "loop", "ask", "settled", "finished", "remembered"}]
  /\ named \in [Runs -> BOOLEAN] /\ failed \in [Runs -> BOOLEAN]
  /\ left \in [Runs -> 0..MaxRequests]
  /\ status \in [Runs -> {"starting", "running", "paused", "awaiting_persist", "ended"}]
  /\ paused \in [Runs -> BOOLEAN] /\ canceled \in [Runs -> BOOLEAN]
  /\ gate \in [Runs -> {"open", "held", "woken"}]
  /\ answer \in [Runs -> Answers \cup {"none"}] /\ decision \in [Runs -> Answers \cup {"none"}]
  /\ first \in [Runs -> Answers \cup {"none"}]
  /\ op \in [Operators -> {Free} \cup [run : Runs, what : Answers \cup {"paused", "running"}]]
  /\ ops \in 0..MaxOps

\* However Start calls and ends of runs overlap, no more than MaxActive runs go on,
\* those included that no map knows yet.
ActiveBounded ==
  Cardinality({r \in Runs : phase[r] # "none" /\ ~Finished(r)}) <= MaxActive

\* "Keep is how many finished runs stay queryable": a remembered run is found while
\* it is among the last Keep, and not after that, but for one whose Start was slower
\* than the Keep runs that ended after it: nothing forgets that one.
KeptAreTheLast ==
  /\ ToSet(order) = {r \in runs \ late : phase[r] = "remembered"}
  /\ Len(order) <= Keep

\* The first answer that was accepted is the decision; without one, and whenever
\* the run was aborted, the writes may be discarded and are never kept.
FirstAnswerCounts ==
  \A r \in Runs : decision[r] # "none" =>
    decision[r] = first[r] \/ (decision[r] = "discard" /\ canceled[r])

\* An aborted run ends, also when it was paused or waits for an answer.
AbortedEnds == \A r \in Runs : canceled[r] /\ phase[r] \in {"loop", "ask"} ~> Finished(r)
================================================================================
