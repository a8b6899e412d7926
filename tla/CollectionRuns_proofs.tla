-------------------------- MODULE CollectionRuns_proofs --------------------------
(***************************************************************************)
(* Theorems about the collection runs of a control server, for any runs and *)
(* operators, any MaxActive and Keep.                                       *)
(***************************************************************************)
EXTENDS CollectionRuns, FiniteSetTheorems, TLAPS

--------------------------------------------------------------------------------
(* Who takes a step, and what such a step leaves alone *)

\* The goroutine of a run, short of remember.
Moves(r) ==
  \/ Misused(r) \/ NotApproved(r) \/ Begin(r) \/ HoldPaused(r) \/ SendRequest(r)
  \/ NothingToAsk(r) \/ Ask(r) \/ Answered(r) \/ Unanswered(r) \/ Finish(r)

Operates ==
  \/ \E o \in Operators, r \in Runs : Pause(o, r) \/ Resume(o, r) \/ Decide(o, r)
  \/ \E o \in Operators : SaysPaused(o) \/ SaysRunning(o) \/ Offer(o) \/ OfferFull(o)
  \/ \E r \in Runs : Abort(r)
  \/ Close

\* Whose step it is: the manager's, a run's or an operator's.
LEMMA StepsOfRuns ==
  ASSUME [Next]_vars
  PROVE  \/ \E r \in Runs : Start(r) \/ TooManyRuns(r) \/ StartReturns(r) \/ Remember(r) \/ Moves(r)
         \/ Operates \/ UNCHANGED vars
BY DEF Next, RunStep, Moves, Operates

LEMMA MovesFrame == \A r : Moves(r) => UNCHANGED <<managerVars, opVars>>
BY DEF Moves, Misused, NotApproved, Begin, HoldPaused, SendRequest, Goes, NothingToAsk, Ask, Answered, Unanswered, Settle, Finish

LEMMA OperatesFrame == Operates => UNCHANGED <<managerVars, phase, named, failed, left, decision>>
BY DEF Operates, Pause, Resume, Wake, Decide, SaysPaused, SaysRunning, Offer, Accepted, OfferFull, Abort, Close,
   runVars, answerVars

--------------------------------------------------------------------------------
(* The manager *)

Waiting == {r \in Runs : call[r] = "waiting"}

PhaseType ==
  /\ call \in [Runs -> {"none", "waiting", "returned", "refused"}]
  /\ phase \in [Runs -> {"none", "launched", "loop", "ask", "settled", "finished", "remembered"}]
  /\ named \in [Runs -> BOOLEAN] /\ failed \in [Runs -> BOOLEAN]
  /\ runs \subseteq Runs /\ late \subseteq Runs /\ order \in Seq(Runs)

\* A run has a goroutine once its Start was let in, and it is named or has failed
\* once that goroutine has said so.
Launched ==
  \A r \in Runs :
    /\ phase[r] = "none" <=> call[r] \in {"none", "refused"}
    /\ phase[r] \in {"none", "launched"} => ~named[r] /\ ~failed[r]
    /\ phase[r] \notin {"none", "launched"} => named[r] \/ failed[r]
    /\ failed[r] => ~named[r] /\ Finished(r)

\* The map holds named runs only, and every live run whose Start has returned.
Registered ==
  /\ \A r \in runs : named[r]
  /\ \A r \in Runs : call[r] = "returned" /\ ~Finished(r) => r \in runs

\* A slot is reserved for each Start that has not returned.
SlotsCounted == IsFiniteSet(Waiting) /\ starting = Cardinality(Waiting)
SlotsKept == IsFiniteSet(runs) /\ Cardinality(Active) + starting <= MaxActive

ManagerInv == PhaseType /\ Launched /\ Registered /\ SlotsCounted /\ SlotsKept

LEMMA PhaseTypeStep == PhaseType /\ [Next]_vars => PhaseType'
<1> SUFFICES ASSUME PhaseType, [Next]_vars PROVE PhaseType'
  OBVIOUS
<1> USE DEF PhaseType
<1>1. ASSUME NEW r \in Runs, Start(r) PROVE PhaseType'
  BY <1>1 DEF Start, Launch
<1>2. ASSUME NEW r \in Runs, TooManyRuns(r) PROVE PhaseType'
  BY <1>2 DEF TooManyRuns, runVars
<1>3. ASSUME NEW r \in Runs, StartReturns(r) PROVE PhaseType'
  BY <1>3 DEF StartReturns, Returns, runVars
<1>4. ASSUME NEW r \in Runs, Remember(r) PROVE PhaseType'
  <2>1. phase' = [phase EXCEPT ![r] = "remembered"] /\ UNCHANGED <<call, named, failed, late>>
    BY <1>4 DEF Remember
  <2>2. runs' \subseteq Runs
    BY <1>4 DEF Remember
  <2>3. order' \in Seq(Runs)
    <3>1. PICK all : all = Append(order, r)
      OBVIOUS
    <3>2. all \in Seq(Runs) /\ Len(all) \in Nat
      BY <3>1
    <3>3. Len(all) > Keep => SubSeq(all, Len(all) - Keep + 1, Len(all)) \in Seq(Runs)
      BY <3>2, RunsAssumption DEF RunsAssumption
    <3> QED
      BY <1>4, <3>1, <3>2, <3>3 DEF Remember
  <2> QED
    BY <2>1, <2>2, <2>3
<1>5. ASSUME NEW r \in Runs, Moves(r) PROVE PhaseType'
  <2>1. UNCHANGED <<call, runs, late, order>>
    BY <1>5, MovesFrame DEF managerVars
  <2>2. /\ phase' \in [Runs -> {"none", "launched", "loop", "ask", "settled", "finished", "remembered"}]
        /\ named' \in [Runs -> BOOLEAN] /\ failed' \in [Runs -> BOOLEAN]
    BY <1>5 DEF Moves, Misused, NotApproved, Begin, HoldPaused, SendRequest, Goes, NothingToAsk, Ask, Answered, Unanswered,
       Settle, Finish
  <2> QED
    BY <2>1, <2>2
<1>6. CASE Operates \/ UNCHANGED vars
  BY <1>6, OperatesFrame DEF managerVars, runVars, vars
<1> QED
  BY StepsOfRuns, <1>1, <1>2, <1>3, <1>4, <1>5, <1>6

LEMMA LaunchedStep == PhaseType /\ Launched /\ [Next]_vars => Launched'
<1> SUFFICES ASSUME PhaseType, Launched, [Next]_vars PROVE Launched'
  OBVIOUS
<1> USE DEF PhaseType, Launched, Finished
<1>1. ASSUME NEW r \in Runs, Start(r) PROVE Launched'
  BY <1>1 DEF Start, Launch
<1>2. ASSUME NEW r \in Runs, TooManyRuns(r) PROVE Launched'
  BY <1>2 DEF TooManyRuns, runVars
<1>3. ASSUME NEW r \in Runs, StartReturns(r) PROVE Launched'
  BY <1>3 DEF StartReturns, Returns, runVars
<1>4. ASSUME NEW r \in Runs, Remember(r) PROVE Launched'
  BY <1>4 DEF Remember
<1>5. ASSUME NEW r \in Runs, Misused(r) \/ NotApproved(r) \/ Begin(r) PROVE Launched'
  BY <1>5 DEF Misused, NotApproved, Begin, managerVars
<1>6. ASSUME NEW r \in Runs,
             HoldPaused(r) \/ SendRequest(r) \/ NothingToAsk(r) \/ Ask(r) \/ Answered(r) \/ Unanswered(r) \/ Finish(r)
      PROVE  Launched'
  BY <1>6 DEF HoldPaused, SendRequest, Goes, NothingToAsk, Ask, Answered, Unanswered, Settle, Finish, managerVars
<1>7. CASE Operates \/ UNCHANGED vars
  BY <1>7, OperatesFrame DEF managerVars, runVars, vars
<1> QED
  BY StepsOfRuns, <1>1, <1>2, <1>3, <1>4, <1>5, <1>6, <1>7 DEF Moves

--------------------------------------------------------------------------------
(* What is remembered *)

Distinct(s) == \A i, j \in DOMAIN s : s[i] = s[j] => i = j

\* order lists the remembered runs once each; a run registered late is not one.
Remembered ==
  /\ ToSet(order) = {r \in runs \ late : phase[r] = "remembered"}
  /\ Distinct(order)
  /\ Len(order) <= Keep
LateEnded == \A r \in late : phase[r] = "remembered"

\* The list after another run: the last Keep of it stay, the others are gone.
Gone(all, k) == {all[i] : i \in 1..(Len(all) - k)}
Rest(all, k) == IF Len(all) > k THEN SubSeq(all, Len(all) - k + 1, Len(all)) ELSE all

\* The list cut to its last k entries: what stays, what goes, and each once.
LEMMA LastOfList ==
  ASSUME NEW S, NEW all \in Seq(S), NEW k \in Nat \ {0}, Len(all) <= k + 1, Distinct(all)
  PROVE  /\ ToSet(Rest(all, k)) = ToSet(all) \ Gone(all, k)
         /\ Distinct(Rest(all, k)) /\ Len(Rest(all, k)) <= k
         /\ Gone(all, k) \subseteq ToSet(all)
<1> DEFINE gone == Gone(all, k)
           rest == Rest(all, k)
<1>0. gone = {all[i] : i \in 1..(Len(all) - k)}
      /\ rest = IF Len(all) > k THEN SubSeq(all, Len(all) - k + 1, Len(all)) ELSE all
  BY DEF Gone, Rest
<1> HIDE DEF gone, rest
<1>1. Len(all) \in Nat /\ DOMAIN all = 1..Len(all)
  OBVIOUS
<1>2. CASE Len(all) > k
  <2>1. Len(all) = k + 1 /\ gone = {all[1]}
    <3>1. Len(all) = k + 1
      <4>1. \A n, m \in Nat : n > m /\ n <= m + 1 => n = m + 1
        OBVIOUS
      <4>2. k \in Nat /\ Len(all) \in Nat
        BY <1>1
      <4> QED
        BY <1>2, <4>1, <4>2
    <3>2. 1..(Len(all) - k) = {1}
      BY <3>1
    <3> QED
      BY <1>0, <3>1, <3>2
  <2>2. rest = SubSeq(all, 2, k + 1)
    BY <1>0, <1>2, <2>1
  <2>3. Len(rest) = k /\ DOMAIN rest = 1..k /\ \A i \in 1..k : rest[i] = all[i + 1]
    BY <1>1, <2>1, <2>2
  <2>4. \A i \in 1..k : i + 1 \in DOMAIN all /\ i + 1 # 1
    BY <1>1, <2>1
  <2>5. \A i \in DOMAIN all : i # 1 => i - 1 \in 1..k /\ rest[i - 1] = all[i]
    <3> SUFFICES ASSUME NEW i \in 1..(k + 1), i # 1 PROVE i - 1 \in 1..k /\ rest[i - 1] = all[i]
      BY <1>1, <2>1
    <3>1. i - 1 \in 1..k /\ (i - 1) + 1 = i
      OBVIOUS
    <3> QED
      BY <2>3, <3>1
  <2>6. 1 \in DOMAIN all
    BY <1>1, <2>1
  <2>7. ToSet(rest) = ToSet(all) \ gone
    <3>1. ASSUME NEW i \in 1..k PROVE rest[i] \in ToSet(all) /\ rest[i] # all[1]
      BY <2>3, <2>4, <2>6 DEF ToSet, Distinct
    <3>2. ASSUME NEW i \in DOMAIN all, i # 1 PROVE all[i] \in ToSet(rest)
      <4>1. i - 1 \in DOMAIN rest /\ rest[i - 1] = all[i]
        BY <2>3, <2>5, <3>2
      <4> QED
        BY <4>1 DEF ToSet
    <3>3. \A x \in ToSet(rest) : \E i \in 1..k : x = rest[i]
      BY <2>3 DEF ToSet
    <3>4. \A x \in ToSet(all) : \E i \in DOMAIN all : x = all[i]
      BY DEF ToSet
    <3> QED
      BY <2>1, <3>1, <3>2, <3>3, <3>4
  <2>8. Distinct(rest)
    <3> SUFFICES ASSUME NEW i \in 1..k, NEW j \in 1..k, rest[i] = rest[j] PROVE i = j
      BY <2>3 DEF Distinct
    <3>1. i + 1 = j + 1
      BY <2>3, <2>4 DEF Distinct
    <3> QED
      BY <3>1
  <2> QED
    <3>1. gone \subseteq ToSet(all)
      BY <2>1, <2>6 DEF ToSet
    <3>2. Len(rest) <= k
      BY <2>3
    <3> QED
      BY <2>7, <2>8, <3>1, <3>2 DEF gone, rest
<1>3. CASE ~(Len(all) > k)
  <2>1. 1..(Len(all) - k) = {}
    BY <1>1, <1>3
  <2>2. gone = {} /\ rest = all
    BY <1>0, <1>3, <2>1
  <2>3. Len(all) <= k
    BY <1>1, <1>3
  <2>4. ToSet(rest) = ToSet(all) \ gone /\ Distinct(rest) /\ gone \subseteq ToSet(all)
    BY <2>2
  <2> QED
    BY <2>2, <2>3, <2>4 DEF gone, rest
<1> QED
  BY <1>2, <1>3

\* remember puts its run at the end of the list and forgets what goes off it.
LEMMA RememberedRuns ==
  ASSUME PhaseType, Launched, Registered, Remembered, LateEnded, NEW r \in Runs, Remember(r)
  PROVE  /\ Remembered'
         /\ runs' \subseteq runs \cup {r} /\ \A q \in runs' : named[q]
         /\ \A q \in runs : q \notin runs' => Finished(q)
<1> USE DEF PhaseType
<1>1. phase[r] = "finished" /\ phase' = [phase EXCEPT ![r] = "remembered"] /\ UNCHANGED <<late, named>>
  BY DEF Remember
<1>2. r \notin late /\ r \notin ToSet(order)
  BY <1>1 DEF LateEnded, Remembered
<1>3. CASE named[r]
  <2> DEFINE all  == Append(order, r)
             gone == Gone(all, Keep)
             rest == Rest(all, Keep)
  <2>4. runs' = (runs \cup {r}) \ gone /\ order' = rest
    BY <1>3 DEF Remember, Gone, Rest
  <2>5. /\ all \in Seq(Runs) /\ Len(all) = Len(order) + 1
        /\ DOMAIN all = (DOMAIN order) \cup {Len(order) + 1} /\ Len(order) + 1 \notin DOMAIN order
        /\ all[Len(order) + 1] = r /\ \A i \in DOMAIN order : all[i] = order[i]
    OBVIOUS
  <2> HIDE DEF all
  <2>6. ToSet(all) = ToSet(order) \cup {r}
    <3>1. r \in ToSet(all) /\ \A i \in DOMAIN order : order[i] \in ToSet(all)
      BY <2>5 DEF ToSet
    <3>2. \A i \in DOMAIN all : all[i] = r \/ all[i] \in ToSet(order)
      BY <2>5 DEF ToSet
    <3>3. \A x \in ToSet(order) : \E i \in DOMAIN order : x = order[i]
      BY DEF ToSet
    <3>4. \A x \in ToSet(all) : \E i \in DOMAIN all : x = all[i]
      BY DEF ToSet
    <3> QED
      BY <3>1, <3>2, <3>3, <3>4
  <2>7. Distinct(all)
    BY <1>2, <2>5 DEF Remembered, ToSet, Distinct
  <2>8. Len(all) <= Keep + 1 /\ Keep \in Nat \ {0}
    BY <2>5, RunsAssumption DEF Remembered, RunsAssumption
  <2>9. /\ ToSet(rest) = ToSet(all) \ gone
        /\ Distinct(rest) /\ Len(rest) <= Keep
        /\ gone \subseteq ToSet(all)
    <3>1. all \in Seq(Runs)
      BY <2>5
    <3> QED
      BY ONLY <2>7, <2>8, <3>1, LastOfList
  <2> HIDE DEF gone, rest
  <2>10. ToSet(order)' = {q \in runs' \ late' : phase'[q] = "remembered"}
    <3>1. ToSet(order') = (ToSet(order) \cup {r}) \ gone
      BY <2>4, <2>6, <2>9
    <3>2. \A q \in Runs : phase'[q] = "remembered" <=> phase[q] = "remembered" \/ q = r
      BY <1>1
    <3> QED
      BY <1>1, <1>2, <2>4, <3>1, <3>2 DEF Remembered
  <2>11. Remembered'
    BY <2>4, <2>9, <2>10 DEF Remembered
  <2>12. \A q \in gone : q = r \/ phase[q] = "remembered"
    BY <2>6, <2>9 DEF Remembered
  <2> QED
    BY <1>1, <1>3, <2>4, <2>11, <2>12 DEF Registered, Finished
<1>4. CASE ~named[r]
  <2>1. UNCHANGED <<runs, order>> /\ r \notin runs
    BY <1>4 DEF Remember, Registered
  <2>2. \A q \in runs : phase'[q] = phase[q]
    BY <1>1, <2>1
  <2>3. ToSet(order)' = ToSet(order)
    BY <2>1 DEF ToSet
  <2> QED
    BY <1>1, <2>1, <2>2, <2>3 DEF Remembered, Registered
<1> QED
  BY <1>3, <1>4

\* A run is in the list of finished ones once, and only when it has ended.
LEMMA RegisteredStep ==
  PhaseType /\ Launched /\ Registered /\ Remembered /\ LateEnded /\ [Next]_vars
    => Registered' /\ Remembered' /\ LateEnded'
<1> SUFFICES ASSUME PhaseType, Launched, Registered, Remembered, LateEnded, [Next]_vars
             PROVE  Registered' /\ Remembered' /\ LateEnded'
  OBVIOUS
<1> USE DEF PhaseType
<1>1. ASSUME UNCHANGED <<runs, late, order>>,
             \A r \in Runs : phase'[r] = "remembered" <=> phase[r] = "remembered",
             \A r \in runs : named[r] => named'[r],
             \A r \in Runs : call'[r] = "returned" /\ ~Finished(r)' => call[r] = "returned" /\ ~Finished(r)
      PROVE  Registered' /\ Remembered' /\ LateEnded'
  <2>1. Registered'
    BY <1>1 DEF Registered
  <2>2. LateEnded'
    BY <1>1 DEF LateEnded
  <2>3. ToSet(order)' = ToSet(order)
    BY <1>1 DEF ToSet
  <2>4. {r \in runs' \ late' : phase'[r] = "remembered"} = {r \in runs \ late : phase[r] = "remembered"}
    BY <1>1
  <2>5. Remembered'
    BY <1>1, <2>3, <2>4 DEF Remembered
  <2> QED
    BY <2>1, <2>2, <2>5
<1>2. ASSUME NEW r \in Runs, Start(r) PROVE Registered' /\ Remembered' /\ LateEnded'
  <2>1. UNCHANGED <<runs, late, order, named>> /\ call' = [call EXCEPT ![r] = "waiting"]
        /\ phase' = [phase EXCEPT ![r] = "launched"] /\ phase[r] = "none"
    BY <1>2 DEF Start, Launch, Launched
  <2> QED
    BY <1>1, <2>1 DEF Finished
<1>3. ASSUME NEW r \in Runs, TooManyRuns(r) PROVE Registered' /\ Remembered' /\ LateEnded'
  BY <1>1, <1>3 DEF TooManyRuns, runVars, Finished
<1>4. ASSUME NEW r \in Runs, StartReturns(r) PROVE Registered' /\ Remembered' /\ LateEnded'
  <2>1. /\ runs' = (IF failed[r] THEN runs ELSE runs \cup {r})
        /\ late' = (IF phase[r] = "remembered" /\ named[r] /\ r \notin runs THEN late \cup {r} ELSE late)
        /\ UNCHANGED <<order, phase, named, failed>> /\ call' = [call EXCEPT ![r] = "returned"]
        /\ phase[r] # "launched" \/ failed[r]
        /\ call[r] = "waiting"
    BY <1>4 DEF StartReturns, Returns, runVars
  <2>2. ~failed[r] => named[r]
    BY <2>1 DEF Launched
  <2>3. Registered'
    BY <2>1, <2>2 DEF Registered, Launched, Finished
  <2>4. LateEnded'
    BY <2>1 DEF LateEnded
  <2>5. ToSet(order)' = ToSet(order)
    BY <2>1 DEF ToSet
  <2>6. {q \in runs' \ late' : phase'[q] = "remembered"} = {q \in runs \ late : phase[q] = "remembered"}
    BY <2>1, <2>2
  <2>7. Remembered'
    BY <2>1, <2>5, <2>6 DEF Remembered
  <2> QED
    BY <2>3, <2>4, <2>7
<1>5. ASSUME NEW r \in Runs, Remember(r) PROVE Registered' /\ Remembered' /\ LateEnded'
  <2>1. /\ Remembered'
        /\ runs' \subseteq runs \cup {r} /\ \A q \in runs' : named[q]
        /\ \A q \in runs : q \notin runs' => Finished(q)
    BY <1>5, RememberedRuns
  <2>2. phase[r] = "finished" /\ phase' = [phase EXCEPT ![r] = "remembered"] /\ UNCHANGED <<late, named, call>>
    BY <1>5 DEF Remember
  <2>3. Registered'
    BY <2>1, <2>2 DEF Registered, Finished
  <2>4. LateEnded'
    BY <2>2 DEF LateEnded
  <2> QED
    BY <2>1, <2>3, <2>4
<1>6. ASSUME NEW r \in Runs, Moves(r) PROVE Registered' /\ Remembered' /\ LateEnded'
  <2>1. UNCHANGED <<runs, late, order, call>>
    BY <1>6, MovesFrame DEF managerVars
  <2>2. \A q \in Runs : /\ phase'[q] = "remembered" <=> phase[q] = "remembered"
                        /\ Finished(q) => Finished(q)'
                        /\ named[q] => named'[q]
    BY <1>6 DEF Moves, Misused, NotApproved, Begin, HoldPaused, SendRequest, Goes, NothingToAsk, Ask, Answered, Unanswered,
       Settle, Finish, Finished
  <2> QED
    BY <1>1, <2>1, <2>2
<1>7. CASE Operates \/ UNCHANGED vars
  <2>1. UNCHANGED <<runs, late, order, call, phase, named>>
    BY <1>7, OperatesFrame DEF managerVars, runVars, vars
  <2> QED
    BY <1>1, <2>1 DEF Finished
<1> QED
  BY StepsOfRuns, <1>2, <1>3, <1>4, <1>5, <1>6, <1>7

--------------------------------------------------------------------------------
(* How many runs go on *)

\* Finitely many runs are active.
LEMMA ActiveFinite ==
  ASSUME SlotsKept
  PROVE  IsFiniteSet(Active) /\ Cardinality(Active) \in Nat
<1>1. Active \subseteq runs
  BY DEF Active
<1> QED
  BY <1>1, FS_Subset, FS_CardinalityType DEF SlotsKept

\* Slots are taken before a run begins and given back once, when it has ended.
LEMMA SlotsStep ==
  PhaseType /\ Launched /\ Registered /\ Remembered /\ LateEnded /\ SlotsCounted /\ SlotsKept /\ [Next]_vars
    => SlotsCounted' /\ SlotsKept'
<1> SUFFICES ASSUME PhaseType, Launched, Registered, Remembered, LateEnded, SlotsCounted, SlotsKept,
                    [Next]_vars
             PROVE  SlotsCounted' /\ SlotsKept'
  OBVIOUS
<1> USE DEF PhaseType
<1>1. IsFiniteSet(Waiting) /\ starting = Cardinality(Waiting) /\ starting \in Nat /\ IsFiniteSet(runs)
      /\ Cardinality(Active) + starting <= MaxActive
  BY FS_CardinalityType DEF SlotsCounted, SlotsKept
<1>2. IsFiniteSet(Active) /\ Cardinality(Active) \in Nat
  BY ActiveFinite
<1>3. MaxActive \in Nat
  BY RunsAssumption DEF RunsAssumption
<1>4. ASSUME UNCHANGED starting, Waiting' = Waiting PROVE SlotsCounted'
  BY <1>1, <1>4 DEF SlotsCounted
<1>5. ASSUME UNCHANGED starting, IsFiniteSet(runs'), Active' \subseteq Active PROVE SlotsKept'
  <2>1. Cardinality(Active') <= Cardinality(Active) /\ Cardinality(Active') \in Nat
    BY <1>2, <1>5, FS_Subset, FS_CardinalityType
  <2> QED
    BY <1>1, <1>2, <1>3, <1>5, <2>1 DEF SlotsKept
<1>6. ASSUME NEW r \in Runs, Start(r) PROVE SlotsCounted' /\ SlotsKept'
  <2>1. /\ call[r] = "none" /\ call' = [call EXCEPT ![r] = "waiting"] /\ starting' = starting + 1
        /\ phase' = [phase EXCEPT ![r] = "launched"] /\ UNCHANGED runs
        /\ Cardinality(Active) + starting < MaxActive /\ phase[r] = "none"
    BY <1>6 DEF Start, Launch, Launched
  <2>2. Waiting' = Waiting \cup {r} /\ r \notin Waiting
    BY <2>1 DEF Waiting
  <2>3. IsFiniteSet(Waiting') /\ Cardinality(Waiting') = starting'
    BY <1>1, <2>1, <2>2, FS_AddElement
  <2>4. Active' = Active
    BY <2>1 DEF Active, Finished
  <2>5. Cardinality(Active') + starting' <= MaxActive
    BY <1>1, <1>2, <1>3, <2>1, <2>4
  <2> QED
    BY <1>1, <2>1, <2>3, <2>5 DEF SlotsCounted, SlotsKept
<1>7. ASSUME NEW r \in Runs, TooManyRuns(r) PROVE SlotsCounted' /\ SlotsKept'
  <2>1. call[r] = "none" /\ call' = [call EXCEPT ![r] = "refused"] /\ UNCHANGED <<starting, runs, phase>>
    BY <1>7 DEF TooManyRuns, runVars
  <2>2. Waiting' = Waiting
    BY <2>1 DEF Waiting
  <2>3. Active' \subseteq Active
    BY <2>1 DEF Active, Finished
  <2> QED
    BY <1>1, <1>4, <1>5, <2>1, <2>2, <2>3
<1>8. ASSUME NEW r \in Runs, StartReturns(r) PROVE SlotsCounted' /\ SlotsKept'
  <2>1. /\ call[r] = "waiting" /\ call' = [call EXCEPT ![r] = "returned"] /\ starting' = starting - 1
        /\ runs' \subseteq runs \cup {r} /\ UNCHANGED phase
    BY <1>8 DEF StartReturns, Returns, runVars
  <2>2. Waiting' = Waiting \ {r} /\ r \in Waiting
    BY <2>1 DEF Waiting
  <2>3. IsFiniteSet(Waiting') /\ Cardinality(Waiting') = starting'
    BY <1>1, <2>1, <2>2, FS_RemoveElement
  <2>4. Active' \subseteq Active \cup {r}
    BY <2>1 DEF Active, Finished
  <2>5. IsFiniteSet(Active \cup {r}) /\ Cardinality(Active \cup {r}) <= Cardinality(Active) + 1
        /\ Cardinality(Active \cup {r}) \in Nat
    <3>1. CASE r \in Active
      <4>1. PICK A : A = Active
        OBVIOUS
      <4>2. Active \cup {r} = A
        BY <3>1, <4>1
      <4>3. Cardinality(A) <= Cardinality(A) + 1
        BY <1>2, <4>1
      <4> QED
        BY <1>2, <4>1, <4>2, <4>3
    <3>2. CASE r \notin Active
      <4>1. IsFiniteSet(Active \cup {r}) /\ Cardinality(Active \cup {r}) = Cardinality(Active) + 1
        BY <1>2, <3>2, FS_AddElement
      <4>2. Cardinality(Active) + 1 <= Cardinality(Active) + 1 /\ Cardinality(Active) + 1 \in Nat
        BY <1>2
      <4> QED
        BY <4>1, <4>2
    <3> QED
      BY <3>1, <3>2
  <2>6. Cardinality(Active') <= Cardinality(Active \cup {r}) /\ Cardinality(Active') \in Nat
    BY <2>4, <2>5, FS_Subset, FS_CardinalityType
  <2>7. IsFiniteSet(runs')
    <3>1. IsFiniteSet(runs \cup {r})
      BY <1>1, FS_AddElement
    <3> QED
      BY <2>1, <3>1, FS_Subset
  <2>8. Cardinality(Active') + starting' <= MaxActive
    BY <1>1, <1>2, <1>3, <2>1, <2>5, <2>6
  <2> QED
    BY <2>3, <2>7, <2>8 DEF SlotsCounted, SlotsKept
<1>9. ASSUME NEW r \in Runs, Remember(r) PROVE SlotsCounted' /\ SlotsKept'
  <2>1. UNCHANGED <<call, starting>> /\ phase' = [phase EXCEPT ![r] = "remembered"]
    BY <1>9 DEF Remember
  <2>2. runs' \subseteq runs \cup {r}
    BY <1>9, RememberedRuns
  <2>3. IsFiniteSet(runs')
    <3>1. IsFiniteSet(runs \cup {r})
      BY <1>1, FS_AddElement
    <3> QED
      BY <2>2, <3>1, FS_Subset
  <2>4. Waiting' = Waiting
    BY <2>1 DEF Waiting
  <2>5. Active' \subseteq Active
    BY <2>1, <2>2 DEF Active, Finished
  <2> QED
    BY <1>4, <1>5, <2>1, <2>3, <2>4, <2>5
<1>10. ASSUME NEW r \in Runs, Moves(r) PROVE SlotsCounted' /\ SlotsKept'
  <2>1. UNCHANGED <<call, starting, runs>>
    BY <1>10, MovesFrame DEF managerVars
  <2>2. \A q \in Runs : Finished(q) => Finished(q)'
    BY <1>10 DEF Moves, Misused, NotApproved, Begin, HoldPaused, SendRequest, Goes, NothingToAsk, Ask, Answered, Unanswered,
       Settle, Finish, Finished
  <2>3. Waiting' = Waiting /\ Active' \subseteq Active
    BY <2>1, <2>2 DEF Waiting, Active
  <2> QED
    BY <1>1, <1>4, <1>5, <2>1, <2>3
<1>11. CASE Operates \/ UNCHANGED vars
  <2>1. UNCHANGED <<call, starting, runs, phase>>
    BY <1>11, OperatesFrame DEF managerVars, runVars, vars
  <2>2. Waiting' = Waiting /\ Active' \subseteq Active
    BY <2>1 DEF Waiting, Active, Finished
  <2> QED
    BY <1>1, <1>4, <1>5, <2>1, <2>2
<1> QED
  BY StepsOfRuns, <1>6, <1>7, <1>8, <1>9, <1>10, <1>11

KeptInv == ManagerInv /\ Remembered /\ LateEnded

LEMMA KeptInit == Init => KeptInv
<1> SUFFICES ASSUME Init PROVE KeptInv
  OBVIOUS
<1> USE DEF Init
<1>1. <<>> \in Seq(Runs)
  OBVIOUS
<1>2. PhaseType /\ Launched /\ Registered
  BY <1>1 DEF PhaseType, Launched, Registered, Finished
<1>3. Waiting = {} /\ Active = {} /\ ToSet(order) = {} /\ Len(order) = 0 /\ Distinct(order)
  BY DEF Waiting, Active, ToSet, Distinct
<1>4. SlotsCounted /\ SlotsKept
  BY <1>3, FS_EmptySet, RunsAssumption DEF SlotsCounted, SlotsKept, RunsAssumption
<1>5. Remembered /\ LateEnded
  BY <1>3, RunsAssumption DEF Remembered, LateEnded, RunsAssumption
<1> QED
  BY <1>2, <1>4, <1>5 DEF KeptInv, ManagerInv

LEMMA KeptStep == KeptInv /\ [Next]_vars => KeptInv'
BY PhaseTypeStep, LaunchedStep, RegisteredStep, SlotsStep DEF KeptInv, ManagerInv

\* However calls of Start overlap with each other and with ends of runs, no more
\* than MaxActive runs go on at once.
THEOREM ActiveAreBounded == Spec => []ActiveBounded
<1>1. KeptInv => ActiveBounded
  <2> SUFFICES ASSUME KeptInv PROVE ActiveBounded
    OBVIOUS
  <2> USE DEF KeptInv, ManagerInv, PhaseType
  <2>1. IsFiniteSet(Waiting) /\ starting = Cardinality(Waiting) /\ Cardinality(Waiting) \in Nat
    BY FS_CardinalityType DEF SlotsCounted
  <2>2. IsFiniteSet(Active) /\ Cardinality(Active) \in Nat
    BY ActiveFinite
  <2>3. IsFiniteSet(Active \cup Waiting)
        /\ Cardinality(Active \cup Waiting)
             = Cardinality(Active) + Cardinality(Waiting) - Cardinality(Active \cap Waiting)
    BY <2>1, <2>2, FS_Union
  <2>4. Cardinality(Active \cap Waiting) \in Nat
    <3>1. IsFiniteSet(Active \cap Waiting)
      BY <2>1, FS_Subset
    <3> QED
      BY <3>1, FS_CardinalityType
  <2>5. {r \in Runs : phase[r] # "none" /\ ~Finished(r)} \subseteq Active \cup Waiting
    BY DEF Launched, Registered, Active, Waiting
  <2>6. /\ Cardinality({r \in Runs : phase[r] # "none" /\ ~Finished(r)}) <= Cardinality(Active \cup Waiting)
        /\ Cardinality({r \in Runs : phase[r] # "none" /\ ~Finished(r)}) \in Nat
    BY <2>3, <2>5, FS_Subset, FS_CardinalityType
  <2>7. Cardinality(Active) + Cardinality(Waiting) <= MaxActive /\ MaxActive \in Nat
    BY <2>1, RunsAssumption DEF SlotsKept, RunsAssumption
  <2> QED
    BY <2>1, <2>2, <2>3, <2>4, <2>6, <2>7 DEF ActiveBounded
<1> QED
  BY KeptInit, KeptStep, <1>1, PTL DEF Spec

\* The last Keep runs that ended are found, and none that ended before them, but
\* for those that Start put there after they had been forgotten.
THEOREM LastAreKept == Spec => []KeptAreTheLast
<1>1. KeptInv => KeptAreTheLast
  BY DEF KeptInv, Remembered, KeptAreTheLast
<1> QED
  BY KeptInit, KeptStep, <1>1, PTL DEF Spec

--------------------------------------------------------------------------------
(* The answer to the question a run may ask *)

AnswerType ==
  /\ answer \in [Runs -> Answers \cup {"none"}] /\ decision \in [Runs -> Answers \cup {"none"}]
  /\ first \in [Runs -> Answers \cup {"none"}]
  /\ op \in [Operators -> {Free} \cup [run : Runs, what : Answers \cup {"paused", "running"}]]

OtherType ==
  /\ left \in [Runs -> 0..MaxRequests] /\ ops \in 0..MaxOps
  /\ status \in [Runs -> {"starting", "running", "paused", "awaiting_persist", "ended"}]
  /\ paused \in [Runs -> BOOLEAN] /\ canceled \in [Runs -> BOOLEAN]
  /\ gate \in [Runs -> {"open", "held", "woken"}]

\* Whoever has something to say has a run to say it to.
LEMMA SaysToRun ==
  ASSUME AnswerType, NEW o \in Operators, NEW what \in Answers \cup {"paused", "running"}, Says(o, what)
  PROVE  op[o].run \in Runs /\ what # "none"
BY DEF AnswerType, Says, Free, Answers

LEMMA AnswerTypeStep == AnswerType /\ [Next]_vars => AnswerType'
<1> SUFFICES ASSUME AnswerType, [Next]_vars PROVE AnswerType'
  OBVIOUS
<1>1. ASSUME NEW o \in Operators, NEW r \in Runs, Pause(o, r) \/ Resume(o, r) \/ Decide(o, r)
      PROVE  AnswerType'
  <2>1. UNCHANGED <<answer, decision, first>>
    BY <1>1 DEF Pause, Resume, Decide, answerVars
  <2>2. PICK what \in Answers \cup {"paused", "running"} : op' = [op EXCEPT ![o] = [run |-> r, what |-> what]]
    BY <1>1 DEF Pause, Resume, Decide, Does
  <2> QED
    BY <2>1, <2>2 DEF AnswerType
<1>2. ASSUME NEW o \in Operators, SaysPaused(o) \/ SaysRunning(o) \/ OfferFull(o) PROVE AnswerType'
  <2>1. UNCHANGED <<answer, decision, first>> /\ op' = [op EXCEPT ![o] = Free]
    BY <1>2 DEF SaysPaused, SaysRunning, OfferFull, Says, answerVars
  <2> QED
    BY <2>1 DEF AnswerType
<1>3. ASSUME NEW o \in Operators, Offer(o) PROVE AnswerType'
  <2>1. PICK what \in Answers : /\ Says(o, what) /\ answer' = [answer EXCEPT ![op[o].run] = what]
                                /\ first' = [first EXCEPT ![op[o].run] = IF @ = "none" THEN what ELSE @]
    BY <1>3 DEF Offer, Accepted
  <2>2. op[o].run \in Runs
    BY <2>1, SaysToRun
  <2>3. op' = [op EXCEPT ![o] = Free] /\ UNCHANGED decision
    BY <1>3, <2>1 DEF Offer, Accepted, Says
  <2>4. first' \in [Runs -> Answers \cup {"none"}] /\ answer' \in [Runs -> Answers \cup {"none"}]
    BY <2>1, <2>2 DEF AnswerType
  <2> QED
    BY <2>3, <2>4 DEF AnswerType
<1>4. ASSUME NEW r \in Runs, Answered(r) \/ Unanswered(r) PROVE AnswerType'
  BY <1>4 DEF Answered, Unanswered, Settle, AnswerType, opVars, Answers
<1>5. CASE UNCHANGED <<answerVars, op>>
  BY <1>5 DEF answerVars, AnswerType
<1>6. ASSUME NEW r \in Runs,
             Start(r) \/ TooManyRuns(r) \/ StartReturns(r) \/ Remember(r) \/ Misused(r) \/ NotApproved(r)
             \/ Begin(r) \/ HoldPaused(r) \/ SendRequest(r) \/ NothingToAsk(r) \/ Ask(r) \/ Finish(r) \/ Abort(r)
      PROVE  AnswerType'
  BY <1>5, <1>6 DEF Start, Launch, TooManyRuns, StartReturns, Returns, Remember, Misused, NotApproved, Begin,
     HoldPaused, SendRequest, Goes, NothingToAsk, Ask, Finish, Abort, opVars
<1>7. CASE Close \/ UNCHANGED vars
  BY <1>5, <1>7 DEF Close, vars, opVars
<1> QED
  BY StepsOfRuns, <1>1, <1>2, <1>3, <1>4, <1>6, <1>7 DEF Moves, Operates

\* Until a run has decided, the answer in its channel is the first one; afterwards
\* it stands, whatever is put there.
Undecided == \A r \in Runs : phase[r] \in {"none", "launched", "loop", "ask"} => decision[r] = "none"
AnswerInv ==
  /\ AnswerType /\ canceled \in [Runs -> BOOLEAN] /\ Undecided
  /\ \A r \in Runs : decision[r] = "none" => answer[r] = first[r]
  /\ FirstAnswerCounts

\* An ended context stays ended.
LEMMA CanceledStays ==
  ASSUME canceled \in [Runs -> BOOLEAN], [Next]_vars
  PROVE  canceled' \in [Runs -> BOOLEAN] /\ \A r \in Runs : canceled[r] => canceled'[r]
<1>1. ASSUME NEW r \in Runs, Abort(r) PROVE canceled' = [canceled EXCEPT ![r] = TRUE]
  BY <1>1 DEF Abort
<1>2. Close => canceled' = [r \in Runs |-> TRUE]
  BY DEF Close
<1>3. CASE UNCHANGED canceled
  BY <1>3
<1>4. ASSUME NEW r \in Runs, Start(r) \/ TooManyRuns(r) \/ StartReturns(r) \/ Remember(r) \/ Moves(r)
      PROVE  UNCHANGED canceled
  BY <1>4 DEF Start, Launch, TooManyRuns, StartReturns, Returns, Remember, Moves, Misused, NotApproved, Begin,
     HoldPaused, SendRequest, Goes, NothingToAsk, Ask, Answered, Unanswered, Settle, Finish, runVars
<1>5. CASE Operates
  BY <1>1, <1>2, <1>3, <1>5 DEF Operates, Pause, Resume, Wake, Decide, SaysPaused, SaysRunning, Offer, Accepted,
     OfferFull, runVars
<1> QED
  BY StepsOfRuns, <1>3, <1>4, <1>5 DEF vars, runVars

LEMMA AnswerInvStep == PhaseType /\ Launched /\ AnswerInv /\ [Next]_vars => AnswerInv'
<1> SUFFICES ASSUME PhaseType, Launched, AnswerInv, [Next]_vars PROVE AnswerInv'
  OBVIOUS
<1> USE DEF AnswerInv, FirstAnswerCounts, Undecided, AnswerType
<1>1. AnswerType' /\ canceled' \in [Runs -> BOOLEAN] /\ \A r \in Runs : canceled[r] => canceled'[r]
  BY AnswerTypeStep, CanceledStays
<1>2. CASE /\ UNCHANGED answerVars
           /\ \A r \in Runs : phase'[r] \in {"none", "launched", "loop", "ask"}
                                => phase[r] \in {"none", "launched", "loop", "ask"}
  BY <1>1, <1>2 DEF answerVars
<1>3. ASSUME NEW o \in Operators, Offer(o) PROVE AnswerInv'
  <2>1. PICK what \in Answers : /\ Says(o, what) /\ answer' = [answer EXCEPT ![op[o].run] = what]
                                /\ first' = [first EXCEPT ![op[o].run] = IF @ = "none" THEN what ELSE @]
    BY <1>3 DEF Offer, Accepted
  <2>2. PICK r \in Runs : r = op[o].run
    BY <2>1, SaysToRun
  <2>3. answer[r] = "none" /\ UNCHANGED <<phase, decision>>
    BY <1>3, <2>2 DEF Offer, Accepted, runVars
  <2>4. \A q \in Runs : first'[q] = (IF q = r /\ first[q] = "none" THEN what ELSE first[q])
    BY <2>1, <2>2
  <2>5. \A q \in Runs : answer'[q] = IF q = r THEN what ELSE answer[q]
    BY <2>1, <2>2
  <2>6. \A q \in Runs : decision[q] = "none" => answer'[q] = first'[q]
    BY <2>3, <2>4, <2>5
  <2>7. \A q \in Runs : decision[q] # "none" =>
          decision[q] = first'[q] \/ (decision[q] = "discard" /\ canceled'[q])
    BY <1>1, <2>4
  <2> QED
    BY <1>1, <2>3, <2>6, <2>7
<1>4. ASSUME NEW r \in Runs, Answered(r) PROVE AnswerInv'
  <2>1. /\ phase[r] = "ask" /\ phase' = [phase EXCEPT ![r] = "settled"]
        /\ decision' = [decision EXCEPT ![r] = answer[r]] /\ answer' = [answer EXCEPT ![r] = "none"]
        /\ answer[r] # "none" /\ UNCHANGED first
    BY <1>4 DEF Answered, Settle
  <2>2. answer[r] = first[r]
    BY <2>1
  <2> QED
    BY <1>1, <2>1, <2>2 DEF PhaseType
<1>5. ASSUME NEW r \in Runs, Unanswered(r) PROVE AnswerInv'
  <2>1. /\ phase[r] = "ask" /\ phase' = [phase EXCEPT ![r] = "settled"]
        /\ decision' = [decision EXCEPT ![r] = "discard"] /\ canceled[r] /\ UNCHANGED <<answer, first>>
    BY <1>5 DEF Unanswered, Settle
  <2> QED
    BY <1>1, <2>1 DEF PhaseType
<1>6. ASSUME NEW r \in Runs,
             Start(r) \/ TooManyRuns(r) \/ StartReturns(r) \/ Remember(r) \/ Misused(r) \/ NotApproved(r)
             \/ Begin(r) \/ HoldPaused(r) \/ SendRequest(r) \/ NothingToAsk(r) \/ Ask(r) \/ Finish(r)
      PROVE  /\ UNCHANGED answerVars
             /\ \A q \in Runs : phase'[q] \in {"none", "launched", "loop", "ask"}
                                  => phase[q] \in {"none", "launched", "loop", "ask"}
  <2>1. UNCHANGED answerVars
    BY <1>6 DEF Start, Launch, TooManyRuns, StartReturns, Returns, Remember, Misused, NotApproved, Begin,
       HoldPaused, SendRequest, Goes, NothingToAsk, Ask, Finish
  <2>2. CASE Start(r)
    <3>1. phase' = [phase EXCEPT ![r] = "launched"] /\ phase[r] = "none"
      BY <2>2 DEF Start, Launch, Launched
    <3> QED
      BY <2>1, <3>1 DEF PhaseType
  <2>3. CASE ~Start(r)
    BY <1>6, <2>1, <2>3 DEF TooManyRuns, StartReturns, Returns, Remember, Misused, NotApproved, Begin,
       HoldPaused, SendRequest, Goes, NothingToAsk, Ask, Finish, runVars, PhaseType
  <2> QED
    BY <2>2, <2>3
<1>7. CASE Operates /\ ~\E o \in Operators : Offer(o)
  BY <1>2, <1>7, OperatesFrame DEF Operates, Pause, Resume, Wake, Decide, SaysPaused, SaysRunning, OfferFull, Abort,
     Close, runVars
<1>8. CASE UNCHANGED vars
  BY <1>2, <1>8 DEF vars, runVars
<1> QED
  BY StepsOfRuns, <1>2, <1>3, <1>4, <1>5, <1>6, <1>7, <1>8 DEF Moves

\* What becomes of a run's variable writes is what was answered first, or nothing
\* is kept, once the run was aborted: a later answer never replaces an earlier one.
THEOREM FirstAnswerStands == Spec => []FirstAnswerCounts
<1>1. Init => AnswerInv
  <2> SUFFICES ASSUME Init PROVE AnswerInv
    OBVIOUS
  <2>1. AnswerType
    BY DEF Init, AnswerType
  <2> QED
    BY <2>1 DEF Init, AnswerInv, Undecided, FirstAnswerCounts
<1>2. KeptInv /\ AnswerInv /\ [Next]_vars => AnswerInv'
  BY AnswerInvStep DEF KeptInv, ManagerInv
<1>3. AnswerInv => FirstAnswerCounts
  BY DEF AnswerInv
<1> QED
  BY KeptInit, KeptStep, <1>1, <1>2, <1>3, PTL DEF Spec

LEMMA OtherTypeStep == AnswerType /\ OtherType /\ [Next]_vars => OtherType'
<1> SUFFICES ASSUME AnswerType, OtherType, [Next]_vars PROVE OtherType'
  OBVIOUS
<1> USE RunsAssumption DEF OtherType, RunsAssumption
<1>1. ASSUME NEW o \in Operators, NEW r \in Runs, Pause(o, r) \/ Resume(o, r) \/ Decide(o, r)
      PROVE  OtherType'
  <2>1. ops' \in 0..MaxOps /\ UNCHANGED <<left, status, canceled>>
    BY <1>1 DEF Pause, Resume, Decide, Does, runVars
  <2>2. paused' \in [Runs -> BOOLEAN] /\ gate' \in [Runs -> {"open", "held", "woken"}]
    BY <1>1 DEF Pause, Resume, Wake, Decide, runVars
  <2> QED
    BY <2>1, <2>2
<1>2. ASSUME NEW o \in Operators, SaysPaused(o) \/ SaysRunning(o) PROVE OtherType'
  <2>1. UNCHANGED <<ops, left, canceled, paused, gate>>
    BY <1>2 DEF SaysPaused, SaysRunning, Says
  <2>2. status' \in [Runs -> {"starting", "running", "paused", "awaiting_persist", "ended"}]
    BY <1>2 DEF SaysPaused, SaysRunning
  <2> QED
    BY <2>1, <2>2
<1>3. ASSUME NEW o \in Operators, Offer(o) \/ OfferFull(o) PROVE OtherType'
  BY <1>3 DEF Offer, Accepted, OfferFull, Says, runVars
<1>4. ASSUME NEW r \in Runs, Abort(r) PROVE OtherType'
  BY <1>4 DEF Abort, Wake
<1>5. CASE Close
  BY <1>5 DEF Close
<1>6. ASSUME NEW r \in Runs, Misused(r) \/ NotApproved(r) \/ NothingToAsk(r) \/ Ask(r) \/ Finish(r)
      PROVE  OtherType'
  BY <1>6 DEF Misused, NotApproved, NothingToAsk, Ask, Finish, opVars
<1>7. ASSUME NEW r \in Runs, Begin(r) PROVE OtherType'
  <2>1. left' \in [Runs -> 0..MaxRequests]
    BY <1>7 DEF Begin
  <2> QED
    BY <1>7, <2>1 DEF Begin, opVars
<1>8. ASSUME NEW r \in Runs, SendRequest(r) PROVE OtherType'
  <2>1. left[r] \in 0..MaxRequests /\ left[r] > 0
    BY <1>8 DEF SendRequest, Goes
  <2>2. 0 \in 0..MaxRequests /\ left[r] - 1 \in 0..MaxRequests
    BY <2>1
  <2>3. left' \in [Runs -> 0..MaxRequests]
    BY <1>8, <2>2 DEF SendRequest, Goes
  <2> QED
    BY <1>8, <2>3 DEF HoldPaused, SendRequest, Goes, opVars
<1>9. ASSUME NEW r \in Runs, HoldPaused(r) PROVE OtherType'
  BY <1>9 DEF HoldPaused, opVars
<1>10. ASSUME NEW r \in Runs, Answered(r) \/ Unanswered(r) PROVE OtherType'
  BY <1>10 DEF Answered, Unanswered, Settle, opVars
<1>11. ASSUME NEW r \in Runs, Start(r) \/ TooManyRuns(r) \/ StartReturns(r) \/ Remember(r) PROVE OtherType'
  BY <1>11 DEF Start, Launch, TooManyRuns, StartReturns, Returns, Remember, runVars, opVars
<1>12. CASE UNCHANGED vars
  BY <1>12 DEF vars, runVars, opVars
<1> QED
  BY StepsOfRuns, <1>1, <1>2, <1>3, <1>4, <1>5, <1>6, <1>7, <1>8, <1>9, <1>10, <1>11, <1>12 DEF Moves, Operates

\* Every variable of the collection runs stays in its domain: the slots reserved
\* are never fewer than none and never more than MaxActive.
THEOREM TypeCorrect == Spec => []TypeOK
<1>1. Init => AnswerType /\ OtherType
  <2> SUFFICES ASSUME Init PROVE AnswerType /\ OtherType
    OBVIOUS
  <2>1. AnswerType
    BY DEF Init, AnswerType
  <2>2. OtherType
    BY RunsAssumption DEF Init, OtherType, RunsAssumption
  <2> QED
    BY <2>1, <2>2
<1>2. KeptInv /\ AnswerType /\ OtherType => TypeOK
  <2> SUFFICES ASSUME KeptInv, AnswerType, OtherType PROVE TypeOK
    OBVIOUS
  <2>1. starting \in Nat /\ Cardinality(Active) \in Nat /\ Cardinality(Active) + starting <= MaxActive
    BY ActiveFinite, FS_CardinalityType DEF KeptInv, ManagerInv, SlotsCounted, SlotsKept
  <2>2. starting \in 0..MaxActive
    BY <2>1, RunsAssumption DEF RunsAssumption
  <2> QED
    BY <2>2 DEF KeptInv, ManagerInv, PhaseType, AnswerType, OtherType, TypeOK
<1> QED
  BY KeptInit, KeptStep, AnswerTypeStep, OtherTypeStep, <1>1, <1>2, PTL DEF Spec

================================================================================
