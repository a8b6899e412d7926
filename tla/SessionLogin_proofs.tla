--------------------------- MODULE SessionLogin_proofs ---------------------------
(***************************************************************************)
(* Theorems about the login macro, for any requests, runs by hand, edits,   *)
(* headers and number of logins: requests that are refused together share   *)
(* one login, and no generation is left by two logins that succeeded.       *)
(***************************************************************************)
EXTENDS SessionLogin, TLAPS

Running == {"login", "merge", "save", "apply", "mark", "end"}
Waiting == {"idle", "refresh", "generation", "wire", "join", "wait"}
Tokens == 0..MaxLogins
Jobs == [at : Waiting \cup Running, why : {"none", "due", "401", "hand"}, seen : Nat,
         flight : Nat, retried : BOOLEAN, failed : BOOLEAN, token : Tokens, merged : Sessions]
Flights == [leaves : Nat, over : BOOLEAN, failed : BOOLEAN, token : Tokens]
Edited == [at : {"idle", "read", "apply"}, read : Sessions]

LoginType ==
  /\ gen \in Nat /\ flights \in Seq(Flights) /\ flight \in 0..Len(flights)
  /\ refreshing \in BOOLEAN /\ due \in BOOLEAN /\ logins \in Tokens
SessionType ==
  /\ live \in Sessions /\ stored \in Sessions /\ lastNote \in Notes /\ crossed \in BOOLEAN
  /\ edit \in [Edits -> Edited]
JobType == job \in [Callers -> Jobs]

\* Only who has a login to run has a reason, and only an answered login has a token.
InRole(c) ==
  /\ job[c].at \in Waiting <=> job[c].why = "none"
  /\ job[c].at \in Waiting \cup {"login"} => job[c].token = 0
  /\ Leading(c) => flight = job[c].flight /\ flight # 0

SharedInv == OneSharedLogin /\ \A c \in Callers : InRole(c)

\* A flight that brought a session leaves a generation that is behind, and behind
\* that of every later flight.
Brought(i) == ~flights[i].failed /\ flights[i].token # 0
Generations ==
  /\ flight # 0 => flight = Len(flights)
  /\ \A i \in DOMAIN flights : flights[i].leaves <= gen
  /\ \A i \in DOMAIN flights : Brought(i) => flights[i].leaves < gen
  /\ \A i, j \in DOMAIN flights : Brought(i) /\ i < j => flights[i].leaves < flights[j].leaves
  /\ \A c \in Callers : Leading(c) /\ job[c].at = "end" /\ ~job[c].failed /\ job[c].token # 0
       => flights[flight].leaves < gen

--------------------------------------------------------------------------------
(* Types *)

LEMMA Facts == Fresh \in Sessions /\ Idle \in Jobs /\ NoEdit \in Edited /\ Fresh.note \in Notes
<1>1. Fresh \in Sessions /\ Fresh.note \in Notes
  BY SessionAssumption DEF SessionAssumption, Fresh, Sessions
<1>2. 0 \in Tokens
  BY SessionAssumption DEF SessionAssumption, Tokens
<1> HIDE DEF Fresh, Sessions, Tokens
<1> QED
  BY <1>1, <1>2 DEF Idle, Jobs, NoEdit, Edited, Waiting

Others(c) == \A d \in Callers \ {c} : job'[d] = job[d]

LEMMA Written ==
  ASSUME JobType, NEW c \in Callers, NEW r \in Jobs, job' = [job EXCEPT ![c] = r]
  PROVE  JobType' /\ job'[c] = r /\ Others(c)
BY DEF JobType, Others

\* A request or a run by hand that only goes on.
LEMMA Moved ==
  ASSUME JobType, NEW c \in Callers, NEW s \in Waiting \cup Running, Becomes(c, s)
  PROVE  /\ JobType' /\ Others(c)
         /\ job'[c].at = s /\ job'[c].why = job[c].why /\ job'[c].flight = job[c].flight
         /\ job'[c].failed = job[c].failed /\ job'[c].token = job[c].token
<1> DEFINE r == [job[c] EXCEPT !.at = s]
<1>1. job[c] \in Jobs
  BY DEF JobType
<1>2. r \in Jobs /\ r.at = s /\ r.why = job[c].why /\ r.flight = job[c].flight
      /\ r.failed = job[c].failed /\ r.token = job[c].token
  BY <1>1 DEF Jobs
<1>3. job' = [job EXCEPT ![c] = r]
  BY DEF Becomes
<1> HIDE DEF r
<1> QED
  BY <1>2, <1>3, Written

\* The request is sent again, or is over.
LEMMA Resent ==
  ASSUME JobType, NEW c \in Callers, Retry(c) \/ job' = [job EXCEPT ![c] = Idle]
  PROVE  /\ JobType' /\ Others(c)
         /\ job'[c].at \in Waiting /\ job'[c].why = "none" /\ job'[c].token = 0
<1> DEFINE again == [Idle EXCEPT !.at = "refresh", !.retried = TRUE]
<1>1. again \in Jobs /\ again.at = "refresh" /\ again.why = "none" /\ again.token = 0
  BY Facts DEF Idle, Jobs, Waiting
<1>2. Idle \in Jobs /\ Idle.at = "idle" /\ Idle.why = "none" /\ Idle.token = 0
  BY Facts DEF Idle
<1>3. CASE Retry(c)
  <2>1. job' = [job EXCEPT ![c] = again]
    BY <1>3 DEF Retry
  <2> HIDE DEF again
  <2> QED
    BY <1>1, <2>1, Written DEF Waiting
<1>4. CASE job' = [job EXCEPT ![c] = Idle]
  BY <1>2, <1>4, Written DEF Waiting
<1> QED
  BY <1>3, <1>4

--------------------------------------------------------------------------------
(* What a step does to the roles of the requests *)

Stays == UNCHANGED <<gen, flight, flights, refreshing>>

Free(c) == job[c].at \in Waiting
Freed(c) == job'[c].at \in Waiting /\ job'[c].why = "none" /\ job'[c].token = 0

Wanders(c) == Free(c) /\ Freed(c) /\ Stays
Begins(c, why) == Free(c) /\ job'[c].at = "login" /\ job'[c].why = why /\ job'[c].token = 0
ByHand(c) == Begins(c, "hand") /\ Stays
Claims(c) == Begins(c, "due") /\ ~refreshing /\ refreshing' = TRUE /\ UNCHANGED <<gen, flight, flights>>
Leads(c) ==
  /\ Begins(c, "401") /\ flight = 0 /\ job'[c].flight = flight' /\ flight' = Len(flights')
  /\ flights' = Append(flights, [leaves |-> gen, over |-> FALSE, failed |-> FALSE, token |-> 0])
  /\ UNCHANGED <<gen, refreshing>>
Proceeds(c) ==
  /\ job[c].at \in Running /\ job'[c].at \in Running \ {"login"}
  /\ job'[c].why = job[c].why /\ job'[c].flight = job[c].flight
  /\ UNCHANGED <<flight, flights, refreshing>> /\ gen' \in {gen, gen + 1}
  /\ job'[c].at = "end" => job'[c].failed \/ job'[c].token = 0 \/ gen' = gen + 1
Answers(c) ==
  /\ Leading(c) /\ job[c].at = "end" /\ Freed(c) /\ flight' = 0
  /\ flights' = [flights EXCEPT ![job[c].flight].failed = job[c].failed,
                                ![job[c].flight].over = TRUE,
                                ![job[c].flight].token = job[c].token]
  /\ UNCHANGED <<gen, refreshing>>
Releases(c) == Refreshing(c) /\ Freed(c) /\ refreshing' = FALSE /\ UNCHANGED <<gen, flight, flights>>
Ends(c) == job[c].why = "hand" /\ Freed(c) /\ Stays

Roles(c) ==
  \/ Wanders(c) \/ ByHand(c) \/ Claims(c) \/ Leads(c) \/ Proceeds(c)
  \/ Answers(c) \/ Releases(c) \/ Ends(c)
Step(c) == Others(c) /\ Roles(c)

LEMMA WandersSteps ==
  ASSUME JobType, NEW c \in Callers, InRole(c),
         \/ Send(c) \/ NoRefresh(c) \/ ReadGeneration(c) \/ Answered(c) \/ Unauthorized(c)
         \/ Stale(c) \/ Follow(c) \/ Shared(c) \/ GiveUp(c),
         gen \in Nat, flight \in Nat
  PROVE  JobType' /\ Step(c)
<1>t. job[c] \in Jobs
  BY DEF JobType
<1>f. Free(c) => job[c].why = "none" /\ job[c].token = 0
  BY DEF InRole, Free
<1>1. CASE Send(c) \/ NoRefresh(c) \/ Unauthorized(c)
  <2>1. PICK s \in Waiting : Becomes(c, s) /\ Free(c)
    BY <1>1 DEF Send, NoRefresh, Unauthorized, Free, Waiting
  <2>2. Stays
    BY <1>1 DEF Send, NoRefresh, Unauthorized, Stays, loginVars
  <2> QED
    BY <2>1, <2>2, <1>f, Moved DEF Step, Roles, Wanders, Freed
<1>2. CASE Answered(c) \/ Stale(c) \/ Shared(c) \/ GiveUp(c)
  <2>1. Retry(c) \/ job' = [job EXCEPT ![c] = Idle]
    BY <1>2 DEF Answered, Stale, Shared, GiveUp
  <2>2. Free(c) /\ Stays
    BY <1>2 DEF Answered, Stale, Shared, GiveUp, Free, Waiting, Stays, loginVars
  <2> QED
    BY <2>1, <2>2, Resent DEF Step, Roles, Wanders, Freed
<1>3. CASE ReadGeneration(c)
  <2> DEFINE r == [job[c] EXCEPT !.at = "wire", !.seen = gen]
  <2>1. r \in Jobs /\ r.at = "wire" /\ r.why = job[c].why /\ r.token = job[c].token
    BY <1>t DEF Jobs, Waiting
  <2>2. job' = [job EXCEPT ![c] = r] /\ Free(c) /\ Stays
    BY <1>3 DEF ReadGeneration, Free, Waiting, Stays, loginVars
  <2> HIDE DEF r
  <2> QED
    BY <2>1, <2>2, <1>f, Written DEF Step, Roles, Wanders, Freed, Waiting
<1>4. CASE Follow(c)
  <2> DEFINE r == [job[c] EXCEPT !.at = "wait", !.flight = flight, !.seen = 0]
  <2>1. r \in Jobs /\ r.at = "wait" /\ r.why = job[c].why /\ r.token = job[c].token
    BY <1>t DEF Jobs, Waiting
  <2>2. job' = [job EXCEPT ![c] = r] /\ Free(c) /\ Stays
    BY <1>4 DEF Follow, Free, Waiting, Stays, loginVars
  <2> HIDE DEF r
  <2> QED
    BY <2>1, <2>2, <1>f, Written DEF Step, Roles, Wanders, Freed, Waiting
<1> QED
  BY <1>1, <1>2, <1>3, <1>4

LEMMA BeginningSteps ==
  ASSUME LoginType, JobType, NEW c \in Callers, InRole(c),
         RunByHand(c) \/ BeginRefresh(c) \/ Lead(c)
  PROVE  JobType' /\ Step(c)
<1>t. job[c] \in Jobs
  BY DEF JobType
<1>f. Free(c) => job[c].why = "none" /\ job[c].token = 0
  BY DEF InRole, Free
<1>1. ASSUME NEW why \in {"due", "hand"},
             job' = [job EXCEPT ![c].at = "login", ![c].why = why], Free(c)
      PROVE  JobType' /\ Others(c) /\ Begins(c, why)
  <2> DEFINE r == [job[c] EXCEPT !.at = "login", !.why = why]
  <2>1. r \in Jobs /\ r.at = "login" /\ r.why = why /\ r.token = job[c].token
    BY <1>t DEF Jobs, Running
  <2>2. job' = [job EXCEPT ![c] = r]
    BY <1>1
  <2> HIDE DEF r
  <2> QED
    BY <2>1, <2>2, <1>1, <1>f, Written DEF Begins
<1>2. CASE RunByHand(c)
  <2>1. Free(c) /\ Stays /\ job' = [job EXCEPT ![c].at = "login", ![c].why = "hand"]
    BY <1>2 DEF RunByHand, Free, Waiting, Stays, loginVars
  <2> QED
    BY <1>1, <2>1 DEF Step, Roles, ByHand
<1>3. CASE BeginRefresh(c)
  <2>1. /\ Free(c) /\ job' = [job EXCEPT ![c].at = "login", ![c].why = "due"]
        /\ ~refreshing /\ refreshing' = TRUE /\ UNCHANGED <<gen, flight, flights>>
    BY <1>3 DEF BeginRefresh, Free, Waiting
  <2> QED
    BY <1>1, <2>1 DEF Step, Roles, Claims
<1>4. CASE Lead(c)
  <2> DEFINE r == [job[c] EXCEPT !.at = "login", !.why = "401", !.flight = flight', !.seen = 0]
  <2>1. /\ flights' = Append(flights, [leaves |-> gen, over |-> FALSE, failed |-> FALSE, token |-> 0])
        /\ flight' = Len(flights') /\ flight = 0 /\ Free(c) /\ UNCHANGED <<gen, refreshing>>
    BY <1>4 DEF Lead, NewFlight, Free, Waiting
  <2>2. flight' \in Nat
    <3>1. [leaves |-> gen, over |-> FALSE, failed |-> FALSE, token |-> 0] \in Flights
      BY SessionAssumption DEF LoginType, Flights, Tokens, SessionAssumption
    <3> QED
      BY <2>1, <3>1 DEF LoginType
  <2>3. r \in Jobs /\ r.at = "login" /\ r.why = "401" /\ r.token = job[c].token /\ r.flight = flight'
    BY <1>t, <2>2 DEF Jobs, Running
  <2>4. job' = [job EXCEPT ![c] = r]
    BY <1>4 DEF Lead, NewFlight
  <2> HIDE DEF r
  <2> QED
    BY <2>1, <2>3, <2>4, <1>f, Written DEF Step, Roles, Leads, Begins
<1> QED
  BY <1>2, <1>3, <1>4

LEMMA LoginSteps ==
  ASSUME LoginType, SessionType, JobType, NEW a \in Callers, InRole(a), LoginStep(a)
  PROVE  JobType' /\ Step(a)
<1>t. job[a] \in Jobs
  BY DEF JobType
<1>m. ASSUME NEW s \in Running \ {"login", "end"}, Becomes(a, s), job[a].at \in Running,
             UNCHANGED <<gen, flight, flights, refreshing>>
      PROVE  JobType' /\ Step(a)
  BY <1>m, Moved DEF Step, Roles, Proceeds, Running
<1>1. CASE LoginFails(a)
  <2> DEFINE r == [job[a] EXCEPT !.at = "end", !.failed = TRUE]
  <2>1. r \in Jobs /\ r.at = "end" /\ r.failed /\ r.why = job[a].why /\ r.flight = job[a].flight
    BY <1>t DEF Jobs, Running
  <2>2. job' = [job EXCEPT ![a] = r] /\ job[a].at \in Running /\ Stays
    BY <1>1 DEF LoginFails, Running, Stays, loginVars
  <2> HIDE DEF r
  <2> QED
    BY <2>1, <2>2, Written DEF Step, Roles, Proceeds, Running, Stays
<1>2. CASE LoginIsEmpty(a)
  <2>1. Becomes(a, "end") /\ job[a].at = "login" /\ Stays
    BY <1>2 DEF LoginIsEmpty, Stays, loginVars
  <2>2. job[a].token = 0
    BY <2>1 DEF InRole
  <2> QED
    BY <2>1, <2>2, Moved DEF Step, Roles, Proceeds, Running, Stays
<1>3. CASE LoginAnswered(a)
  <2> DEFINE r == [job[a] EXCEPT !.at = "merge", !.token = logins']
  <2>1. /\ logins < MaxLogins /\ logins' = logins + 1 /\ job[a].at = "login"
        /\ job' = [job EXCEPT ![a] = r] /\ UNCHANGED <<gen, flight, flights, refreshing>>
    BY <1>3 DEF LoginAnswered
  <2>2. logins' \in Tokens
    BY <2>1, SessionAssumption DEF LoginType, Tokens, SessionAssumption
  <2>3. r \in Jobs /\ r.at = "merge" /\ r.why = job[a].why /\ r.flight = job[a].flight
    BY <1>t, <2>2 DEF Jobs, Running
  <2> HIDE DEF r
  <2> QED
    BY <2>1, <2>3, Written DEF Step, Roles, Proceeds, Running
<1>4. CASE Merge(a)
  <2> DEFINE q == [live EXCEPT !.on = TRUE, !.token = job[a].token]
             r == [job[a] EXCEPT !.at = "save", !.merged = q]
  <2>1. q \in Sessions
    BY <1>t DEF SessionType, Sessions, Jobs, Tokens
  <2>2. job' = [job EXCEPT ![a] = r] /\ job[a].at = "merge" /\ Stays
    BY <1>4 DEF Merge, Stays, loginVars
  <2> HIDE DEF q
  <2>3. r \in Jobs /\ r.at = "save" /\ r.why = job[a].why /\ r.flight = job[a].flight
    BY <1>t, <2>1 DEF Jobs, Running
  <2> HIDE DEF r
  <2> QED
    BY <2>2, <2>3, Written DEF Step, Roles, Proceeds, Running, Stays
<1>5. CASE SaveLogin(a)
  <2>1. Becomes(a, "apply") /\ job[a].at = "save" /\ Stays
    BY <1>5 DEF SaveLogin, Stays, loginVars
  <2> QED
    BY <2>1, <1>m DEF Running, Stays
<1>6. CASE SaveLoginFails(a)
  <2> DEFINE r == [job[a] EXCEPT !.at = "end", !.failed = TRUE, !.merged = Fresh]
  <2>1. r \in Jobs /\ r.at = "end" /\ r.failed /\ r.why = job[a].why /\ r.flight = job[a].flight
    BY <1>t, Facts DEF Jobs, Running
  <2>2. job' = [job EXCEPT ![a] = r] /\ job[a].at = "save" /\ Stays
    BY <1>6 DEF SaveLoginFails, Stays, loginVars
  <2> HIDE DEF r
  <2> QED
    BY <2>1, <2>2, Written DEF Step, Roles, Proceeds, Running, Stays
<1>7. CASE ApplySessionHeaders(a)
  <2> DEFINE r == [job[a] EXCEPT !.at = "mark", !.merged = Fresh]
  <2>1. r \in Jobs /\ r.at = "mark" /\ r.why = job[a].why /\ r.flight = job[a].flight
    BY <1>t, Facts DEF Jobs, Running
  <2>2. job' = [job EXCEPT ![a] = r] /\ job[a].at = "apply" /\ Stays
    BY <1>7 DEF ApplySessionHeaders, Stays, loginVars
  <2> HIDE DEF r
  <2> QED
    BY <2>1, <2>2, Written DEF Step, Roles, Proceeds, Running, Stays
<1>8. CASE MarkRefreshed(a)
  <2>1. Becomes(a, "end") /\ job[a].at = "mark" /\ gen' = gen + 1
        /\ UNCHANGED <<flight, flights, refreshing>>
    BY <1>8 DEF MarkRefreshed
  <2> QED
    BY <2>1, Moved DEF Step, Roles, Proceeds, Running
<1> QED
  BY <1>1, <1>2, <1>3, <1>4, <1>5, <1>6, <1>7, <1>8 DEF LoginStep

LEMMA EndingSteps ==
  ASSUME JobType, NEW c \in Callers, InRole(c),
         EndRefresh(c) \/ EndFlight(c) \/ EndByHand(c)
  PROVE  JobType' /\ Step(c)
<1>t. job[c] \in Jobs
  BY DEF JobType
<1>1. CASE EndRefresh(c)
  <2> DEFINE r == [Idle EXCEPT !.at = "generation", !.retried = job[c].retried]
  <2>1. r \in Jobs /\ r.at = "generation" /\ r.why = "none" /\ r.token = 0
    BY <1>t, Facts DEF Jobs, Idle, Waiting
  <2>2. job' = [job EXCEPT ![c] = r] /\ Refreshing(c) /\ refreshing' = FALSE
        /\ UNCHANGED <<gen, flight, flights>>
    BY <1>1 DEF EndRefresh, Refreshing
  <2> HIDE DEF r
  <2> QED
    BY <2>1, <2>2, Written DEF Step, Roles, Releases, Freed, Waiting
<1>2. CASE EndFlight(c)
  <2>1. Retry(c) \/ job' = [job EXCEPT ![c] = Idle]
    BY <1>2 DEF EndFlight
  <2>2. /\ Leading(c) /\ job[c].at = "end" /\ flight' = 0 /\ UNCHANGED <<gen, refreshing>>
        /\ flights' = [flights EXCEPT ![job[c].flight].failed = job[c].failed,
                                      ![job[c].flight].over = TRUE,
                                      ![job[c].flight].token = job[c].token]
    BY <1>2 DEF EndFlight, Leading
  <2> QED
    BY <2>1, <2>2, Resent DEF Step, Roles, Answers, Freed
<1>3. CASE EndByHand(c)
  <2>1. job' = [job EXCEPT ![c] = Idle] /\ job[c].why = "hand" /\ Stays
    BY <1>3 DEF EndByHand, Stays, loginVars
  <2> QED
    BY <2>1, Resent DEF Step, Roles, Ends, Freed
<1> QED
  BY <1>1, <1>2, <1>3

\* A step changes the role of one request, or of none.
Rests == job' = job /\ Stays

\* All steps, by whose role they change.
LEMMA StepsOfRoles ==
  ASSUME LoginType, SessionType, JobType, \A c \in Callers : InRole(c), [Next]_vars
  PROVE  JobType' /\ (Rests \/ \E c \in Callers : Step(c))
<1>1. gen \in Nat /\ flight \in Nat
  BY DEF LoginType
<1>7. Rests => JobType'
  BY DEF Rests, JobType
<1>2. ASSUME NEW c \in Callers, Send(c) \/ RequestStep(c) \/ GiveUp(c) PROVE JobType' /\ Step(c)
  BY <1>1, <1>2, WandersSteps, BeginningSteps, EndingSteps DEF RequestStep, OwnStep
<1>3. ASSUME NEW c \in Callers, RunByHand(c) \/ LoginStep(c) \/ EndByHand(c) PROVE JobType' /\ Step(c)
  BY <1>3, BeginningSteps, LoginSteps, EndingSteps
<1>4. ASSUME NEW e \in Edits, EditSave(e) \/ EditStep(e) PROVE Rests
  BY <1>4 DEF EditSave, EditStep, EditRead, EditApply, Rests, Stays, loginVars
<1>5. CASE ComesDue
  BY <1>5, <1>7 DEF ComesDue, Rests, Stays
<1>6. CASE UNCHANGED vars
  BY <1>6, <1>7 DEF vars, loginVars, Rests, Stays
<1> QED
  BY <1>2, <1>3, <1>4, <1>5, <1>6, <1>7 DEF Next

\* The result of a shared login is written into its record, and nowhere else.
LEMMA Landed ==
  ASSUME LoginType, JobType, NEW c \in Callers, InRole(c), Answers(c)
  PROVE  LET f == job[c].flight IN
         /\ f \in DOMAIN flights /\ f = flight
         /\ flights' \in Seq(Flights) /\ Len(flights') = Len(flights)
         /\ \A i \in DOMAIN flights \ {f} : flights'[i] = flights[i]
         /\ flights'[f].leaves = flights[f].leaves
         /\ flights'[f].failed = job[c].failed /\ flights'[f].token = job[c].token
<1> DEFINE f == job[c].flight
           r == [flights[f] EXCEPT !.failed = job[c].failed, !.over = TRUE, !.token = job[c].token]
<1>1. f = flight /\ f \in 1..Len(flights) /\ DOMAIN flights = 1..Len(flights)
  BY DEF Answers, InRole, LoginType
<1>2. flights[f] \in Flights
  BY <1>1 DEF LoginType
<1>3. job[c].failed \in BOOLEAN /\ job[c].token \in Tokens
  BY DEF JobType, Jobs
<1>4. r \in Flights /\ r.leaves = flights[f].leaves /\ r.failed = job[c].failed /\ r.token = job[c].token
  BY <1>2, <1>3 DEF Flights
<1>5. flights' = [flights EXCEPT ![f] = r]
  BY DEF Answers
<1> HIDE DEF r, f
<1>6. flights' \in Seq(Flights) /\ Len(flights') = Len(flights) /\ flights'[f] = r
      /\ \A i \in DOMAIN flights \ {f} : flights'[i] = flights[i]
  BY <1>1, <1>4, <1>5 DEF LoginType
<1> QED
  BY <1>1, <1>4, <1>6 DEF f

LEMMA LoginTyped ==
  ASSUME LoginType, JobType, \A c \in Callers : InRole(c), [Next]_vars
  PROVE  LoginType'
<1>k. UNCHANGED loginVars => LoginType'
  BY DEF loginVars, LoginType
<1>1. ASSUME NEW c \in Callers,
             \/ Send(c) \/ GiveUp(c) \/ NoRefresh(c) \/ ReadGeneration(c) \/ Answered(c)
             \/ Unauthorized(c) \/ Stale(c) \/ Follow(c) \/ Shared(c)
      PROVE  LoginType'
  BY <1>1, <1>k DEF Send, GiveUp, NoRefresh, ReadGeneration, Answered, Unauthorized, Stale, Follow, Shared
<1>2. ASSUME NEW c \in Callers, BeginRefresh(c) \/ EndRefresh(c) PROVE LoginType'
  BY <1>2 DEF BeginRefresh, EndRefresh, LoginType
<1>3. ASSUME NEW c \in Callers, Lead(c) PROVE LoginType'
  <2>1. [leaves |-> gen, over |-> FALSE, failed |-> FALSE, token |-> 0] \in Flights
    BY SessionAssumption DEF LoginType, Flights, Tokens, SessionAssumption
  <2>2. flights' \in Seq(Flights) /\ flight' = Len(flights') /\ UNCHANGED <<gen, refreshing, due, logins>>
    BY <1>3, <2>1 DEF Lead, NewFlight, LoginType
  <2> QED
    BY <2>2 DEF LoginType
<1>4. ASSUME NEW c \in Callers, EndFlight(c) PROVE LoginType'
  <2>1. Answers(c) /\ flight' = 0 /\ UNCHANGED <<gen, refreshing, due, logins>>
    <3>1. Step(c)
      BY <1>4, EndingSteps
    <3>2. job[c].why = "401" /\ job[c].at = "end" /\ flight' = 0 /\ UNCHANGED <<gen, refreshing, due, logins>>
          /\ flights' = [flights EXCEPT ![job[c].flight].failed = job[c].failed,
                                        ![job[c].flight].over = TRUE,
                                        ![job[c].flight].token = job[c].token]
      BY <1>4 DEF EndFlight
    <3>3. Freed(c)
      BY <1>4, Resent DEF EndFlight, Freed
    <3> QED
      BY <3>2, <3>3 DEF Answers, Leading
  <2>2. flights' \in Seq(Flights)
    BY <2>1, Landed
  <2> QED
    BY <2>1, <2>2 DEF LoginType
<1>5. ASSUME NEW a \in Callers, RunByHand(a) \/ EndByHand(a) \/ LoginFails(a) \/ LoginIsEmpty(a)
             \/ Merge(a) \/ SaveLogin(a) \/ SaveLoginFails(a) \/ ApplySessionHeaders(a)
      PROVE  LoginType'
  BY <1>5, <1>k DEF RunByHand, EndByHand, LoginFails, LoginIsEmpty, Merge, SaveLogin, SaveLoginFails,
     ApplySessionHeaders
<1>6. ASSUME NEW a \in Callers, LoginAnswered(a) PROVE LoginType'
  BY <1>6, SessionAssumption DEF LoginAnswered, LoginType, Tokens, SessionAssumption
<1>7. ASSUME NEW a \in Callers, MarkRefreshed(a) PROVE LoginType'
  <2>1. gen' = gen + 1 /\ due' \in BOOLEAN /\ UNCHANGED <<flight, flights, refreshing, logins>>
    BY <1>7 DEF MarkRefreshed
  <2> QED
    BY <2>1 DEF LoginType
<1>8. ASSUME NEW e \in Edits, EditSave(e) \/ EditStep(e) PROVE LoginType'
  BY <1>8, <1>k DEF EditSave, EditStep, EditRead, EditApply
<1>9. CASE ComesDue
  <2>1. due' \in BOOLEAN /\ UNCHANGED <<gen, flight, flights, refreshing, logins>>
    BY <1>9 DEF ComesDue
  <2> QED
    BY <2>1 DEF LoginType
<1>10. CASE UNCHANGED vars
  BY <1>10, <1>k DEF vars
<1> QED
  BY <1>1, <1>2, <1>3, <1>4, <1>5, <1>6, <1>7, <1>8, <1>9, <1>10 DEF Next, RequestStep, OwnStep, LoginStep

LEMMA SessionTyped ==
  ASSUME LoginType, SessionType, JobType, [Next]_vars
  PROVE  SessionType'
<1>k. UNCHANGED sessionVars => SessionType'
  BY DEF sessionVars, SessionType
<1>1. ASSUME NEW c \in Callers, Send(c) \/ RequestStep(c) \/ GiveUp(c) \/ RunByHand(c) \/ EndByHand(c)
      PROVE  SessionType'
  BY <1>1, <1>k DEF Send, RequestStep, OwnStep, GiveUp, RunByHand, EndByHand, BeginRefresh, NoRefresh,
     ReadGeneration, Answered, Unauthorized, Stale, Follow, Lead, NewFlight, Shared, EndRefresh, EndFlight
<1>2. ASSUME NEW a \in Callers, LoginStep(a) PROVE SessionType'
  <2>1. job[a].merged \in Sessions
    BY DEF JobType, Jobs
  <2>2. CASE Merge(a)
    BY <2>2 DEF Merge, SessionType
  <2>3. CASE SaveLogin(a) \/ ApplySessionHeaders(a)
    BY <2>1, <2>3 DEF SaveLogin, ApplySessionHeaders, SessionType
  <2>4. CASE LoginFails(a) \/ LoginIsEmpty(a) \/ LoginAnswered(a) \/ SaveLoginFails(a) \/ MarkRefreshed(a)
    BY <2>4, <1>k DEF LoginFails, LoginIsEmpty, LoginAnswered, SaveLoginFails, MarkRefreshed
  <2> QED
    BY <1>2, <2>2, <2>3, <2>4 DEF LoginStep
<1>3. ASSUME NEW e \in Edits, EditSave(e) PROVE SessionType'
  <2>0. stored \in Sessions /\ 0 \in Tokens
    BY SessionAssumption DEF SessionType, Tokens, SessionAssumption
  <2>1. stored' \in Sessions
    <3>1. CASE stored' = [stored EXCEPT !.on = ~@]
      BY <2>0, <3>1 DEF Sessions
    <3>2. ASSUME NEW n \in Notes, stored' = [stored EXCEPT !.token = 0, !.note = n]
          PROVE  stored' \in Sessions
      BY <2>0, <3>2 DEF Sessions, Tokens
    <3> QED
      BY <1>3, <3>1, <3>2 DEF EditSave
  <2>2. edit' \in [Edits -> Edited]
    BY <1>3 DEF EditSave, SessionType, Edited
  <2>3. crossed' \in BOOLEAN
    BY <1>3 DEF EditSave, SessionType
  <2>4. UNCHANGED <<live, lastNote>>
    BY <1>3 DEF EditSave
  <2> QED
    BY <2>1, <2>2, <2>3, <2>4 DEF SessionType
<1>4. ASSUME NEW e \in Edits, EditRead(e) PROVE SessionType'
  <2>1. [at |-> "apply", read |-> stored] \in Edited
    BY DEF SessionType, Edited
  <2> QED
    BY <1>4, <2>1 DEF EditRead, SessionType
<1>5. ASSUME NEW e \in Edits, EditApply(e) PROVE SessionType'
  <2>1. edit[e].read \in Sessions /\ edit[e].read.note \in Notes
    BY DEF SessionType, Edited, Sessions
  <2> QED
    BY <1>5, <2>1, Facts DEF EditApply, SessionType
<1>6. CASE ComesDue \/ UNCHANGED vars
  BY <1>6, <1>k DEF ComesDue, vars
<1> QED
  BY <1>1, <1>2, <1>3, <1>4, <1>5, <1>6 DEF Next, EditStep

--------------------------------------------------------------------------------
(* The invariants *)

LoginInv == LoginType /\ SessionType /\ JobType /\ SharedInv /\ Generations

LEMMA LoginInit == Init => LoginInv
<1> SUFFICES ASSUME Init PROVE LoginInv
  OBVIOUS
<1>1. LoginType
  <2>1. gen \in Nat /\ flights \in Seq(Flights) /\ flight = 0 /\ flight \in 0..Len(flights)
    BY DEF Init
  <2>2. refreshing \in BOOLEAN /\ due \in BOOLEAN
    BY DEF Init
  <2>3. logins \in Tokens
    BY SessionAssumption DEF Init, Tokens, SessionAssumption
  <2> QED
    BY <2>1, <2>2, <2>3 DEF LoginType
<1>2. SessionType /\ JobType
  BY Facts DEF Init, SessionType, JobType
<1>3. \A c \in Callers : job[c].why = "none" /\ job[c].at = "idle" /\ job[c].token = 0
  BY DEF Init, Idle
<1>4. SharedInv
  BY <1>3 DEF Init, SharedInv, OneSharedLogin, InRole, Leading, Refreshing, Waiting
<1>5. Generations
  BY <1>3 DEF Init, Generations, Leading
<1> QED
  BY <1>1, <1>2, <1>4, <1>5 DEF LoginInv

\* Nobody's role changes but that of the request that takes the step.
LEMMA SharedStep ==
  ASSUME LoginType, SharedInv, JobType, JobType', Rests \/ \E c \in Callers : Step(c),
         flight' \in Nat
  PROVE  SharedInv'
<1> USE DEF Leading, Refreshing
<1>1. CASE Rests
  BY <1>1 DEF Rests, Stays, SharedInv, OneSharedLogin, InRole
<1>2. ASSUME NEW c \in Callers, Step(c) PROVE SharedInv'
  <2>1. Others(c)
    BY <1>2 DEF Step
  <2>2. CASE Wanders(c) \/ ByHand(c) \/ Ends(c)
    <3>1. job'[c].why \in {"none", "hand"} /\ job[c].why \in {"none", "hand"} /\ Stays
      BY <2>2 DEF Wanders, ByHand, Ends, Begins, Free, Freed, SharedInv, InRole
    <3>2. InRole(c)'
      BY <2>2, <3>1 DEF Wanders, ByHand, Ends, Begins, Freed, InRole, Waiting
    <3>3. \A d \in Callers : InRole(d)'
      BY <2>1, <3>1, <3>2 DEF Others, Stays, SharedInv, InRole
    <3>4. OneSharedLogin'
      BY <2>1, <3>1 DEF Others, Stays, SharedInv, OneSharedLogin
    <3> QED
      BY <3>3, <3>4 DEF SharedInv
  <2>3. CASE Claims(c)
    <3>1. /\ job'[c].why = "due" /\ job[c].why = "none" /\ ~refreshing /\ refreshing'
          /\ UNCHANGED <<flight>> /\ job'[c].at = "login" /\ job'[c].token = 0
      BY <2>3 DEF Claims, Begins, Free, SharedInv, InRole
    <3>2. \A d \in Callers : InRole(d)'
      BY <2>1, <3>1 DEF Others, SharedInv, InRole, Waiting
    <3>3. OneSharedLogin'
      BY <2>1, <3>1 DEF Others, SharedInv, OneSharedLogin
    <3> QED
      BY <3>2, <3>3 DEF SharedInv
  <2>4. CASE Leads(c)
    <3>1. /\ job'[c].why = "401" /\ job[c].why = "none" /\ flight = 0 /\ job'[c].flight = flight'
          /\ UNCHANGED refreshing /\ job'[c].at = "login" /\ job'[c].token = 0
      BY <2>4 DEF Leads, Begins, Free, SharedInv, InRole
    <3>2. flight' # 0
      BY <2>4 DEF Leads, LoginType
    <3>3. \A d \in Callers : job[d].why # "401"
      BY <3>1 DEF SharedInv, InRole
    <3>4. \A d \in Callers : InRole(d)'
      BY <2>1, <3>1, <3>2, <3>3 DEF Others, SharedInv, InRole, Waiting
    <3>5. OneSharedLogin'
      BY <2>1, <3>1, <3>3 DEF Others, SharedInv, OneSharedLogin
    <3> QED
      BY <3>4, <3>5 DEF SharedInv
  <2>5. CASE Proceeds(c)
    <3>1. /\ job'[c].why = job[c].why /\ job'[c].flight = job[c].flight
          /\ UNCHANGED <<flight, refreshing>>
          /\ job[c].at \in Running /\ job'[c].at \in Running \ {"login"}
      BY <2>5 DEF Proceeds
    <3>2. \A d \in Callers : InRole(d)'
      BY <2>1, <3>1 DEF Others, SharedInv, InRole, Waiting, Running
    <3>3. OneSharedLogin'
      BY <2>1, <3>1 DEF Others, SharedInv, OneSharedLogin
    <3> QED
      BY <3>2, <3>3 DEF SharedInv
  <2>6. CASE Answers(c)
    <3>1. Freed(c) /\ job[c].why = "401" /\ flight' = 0 /\ UNCHANGED refreshing
      BY <2>6 DEF Answers
    <3>2. \A d \in Callers \ {c} : job[d].why # "401"
      BY <3>1 DEF SharedInv, OneSharedLogin
    <3>3. \A d \in Callers : InRole(d)'
      BY <2>1, <3>1, <3>2 DEF Others, Freed, SharedInv, InRole, Waiting
    <3>4. OneSharedLogin'
      BY <2>1, <3>1, <3>2 DEF Others, Freed, SharedInv, OneSharedLogin
    <3> QED
      BY <3>3, <3>4 DEF SharedInv
  <2>7. CASE Releases(c)
    <3>1. Freed(c) /\ job[c].why = "due" /\ refreshing' = FALSE /\ UNCHANGED flight
      BY <2>7 DEF Releases
    <3>2. \A d \in Callers : InRole(d)'
      BY <2>1, <3>1 DEF Others, Freed, SharedInv, InRole, Waiting
    <3>3. OneSharedLogin'
      BY <2>1, <3>1 DEF Others, Freed, SharedInv, OneSharedLogin
    <3> QED
      BY <3>2, <3>3 DEF SharedInv
  <2> QED
    BY <1>2, <2>2, <2>3, <2>4, <2>5, <2>6, <2>7 DEF Step, Roles
<1> QED
  BY <1>1, <1>2

\* The generation of a shared login that succeeded is behind before its flight ends.
Bumped(c) ==
  Leading(c) /\ job[c].at = "end" /\ ~job[c].failed /\ job[c].token # 0 => flights[flight].leaves < gen

\* Flights are numbered, and each leaves a generation.
LEMMA LeavesType ==
  ASSUME LoginType
  PROVE  DOMAIN flights = 1..Len(flights) /\ Len(flights) \in Nat
         /\ \A i \in DOMAIN flights : i \in Nat /\ flights[i].leaves \in Nat
<1>1. ASSUME NEW i \in DOMAIN flights PROVE i \in Nat /\ flights[i] \in Flights
  BY DEF LoginType
<1>2. \A r \in Flights : r.leaves \in Nat
  BY DEF Flights
<1> QED
  BY <1>1, <1>2 DEF LoginType

LEMMA GenerationsStep ==
  ASSUME LoginType, SharedInv, JobType, Generations, LoginType', JobType',
         Rests \/ \E c \in Callers : Step(c)
  PROVE  Generations'
<1>1. ASSUME UNCHANGED <<flight, flights>>, gen' \in Nat, gen' >= gen, \A c \in Callers : Bumped(c)'
      PROVE  Generations'
  <2>1. \A i \in DOMAIN flights : flights[i].leaves \in Nat
    BY LeavesType
  <2>2. gen \in Nat
    BY DEF LoginType
  <2>3. \A i \in DOMAIN flights : flights[i].leaves <= gen'
    BY <2>1, <2>2, <1>1 DEF Generations
  <2>4. \A i \in DOMAIN flights : Brought(i) => flights[i].leaves < gen'
    BY <2>1, <2>2, <1>1 DEF Generations
  <2> QED
    BY <2>3, <2>4, <1>1 DEF Generations, Brought, Bumped
<1>2. CASE Rests
  BY <1>1, <1>2 DEF Rests, Stays, Bumped, Generations, LoginType, Leading
<1>3. ASSUME NEW c \in Callers, Step(c) PROVE Generations'
  <2>1. Others(c)
    BY <1>3 DEF Step
  <2>2. CASE Wanders(c) \/ ByHand(c) \/ Ends(c) \/ Claims(c) \/ Releases(c)
    <3>1. UNCHANGED <<gen, flight, flights>> /\ job'[c].why # "401"
      BY <2>2 DEF Wanders, ByHand, Ends, Claims, Releases, Begins, Freed, Stays
    <3>2. \A d \in Callers : Bumped(d)'
      BY <2>1, <3>1 DEF Others, Bumped, Generations, Leading
    <3> QED
      BY <1>1, <3>1, <3>2 DEF LoginType
  <2>3. CASE Proceeds(c)
    <3>1. /\ UNCHANGED <<flight, flights>> /\ gen' \in {gen, gen + 1}
          /\ job'[c].at = "end" => job'[c].failed \/ job'[c].token = 0 \/ gen' = gen + 1
          /\ job'[c].why = job[c].why
      BY <2>3 DEF Proceeds
    <3>2. gen \in Nat
      BY DEF LoginType
    <3>3. ASSUME NEW d \in Callers PROVE Bumped(d)'
      <4>1. CASE d # c
        <5>1. Bumped(d)
          BY DEF Bumped, Generations
        <5>2. ASSUME flight \in DOMAIN flights, flights[flight].leaves < gen
              PROVE  flights[flight].leaves < gen'
          <6>1. flights[flight].leaves \in Nat
            BY <5>2, LeavesType
          <6> QED
            BY <6>1, <5>2, <3>1, <3>2
        <5>3. Leading(d) => flight \in DOMAIN flights
          BY DEF SharedInv, InRole, LoginType
        <5> QED
          BY <4>1, <5>1, <5>2, <5>3, <2>1, <3>1 DEF Others, Bumped, Leading
      <4>2. CASE d = c
        <5>1. SUFFICES ASSUME Leading(c)', job'[c].at = "end", ~job'[c].failed, job'[c].token # 0
                       PROVE  flights[flight].leaves < gen'
          BY <4>2, <3>1 DEF Bumped
        <5>2. gen' = gen + 1
          BY <5>1, <3>1
        <5>3. flight \in DOMAIN flights
          BY <5>1, <3>1 DEF Leading, SharedInv, InRole, LoginType
        <5>4. flights[flight].leaves \in Nat /\ flights[flight].leaves <= gen
          BY <5>3, LeavesType DEF Generations
        <5> QED
          BY <5>2, <5>4, <3>2
      <4> QED
        BY <4>1, <4>2
    <3> QED
      BY <1>1, <3>1, <3>2, <3>3
  <2>4. CASE Leads(c)
    <3> DEFINE new == [leaves |-> gen, over |-> FALSE, failed |-> FALSE, token |-> 0]
               n == Len(flights) + 1
    <3>1. /\ flights' = Append(flights, new) /\ flight = 0 /\ flight' = Len(flights')
          /\ UNCHANGED gen /\ job'[c].at = "login"
      BY <2>4 DEF Leads, Begins
    <3>2. new.leaves = gen /\ new.token = 0 /\ new \in Flights
      BY SessionAssumption DEF LoginType, Flights, Tokens, SessionAssumption
    <3> HIDE DEF new
    <3>3. /\ Len(flights') = n /\ DOMAIN flights' = 1..n /\ DOMAIN flights = 1..n - 1 /\ n \in Nat \ {0}
          /\ flights'[n] = new /\ \A i \in 1..n - 1 : flights'[i] = flights[i]
      BY <3>1, <3>2 DEF LoginType
    <3> HIDE DEF n
    <3>4. gen \in Nat /\ \A i \in 1..n - 1 : flights[i].leaves \in Nat
      BY <3>3, LeavesType DEF LoginType
    <3>5. \A i \in DOMAIN flights' : flights'[i].leaves <= gen'
      BY <3>1, <3>2, <3>3, <3>4 DEF Generations
    <3>6. \A i \in 1..n : Brought(i)' => i \in 1..n - 1 /\ Brought(i)
      BY <3>2, <3>3 DEF Brought
    <3>7. \A i \in 1..n - 1 : Brought(i) => flights[i].leaves < gen
      BY <3>3 DEF Generations
    <3>8. \A i \in DOMAIN flights' : Brought(i)' => flights'[i].leaves < gen'
      BY <3>1, <3>3, <3>6, <3>7
    <3>9. ASSUME NEW i \in DOMAIN flights', NEW j \in DOMAIN flights', Brought(i)', i < j
          PROVE  flights'[i].leaves < flights'[j].leaves
      <4>1. i \in 1..n - 1 /\ Brought(i)
        BY <3>3, <3>6, <3>9
      <4>2. CASE j = n
        BY <4>1, <4>2, <3>2, <3>3, <3>7
      <4>3. CASE j # n
        <5>1. j \in 1..n - 1
          BY <4>3, <3>3
        <5> QED
          BY <5>1, <4>1, <3>3, <3>9 DEF Generations
      <4> QED
        BY <4>2, <4>3
    <3>10. \A d \in Callers : Bumped(d)'
      <4>1. \A d \in Callers : ~Leading(d)
        BY <3>1 DEF SharedInv, InRole
      <4> QED
        BY <4>1, <2>1, <3>1 DEF Others, Bumped, Leading
    <3> QED
      BY <3>1, <3>5, <3>8, <3>9, <3>10 DEF Generations, Bumped
  <2>5. CASE Answers(c)
    <3> PICK f : f = job[c].flight
      OBVIOUS
    <3>1. /\ f \in DOMAIN flights /\ f = flight /\ flights' \in Seq(Flights) /\ Len(flights') = Len(flights)
          /\ \A i \in DOMAIN flights \ {f} : flights'[i] = flights[i]
          /\ flights'[f].leaves = flights[f].leaves
          /\ flights'[f].failed = job[c].failed /\ flights'[f].token = job[c].token
      BY <2>5, Landed DEF SharedInv
    <3>2. Leading(c) /\ job[c].at = "end" /\ UNCHANGED gen /\ flight' = 0 /\ Freed(c)
      BY <2>5 DEF Answers
    <3>3. DOMAIN flights' = DOMAIN flights /\ DOMAIN flights = 1..Len(flights) /\ f = Len(flights)
          /\ Len(flights) \in Nat
      BY <3>1 DEF LoginType, Generations
    <3>4. \A i \in DOMAIN flights : flights'[i].leaves = flights[i].leaves
      BY <3>1
    <3>5. \A i \in DOMAIN flights : Brought(i)' => flights[i].leaves < gen
      <4>1. Brought(f)' => flights[f].leaves < gen
        BY <3>1, <3>2 DEF Brought, Generations
      <4>2. \A i \in DOMAIN flights \ {f} : Brought(i)' => Brought(i)
        BY <3>1 DEF Brought
      <4> QED
        BY <4>1, <4>2 DEF Generations
    <3>6. ASSUME NEW i \in DOMAIN flights, NEW j \in DOMAIN flights, Brought(i)', i < j
          PROVE  flights[i].leaves < flights[j].leaves
      <4>1. i # f
        BY <3>3, <3>6
      <4>2. Brought(i)
        BY <4>1, <3>1, <3>6 DEF Brought
      <4> QED
        BY <4>2, <3>6 DEF Generations
    <3>7. \A d \in Callers : Bumped(d)'
      <4>1. \A d \in Callers : job'[d].why # "401"
        BY <2>1, <3>2 DEF Others, Freed, SharedInv, OneSharedLogin, Leading
      <4> QED
        BY <4>1 DEF Bumped, Leading
    <3>8. \A i \in DOMAIN flights : flights[i].leaves <= gen
      BY DEF Generations
    <3> QED
      BY <3>2, <3>3, <3>4, <3>5, <3>6, <3>7, <3>8 DEF Generations, Bumped
  <2> QED
    BY <1>3, <2>2, <2>3, <2>4, <2>5 DEF Step, Roles
<1> QED
  BY <1>2, <1>3

LEMMA LoginInvStep == LoginInv /\ [Next]_vars => LoginInv'
<1> SUFFICES ASSUME LoginInv, [Next]_vars PROVE LoginInv'
  OBVIOUS
<1>1. LoginType /\ SessionType /\ JobType /\ SharedInv /\ Generations
  BY DEF LoginInv
<1>2. \A c \in Callers : InRole(c)
  BY <1>1 DEF SharedInv
<1>3. JobType' /\ (Rests \/ \E c \in Callers : Step(c))
  BY <1>1, <1>2, StepsOfRoles
<1>4. LoginType' /\ SessionType'
  BY <1>1, <1>2, LoginTyped, SessionTyped
<1>5. SharedInv'
  BY <1>1, <1>3, <1>4, SharedStep DEF LoginType
<1>6. Generations'
  BY <1>1, <1>3, <1>4, GenerationsStep
<1> QED
  BY <1>3, <1>4, <1>5, <1>6 DEF LoginInv

LEMMA LoginInvHolds == Spec => []LoginInv
BY LoginInit, LoginInvStep, PTL DEF Spec

--------------------------------------------------------------------------------
\* The sender's state stays of its type through every request, login and edit.
THEOREM SessionTypes == Spec => []TypeOK
<1>1. LoginInv => TypeOK
  BY DEF LoginInv, LoginType, SessionType, JobType, TypeOK, Jobs, Flights, Edited, Tokens, Waiting, Running
<1> QED
  BY <1>1, LoginInvHolds, PTL

\* reauth401 and maybeRefreshLogin: however many requests are refused or find the
\* login due at once, one runs it for those that wait, and one refreshes.
THEOREM LoginIsShared == Spec => []OneSharedLogin
<1>1. LoginInv => OneSharedLogin
  BY DEF LoginInv, SharedInv
<1> QED
  BY <1>1, LoginInvHolds, PTL

\* joinFlight compares the generation that a refused request was sent with: a login
\* that brought a session is never repeated for requests of the same generation.
THEOREM LoginsAreOfDistinctGenerations == Spec => []OneLoginPerGeneration
<1>1. ASSUME LoginInv PROVE OneLoginPerGeneration
  <2> SUFFICES ASSUME NEW i \in DOMAIN flights, NEW j \in DOMAIN flights,
                      flights[i].leaves = flights[j].leaves, Brought(i), Brought(j)
               PROVE  i = j
    BY DEF OneLoginPerGeneration, Brought
  <2>1. i \in Nat /\ j \in Nat /\ flights[i].leaves \in Nat /\ flights[j].leaves \in Nat
    BY <1>1, LeavesType DEF LoginInv
  <2>2. ~(i < j) /\ ~(j < i)
    BY <2>1, <1>1 DEF LoginInv, Generations
  <2> QED
    BY <2>1, <2>2
<1> QED
  BY <1>1, LoginInvHolds, PTL

--------------------------------------------------------------------------------
(* The session that is stored and the session in force *)

In(a) == job[a].at \in {"save", "apply"}
Editing(e) == edit[e].at # "idle"
Agree == stored = live /\ live.note = lastNote

\* As long as no two updates overlap, the one under way knows what it will leave.
UpdateInv ==
  ~crossed =>
    /\ \A a, b \in Callers : In(a) /\ In(b) => a = b
    /\ \A e, f \in Edits : Editing(e) /\ Editing(f) => e = f
    /\ \A a \in Callers, e \in Edits : ~(In(a) /\ Editing(e))
    /\ \A a \in Callers : In(a) => job[a].merged.note = lastNote
    /\ \A a \in Callers : job[a].at = "apply" => stored = job[a].merged
    /\ \A e \in Edits : edit[e].at = "apply" => edit[e].read = stored
    /\ Settled => Agree

\* Nobody is within an update.
LEMMA NothingWithin == Within = {} => (\A a \in Callers : ~In(a)) /\ \A e \in Edits : ~Editing(e)
BY DEF Within, In, Editing

LEMMA UpdateInit == Init => UpdateInv
BY DEF Init, UpdateInv, In, Editing, Idle, NoEdit, Agree

\* A step of somebody who is not within an update, and does not enter one.
LEMMA UpdateKept ==
  ASSUME UpdateInv, UNCHANGED sessionVars, NEW c \in Callers, Others(c), ~In(c), ~In(c)'
  PROVE  UpdateInv'
<1>1. \A a \in Callers : In(a)' <=> In(a)
  BY DEF Others, In
<1>2. \A a \in Callers : In(a) => job'[a] = job[a]
  BY DEF Others
<1>3. Settled' <=> Settled
  BY <1>1, <1>2 DEF Settled, In, sessionVars
<1>4. UNCHANGED <<live, stored, edit, lastNote, crossed>>
  BY DEF sessionVars
<1> QED
  BY <1>1, <1>2, <1>3, <1>4 DEF UpdateInv, In, Editing, Agree

LEMMA RequestUpdates ==
  ASSUME LoginType, SessionType, JobType, \A c \in Callers : InRole(c), UpdateInv,
         NEW c \in Callers,
         Send(c) \/ RequestStep(c) \/ GiveUp(c) \/ RunByHand(c) \/ EndByHand(c)
  PROVE  UpdateInv'
<1>1. gen \in Nat /\ flight \in Nat
  BY DEF LoginType
<1>2. UNCHANGED sessionVars
  BY DEF Send, RequestStep, OwnStep, GiveUp, RunByHand, EndByHand, BeginRefresh, NoRefresh,
     ReadGeneration, Answered, Unauthorized, Stale, Follow, Lead, NewFlight, Shared, EndRefresh, EndFlight
<1>3. Step(c)
  BY <1>1, WandersSteps, BeginningSteps, EndingSteps DEF RequestStep, OwnStep
<1>4. job[c].at \notin {"save", "apply"}
  BY DEF Send, RequestStep, OwnStep, GiveUp, RunByHand, EndByHand, BeginRefresh, NoRefresh,
     ReadGeneration, Answered, Unauthorized, Stale, Follow, Lead, Shared, EndRefresh, EndFlight
<1>5. job'[c].at \in Waiting \cup {"login"} \/ Proceeds(c)
  BY <1>3 DEF Step, Roles, Wanders, ByHand, Claims, Leads, Begins, Freed, Answers, Releases, Ends
<1>6. Proceeds(c) => job'[c].at \notin {"save", "apply"}
  <2>1. SUFFICES ASSUME Proceeds(c) PROVE job'[c].at \in Waiting \cup {"login"}
    BY DEF Waiting
  <2>2. job[c].at \in Running /\ job'[c].why = job[c].why
    BY <2>1 DEF Proceeds
  <2>3. EndRefresh(c) \/ EndFlight(c) \/ EndByHand(c)
    BY <2>2 DEF Running, Send, RequestStep, OwnStep, GiveUp, RunByHand, BeginRefresh, NoRefresh,
       ReadGeneration, Answered, Unauthorized, Stale, Follow, Lead, Shared
  <2>4. CASE EndRefresh(c)
    <3> DEFINE r == [Idle EXCEPT !.at = "generation", !.retried = job[c].retried]
    <3>1. r \in Jobs /\ r.at = "generation"
      BY Facts DEF Jobs, Idle, Waiting, JobType
    <3>2. job' = [job EXCEPT ![c] = r]
      BY <2>4 DEF EndRefresh
    <3> HIDE DEF r
    <3> QED
      BY <3>1, <3>2, Written DEF Waiting
  <2>5. CASE EndFlight(c) \/ EndByHand(c)
    BY <2>5, Resent DEF EndFlight, EndByHand
  <2> QED
    BY <2>3, <2>4, <2>5
<1> QED
  BY <1>2, <1>3, <1>4, <1>5, <1>6, UpdateKept DEF Step, In, Waiting

LEMMA LoginUpdates ==
  ASSUME LoginType, SessionType, JobType, \A c \in Callers : InRole(c), UpdateInv,
         NEW a \in Callers, LoginStep(a)
  PROVE  UpdateInv'
<1>t. job[a] \in Jobs
  BY DEF JobType
<1>o. Others(a)
  BY LoginSteps DEF Step
<1>1. CASE LoginFails(a) \/ LoginIsEmpty(a) \/ LoginAnswered(a) \/ MarkRefreshed(a)
  <2>1. UNCHANGED sessionVars /\ job[a].at \notin {"save", "apply"}
    BY <1>1 DEF LoginFails, LoginIsEmpty, LoginAnswered, MarkRefreshed
  <2>2. job'[a].at \in {"end", "merge"}
    BY <1>1, <1>t DEF LoginFails, LoginIsEmpty, LoginAnswered, MarkRefreshed, Becomes, JobType, Jobs
  <2> QED
    BY <2>1, <2>2, <1>o, UpdateKept DEF In
<1>2. CASE Merge(a)
  <2> DEFINE q == [live EXCEPT !.on = TRUE, !.token = job[a].token]
  <2>1. q.note = live.note
    BY DEF SessionType, Sessions
  <2>2. /\ job'[a].at = "save" /\ job'[a].merged = q
        /\ UNCHANGED <<live, stored, edit, lastNote>>
    BY <1>2, <1>t DEF Merge, JobType, Jobs
  <2> HIDE DEF q
  <2>3. ~crossed' => ~crossed /\ Within = {}
    BY <1>2 DEF Merge
  <2>4. SUFFICES ASSUME ~crossed', ~crossed, Within = {} PROVE UpdateInv'
    BY <2>3 DEF UpdateInv
  <2>5. (\A b \in Callers : ~In(b)) /\ \A e \in Edits : ~Editing(e)
    BY <2>4, NothingWithin
  <2>6. Agree
    BY <2>4, <2>5 DEF UpdateInv, Settled, In, Editing
  <2>7. \A b \in Callers : In(b)' => b = a
    BY <2>5, <1>o DEF In, Others
  <2>8. \A e \in Edits : ~Editing(e)'
    BY <2>2, <2>5 DEF Editing
  <2>9. job'[a].merged.note = lastNote' /\ Agree'
    BY <2>1, <2>2, <2>6 DEF Agree
  <2> QED
    BY <2>2, <2>7, <2>8, <2>9 DEF UpdateInv, In, Editing
<1>3. CASE SaveLogin(a) \/ SaveLoginFails(a) \/ ApplySessionHeaders(a)
  <2>1. In(a) /\ UNCHANGED <<edit, lastNote, crossed>>
    BY <1>3 DEF SaveLogin, SaveLoginFails, ApplySessionHeaders, In, sessionVars
  <2>2. SUFFICES ASSUME ~crossed PROVE UpdateInv'
    BY <2>1 DEF UpdateInv
  <2>3. (\A b \in Callers \ {a} : ~In(b)) /\ \A e \in Edits : ~Editing(e)
    BY <2>1, <2>2 DEF UpdateInv
  <2>4. (\A b \in Callers \ {a} : ~In(b)') /\ \A e \in Edits : ~Editing(e)'
    BY <2>1, <2>3, <1>o DEF In, Editing, Others
  <2>5. job[a].merged.note = lastNote
    BY <2>1, <2>2 DEF UpdateInv
  <2>6. job[a].at = "save" => Settled
    BY <2>3 DEF Settled, In, Editing
  <2>7. CASE SaveLogin(a)
    <3>1. job'[a].at = "apply" /\ job'[a].merged = job[a].merged /\ stored' = job[a].merged
      BY <2>7, <1>t DEF SaveLogin, Becomes, JobType, Jobs
    <3> QED
      BY <3>1, <2>1, <2>4, <2>5 DEF UpdateInv, In, Editing, Settled
  <2>8. CASE SaveLoginFails(a)
    <3>1. job'[a].at = "end" /\ UNCHANGED <<stored, live>> /\ job[a].at = "save"
      BY <2>8, <1>t DEF SaveLoginFails, JobType, Jobs, sessionVars
    <3>2. Agree'
      BY <3>1, <2>1, <2>2, <2>6 DEF UpdateInv, Agree
    <3> QED
      BY <3>1, <3>2, <2>1, <2>4 DEF UpdateInv, In, Editing
  <2>9. CASE ApplySessionHeaders(a)
    <3>1. /\ job'[a].at = "mark" /\ live' = job[a].merged /\ UNCHANGED stored
          /\ job[a].at = "apply"
      BY <2>9, <1>t DEF ApplySessionHeaders, JobType, Jobs
    <3>2. stored = job[a].merged
      BY <3>1, <2>2 DEF UpdateInv
    <3>3. Agree'
      BY <3>1, <3>2, <2>1, <2>5 DEF Agree
    <3> QED
      BY <3>1, <3>3, <2>1, <2>4 DEF UpdateInv, In, Editing
  <2> QED
    BY <1>3, <2>7, <2>8, <2>9
<1> QED
  BY <1>1, <1>2, <1>3 DEF LoginStep

LEMMA EditUpdates ==
  ASSUME SessionType, UpdateInv, NEW e \in Edits, EditSave(e) \/ EditStep(e)
  PROVE  UpdateInv'
<1>t. edit \in [Edits -> Edited]
  BY DEF SessionType
<1>j. UNCHANGED job
  BY DEF EditSave, EditStep, EditRead, EditApply
<1>1. CASE EditSave(e)
  <2>1. edit'[e].at = "read" /\ (\A f \in Edits \ {e} : edit'[f] = edit[f]) /\ UNCHANGED <<live, lastNote>>
    BY <1>1, <1>t DEF EditSave, Edited
  <2>2. ~crossed' => ~crossed /\ Within = {}
    BY <1>1 DEF EditSave
  <2>3. SUFFICES ASSUME ~crossed', Within = {} PROVE UpdateInv'
    BY <2>2 DEF UpdateInv
  <2>4. (\A a \in Callers : ~In(a)) /\ \A f \in Edits : ~Editing(f)
    BY <2>3, NothingWithin
  <2>5. (\A a \in Callers : ~In(a)') /\ \A f \in Edits \ {e} : ~Editing(f)'
    BY <2>1, <2>4, <1>j DEF In, Editing
  <2> QED
    BY <2>1, <2>5 DEF UpdateInv, In, Editing, Settled
<1>2. CASE EditStep(e)
  <2>1. Editing(e) /\ UNCHANGED <<stored, crossed>>
    BY <1>2 DEF EditStep, EditRead, EditApply, Editing
  <2>2. SUFFICES ASSUME ~crossed PROVE UpdateInv'
    BY <2>1 DEF UpdateInv
  <2>3. (\A a \in Callers : ~In(a)) /\ \A f \in Edits \ {e} : ~Editing(f)
    BY <2>1, <2>2 DEF UpdateInv
  <2>4. \A f \in Edits \ {e} : edit'[f] = edit[f]
    BY <1>2, <1>t DEF EditStep, EditRead, EditApply
  <2>5. (\A a \in Callers : ~In(a)') /\ \A f \in Edits \ {e} : ~Editing(f)'
    BY <2>3, <2>4, <1>j DEF In, Editing
  <2>6. CASE EditRead(e)
    <3>1. edit'[e] = [at |-> "apply", read |-> stored]
      BY <2>6, <1>t DEF EditRead
    <3> QED
      BY <3>1, <2>1, <2>5 DEF UpdateInv, In, Editing, Settled
  <2>7. CASE EditApply(e)
    <3>1. edit'[e] = NoEdit /\ live' = edit[e].read /\ lastNote' = edit[e].read.note /\ edit[e].at = "apply"
      BY <2>7, <1>t DEF EditApply
    <3>2. edit[e].read = stored
      BY <3>1, <2>2 DEF UpdateInv
    <3>3. Agree' /\ ~Editing(e)'
      BY <3>1, <3>2, <2>1 DEF Agree, Editing, NoEdit
    <3> QED
      BY <3>3, <2>5 DEF UpdateInv, In, Editing
  <2> QED
    BY <1>2, <2>6, <2>7 DEF EditStep
<1> QED
  BY <1>1, <1>2

LEMMA UpdateStep ==
  ASSUME LoginInv, UpdateInv, [Next]_vars
  PROVE  UpdateInv'
<1>1. LoginType /\ SessionType /\ JobType /\ \A c \in Callers : InRole(c)
  BY DEF LoginInv, SharedInv
<1>2. ASSUME UNCHANGED <<sessionVars, job>> PROVE UpdateInv'
  BY <1>2 DEF sessionVars, UpdateInv, In, Editing, Agree, Settled
<1>3. CASE ComesDue \/ UNCHANGED vars
  BY <1>2, <1>3 DEF ComesDue, vars
<1> QED
  BY <1>1, <1>3, RequestUpdates, LoginUpdates, EditUpdates DEF Next

\* setSession, mergeSessionHeaders and the callback of wireSessionRefresh: what a restart
\* would read is what is attached to requests, and the operator's own header is still
\* there, after any number of edits and logins that do not overlap each other.
THEOREM StoredSessionIsLive == Spec => []StoredIsLive
<1>1. LoginInv /\ UpdateInv /\ [Next]_vars => UpdateInv'
  BY UpdateStep
<1>2. UpdateInv => StoredIsLive
  BY DEF UpdateInv, StoredIsLive, Agree
<1> QED
  BY UpdateInit, LoginInvHolds, <1>1, <1>2, PTL DEF Spec
================================================================================
