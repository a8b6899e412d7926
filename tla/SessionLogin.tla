------------------------------ MODULE SessionLogin ------------------------------
(***************************************************************************)
(* The session that the sender attaches to its requests, and who replaces   *)
(* it: a login macro (sender/loginmacro.go), run when it is due, by hand,   *)
(* or once for all the requests that got a 401 meanwhile, and the edits of  *)
(* the operator (control/session.go).  A login saves what it learnt and     *)
(* then puts it in force, without the lock under which edits do the same.   *)
(***************************************************************************)
EXTENDS Naturals, Sequences, FiniteSets

CONSTANTS
  Callers,    \* requests and runs by hand that may be under way at once
  Edits,      \* edits of the session that may be under way at once
  Notes,      \* values of a session header that the login does not set
  MaxCalls,   \* bound: requests and runs by hand that each slot begins
  MaxEdits,   \* bound: edits that each slot begins
  MaxLogins   \* bound: logins that the target answers with session headers

ASSUME SessionAssumption == Notes # {} /\ MaxLogins \in Nat

VARIABLES
  gen,         \* logins that completed
  flight,      \* the shared login under way, 0 when there is none
  flights,     \* every shared login: the generation it leaves, its end, error and token
  refreshing,  \* a refresh that was due is under way
  due,         \* the last login is older than the macro allows
  job,         \* what each request and each run by hand is doing
  live,        \* the session that is attached to requests
  stored,      \* the session in the settings
  edit,        \* what each edit is doing; at most one holds sessionWriteMu
  logins,      \* tokens that the target has handed out
  begun,
  lastNote,    \* history: what the last edit that ended put in force
  crossed      \* history: two updates of the session overlapped

loginVars == <<gen, flight, flights, refreshing, due, logins>>
sessionVars == <<live, stored, edit, lastNote, crossed>>
vars == <<loginVars, sessionVars, job, begun>>

Sessions == [on : BOOLEAN, token : 0..MaxLogins, note : Notes]
Fresh == [on |-> FALSE, token |-> 0, note |-> CHOOSE n \in Notes : TRUE]
Idle == [at |-> "idle", why |-> "none", seen |-> 0, flight |-> 0, retried |-> FALSE,
         failed |-> FALSE, token |-> 0, merged |-> Fresh]
NoEdit == [at |-> "idle", read |-> Fresh]

\* Who is between reading or saving the session and putting it in force.
Within == {a \in Callers : job[a].at \in {"save", "apply"}}
            \cup {e \in Edits : edit[e].at # "idle"}

Init ==
  /\ gen = 0 /\ flight = 0 /\ flights = <<>> /\ refreshing = FALSE
  /\ due \in BOOLEAN /\ logins = 0
  /\ live = Fresh /\ stored = Fresh /\ lastNote = Fresh.note /\ crossed = FALSE
  /\ job = [a \in Callers |-> Idle]
  /\ edit = [e \in Edits |-> NoEdit]
  /\ begun = [a \in Callers \cup Edits |-> 0]

Becomes(a, step) == job' = [job EXCEPT ![a].at = step]
Begin(a, max) == begun[a] < max /\ begun' = [begun EXCEPT ![a] = @ + 1]

--------------------------------------------------------------------------------
\* sendOne of a request in the session's scope, first time and retry:
\* maybeRefreshLogin, with the claim that keeps the others from refreshing too ...
Send(c) ==
  /\ job[c].at = "idle" /\ Begin(c, MaxCalls)
  /\ Becomes(c, "refresh")
  /\ UNCHANGED <<loginVars, sessionVars>>

BeginRefresh(c) ==
  /\ job[c].at = "refresh" /\ due /\ ~refreshing
  /\ refreshing' = TRUE
  /\ job' = [job EXCEPT ![c].at = "login", ![c].why = "due"]
  /\ UNCHANGED <<gen, flight, flights, due, logins, sessionVars, begun>>

NoRefresh(c) ==
  /\ job[c].at = "refresh" /\ (~due \/ refreshing)
  /\ Becomes(c, "generation")
  /\ UNCHANGED <<loginVars, sessionVars, begun>>

\* ... and the generation that tells whether a login happened since.
ReadGeneration(c) ==
  /\ job[c].at = "generation"
  /\ job' = [job EXCEPT ![c].at = "wire", ![c].seen = gen]
  /\ UNCHANGED <<loginVars, sessionVars, begun>>

\* The target answers, or refuses a request that has its retry behind it, or the
\* macro is not for 401s.
Answered(c) ==
  /\ job[c].at = "wire"
  /\ job' = [job EXCEPT ![c] = Idle]
  /\ UNCHANGED <<loginVars, sessionVars, begun>>

Unauthorized(c) ==
  /\ job[c].at = "wire" /\ ~job[c].retried
  /\ Becomes(c, "join")
  /\ UNCHANGED <<loginVars, sessionVars, begun>>

Retry(c) == job' = [job EXCEPT ![c] = [Idle EXCEPT !.at = "refresh", !.retried = TRUE]]

\* joinFlight: a login completed meanwhile ...
Stale(c) ==
  /\ job[c].at = "join" /\ gen # job[c].seen
  /\ Retry(c)
  /\ UNCHANGED <<loginVars, sessionVars, begun>>

\* ... or one is under way ...
Follow(c) ==
  /\ job[c].at = "join" /\ gen = job[c].seen /\ flight # 0
  /\ job' = [job EXCEPT ![c].at = "wait", ![c].flight = flight, ![c].seen = 0]
  /\ UNCHANGED <<loginVars, sessionVars, begun>>

NewFlight(c) ==
  /\ flights' = Append(flights, [leaves |-> gen, over |-> FALSE, failed |-> FALSE, token |-> 0])
  /\ flight' = Len(flights')
  /\ job' = [job EXCEPT ![c].at = "login", ![c].why = "401", ![c].flight = flight',
                        ![c].seen = 0]
  /\ UNCHANGED <<gen, refreshing, due, logins, sessionVars, begun>>

\* Fault: a login of another request is not looked for.
LeadAnyway(c) == job[c].at = "join" /\ gen = job[c].seen /\ NewFlight(c)

\* ... or this request runs it for all.
Lead(c) == job[c].at = "join" /\ gen = job[c].seen /\ flight = 0 /\ NewFlight(c)

\* The shared login is over: its result is that of every request that waited.
Shared(c) ==
  /\ job[c].at = "wait" /\ flights[job[c].flight].over
  /\ IF flights[job[c].flight].failed THEN job' = [job EXCEPT ![c] = Idle] ELSE Retry(c)
  /\ UNCHANGED <<loginVars, sessionVars, begun>>

\* The context of a request that waits ends.
GiveUp(c) ==
  /\ job[c].at = "wait"
  /\ job' = [job EXCEPT ![c] = Idle]
  /\ UNCHANGED <<loginVars, sessionVars, begun>>

--------------------------------------------------------------------------------
\* RunLoginMacroNow.
RunByHand(h) ==
  /\ job[h].at = "idle" /\ Begin(h, MaxCalls)
  /\ job' = [job EXCEPT ![h].at = "login", ![h].why = "hand"]
  /\ UNCHANGED <<loginVars, sessionVars>>

\* runLoginMacro: the request fails (its own time is up, the caller's context
\* ends, the network), or brings no session header, or a token.
LoginFails(a) ==
  /\ job[a].at = "login"
  /\ job' = [job EXCEPT ![a].at = "end", ![a].failed = TRUE]
  /\ UNCHANGED <<loginVars, sessionVars, begun>>

LoginIsEmpty(a) ==
  /\ job[a].at = "login" /\ Becomes(a, "end")
  /\ UNCHANGED <<loginVars, sessionVars, begun>>

LoginAnswered(a) ==
  /\ job[a].at = "login" /\ logins < MaxLogins
  /\ logins' = logins + 1
  /\ job' = [job EXCEPT ![a].at = "merge", ![a].token = logins']
  /\ UNCHANGED <<gen, flight, flights, refreshing, due, sessionVars, begun>>

\* Fault: the login's headers replace the session.
MergeNothing(a) ==
  /\ job[a].at = "merge"
  /\ job' = [job EXCEPT ![a].at = "save",
                        ![a].merged = [Fresh EXCEPT !.on = TRUE, !.token = job[a].token]]
  /\ crossed' = (crossed \/ Within # {})
  /\ UNCHANGED <<loginVars, live, stored, edit, lastNote, begun>>

\* mergeSessionHeaders, into the session as it is now.
Merge(a) ==
  /\ job[a].at = "merge"
  /\ job' = [job EXCEPT ![a].at = "save",
                        ![a].merged = [live EXCEPT !.on = TRUE, !.token = job[a].token]]
  /\ crossed' = (crossed \/ Within # {})
  /\ UNCHANGED <<loginVars, live, stored, edit, lastNote, begun>>

\* The callback of wireSessionRefresh: both settings in one transaction.
SaveLogin(a) ==
  /\ job[a].at = "save"
  /\ stored' = job[a].merged
  /\ Becomes(a, "apply")
  /\ UNCHANGED <<loginVars, live, edit, lastNote, crossed, begun>>

\* Fault: the error of the callback is not looked at.
SaveLoginIgnored(a) ==
  /\ job[a].at = "save" /\ Becomes(a, "apply")
  /\ UNCHANGED <<loginVars, sessionVars, begun>>

SaveLoginFails(a) ==
  /\ job[a].at = "save"
  /\ job' = [job EXCEPT ![a].at = "end", ![a].failed = TRUE, ![a].merged = Fresh]
  /\ UNCHANGED <<loginVars, sessionVars, begun>>

ApplySessionHeaders(a) ==
  /\ job[a].at = "apply"
  /\ live' = job[a].merged
  /\ job' = [job EXCEPT ![a].at = "mark", ![a].merged = Fresh]
  /\ UNCHANGED <<loginVars, stored, edit, lastNote, crossed, begun>>

\* Fault: the time of the login is noted, its generation is not.
MarkTimeOnly(a) ==
  /\ job[a].at = "mark" /\ Becomes(a, "end")
  /\ due' = FALSE
  /\ UNCHANGED <<gen, flight, flights, refreshing, logins, sessionVars, begun>>

MarkRefreshed(a) ==
  /\ job[a].at = "mark" /\ Becomes(a, "end")
  /\ gen' = gen + 1 /\ due' = FALSE
  /\ UNCHANGED <<flight, flights, refreshing, logins, sessionVars, begun>>

\* endRefresh: whatever became of the login, the request goes on.
EndRefresh(c) ==
  /\ job[c].at = "end" /\ job[c].why = "due"
  /\ refreshing' = FALSE
  /\ job' = [job EXCEPT ![c] = [Idle EXCEPT !.at = "generation", !.retried = job[c].retried]]
  /\ UNCHANGED <<gen, flight, flights, due, logins, sessionVars, begun>>

\* Fault: the requests that wait are told of a success only.
EndFlightQuietly(c) ==
  /\ job[c].at = "end" /\ job[c].why = "401"
  /\ flights' = [flights EXCEPT ![job[c].flight].failed = job[c].failed,
                                ![job[c].flight].over = ~job[c].failed]
  /\ flight' = 0
  /\ IF job[c].failed THEN job' = [job EXCEPT ![c] = Idle] ELSE Retry(c)
  /\ UNCHANGED <<gen, refreshing, due, logins, sessionVars, begun>>

\* endFlight, and the retry of the request that ran the login.
EndFlight(c) ==
  /\ job[c].at = "end" /\ job[c].why = "401"
  /\ flights' = [flights EXCEPT ![job[c].flight].failed = job[c].failed,
                                ![job[c].flight].over = TRUE,
                                ![job[c].flight].token = job[c].token]
  /\ flight' = 0
  /\ IF job[c].failed THEN job' = [job EXCEPT ![c] = Idle] ELSE Retry(c)
  /\ UNCHANGED <<gen, refreshing, due, logins, sessionVars, begun>>

EndByHand(h) ==
  /\ job[h].at = "end" /\ job[h].why = "hand"
  /\ job' = [job EXCEPT ![h] = Idle]
  /\ UNCHANGED <<loginVars, sessionVars, begun>>

\* Time passes.
ComesDue ==
  /\ ~due /\ gen > 0
  /\ due' = TRUE
  /\ UNCHANGED <<gen, flight, flights, refreshing, logins, sessionVars, job, begun>>

--------------------------------------------------------------------------------
\* setSession, under sessionWriteMu: the fields of the body are saved together ...
EditSave(e) ==
  /\ \A f \in Edits : edit[f].at = "idle"
  /\ Begin(e, MaxEdits)
  /\ \/ stored' = [stored EXCEPT !.on = ~@]
     \/ \E n \in Notes \ {stored.note} : stored' = [stored EXCEPT !.token = 0, !.note = n]
  /\ edit' = [edit EXCEPT ![e].at = "read"]
  /\ crossed' = (crossed \/ Within # {})
  /\ UNCHANGED <<loginVars, live, lastNote, job>>

\* ... what is stored now is read back ...
EditRead(e) ==
  /\ edit[e].at = "read"
  /\ edit' = [edit EXCEPT ![e] = [at |-> "apply", read |-> stored]]
  /\ UNCHANGED <<loginVars, live, stored, lastNote, crossed, job, begun>>

\* ... and put in force.
EditApply(e) ==
  /\ edit[e].at = "apply"
  /\ live' = edit[e].read /\ lastNote' = edit[e].read.note
  /\ edit' = [edit EXCEPT ![e] = NoEdit]
  /\ UNCHANGED <<loginVars, stored, crossed, job, begun>>

--------------------------------------------------------------------------------
\* What a request does by itself, and what it needs the target for.
OwnStep(c) ==
  \/ BeginRefresh(c) \/ NoRefresh(c) \/ ReadGeneration(c)
  \/ Stale(c) \/ Follow(c) \/ Lead(c) \/ Shared(c) \/ EndRefresh(c) \/ EndFlight(c)

RequestStep(c) == OwnStep(c) \/ Answered(c) \/ Unauthorized(c)

LoginStep(a) ==
  \/ LoginFails(a) \/ LoginIsEmpty(a) \/ LoginAnswered(a) \/ Merge(a) \/ SaveLogin(a)
  \/ SaveLoginFails(a) \/ ApplySessionHeaders(a) \/ MarkRefreshed(a)

EditStep(e) == EditRead(e) \/ EditApply(e)

Next ==
  \/ \E c \in Callers : Send(c) \/ RequestStep(c) \/ GiveUp(c)
  \/ \E a \in Callers : RunByHand(a) \/ LoginStep(a) \/ EndByHand(a)
  \/ \E e \in Edits : EditSave(e) \/ EditStep(e)
  \/ ComesDue

Spec == Init /\ [][Next]_vars

\* A goroutine that can go on does, and a login request ends within
\* macroRequestTimeout, which is why LoginFails is fair.  A request itself has no
\* such limit: the target may never answer it, nor anything end its context.
FairSpec ==
  /\ Spec
  /\ \A c \in Callers : WF_vars(OwnStep(c) \/ LoginStep(c) \/ EndByHand(c))

--------------------------------------------------------------------------------
TypeOK ==
  /\ gen \in Nat /\ logins \in 0..MaxLogins
  /\ flights \in Seq([leaves : Nat, over : BOOLEAN, failed : BOOLEAN, token : 0..MaxLogins])
  /\ flight \in 0..Len(flights)
  /\ refreshing \in BOOLEAN /\ due \in BOOLEAN /\ crossed \in BOOLEAN
  /\ job \in [Callers ->
       [at : {"idle", "refresh", "generation", "wire", "join", "wait",
              "login", "merge", "save", "apply", "mark", "end"},
        why : {"none", "due", "401", "hand"}, seen : Nat, flight : Nat,
        retried : BOOLEAN, failed : BOOLEAN, token : 0..MaxLogins, merged : Sessions]]
  /\ live \in Sessions /\ stored \in Sessions /\ lastNote \in Notes
  /\ edit \in [Edits -> [at : {"idle", "read", "apply"}, read : Sessions]]

\* Who runs a login for others (reauth401), and who refreshes a session that is due.
Leading(c) == job[c].why = "401"
Refreshing(c) == job[c].why = "due"

\* "Concurrent 401s share one login": at most one request runs it, and those that
\* find it under way find that one.  The claim of a refresh has one owner too.
OneSharedLogin ==
  /\ \A c, d \in Callers : Leading(c) /\ Leading(d) => c = d
  /\ \A c \in Callers : Leading(c) => flight = job[c].flight
  /\ flight # 0 => \E c \in Callers : Leading(c)
  /\ \A c, d \in Callers : Refreshing(c) /\ Refreshing(d) => c = d
  /\ refreshing <=> \E c \in Callers : Refreshing(c)

\* Requests that were refused with the same generation cost one login, however far
\* apart their answers are: it is bumped before the flight is closed.  A login that
\* failed or brought no session header does not count.
OneLoginPerGeneration ==
  \A i, j \in DOMAIN flights :
    /\ flights[i].leaves = flights[j].leaves
    /\ ~flights[i].failed /\ ~flights[j].failed /\ flights[i].token # 0 /\ flights[j].token # 0
    => i = j

\* Nobody has saved a session that is not in force yet.
Settled == (\A a \in Callers : job[a].at # "apply") /\ (\A e \in Edits : edit[e].at = "idle")

\* "the sender is applied from a consistent stored state" (sessionWriteMu): what a
\* restart would read is what is attached to requests, and "unrelated headers are
\* kept" (mergeSessionHeaders): no login, failed, repeated or shared, takes away what
\* the operator last put in.  Edits keep it so among themselves; a login, which does
\* not take the lock, does unless its update overlaps another one.
StoredIsLive == Settled /\ ~crossed => stored = live /\ live.note = lastNote

\* Whoever is neither done nor waiting for the target comes to one or the other: no
\* request waits for a login that nobody runs any more (reauth401, beginRefresh).
OnlyTheTargetIsWaitedFor ==
  \A c \in Callers : job[c].at # "idle" ~> job[c].at \in {"idle", "wire"}
================================================================================
