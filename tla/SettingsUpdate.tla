----------------------------- MODULE SettingsUpdate -----------------------------
(***************************************************************************)
(* PUT /api/settings (control.go, commitSettingsUpdate): the steps that can *)
(* fail take effect at once and are undone when a later one fails, then all *)
(* keys are saved in one transaction, then the setters that cannot fail     *)
(* run.  A route (upstream proxy, its trust) is in force in two places, the *)
(* sender and the proxy.  No lock is held from one phase to the next.       *)
(***************************************************************************)
EXTENDS TLSBypass, Sequences

CONSTANTS
  Requests,   \* PUTs that may run at once
  Routes,     \* the runtime keys of a request, in the order of its steps
  Values,     \* what a key may be set to
  Direct,     \* what a key that was never saved stands for: no upstream proxy
  Same,       \* a field the body does not have
  Lists,      \* bypass lists a body may have
  MaxPuts     \* bound: PUTs in one behaviour

ASSUME SettingsAssumption ==
  /\ Same \notin Values /\ Direct \in Values /\ Lists \subseteq SUBSET Hosts /\ Same \notin Lists
  /\ DOMAIN Routes = 1..Len(Routes) /\ Len(Routes) \in Nat

VARIABLES
  saved,   \* the saved route of each key
  live,    \* what is in force, on each side
  put,     \* what each request is doing
  puts

settingsVars == <<saved, live, put, puts>>

Steps == DOMAIN Routes
Sides == {"sender", "proxy"}
NoWant == [k \in Steps |-> Same]
NoPut == [at |-> "idle", want |-> NoWant, list |-> Same, previous |-> NoWant, next |-> 1]
Last == Len(Routes)

SettingsInit ==
  /\ BypassInit
  /\ saved = [k \in Steps |-> Direct]
  /\ live = [k \in Steps |-> [s \in Sides |-> Direct]]
  /\ put = [p \in Requests |-> NoPut]
  /\ puts = 0

\* planSettingsUpdate: what is saved now is what an undo goes back to.
PlanSettingsUpdate(p) ==
  /\ put[p] = NoPut /\ puts < MaxPuts
  /\ \E want \in [Steps -> Values \cup {Same}], list \in Lists \cup {Same} :
       /\ want # NoWant \/ list # Same
       /\ put' = [put EXCEPT ![p] = [at |-> "steps", want |-> want, list |-> list,
                                     previous |-> saved, next |-> 1]]
  /\ puts' = puts + 1
  /\ UNCHANGED <<saved, live, bypassVars>>

\* The next step to run: the fields the body does not have have none.
Wants(p, k) == put[p].want[k] # Same
Turn(p, k) ==
  /\ put[p].at = "steps" /\ put[p].next = k
  /\ k \in Steps /\ Wants(p, k)

PassOver(p) ==
  /\ put[p].at = "steps" /\ put[p].next \in Steps /\ ~Wants(p, put[p].next)
  /\ put' = [put EXCEPT ![p].next = @ + 1]
  /\ UNCHANGED <<saved, live, puts, bypassVars>>

\* do: the sender takes the value first, then the proxy ...
SenderTakes(p) == \E k \in Steps :
  /\ Turn(p, k)
  /\ live' = [live EXCEPT ![k]["sender"] = put[p].want[k]]
  /\ put' = [put EXCEPT ![p].at = "half"]
  /\ UNCHANGED <<saved, puts, bypassVars>>

ProxyTakes(p) ==
  LET k == put[p].next IN
  /\ put[p].at = "half"
  /\ live' = [live EXCEPT ![k]["proxy"] = put[p].want[k]]
  /\ put' = [put EXCEPT ![p].at = "steps", ![p].next = k + 1]
  /\ UNCHANGED <<saved, puts, bypassVars>>

\* ... and either may refuse it; the sender goes back to the previous value when
\* the proxy does.
SenderRefuses(p) ==
  /\ \E k \in Steps : Turn(p, k)
  /\ put' = [put EXCEPT ![p].at = "undo"]
  /\ UNCHANGED <<saved, live, puts, bypassVars>>

\* Fault: the sender keeps a value that the proxy refused.
ProxyRefusesHalf(p) ==
  /\ put[p].at = "half"
  /\ put' = [put EXCEPT ![p].at = "undo"]
  /\ UNCHANGED <<saved, live, puts, bypassVars>>

ProxyRefuses(p) ==
  LET k == put[p].next IN
  /\ put[p].at = "half"
  /\ live' = [live EXCEPT ![k]["sender"] = put[p].previous[k]]
  /\ put' = [put EXCEPT ![p].at = "undo"]
  /\ UNCHANGED <<saved, puts, bypassVars>>

\* rollback: the steps that were done, the latest first.
Undo(p) ==
  LET k == put[p].next - 1 IN
  /\ put[p].at = "undo" /\ k \in Steps
  /\ live' = IF Wants(p, k) THEN [live EXCEPT ![k] = [s \in Sides |-> put[p].previous[k]]]
             ELSE live
  /\ put' = [put EXCEPT ![p].next = k]
  /\ UNCHANGED <<saved, puts, bypassVars>>

Rejected(p) ==
  /\ put[p].at = "undo" /\ put[p].next = 1
  /\ put' = [put EXCEPT ![p] = NoPut]
  /\ UNCHANGED <<saved, live, puts, bypassVars>>

\* setSettings: every key in one transaction, or none.
SaveSettings(p) ==
  /\ put[p].at = "steps" /\ put[p].next = Last + 1
  /\ saved' = [k \in Steps |-> IF Wants(p, k) THEN put[p].want[k] ELSE saved[k]]
  /\ IF put[p].list = Same THEN UNCHANGED <<savedBypass, unsaved>>
     ELSE savedBypass' = put[p].list /\ unsaved' = FALSE
  /\ put' = [put EXCEPT ![p].at = "apply"]
  /\ UNCHANGED <<live, puts, bypass, bypassVersion, notifier>>

\* Fault: a failed transaction is answered without undoing the steps.
SaveFailsKept(p) ==
  /\ put[p].at = "steps" /\ put[p].next = Last + 1
  /\ put' = [put EXCEPT ![p] = NoPut]
  /\ UNCHANGED <<saved, live, puts, bypassVars>>

SaveSettingsFails(p) ==
  /\ put[p].at = "steps" /\ put[p].next = Last + 1
  /\ put' = [put EXCEPT ![p].at = "undo"]
  /\ UNCHANGED <<saved, live, puts, bypassVars>>

\* The setters, and the answer.
ApplySettings(p) ==
  /\ put[p].at = "apply"
  /\ IF put[p].list = Same THEN UNCHANGED <<bypass, bypassVersion>>
     ELSE SetTLSBypassHosts(put[p].list)
  /\ put' = [put EXCEPT ![p] = NoPut]
  /\ UNCHANGED <<saved, live, puts, savedBypass, unsaved, notifier>>

PutStep(p) ==
  \/ PassOver(p) \/ SenderTakes(p) \/ ProxyTakes(p) \/ SenderRefuses(p) \/ ProxyRefuses(p)
  \/ Undo(p) \/ Rejected(p)
  \/ SaveSettings(p) \/ SaveSettingsFails(p) \/ ApplySettings(p)

--------------------------------------------------------------------------------
Quiet == \A p \in Requests : put[p] = NoPut

SettingsTypeOK ==
  /\ BypassTypeOK
  /\ saved \in [Steps -> Values] /\ live \in [Steps -> [Sides -> Values]]
  /\ puts \in Nat
  /\ put \in [Requests -> [at : {"idle", "steps", "half", "undo", "apply"},
                           want : [Steps -> Values \cup {Same}], list : Lists \cup {Same},
                           previous : [Steps -> Values \cup {Same}], next : 1..Last + 1]]

\* "the store and the live proxy never diverge and a rejected request changes
\* nothing" (commitSettingsUpdate): when no request is under way, what is saved is
\* in force on both sides, however the last one ended.
StoreAndLiveAgree == Quiet => \A k \in Steps, s \in Sides : live[k][s] = saved[k]
================================================================================
