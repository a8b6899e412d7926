------------------------------- MODULE TLSBypass -------------------------------
(***************************************************************************)
(* The hosts the proxy tunnels without interception (proxy/tlsbypass.go):  *)
(* the settings replace the list, a failed handshake may add its host to    *)
(* it.  An added host is saved through a callback that runs outside the     *)
(* lock, so goroutines that save older and newer lists overtake each other. *)
(***************************************************************************)
EXTENDS Handshakes, Naturals

VARIABLES
  bypass,         \* bypassHosts: the list in force
  bypassVersion,  \* counts every change of the list
  savedBypass,    \* the saved setting
  unsaved,        \* history: the last write of the setting failed (it is logged)
  notifier        \* what the callback of each connection is doing

bypassVars == <<bypass, bypassVersion, savedBypass, unsaved, notifier>>

Resting == [at |-> "rest", version |-> 0, list |-> {}]

BypassInit ==
  /\ bypass = {} /\ bypassVersion = 0
  /\ savedBypass = {} /\ unsaved = FALSE
  /\ notifier = [c \in Conns |-> Resting]

Bypassed(h) == h \in bypass

\* SetTLSBypassHosts, the setter of a settings update.
SetTLSBypassHosts(list) ==
  /\ bypass' = list /\ bypassVersion' = bypassVersion + 1

\* addBypassHost, under its lock: the host is covered already ...
AlreadyCovered(c, h) == Bypassed(h) /\ UNCHANGED bypassVars

\* ... or is added, and this goroutine goes on to save the list.
AddBypassHost(c, h) ==
  /\ ~Bypassed(h) /\ notifier[c] = Resting
  /\ SetTLSBypassHosts(bypass \cup {h})
  /\ notifier' = [notifier EXCEPT ![c].at = "version"]
  /\ UNCHANGED <<savedBypass, unsaved>>

\* notifyBypassAdded: reads the version, then the list, saves it, and does so
\* again while the version has moved meanwhile.
LoadVersion(c) ==
  /\ notifier[c].at = "version"
  /\ notifier' = [notifier EXCEPT ![c].at = "list", ![c].version = bypassVersion]
  /\ UNCHANGED <<bypass, bypassVersion, savedBypass, unsaved>>

LoadList(c) ==
  /\ notifier[c].at = "list"
  /\ notifier' = [notifier EXCEPT ![c].at = "save", ![c].list = bypass]
  /\ UNCHANGED <<bypass, bypassVersion, savedBypass, unsaved>>

\* NotifyBypassAdded: a setting that cannot be written is logged and no more.
SaveList(c) ==
  /\ notifier[c].at = "save"
  /\ \/ savedBypass' = notifier[c].list /\ unsaved' = FALSE
     \/ unsaved' = TRUE /\ UNCHANGED savedBypass
  /\ notifier' = [notifier EXCEPT ![c].at = "check"]
  /\ UNCHANGED <<bypass, bypassVersion>>

\* Fault: the list is saved once, whatever happened meanwhile.
CheckNothing(c) ==
  /\ notifier[c].at = "check"
  /\ notifier' = [notifier EXCEPT ![c] = Resting]
  /\ UNCHANGED <<bypass, bypassVersion, savedBypass, unsaved>>

CheckVersion(c) ==
  /\ notifier[c].at = "check"
  /\ notifier' = [notifier EXCEPT ![c] =
       IF @.version = bypassVersion THEN Resting ELSE [Resting EXCEPT !.at = "version"]]
  /\ UNCHANGED <<bypass, bypassVersion, savedBypass, unsaved>>

NotifyStep(c) == LoadVersion(c) \/ LoadList(c) \/ SaveList(c) \/ CheckVersion(c)

--------------------------------------------------------------------------------
BypassTypeOK ==
  /\ bypass \in SUBSET Hosts /\ savedBypass \in SUBSET Hosts
  /\ bypassVersion \in Nat /\ unsaved \in BOOLEAN
  /\ notifier \in [Conns -> [at : {"rest", "version", "list", "save", "check"},
                             version : Nat, list : SUBSET Hosts]]

\* No callback is under way, and the last write of the setting did not fail.
SavedBypassIsCurrent ==
  (\A c \in Conns : notifier[c] = Resting) /\ ~unsaved => savedBypass = bypass
================================================================================
