------------------------------ MODULE ProxyConnect ------------------------------
(***************************************************************************)
(* What handleConnect (proxy/proxy.go) does with a CONNECT: tunnel a host   *)
(* that is bypassed, or terminate TLS with a leaf for it; when the client   *)
(* rejects that leaf, or none could be minted, add the host to the bypass   *)
(* list.  The certificate cache, the list and the settings that replace it  *)
(* are the modules this one composes.                                       *)
(***************************************************************************)
EXTENDS LeafCache, SettingsUpdate

CONSTANTS
  Addresses,  \* the hosts that are IP literals
  MaxDials    \* bound: CONNECTs per connection slot

ASSUME AddressesAssumption == Addresses \subseteq Hosts /\ MaxDials \in Nat

VARIABLES
  conn,        \* what became of the CONNECT each slot is serving
  dials,
  autoBypass,  \* AutoBypassOnPinFailure, a setting of this behaviour
  crossed      \* history: a handshake saved its list inside a PUT of the list

connVars == <<conn, dials, autoBypass, crossed>>
vars == <<leafVars, bypassVars, settingsVars, connVars>>

Init ==
  /\ LeafInit /\ SettingsInit
  /\ conn = [c \in Conns |-> "closed"] /\ dials = [c \in Conns |-> 0]
  /\ autoBypass \in BOOLEAN /\ crossed = FALSE

Becomes(c, stage) == conn' = [conn EXCEPT ![c] = stage]
Rest == UNCHANGED <<settingsVars, dials, autoBypass, crossed>>

\* The name in the CONNECT is looked up in the list as it is now; the tunnel keeps
\* no other state.
Tunnel(c, d) ==
  /\ conn[c] = "closed" /\ dials[c] < MaxDials /\ Bypassed(d)
  /\ dials' = [dials EXCEPT ![c] = @ + 1]
  /\ UNCHANGED <<conn, autoBypass, crossed, settingsVars, leafVars, bypassVars>>

\* connectUpstreamHost: behind an address, the client says which host it means.
LogicalHosts(d) == IF d \in Addresses THEN Hosts ELSE {d}

Handshake(c, d) ==
  /\ conn[c] = "closed" /\ dials[c] < MaxDials /\ ~Bypassed(d)
  /\ \E h \in LogicalHosts(d) : LeafForHost(c, h)
  /\ Becomes(c, "handshake") /\ dials' = [dials EXCEPT ![c] = @ + 1]
  /\ UNCHANGED <<autoBypass, crossed, settingsVars, bypassVars>>

Minting(c) == LeafStep(c) /\ UNCHANGED <<conn, bypassVars>> /\ Rest

\* The client takes the leaf: requests are served, and the connection ends if the
\* client ever ends it.
Accepted(c) ==
  /\ conn[c] = "handshake" /\ LeafReturns(c, "leaf")
  /\ Becomes(c, "closed") /\ UNCHANGED bypassVars /\ Rest

\* recordTLSFailure, then addBypassHost when the setting asks for it.
Failed(c, result) ==
  /\ conn[c] = "handshake" /\ LeafReturns(c, result)
  /\ IF autoBypass
     THEN AlreadyCovered(c, leafCall[c].host) \/ AddBypassHost(c, leafCall[c].host)
     ELSE UNCHANGED bypassVars
  /\ Becomes(c, IF notifier'[c] = Resting THEN "closed" ELSE "saving")
  /\ Rest

Rejects(c) == Failed(c, "leaf")
Unminted(c) == Failed(c, "error")

\* A PUT has saved a list that its setter has not put in force yet.
PuttingList == \E p \in Requests : put[p].at = "apply" /\ put[p].list # Same

Saving(c) ==
  /\ conn[c] = "saving" /\ NotifyStep(c)
  /\ Becomes(c, IF notifier'[c] = Resting THEN "closed" ELSE "saving")
  /\ crossed' = (crossed \/ (notifier[c].at = "save" /\ PuttingList))
  /\ UNCHANGED <<leafVars, settingsVars, dials, autoBypass>>

Updating(p) == (PlanSettingsUpdate(p) \/ PutStep(p)) /\ UNCHANGED <<leafVars, connVars>>

Expiring(h) == Expire(h) /\ UNCHANGED <<conn, bypassVars>> /\ Rest

Next ==
  \/ \E c \in Conns, d \in Hosts : Tunnel(c, d) \/ Handshake(c, d)
  \/ \E c \in Conns : Minting(c) \/ Accepted(c) \/ Rejects(c) \/ Unminted(c) \/ Saving(c)
  \/ \E p \in Requests : Updating(p)
  \/ \E h \in Hosts : Expiring(h)

Spec == Init /\ [][Next]_vars

\* A goroutine that can go on does; whether a mint succeeds is open.  Nothing is
\* assumed of the client: the handshake has no deadline on the hijacked connection,
\* so whoever has its leaf (Accepted, Rejects) may stay there for ever.
FairSpec ==
  /\ Spec
  /\ \A c \in Conns : WF_vars(Minting(c) \/ Unminted(c) \/ Saving(c))
  /\ \A p \in Requests : WF_vars(PutStep(p) /\ UNCHANGED <<leafVars, connVars>>)

--------------------------------------------------------------------------------
TypeOK ==
  /\ LeafTypeOK /\ SettingsTypeOK
  /\ conn \in [Conns -> {"closed", "handshake", "saving"}]
  /\ dials \in [Conns -> 0..MaxDials] /\ autoBypass \in BOOLEAN /\ crossed \in BOOLEAN

\* The setting a restart reads is the list in force as soon as nobody is changing it.
\* One window is left: a handshake that saves its list between the transaction of a
\* PUT and its setter (commitSettingsUpdate holds no lock that notifyBypassAdded takes).
BypassIsSaved == Quiet /\ ~crossed => SavedBypassIsCurrent

\* A CONNECT ends or waits for its own client with the leaf in hand: never for a mint
\* whose leader is gone (LeafForHost), for another connection's client, or in the loop
\* that saves the list for as long as others change it (notifyBypassAdded).
WaitsForItsClientOnly ==
  \A c \in Conns : conn[c] # "closed" ~> conn[c] = "closed" \/ leafCall[c].at = "leaf"
================================================================================
