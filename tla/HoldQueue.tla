------------------------------ MODULE HoldQueue ------------------------------
(***************************************************************************)
(* What the intercept engine promises (internal/intercept): two hold        *)
(* queues, for requests and for responses, switched on and off on their     *)
(* own, and one generation counter that numbers their changes.  A message   *)
(* enters a queue once, while its side is on, and leaves it once; a side    *)
(* that is off holds nothing.                                               *)
(***************************************************************************)
EXTENDS Naturals

CONSTANTS Items,    \* messages that may be held
          SideOf,   \* the queue of each: requests or responses
          MaxSeq    \* bound: changes

Sides == {"req", "resp"}

ASSUME SidesAssumption == SideOf \in [Items -> Sides] /\ MaxSeq \in Nat

VARIABLES enabled,  \* the sides that hold messages
          queue,    \* messages held, of both sides; their ids give the order
          entered,  \* messages that have been held
          seq       \* the generation: changes so far

holdVars == <<enabled, queue, entered, seq>>

OfSide(s) == {m \in Items : SideOf[m] = s}

HoldInit == enabled = {} /\ queue = {} /\ entered = {} /\ seq = 0

Changed == seq < MaxSeq /\ seq' = seq + 1

\* HoldContext: the message joins its queue.
Enter(m) ==
  /\ SideOf[m] \in enabled /\ m \notin entered /\ Changed
  /\ queue' = queue \cup {m} /\ entered' = entered \cup {m}
  /\ UNCHANGED enabled

\* removeReqLocked, removeRespLocked: forwarded, dropped or given up by its client.
Leave(m) ==
  /\ m \in queue /\ Changed
  /\ queue' = queue \ {m}
  /\ UNCHANGED <<enabled, entered>>

\* SetEnabled(true).
SwitchOn(s) ==
  /\ Changed
  /\ enabled' = enabled \cup {s}
  /\ UNCHANGED <<queue, entered>>

\* SetEnabled(false): switching a side off empties it.
SwitchOff(s) ==
  /\ Changed
  /\ enabled' = enabled \ {s} /\ queue' = queue \ OfSide(s)
  /\ UNCHANGED entered

HoldNext ==
  \/ \E m \in Items : Enter(m) \/ Leave(m)
  \/ \E s \in Sides : SwitchOn(s) \/ SwitchOff(s)

HoldSpec == HoldInit /\ [][HoldNext]_holdVars
==============================================================================
