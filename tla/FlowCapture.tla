---------------------------- MODULE FlowCapture ----------------------------
(***************************************************************************)
(* What the capture write path promises to the rest of the program: every  *)
(* accepted write of a flow (its insert, its updates, its tag unions) waits *)
(* for a while, and is then either reflected in the flow's row or lost, and *)
(* no write of a flow ever overtakes an older one of the same flow.         *)
(* FlowWriteBehind is the queue that keeps this promise.                    *)
(***************************************************************************)
EXTENDS Naturals, FiniteSets

CONSTANTS MaxFlows,   \* flow ids are 1..MaxFlows
          MaxWrites   \* writes are numbered 1..MaxWrites in acceptance order

VARIABLES accepted,   \* how many writes were accepted so far
          waiting,    \* accepted writes whose fate is not known yet
          rowVer,     \* rowVer[f]: the write the row of f shows, 0 when there is no row
          rowTags     \* rowTags[f]: the tag writes that reached the row of f

absVars == <<accepted, waiting, rowVer, rowTags>>

Flows == 1..MaxFlows
Kinds == {"insert", "update", "tags"}
Write == [n : 1..MaxWrites, kind : Kinds, id : Flows]

Init == /\ accepted = 0
        /\ waiting = {}
        /\ rowVer = [f \in Flows |-> 0]
        /\ rowTags = [f \in Flows |-> {}]

Accept == \E w \in Write :
            /\ w.n = accepted + 1
            /\ accepted' = w.n
            /\ waiting' \in {waiting, waiting \cup {w}}
            /\ UNCHANGED <<rowVer, rowTags>>

\* The writes of S that find a row: the flow has one, or S inserts it.
Landing(S) ==
  {w \in S : \/ rowVer[w.id] > 0
             \/ \E v \in S : v.id = w.id /\ v.kind = "insert" /\ v.n <= w.n}

\* No waiting write of a flow is older than one of S and left behind.
NoOvertaking(S) ==
  \A w \in S, v \in waiting : v.id = w.id /\ v.n < w.n => v \in S

\* The version the row of f shows after the writes L reached it: the newest.
ShowsNewest(L, f, v) ==
  LET content == {w \in L : w.id = f /\ w.kind # "tags"}
  IN  IF content = {} THEN v = rowVer[f]
      ELSE \E w \in content : v = w.n /\ \A x \in content : x.n <= w.n

Commit == \E S \in SUBSET waiting :
            /\ S # {}
            /\ NoOvertaking(S)
            /\ waiting' = waiting \ S
            /\ rowVer' \in [Flows -> 0..MaxWrites]
            /\ \A f \in Flows : ShowsNewest(Landing(S), f, rowVer'[f])
            /\ rowTags' = [f \in Flows |-> rowTags[f] \cup
                 {w.n : w \in {x \in Landing(S) : x.id = f /\ x.kind = "tags"}}]
            /\ UNCHANGED accepted

Lose == \E S \in SUBSET waiting :
          /\ S # {}
          /\ waiting' = waiting \ S
          /\ UNCHANGED <<accepted, rowVer, rowTags>>

\* A full buffer loses an older write in the step that accepts a new one.
AcceptAndLose == \E w \in Write, v \in waiting :
                   /\ w.n = accepted + 1
                   /\ accepted' = w.n
                   /\ waiting' = (waiting \ {v}) \cup {w}
                   /\ UNCHANGED <<rowVer, rowTags>>

Delete == \E f \in Flows :
            /\ rowVer' = [rowVer EXCEPT ![f] = 0]
            /\ rowTags' = [rowTags EXCEPT ![f] = {}]
            /\ UNCHANGED <<accepted, waiting>>

Next == Accept \/ AcceptAndLose \/ Commit \/ Lose \/ Delete

Spec == Init /\ [][Next]_absVars
=============================================================================
