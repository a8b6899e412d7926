----------------------- MODULE FlowWriteBehind_proofs -----------------------
(***************************************************************************)
(* Theorems about the write-behind queue of captured flows, for every      *)
(* buffer size, chunk size, number of flows, writes and clients.           *)
(***************************************************************************)
EXTENDS FlowWriteBehind, FiniteSetTheorems, SequenceTheorems, TLAPS

-----------------------------------------------------------------------------
(* Types *)

USE DEF Flows

\* The number of writes of a flow in a queue is a natural number.
LEMMA CountOfNat == ASSUME NEW s \in Seq(Write), NEW f \in Flows PROVE CountOf(s, f) \in Nat
<1>1. IsFiniteSet(1..Len(s))
  BY FS_Interval
<1>2. IsFiniteSet({i \in DOMAIN s : s[i].id = f})
  BY <1>1, FS_Subset, DOMAIN s = 1..Len(s)
<1> QED
  BY <1>2, FS_CardinalityType DEF CountOf

\* Taking the counts of a queue's writes away leaves natural numbers.
LEMMA FinishPendingType ==
  ASSUME NEW s \in Seq(Write), pendingN \in [Flows -> Nat]
  PROVE  FinishPending(s) \in [Flows -> Nat]
BY CountOfNat DEF FinishPending, Less

\* What a queue holds are writes.
LEMMA QueueElements ==
  ASSUME NEW s \in Seq(Write)
  PROVE  \A i \in DOMAIN s : s[i] \in Write /\ s[i].n \in 1..MaxWrites /\ s[i].id \in Flows
<1>1. \A i \in DOMAIN s : s[i] \in Write
  OBVIOUS
<1>2. \A w \in Write : w.n \in 1..MaxWrites /\ w.id \in Flows
  BY DEF Write
<1> QED
  BY <1>1, <1>2

\* The flows voided by a set of writes are flows.
LEMMA InsertsType == ASSUME NEW s \in Seq(Write) PROVE Inserts(Members(s)) \subseteq Flows
<1>1. \A w \in Members(s) : w.id \in Flows
  BY QueueElements DEF Members
<1> QED
  BY <1>1 DEF Inserts

\* Sealing the fate of some writes keeps the fates well typed.
LEMMA SetFateType ==
  ASSUME NEW ws, NEW what \in Settled, HistoryType, SetFate(ws, what)
  PROVE  fate' \in [1..MaxWrites -> Fates]
BY DEF SetFate, HistoryType, Fates

\* What a later enqueue of an inserted flow appends is a write.
LEMMA MoreWrite ==
  ASSUME QueueType, HistoryType, accepted < MaxWrites,
         NEW f \in 1..nextFlowID, NEW kind \in {"update", "tags"}
  PROVE  [n |-> accepted + 1, kind |-> kind, id |-> f] \in Write
BY BoundsAssumption DEF BoundsAssumption, QueueType, HistoryType, Write, Kinds

\* Accepting a write keeps the queue and the history well typed.
LEMMA AppendType ==
  ASSUME QueueType, HistoryType, NEW w \in Write, Append1(w)
  PROVE  /\ pending' \in Seq(Write) /\ pendingN' \in [Flows -> Nat] /\ void' \subseteq Flows
         /\ dropped' \in Nat /\ wake' \in BOOLEAN
         /\ accepted' \in 0..MaxWrites /\ fate' \in [1..MaxWrites -> Fates]
<1>0. pending \in Seq(Write) /\ pendingN \in [Flows -> Nat] /\ void \subseteq Flows /\ dropped \in Nat
  BY DEF QueueType
<1>1. Full => Head(pending) \in Write /\ Tail(pending) \in Seq(Write)
  <2>1. Full => pending # <<>>
    BY <1>0, BoundsAssumption DEF Full, BoundsAssumption
  <2> QED
    BY <1>0, <2>1
<1>2. pending' \in Seq(Write)
  BY <1>0, <1>1 DEF Append1
<1>3. pendingN' \in [Flows -> Nat]
  <2>1. ASSUME NEW f \in Flows PROVE Less(pendingN[f], IF Drops(f) THEN 1 ELSE 0) \in Nat
    BY <1>0, <2>1 DEF Less
  <2> QED
    BY <2>1 DEF Append1
<1>4. void' \subseteq Flows
  BY <1>0, <1>1 DEF Append1, Inserts, Write
<1>5. dropped' \in Nat /\ wake' \in BOOLEAN
  BY <1>0 DEF Append1, WakeFlow
<1>6. accepted' \in 0..MaxWrites /\ fate' \in [1..MaxWrites -> Fates]
  BY DEF Append1, Fates, Settled, HistoryType, Write
<1> QED
  BY <1>2, <1>3, <1>4, <1>5, <1>6

\* Discarding the whole queue keeps the queue and the fates well typed.
LEMMA AbandonType ==
  ASSUME QueueType, HistoryType, AbandonPending
  PROVE  /\ pending' \in Seq(Write) /\ pendingN' \in [Flows -> Nat] /\ void' \subseteq Flows
         /\ dropped' \in Nat /\ inFlight' \in BOOLEAN /\ fate' \in [1..MaxWrites -> Fates]
<1>0. pending \in Seq(Write) /\ pendingN \in [Flows -> Nat] /\ void \subseteq Flows /\ dropped \in Nat
  BY DEF QueueType
<1>1. fate' \in [1..MaxWrites -> Fates]
  BY SetFateType DEF AbandonPending, Settled
<1>2. pendingN' \in [Flows -> Nat]
  BY <1>0, FinishPendingType DEF AbandonPending
<1>3. void' \subseteq Flows
  BY <1>0, InsertsType DEF AbandonPending
<1>4. pending' \in Seq(Write)
  BY <<>> \in Seq(Write) DEF AbandonPending
<1>5. dropped' \in Nat
  BY <1>0 DEF AbandonPending, CountDropped
<1> QED
  BY <1>1, <1>2, <1>3, <1>4, <1>5 DEF AbandonPending

\* Applying writes leaves rows that show accepted writes.
LEMMA RowsAfterType ==
  ASSUME RowsType, NEW s \in Seq(Write), RowsAfter(s)
  PROVE  rowVer' \in [Flows -> 0..MaxWrites] /\ rowTags' \in [Flows -> SUBSET (1..MaxWrites)]
<1>1. \A i \in Landing(s) : s[i].n \in 1..MaxWrites
  BY QueueElements DEF Landing
<1>2. rowTags' \in [Flows -> SUBSET (1..MaxWrites)]
  BY <1>1 DEF RowsAfter, RowsType
<1> QED
  BY <1>2 DEF RowsAfter

\* A client's steps keep its record well formed.
LEMMA ClientType ==
  ASSUME TypeOK, NEW c \in Clients, ClientBegins(c) \/ ClientStep(c)
  PROVE  client' \in [Clients -> ClientState]
<1>1. client \in [Clients -> ClientState] /\ client[c] \in ClientState
  BY DEF TypeOK
<1>2. CASE ClientBegins(c)
  <2>1. PICK want \in {"read", "delete"}, f \in 1..nextFlowID :
          client' = [client EXCEPT ![c] = [at |-> "check", want |-> want, id |-> f,
                                           seen |-> accepted, tries |-> 0]]
    BY <1>2 DEF ClientBegins
  <2>2. [at |-> "check", want |-> want, id |-> f, seen |-> accepted, tries |-> 0] \in ClientState
    BY BoundsAssumption DEF BoundsAssumption, ClientState, TypeOK, QueueType, HistoryType
  <2> QED
    BY <1>1, <2>1, <2>2
<1>3. ASSUME NEW a \in {"lock", "wait", "act"}, client' = [client EXCEPT ![c].at = a]
      PROVE  client' \in [Clients -> ClientState]
  BY <1>1, <1>3 DEF ClientState
<1>4. CASE ClientFlushed(c)
  BY <1>1, <1>4 DEF ClientFlushed, ClientState
<1>5. CASE ClientActs(c)
  BY <1>1, <1>5, BoundsAssumption DEF ClientActs, ClientState, Idle, BoundsAssumption
<1> QED
  BY <1>2, <1>3, <1>4, <1>5 DEF ClientStep, ClientChecks, ClientLocks

\* Only a client's own step moves it.
LEMMA ClientsOnly ==
  [Next]_vars => (\E c \in Clients : ClientBegins(c) \/ ClientStep(c)) \/ UNCHANGED client
BY DEF Next, vars, clientVars, Flusher, EnqueueInsertFlow, EnqueueUpdateFlow, EnqueueAddFlowTags,
       EnqueueMore, Woken, Commanded, DrainAbandons, DrainIdle, TakeBatch, NextChunk, AbandonRest,
       BatchDone, TxCommit, TxFail, CompleteChunk, ReplayOne, CompleteOne, ReplayDone, CloseBegins,
       CloseTimesOut, CloseStep, CloseDrained, CloseAbandons, CloseDatabase

\* A call that is under way is about a flow that was inserted.
TargetInv == \A c \in Clients : client[c].at # "idle" => client[c].id \in Flows

\* The target of a call is fixed when it begins.
LEMMA TargetStep == TypeOK /\ TargetInv /\ [Next]_vars => TargetInv'
<1> SUFFICES ASSUME TypeOK, TargetInv, [Next]_vars PROVE TargetInv'
    OBVIOUS
<1>0. client \in [Clients -> ClientState] /\ nextFlowID \in 0..MaxFlows
  BY DEF TypeOK, QueueType
<1>1. CASE UNCHANGED client
  BY <1>1 DEF TargetInv
<1>2. ASSUME NEW c \in Clients, ClientBegins(c) \/ ClientStep(c) PROVE TargetInv'
  <2>1. \A d \in Clients \ {c} : client'[d] = client[d]
    BY <1>0, <1>2 DEF ClientBegins, ClientStep, ClientChecks, ClientLocks, ClientFlushed, ClientActs
  <2>2. client'[c].at # "idle" => client'[c].id \in Flows
    <3>1. CASE ClientBegins(c)
      BY <1>0, <3>1, BoundsAssumption DEF ClientBegins, BoundsAssumption
    <3>2. CASE ClientChecks(c) \/ ClientLocks(c)
      <4>1. client[c].at # "idle" /\ \E a : client' = [client EXCEPT ![c].at = a]
        BY <3>2 DEF ClientChecks, ClientLocks
      <4> QED
        BY <1>0, <4>1 DEF TargetInv, ClientState
    <3>3. CASE ClientFlushed(c)
      BY <1>0, <3>3 DEF ClientFlushed, TargetInv, ClientState
    <3>4. CASE ClientActs(c)
      BY <1>0, <3>4 DEF ClientActs, Idle
    <3> QED
      BY <1>2, <3>1, <3>2, <3>3, <3>4 DEF ClientStep
  <2> QED
    BY <2>1, <2>2 DEF TargetInv
<1> QED
  BY <1>1, <1>2, ClientsOnly

\* A write being completed on its own is still at the head of its chunk.
HeadInv == pc = "completeOne" => chunk # <<>>

\* Only the replay of a write leads to its completion.
LEMMA HeadStep == HeadInv /\ [Next]_vars => HeadInv'
<1> SUFFICES ASSUME HeadInv, [Next]_vars PROVE HeadInv'
    OBVIOUS
<1> USE DEF HeadInv
<1>1. CASE UNCHANGED flusherVars
  BY <1>1 DEF flusherVars
<1>2. CASE Flusher
  BY <1>2 DEF Flusher, Woken, Commanded, DrainAbandons, DrainIdle, DrainReturns, TakeBatch, NextChunk,
              AbandonRest, BatchDone, TxCommit, TxFail, CompleteChunk, ReplayOne, CompleteOne, ReplayDone
<1>3. Flusher \/ UNCHANGED flusherVars
  BY DEF Next, vars, EnqueueInsertFlow, EnqueueUpdateFlow, EnqueueAddFlowTags, EnqueueMore,
         ClientBegins, ClientStep, ClientChecks, ClientLocks, ClientFlushed, ClientActs,
         CloseBegins, CloseTimesOut, CloseStep, CloseDrained, CloseAbandons, CloseDatabase
<1> QED
  BY <1>1, <1>2, <1>3

\* A step of the queue, the flusher or Close keeps the queue's variables typed.
LEMMA QueueTypeStep == TypeOK /\ HeadInv /\ [Next]_vars => QueueType'
<1> SUFFICES ASSUME TypeOK, HeadInv, [Next]_vars PROVE QueueType'
    OBVIOUS
<1>0. QueueType /\ HistoryType /\ BatchType
  BY DEF TypeOK
<1> USE BoundsAssumption DEF BoundsAssumption
<1>1. CASE EnqueueInsertFlow
  <2> DEFINE w == [n |-> accepted + 1, kind |-> "insert", id |-> nextFlowID + 1]
  <2>1. w \in Write /\ Append1(w)
    BY <1>0, <1>1 DEF EnqueueInsertFlow, Write, Kinds, QueueType, HistoryType
  <2> HIDE DEF w
  <2> QED
    BY <1>0, <1>1, <2>1, AppendType DEF EnqueueInsertFlow, QueueType
<1>2. ASSUME NEW f \in 1..nextFlowID, NEW kind \in {"update", "tags"}, EnqueueMore(kind, f)
      PROVE  QueueType'
  <2>1. CASE f \in void /\ pendingN[f] = 0
    BY <1>0, <1>2, <2>1 DEF EnqueueMore, QueueType
  <2>2. CASE ~(f \in void /\ pendingN[f] = 0)
    <3>1. PICK w \in Write : Append1(w)
      BY <1>0, <1>2, <2>2, MoreWrite DEF EnqueueMore
    <3> QED
      BY <1>0, <1>2, <3>1, AppendType DEF EnqueueMore, QueueType
  <2> QED
    BY <2>1, <2>2
<1>3. CASE Woken \/ TakeBatch \/ BatchDone \/ CloseBegins
  <2>1. CASE Woken
    BY <1>0, <2>1 DEF Woken, QueueType
  <2>2. CASE TakeBatch
    BY <1>0, <2>2 DEF TakeBatch, QueueType
  <2>3. CASE BatchDone
    BY <1>0, <2>3 DEF BatchDone, QueueType
  <2>4. CASE CloseBegins
    BY <1>0, <2>4 DEF CloseBegins, QueueType
  <2> QED
    BY <1>3, <2>1, <2>2, <2>3, <2>4
<1>4. CASE DrainAbandons \/ CloseAbandons
  BY <1>0, <1>4, AbandonType DEF DrainAbandons, CloseAbandons, QueueType
<1>5. CASE AbandonRest \/ ReplayDone
  <2>1. dropped' \in Nat
    BY <1>0, <1>5 DEF AbandonRest, ReplayDone, CountDropped, QueueType, BatchType
  <2>2. UNCHANGED <<nextFlowID, pending, pendingN, void, inFlight, closed, wake>>
    BY <1>5 DEF AbandonRest, ReplayDone
  <2> QED
    BY <1>0, <2>1, <2>2 DEF QueueType
<1>6. CASE CompleteChunk
  <2>1. pendingN' \in [Flows -> Nat] /\ void' \subseteq Flows
    BY <1>0, <1>6, FinishPendingType DEF CompleteChunk, Complete, QueueType, BatchType
  <2> QED
    BY <1>0, <1>6, <2>1 DEF CompleteChunk, QueueType
<1>7. CASE CompleteOne
  <2>1. <<Head(chunk)>> \in Seq(Write)
    BY <1>0, <1>7 DEF CompleteOne, HeadInv, BatchType
  <2>2. pendingN' \in [Flows -> Nat] /\ void' \subseteq Flows
    BY <1>0, <1>7, <2>1, FinishPendingType DEF CompleteOne, Complete, QueueType
  <2> QED
    BY <1>0, <1>7, <2>2 DEF CompleteOne, QueueType
<1>8. CASE UNCHANGED queueVars
  BY <1>0, <1>8 DEF QueueType, queueVars
<1>9. \/ Commanded \/ DrainIdle \/ NextChunk \/ TxCommit \/ TxFail \/ ReplayOne
      \/ (\E c \in Clients : ClientBegins(c) \/ ClientStep(c))
      \/ CloseTimesOut \/ CloseDrained \/ CloseDatabase \/ UNCHANGED vars
      => UNCHANGED queueVars
  BY DEF Commanded, DrainIdle, NextChunk, TxCommit, TxFail, ReplayOne, ClientBegins, ClientStep,
         ClientChecks, ClientLocks, ClientFlushed, ClientActs, CloseTimesOut, CloseDrained,
         CloseDatabase, vars
<1> QED
  BY <1>1, <1>2, <1>3, <1>4, <1>5, <1>6, <1>7, <1>8, <1>9
  DEF Next, Flusher, CloseStep, EnqueueUpdateFlow, EnqueueAddFlowTags

\* A step keeps the locks, the commands and the places of the goroutines typed.
LEMMA ControlTypeStep == ControlType /\ [Next]_vars => ControlType'
<1> SUFFICES ASSUME ControlType, [Next]_vars PROVE ControlType'
    OBVIOUS
<1> USE DEF ControlType
<1>1. CASE EnqueueInsertFlow \/ EnqueueUpdateFlow \/ EnqueueAddFlowTags
  BY <1>1 DEF EnqueueInsertFlow, EnqueueUpdateFlow, EnqueueAddFlowTags, EnqueueMore, cmdVars,
              flusherVars, clientVars
<1>2. CASE Woken \/ Commanded
  <2>1. erred' \in BOOLEAN
    BY <1>2 DEF Woken, Commanded, cmdVars
  <2> QED
    BY <1>2, <2>1 DEF Woken, Commanded, cmdVars, clientVars, Commands
<1>3. CASE DrainAbandons \/ DrainIdle \/ BatchDone
  <2>1. ASSUME DrainReturns PROVE answered' \in BOOLEAN /\ cmd' \in Commands /\ pass' \in Nat
                                  /\ pc' \in {"select", "exit"}
    BY <2>1 DEF DrainReturns, Commands
  <2>0. erred' \in BOOLEAN
    BY <1>3 DEF DrainAbandons, DrainIdle, BatchDone, Errs
  <2>2. CASE DrainAbandons \/ DrainIdle
    BY <2>0, <2>1, <2>2 DEF DrainAbandons, DrainIdle, clientVars
  <2>3. CASE BatchDone /\ DrainReturns
    BY <2>0, <2>1, <2>3 DEF BatchDone, clientVars
  <2>4. CASE BatchDone /\ ~DrainReturns
    <3>1. pass' \in Nat /\ pc' = "drain" /\ UNCHANGED <<cmd, answered>>
      BY <2>4 DEF BatchDone
    <3> QED
      BY <2>0, <2>4, <3>1 DEF BatchDone, clientVars
  <2> QED
    BY <1>3, <2>2, <2>3, <2>4
<1>4. CASE TakeBatch \/ NextChunk \/ AbandonRest \/ TxCommit \/ TxFail
  BY <1>4 DEF TakeBatch, NextChunk, AbandonRest, TxCommit, TxFail, cmdVars, clientVars
<1>5. CASE CompleteChunk \/ ReplayOne \/ CompleteOne \/ ReplayDone
  <2>1. erred' \in BOOLEAN
    BY <1>5 DEF CompleteChunk, ReplayOne, CompleteOne, ReplayDone, cmdVars, Errs
  <2>2. UNCHANGED <<cmdMu, opCh, answered, giveUp, cmd, pass, closer>>
    BY <1>5 DEF CompleteChunk, ReplayOne, CompleteOne, ReplayDone, cmdVars, clientVars
  <2>3. pc' \in {"chunk", "replay", "completeOne"}
    BY <1>5 DEF CompleteChunk, ReplayOne, CompleteOne, ReplayDone
  <2> QED
    BY <2>1, <2>2, <2>3
<1>6. ASSUME NEW c \in Clients, ClientBegins(c) \/ ClientStep(c) PROVE ControlType'
  <2>1. UNCHANGED <<erred, giveUp, pc, cmd, pass, closer>>
    BY <1>6 DEF ClientBegins, ClientStep, ClientChecks, ClientLocks, ClientFlushed, ClientActs,
                cmdVars, flusherVars
  <2>2. cmdMu' \in Clients \cup {Nobody, Closer} /\ opCh' \in Commands /\ answered' \in BOOLEAN
    BY <1>6 DEF ClientBegins, ClientStep, ClientChecks, ClientLocks, ClientFlushed, ClientActs,
                cmdVars, Commands
  <2> QED
    BY <2>1, <2>2
<1>7. CASE CloseBegins \/ CloseTimesOut \/ CloseStep
  BY <1>7 DEF CloseBegins, CloseTimesOut, CloseStep, CloseDrained, CloseAbandons, CloseDatabase,
              cmdVars, flusherVars, Commands
<1>8. CASE UNCHANGED vars
  BY <1>8 DEF vars, cmdVars, flusherVars, clientVars
<1> QED
  BY <1>1, <1>2, <1>3, <1>4, <1>5, <1>6, <1>7, <1>8 DEF Next, Flusher

\* The flusher's batch stays a sequence of writes.
LEMMA BatchTypeStep == TypeOK /\ HeadInv /\ [Next]_vars => BatchType'
<1> SUFFICES ASSUME TypeOK, HeadInv, [Next]_vars PROVE BatchType'
    OBVIOUS
<1>0. BatchType /\ pending \in Seq(Write)
  BY DEF TypeOK, QueueType
<1> USE <1>0 DEF BatchType
<1>1. CASE TakeBatch \/ AbandonRest \/ CompleteChunk \/ ReplayDone
  <2>1. <<>> \in Seq(Write)
    OBVIOUS
  <2> QED
    BY <1>1, <2>1 DEF TakeBatch, AbandonRest, CompleteChunk, ReplayDone
<1>2. CASE NextChunk
  BY <1>2, BoundsAssumption DEF NextChunk, SplitBatch, BoundsAssumption
<1>3. CASE CompleteOne
  BY <1>3 DEF CompleteOne, HeadInv
<1>4. CASE UNCHANGED <<chunk, rest>>
  BY <1>4
<1>5. \/ EnqueueInsertFlow \/ EnqueueUpdateFlow \/ EnqueueAddFlowTags \/ Woken \/ Commanded
      \/ DrainAbandons \/ DrainIdle \/ BatchDone \/ TxCommit \/ TxFail \/ ReplayOne
      \/ (\E c \in Clients : ClientBegins(c) \/ ClientStep(c))
      \/ CloseBegins \/ CloseTimesOut \/ CloseStep \/ UNCHANGED vars
      => UNCHANGED <<chunk, rest>>
  BY DEF EnqueueInsertFlow, EnqueueUpdateFlow, EnqueueAddFlowTags, EnqueueMore, Woken, Commanded,
         DrainAbandons, DrainIdle, BatchDone, TxCommit, TxFail, ReplayOne, ClientBegins, ClientStep,
         ClientChecks, ClientLocks, ClientFlushed, ClientActs, CloseBegins, CloseTimesOut, CloseStep,
         CloseDrained, CloseAbandons, CloseDatabase, vars, flusherVars
<1> QED
  BY <1>1, <1>2, <1>3, <1>4, <1>5 DEF Next, Flusher

\* Rows only ever show accepted writes.
LEMMA RowsTypeStep == TypeOK /\ [Next]_vars => RowsType'
<1> SUFFICES ASSUME TypeOK, [Next]_vars PROVE RowsType'
    OBVIOUS
<1>0. RowsType /\ BatchType
  BY DEF TypeOK
<1>1. CASE TxCommit
  BY <1>0, <1>1, RowsAfterType DEF TxCommit, RowsType, BatchType
<1>2. CASE ReplayOne
  <2>1. <<Head(chunk)>> \in Seq(Write)
    BY <1>0, <1>2 DEF ReplayOne, BatchType
  <2>2. RowsAfter(<<Head(chunk)>>) \/ UNCHANGED <<rowVer, rowTags>>
    BY <1>2 DEF ReplayOne
  <2> QED
    BY <1>0, <1>2, <2>1, <2>2, RowsAfterType DEF ReplayOne, RowsType
<1>3. ASSUME NEW c \in Clients, ClientActs(c) PROVE RowsType'
  <2>1. CASE client[c].want = "delete" /\ dbOpen
    <3>1. 0 \in 0..MaxWrites
      BY BoundsAssumption DEF BoundsAssumption
    <3> QED
      BY <1>0, <1>3, <2>1, <3>1 DEF ClientActs, RowsType
  <2>2. CASE ~(client[c].want = "delete" /\ dbOpen)
    BY <1>0, <1>3, <2>2 DEF ClientActs, RowsType
  <2> QED
    BY <2>1, <2>2
<1>4. CASE CloseDatabase
  BY <1>0, <1>4 DEF CloseDatabase, RowsType
<1>5. CASE UNCHANGED dbVars
  BY <1>0, <1>5 DEF RowsType, dbVars
<1>6. \/ EnqueueInsertFlow \/ EnqueueUpdateFlow \/ EnqueueAddFlowTags \/ Woken \/ Commanded
      \/ DrainAbandons \/ DrainIdle \/ TakeBatch \/ NextChunk \/ AbandonRest \/ BatchDone \/ TxFail
      \/ CompleteChunk \/ CompleteOne \/ ReplayDone
      \/ (\E c \in Clients : ClientBegins(c) \/ ClientChecks(c) \/ ClientLocks(c) \/ ClientFlushed(c))
      \/ CloseBegins \/ CloseTimesOut \/ CloseDrained \/ CloseAbandons \/ UNCHANGED vars
      => UNCHANGED dbVars
  BY DEF EnqueueInsertFlow, EnqueueUpdateFlow, EnqueueAddFlowTags, EnqueueMore, Woken, Commanded,
         DrainAbandons, DrainIdle, TakeBatch, NextChunk, AbandonRest, BatchDone, TxFail,
         CompleteChunk, CompleteOne, ReplayDone, ClientBegins, ClientChecks, ClientLocks,
         ClientFlushed, CloseBegins, CloseTimesOut, CloseDrained, CloseAbandons, vars
<1> QED
  BY <1>1, <1>2, <1>3, <1>4, <1>5, <1>6 DEF Next, Flusher, ClientStep, CloseStep

\* Fates stay fates, and deleted flows stay flows.
LEMMA HistoryTypeStep == TypeOK /\ TargetInv /\ [Next]_vars => HistoryType'
<1> SUFFICES ASSUME TypeOK, TargetInv, [Next]_vars PROVE HistoryType'
    OBVIOUS
<1>0. QueueType /\ HistoryType /\ client \in [Clients -> ClientState]
  BY DEF TypeOK
<1> USE BoundsAssumption DEF BoundsAssumption
<1>1. CASE EnqueueInsertFlow
  <2> DEFINE w == [n |-> accepted + 1, kind |-> "insert", id |-> nextFlowID + 1]
  <2>1. w \in Write /\ Append1(w)
    BY <1>0, <1>1 DEF EnqueueInsertFlow, Write, Kinds, QueueType, HistoryType
  <2> HIDE DEF w
  <2> QED
    BY <1>0, <1>1, <2>1, AppendType DEF EnqueueInsertFlow, HistoryType
<1>2. ASSUME NEW f \in 1..nextFlowID, NEW kind \in {"update", "tags"}, EnqueueMore(kind, f)
      PROVE  HistoryType'
  <2>1. CASE f \in void /\ pendingN[f] = 0
    BY <1>0, <1>2, <2>1 DEF EnqueueMore, HistoryType, Fates, Settled
  <2>2. CASE ~(f \in void /\ pendingN[f] = 0)
    <3>1. PICK w \in Write : Append1(w)
      BY <1>0, <1>2, <2>2, MoreWrite DEF EnqueueMore
    <3> QED
      BY <1>0, <1>2, <3>1, AppendType DEF EnqueueMore, HistoryType
  <2> QED
    BY <2>1, <2>2
<1>3. CASE DrainAbandons \/ CloseAbandons
  BY <1>0, <1>3, AbandonType DEF DrainAbandons, CloseAbandons, HistoryType
<1>4. CASE AbandonRest \/ ReplayDone
  BY <1>0, <1>4, SetFateType DEF AbandonRest, ReplayDone, HistoryType, Settled
<1>5. CASE TxCommit
  BY <1>0, <1>5 DEF TxCommit, HistoryType, Fates, Settled
<1>6. CASE ReplayOne
  <2>1. \/ SetFate({Head(chunk)}, "skipped") \/ SetFate({Head(chunk)}, "committed")
        \/ SetFate({Head(chunk)}, "failed")
    BY <1>6 DEF ReplayOne
  <2>2. fate' \in [1..MaxWrites -> Fates]
    BY <1>0, <2>1, SetFateType DEF Settled
  <2> QED
    BY <1>0, <1>6, <2>2 DEF ReplayOne, HistoryType
<1>7. ASSUME NEW c \in Clients, ClientActs(c) PROVE HistoryType'
  <2>1. client[c].at = "act" => client[c].id \in Flows
    BY DEF TargetInv
  <2> QED
    BY <1>0, <1>7, <2>1 DEF ClientActs, HistoryType
<1>8. CASE UNCHANGED histVars
  BY <1>0, <1>8 DEF HistoryType, histVars
<1>9. \/ Woken \/ Commanded \/ DrainIdle \/ TakeBatch \/ NextChunk \/ BatchDone \/ TxFail
      \/ CompleteChunk \/ CompleteOne
      \/ (\E c \in Clients : ClientBegins(c) \/ ClientChecks(c) \/ ClientLocks(c) \/ ClientFlushed(c))
      \/ CloseBegins \/ CloseTimesOut \/ CloseDrained \/ CloseDatabase \/ UNCHANGED vars
      => UNCHANGED histVars
  BY DEF Woken, Commanded, DrainIdle, TakeBatch, NextChunk, BatchDone, TxFail, CompleteChunk,
         CompleteOne, ClientBegins, ClientChecks, ClientLocks, ClientFlushed, CloseBegins,
         CloseTimesOut, CloseDrained, CloseDatabase, vars
<1> QED
  BY <1>1, <1>2, <1>3, <1>4, <1>5, <1>6, <1>7, <1>8, <1>9
  DEF Next, Flusher, ClientStep, CloseStep, EnqueueUpdateFlow, EnqueueAddFlowTags

\* Every step keeps every variable in its domain.
LEMMA TypeStep == TypeOK /\ HeadInv /\ TargetInv /\ [Next]_vars => TypeOK'
<1> SUFFICES ASSUME TypeOK, HeadInv, TargetInv, [Next]_vars PROVE TypeOK'
    OBVIOUS
<1>1. client' \in [Clients -> ClientState]
  BY ClientType, ClientsOnly DEF TypeOK
<1>2. ControlType
  BY DEF TypeOK
<1> QED
  BY <1>1, <1>2, QueueTypeStep, ControlTypeStep, BatchTypeStep, RowsTypeStep, HistoryTypeStep
  DEF TypeOK

\* The queue, the flusher, Close and the clients never leave their domains.
THEOREM TypeCorrect == Spec => []TypeOK
<1>1. Init => QueueType /\ BatchType
  <2>1. Init => inFlight \in BOOLEAN /\ closed \in BOOLEAN /\ wake \in BOOLEAN
    BY DEF Init
  <2>2. Init => pending \in Seq(Write) /\ chunk \in Seq(Write) /\ rest \in Seq(Write)
    BY <<>> \in Seq(Write) DEF Init
  <2>3. Init => /\ nextFlowID \in 0..MaxFlows /\ pendingN \in [Flows -> Nat]
                /\ void \subseteq Flows /\ dropped \in Nat
    BY BoundsAssumption DEF BoundsAssumption, Init
  <2> QED
    BY <2>1, <2>2, <2>3 DEF QueueType, BatchType
<1>4. Init => ControlType
  <2>1. Init => cmdMu \in Clients \cup {Nobody, Closer} /\ opCh \in Commands /\ cmd \in Commands
    BY DEF Init, Commands
  <2>2. Init => answered \in BOOLEAN /\ erred \in BOOLEAN /\ giveUp \in BOOLEAN
    BY DEF Init
  <2>3. Init => pass \in Nat /\ pc = "select" /\ closer = "open"
    BY DEF Init
  <2> QED
    BY <2>1, <2>2, <2>3 DEF ControlType
<1>2. Init => RowsType /\ HistoryType /\ client \in [Clients -> ClientState]
  BY BoundsAssumption
  DEF BoundsAssumption, Init, RowsType, HistoryType, Fates, Idle, ClientState
<1>3. Init => HeadInv /\ TargetInv
  BY DEF Init, HeadInv, TargetInv, Idle
<1>5. Init => TypeOK
  BY <1>1, <1>2, <1>4 DEF TypeOK
<1> QED
  BY <1>3, <1>5, TypeStep, HeadStep, TargetStep, PTL DEF Spec

-----------------------------------------------------------------------------
(* No lost wake-up *)

\* Away from the loop that looks at the queue again, a queued write has its
\* wake-up token: the inductive form of NoLostWakeup.
WakeInv == pc \notin {"drain", "exit"} /\ pending # <<>> => wake

\* Every step of the queue, the flusher, the clients and Close keeps WakeInv.
LEMMA WakeStep == WakeInv /\ [Next]_vars => WakeInv'
<1> SUFFICES ASSUME WakeInv, [Next]_vars PROVE WakeInv'
    OBVIOUS
<1> USE DEF WakeInv
<1>1. CASE EnqueueInsertFlow
  BY <1>1 DEF EnqueueInsertFlow, Append1, WakeFlow
<1>2. CASE EnqueueUpdateFlow
  BY <1>2 DEF EnqueueUpdateFlow, EnqueueMore, Append1, WakeFlow, flusherVars
<1>3. CASE EnqueueAddFlowTags
  BY <1>3 DEF EnqueueAddFlowTags, EnqueueMore, Append1, WakeFlow, flusherVars
<1>4. CASE Flusher
  <2>1. CASE Woken
    BY <2>1 DEF Woken
  <2>2. CASE Commanded
    BY <2>2 DEF Commanded
  <2>3. CASE DrainAbandons
    BY <2>3 DEF DrainAbandons, AbandonPending
  <2>4. CASE DrainIdle
    BY <2>4 DEF DrainIdle, queueVars
  <2>5. CASE TakeBatch
    BY <2>5 DEF TakeBatch
  <2>6. CASE NextChunk
    BY <2>6 DEF NextChunk, queueVars
  <2>7. CASE AbandonRest
    BY <2>7 DEF AbandonRest
  <2>8. CASE BatchDone
    BY <2>8 DEF BatchDone
  <2>9. CASE TxCommit \/ TxFail
    BY <2>9 DEF TxCommit, TxFail, queueVars
  <2>10. CASE CompleteChunk \/ CompleteOne
    BY <2>10 DEF CompleteChunk, CompleteOne
  <2>11. CASE ReplayOne
    BY <2>11 DEF ReplayOne, queueVars
  <2>12. CASE ReplayDone
    BY <2>12 DEF ReplayDone
  <2> QED
    BY <1>4, <2>1, <2>2, <2>3, <2>4, <2>5, <2>6, <2>7, <2>8, <2>9, <2>10, <2>11, <2>12 DEF Flusher
<1>5. ASSUME NEW c \in Clients, ClientBegins(c) \/ ClientStep(c) PROVE WakeInv'
  BY <1>5 DEF ClientBegins, ClientStep, ClientChecks, ClientLocks, ClientFlushed, ClientActs,
              queueVars, flusherVars
<1>6. CASE CloseBegins \/ CloseTimesOut \/ CloseDrained \/ CloseDatabase
  BY <1>6 DEF CloseBegins, CloseTimesOut, CloseDrained, CloseDatabase, queueVars, flusherVars
<1>7. CASE CloseAbandons
  BY <1>7 DEF CloseAbandons, AbandonPending
<1>8. CASE UNCHANGED vars
  BY <1>8 DEF vars, queueVars, flusherVars
<1> QED
  BY <1>1, <1>2, <1>3, <1>4, <1>5, <1>6, <1>7, <1>8 DEF Next, CloseStep

\* Whatever the interleaving of enqueues, drains and the pass cap, the flusher
\* never sleeps on a queued write: its wake-up token is in the channel.
THEOREM WakeupNeverLost == Spec => []NoLostWakeup
<1>1. Init => WakeInv
  BY DEF Init, WakeInv
<1>2. WakeInv => NoLostWakeup
  BY DEF WakeInv, NoLostWakeup
<1> QED
  BY <1>1, <1>2, WakeStep, PTL DEF Spec

-----------------------------------------------------------------------------
(* Queues of writes: what they hold, and how many writes of a flow *)

\* A write is its number, its kind and its flow.
LEMMA WriteFields ==
  \A w \in Write : w.n \in 1..MaxWrites /\ w.kind \in Kinds /\ w.id \in Flows
BY DEF Write

\* Members of a queue by its parts.
LEMMA MembersEmpty == Members(<<>>) = {}
BY DEF Members

\* The members of a queue are writes.
LEMMA MembersWrites == \A s \in Seq(Write) : Members(s) \subseteq Write
BY QueueElements DEF Members

\* A concatenation has the members of both queues.
LEMMA MembersConcat ==
  \A s, t \in Seq(Write) : Members(s \o t) = Members(s) \cup Members(t)
<1> TAKE s, t \in Seq(Write)
<1>1. /\ s \o t \in Seq(Write) /\ Len(s) \in Nat /\ Len(t) \in Nat /\ Len(s \o t) = Len(s) + Len(t)
      /\ \A i \in 1..(Len(s) + Len(t)) : (s \o t)[i] = IF i <= Len(s) THEN s[i] ELSE t[i - Len(s)]
      /\ DOMAIN s = 1..Len(s) /\ DOMAIN t = 1..Len(t) /\ DOMAIN (s \o t) = 1..Len(s \o t)
  BY ConcatProperties, LenProperties
<1>2. ASSUME NEW i \in DOMAIN (s \o t) PROVE (s \o t)[i] \in Members(s) \cup Members(t)
  <2>1. CASE i <= Len(s)
    BY <1>1, <2>1 DEF Members
  <2>2. CASE ~(i <= Len(s))
    <3>1. i - Len(s) \in DOMAIN t
      BY <1>1, <2>2
    <3> QED
      BY <1>1, <2>2, <3>1 DEF Members
  <2> QED
    BY <2>1, <2>2
<1>3. ASSUME NEW i \in DOMAIN s PROVE s[i] \in Members(s \o t)
  <2>1. i \in DOMAIN (s \o t) /\ (s \o t)[i] = s[i]
    BY <1>1
  <2> QED
    BY <2>1 DEF Members
<1>4. ASSUME NEW i \in DOMAIN t PROVE t[i] \in Members(s \o t)
  <2>1. i + Len(s) \in DOMAIN (s \o t) /\ (s \o t)[i + Len(s)] = t[i]
    BY <1>1
  <2> QED
    BY <2>1 DEF Members
<1> QED
  BY <1>2, <1>3, <1>4 DEF Members

\* A queue of one write has that member.
LEMMA MembersOne == \A w : Members(<<w>>) = {w}
BY DEF Members

\* Appending a write, taking the head off, and cutting a queue in two are
\* concatenations.
LEMMA AppendCut == \A s \in Seq(Write), w \in Write : <<w>> \in Seq(Write) /\ Append(s, w) = s \o <<w>>
BY AppendIsConcat

\* A queue that is not empty is its head, then its tail.
LEMMA HeadCut ==
  ASSUME NEW s \in Seq(Write), s # <<>>
  PROVE  /\ Head(s) \in Write /\ <<Head(s)>> \in Seq(Write) /\ Tail(s) \in Seq(Write)
         /\ s = <<Head(s)>> \o Tail(s) /\ Head(s) = s[1] /\ 1 \in DOMAIN s
<1>1. Len(s) \in Nat \ {0}
  BY EmptySeq
<1>2. /\ Head(s) \in Write /\ Tail(s) \in Seq(Write)
  BY HeadTailProperties
<1>3. SubSeq(s, 1, Len(s)) = <<s[1]>> \o SubSeq(s, 1 + 1, Len(s))
  BY <1>1, SubSeqRecursiveFirst
<1>4. SubSeq(s, 1, Len(s)) = s /\ Tail(s) = SubSeq(s, 2, Len(s))
  BY SubSeqFull, TailIsSubSeq
<1>5. Head(s) = s[1]
  OBVIOUS
<1> QED
  BY <1>1, <1>2, <1>3, <1>4, <1>5, LenProperties

\* A queue is its first k writes, then the others.
LEMMA QueueCut ==
  ASSUME NEW s \in Seq(Write), NEW k \in 0..Len(s)
  PROVE  /\ SubSeq(s, 1, k) \in Seq(Write) /\ SubSeq(s, k + 1, Len(s)) \in Seq(Write)
         /\ s = SubSeq(s, 1, k) \o SubSeq(s, k + 1, Len(s))
<1>1. Len(s) \in Nat
  BY LenProperties
<1>2. SubSeq(s, 1, k) \o SubSeq(s, k + 1, Len(s)) = SubSeq(s, 1, Len(s))
  <2>1. 1 \in 1..Len(s) + 1 /\ k \in 1 - 1 .. Len(s) /\ Len(s) \in k..Len(s)
    BY <1>1
  <2> QED
    BY <2>1, ConcatAdjacentSubSeq
<1>3. SubSeq(s, 1, Len(s)) = s
  BY SubSeqFull
<1>4. \A i \in 1..Len(s) : s[i] \in Write
  BY ElementOfSeq
<1>5. SubSeq(s, 1, k) \in Seq(Write)
  BY <1>1, <1>4, SubSeqProperties
<1>6. SubSeq(s, k + 1, Len(s)) \in Seq(Write)
  BY <1>1, <1>4, SubSeqProperties
<1> QED
  BY <1>2, <1>3, <1>5, <1>6

\* The places of the writes of a flow are finitely many.
LEMMA PlacesFinite ==
  ASSUME NEW s \in Seq(Write), NEW f PROVE IsFiniteSet({i \in DOMAIN s : s[i].id = f})
<1>1. IsFiniteSet(1..Len(s)) /\ DOMAIN s = 1..Len(s)
  BY FS_Interval, LenProperties
<1> QED
  BY <1>1, FS_Subset

\* The empty queue has no write of any flow.
LEMMA CountEmpty == \A f : CountOf(<<>>, f) = 0
<1>1. \A f : {i \in DOMAIN <<>> : <<>>[i].id = f} = {}
  OBVIOUS
<1> QED
  BY <1>1, FS_EmptySet DEF CountOf

\* A queue of one write counts for the flow of that write only.
LEMMA CountOne == \A w, f : CountOf(<<w>>, f) = IF w.id = f THEN 1 ELSE 0
<1> TAKE w, f
<1>1. DOMAIN <<w>> = {1} /\ <<w>>[1] = w
  OBVIOUS
<1>2. CASE w.id = f
  <2>1. {i \in DOMAIN <<w>> : <<w>>[i].id = f} = {1}
    BY <1>1, <1>2
  <2> QED
    BY <1>2, <2>1, FS_Singleton DEF CountOf
<1>3. CASE w.id # f
  <2>1. {i \in DOMAIN <<w>> : <<w>>[i].id = f} = {}
    BY <1>1, <1>3
  <2> QED
    BY <1>3, <2>1, FS_EmptySet DEF CountOf
<1> QED
  BY <1>2, <1>3

\* The count of a concatenation is the sum of the counts.
LEMMA CountConcat ==
  \A s, t \in Seq(Write), f \in Flows : CountOf(s \o t, f) = CountOf(s, f) + CountOf(t, f)
<1> TAKE s, t \in Seq(Write), f \in Flows
<1>1. /\ s \o t \in Seq(Write) /\ Len(s) \in Nat /\ Len(t) \in Nat /\ Len(s \o t) = Len(s) + Len(t)
      /\ \A i \in 1..(Len(s) + Len(t)) : (s \o t)[i] = IF i <= Len(s) THEN s[i] ELSE t[i - Len(s)]
      /\ DOMAIN s = 1..Len(s) /\ DOMAIN t = 1..Len(t) /\ DOMAIN (s \o t) = 1..Len(s \o t)
  BY ConcatProperties, LenProperties
<1> DEFINE A == {i \in DOMAIN s : s[i].id = f}
           B == {i \in DOMAIN t : t[i].id = f}
           C == {i \in DOMAIN (s \o t) : (s \o t)[i].id = f}
           D == {i \in C : i > Len(s)}
           shift == [i \in B |-> i + Len(s)]
<1>2. IsFiniteSet(A) /\ IsFiniteSet(B) /\ IsFiniteSet(C)
  BY <1>1, PlacesFinite
<1>3. IsFiniteSet(D)
  BY <1>2, FS_Subset
<1>4. C = A \cup D
  <2>1. \A i \in C : i \in A \cup D
    BY <1>1
  <2>2. \A i \in A : i \in C
    BY <1>1
  <2> QED
    BY <2>1, <2>2
<1>5. A \cap D = {}
  BY <1>1
<1>6. Cardinality(D) = Cardinality(B)
  <2>1. shift \in Bijection(B, D)
    <3>1. \A i \in B : i + Len(s) \in D
      BY <1>1
    <3>2. \A i, j \in B : i + Len(s) = j + Len(s) => i = j
      BY <1>1
    <3>3. ASSUME NEW j \in D PROVE \E i \in B : shift[i] = j
      <4>1. j - Len(s) \in B /\ (j - Len(s)) + Len(s) = j
        BY <1>1
      <4> QED
        BY <4>1
    <3> QED
      BY <3>1, <3>2, <3>3 DEF Bijection, Injection, Surjection, IsInjective
  <2> QED
    BY <1>2, <2>1, FS_Bijection DEF ExistsBijection
<1>7. Cardinality(A \cup D) = Cardinality(A) + Cardinality(D) - Cardinality(A \cap D)
  BY <1>2, <1>3, FS_Union
<1>8. Cardinality(A) \in Nat /\ Cardinality(D) \in Nat /\ Cardinality({}) = 0
  BY <1>2, <1>3, FS_CardinalityType, FS_EmptySet
<1> HIDE DEF A, B, C, D, shift
<1>9. Cardinality(C) = Cardinality(A) + Cardinality(B)
  <2>1. Cardinality(C) = Cardinality(A) + Cardinality(D) - 0
    BY <1>4, <1>5, <1>7, <1>8
  <2>2. \A a, d \in Nat : a + d - 0 = a + d
    OBVIOUS
  <2> QED
    BY ONLY <1>6, <1>8, <2>1, <2>2
<1> QED
  BY <1>9 DEF CountOf, A, B, C

-----------------------------------------------------------------------------
(* The line of writes: what the flusher and the queue hold, oldest first *)

\* Every write that is on its way.
Held == Members(chunk) \cup Members(rest) \cup Members(pending)

\* The writes of a queue, or of two sets, come in the order they were accepted.
Rising(s) == \A i, j \in DOMAIN s : i < j => s[i].n < s[j].n
Ahead(V, W) == \A v \in V, w \in W : v.n < w.n

\* A concatenation is in order when both queues are and the first comes first.
LEMMA RisingConcat ==
  \A s, t \in Seq(Write) :
    Rising(s \o t) <=> Rising(s) /\ Rising(t) /\ Ahead(Members(s), Members(t))
<1> TAKE s, t \in Seq(Write)
<1>1. /\ s \o t \in Seq(Write) /\ Len(s) \in Nat /\ Len(t) \in Nat /\ Len(s \o t) = Len(s) + Len(t)
      /\ \A i \in 1..(Len(s) + Len(t)) : (s \o t)[i] = IF i <= Len(s) THEN s[i] ELSE t[i - Len(s)]
      /\ DOMAIN s = 1..Len(s) /\ DOMAIN t = 1..Len(t) /\ DOMAIN (s \o t) = 1..Len(s \o t)
  BY ConcatProperties, LenProperties
<1>2. \A i \in DOMAIN s : i \in DOMAIN (s \o t) /\ (s \o t)[i] = s[i]
  BY <1>1
<1>3. \A i \in DOMAIN t : i + Len(s) \in DOMAIN (s \o t) /\ (s \o t)[i + Len(s)] = t[i]
  BY <1>1
<1>4. ASSUME Rising(s \o t) PROVE Rising(s) /\ Rising(t) /\ Ahead(Members(s), Members(t))
  <2>1. Rising(s)
    BY <1>2, <1>4 DEF Rising
  <2>2. Rising(t)
    <3> SUFFICES ASSUME NEW i \in DOMAIN t, NEW j \in DOMAIN t, i < j PROVE t[i].n < t[j].n
      BY DEF Rising
    <3>1. i + Len(s) < j + Len(s)
      BY <1>1
    <3> QED
      BY <1>3, <1>4, <3>1 DEF Rising
  <2>3. Ahead(Members(s), Members(t))
    <3> SUFFICES ASSUME NEW i \in DOMAIN s, NEW j \in DOMAIN t PROVE s[i].n < t[j].n
      BY DEF Ahead, Members
    <3>1. i < j + Len(s)
      BY <1>1
    <3> QED
      BY <1>2, <1>3, <1>4, <3>1 DEF Rising
  <2> QED
    BY <2>1, <2>2, <2>3
<1>5. ASSUME Rising(s), Rising(t), Ahead(Members(s), Members(t)) PROVE Rising(s \o t)
  <2> SUFFICES ASSUME NEW i \in DOMAIN (s \o t), NEW j \in DOMAIN (s \o t), i < j
               PROVE  (s \o t)[i].n < (s \o t)[j].n
    BY DEF Rising
  <2>1. CASE j <= Len(s)
    <3>1. i \in DOMAIN s /\ j \in DOMAIN s
      BY <1>1, <2>1
    <3> QED
      BY <1>2, <1>5, <3>1 DEF Rising
  <2>2. CASE i <= Len(s) /\ ~(j <= Len(s))
    <3>1. i \in DOMAIN s /\ j - Len(s) \in DOMAIN t /\ (s \o t)[j] = t[j - Len(s)]
      BY <1>1, <2>2
    <3>2. s[i] \in Members(s) /\ t[j - Len(s)] \in Members(t)
      BY <3>1 DEF Members
    <3> QED
      BY <1>2, <1>5, <3>1, <3>2 DEF Ahead
  <2>3. CASE ~(i <= Len(s))
    <3>1. /\ i - Len(s) \in DOMAIN t /\ (s \o t)[i] = t[i - Len(s)]
          /\ j - Len(s) \in DOMAIN t /\ (s \o t)[j] = t[j - Len(s)] /\ i - Len(s) < j - Len(s)
      BY <1>1, <2>3
    <3> QED
      BY <1>5, <3>1 DEF Rising
  <2> QED
    BY <2>1, <2>2, <2>3
<1> QED
  BY <1>4, <1>5

\* Queues of at most one write are in order.
LEMMA RisingShort == Rising(<<>>) /\ \A w : Rising(<<w>>)
<1>1. DOMAIN <<>> = {} /\ \A w : DOMAIN <<w>> = {1}
  OBVIOUS
<1> QED
  BY <1>1 DEF Rising

\* The chunk the flusher cuts off the rest of its batch is not empty.
LEMMA ChunkMove ==
  ASSUME TypeOK, NextChunk
  PROVE  /\ chunk' \in Seq(Write) /\ rest' \in Seq(Write) /\ chunk' # <<>>
         /\ rest = chunk' \o rest'
<1>1. rest \in Seq(Write) /\ rest # <<>> /\ Len(rest) \in Nat \ {0}
  BY EmptySeq DEF TypeOK, BatchType, NextChunk
<1> DEFINE size == IF Len(rest) > BatchMax THEN BatchMax ELSE Len(rest)
<1>2. size \in 0..Len(rest) /\ size >= 1
  BY <1>1, BoundsAssumption DEF BoundsAssumption
<1>3. chunk' = SubSeq(rest, 1, size) /\ rest' = SubSeq(rest, size + 1, Len(rest))
  BY DEF NextChunk, SplitBatch
<1> HIDE DEF size
<1>4. /\ SubSeq(rest, 1, size) \in Seq(Write) /\ SubSeq(rest, size + 1, Len(rest)) \in Seq(Write)
      /\ rest = SubSeq(rest, 1, size) \o SubSeq(rest, size + 1, Len(rest))
  BY <1>1, <1>2, QueueCut
<1>5. SubSeq(rest, 1, size) # <<>>
  <2>1. \A i \in 1..size : rest[i] \in Write
    BY <1>1, <1>2, ElementOfSeq
  <2>2. Len(SubSeq(rest, 1, size)) = size
    BY <1>1, <1>2
  <2> QED
    BY <1>2, <2>2
<1> QED
  BY <1>3, <1>4, <1>5

\* What is left of the queue when a write is appended.
Kept == IF Full THEN Tail(pending) ELSE pending

\* Append1: the queue without the write it drops, then the new one.
LEMMA AppendMove ==
  ASSUME TypeOK, NEW w \in Write, Append1(w)
  PROVE  /\ Kept \in Seq(Write) /\ <<w>> \in Seq(Write) /\ pending' = Kept \o <<w>>
         /\ ~Full => Kept = pending
         /\ Full => /\ pending # <<>> /\ Head(pending) \in Write /\ <<Head(pending)>> \in Seq(Write)
                    /\ pending = <<Head(pending)>> \o Kept
<1>1. pending \in Seq(Write)
  BY DEF TypeOK, QueueType
<1>2. Full => pending # <<>>
  BY <1>1, BoundsAssumption DEF Full, BoundsAssumption
<1>3. Kept \in Seq(Write)
  BY <1>1, <1>2 DEF Kept
<1>4. pending' = Append(Kept, w)
  BY DEF Append1, Kept
<1> QED
  BY <1>1, <1>2, <1>3, <1>4, AppendCut, HeadCut DEF Kept

\* What an enqueue does: a write of a new number, of the next flow or of one that
\* was inserted, is appended; or it is skipped.
Numbered(w) ==
  /\ w.n = accepted + 1
  /\ \/ w.kind = "insert" /\ w.id = nextFlowID + 1 /\ nextFlowID' = nextFlowID + 1
     \/ w.kind # "insert" /\ w.id <= nextFlowID /\ nextFlowID' = nextFlowID
Enqueues == EnqueueInsertFlow \/ EnqueueUpdateFlow \/ EnqueueAddFlowTags
Appends == \E w \in Write : Append1(w) /\ Numbered(w)
Skips ==
  /\ void # {} /\ accepted < MaxWrites /\ accepted' = accepted + 1
  /\ fate' = [fate EXCEPT ![accepted + 1] = "skipped"]
  /\ UNCHANGED <<nextFlowID, pending, pendingN, void, dropped, wake>>

\* An enqueue appends a write or discards it at once, and leaves all but the
\* queue and the history alone.
LEMMA EnqueueCases ==
  ASSUME TypeOK, Enqueues
  PROVE  /\ Appends \/ Skips
         /\ ~closed
         /\ UNCHANGED <<inFlight, closed, cmdMu, opCh, answered, giveUp, pc, cmd, pass, chunk, rest,
                        dbOpen, rowVer, rowTags, closer, client, deleted>>
<1>0. nextFlowID \in 0..MaxFlows /\ accepted \in 0..MaxWrites /\ QueueType /\ HistoryType
  BY DEF TypeOK, QueueType, HistoryType
<1>1. CASE EnqueueInsertFlow
  <2> DEFINE w == [n |-> accepted + 1, kind |-> "insert", id |-> nextFlowID + 1]
  <2>1. w \in Write
    BY <1>0, <1>1, BoundsAssumption DEF EnqueueInsertFlow, Write, Kinds, BoundsAssumption
  <2>2. Append1(w) /\ Numbered(w)
    BY <1>1 DEF EnqueueInsertFlow, Numbered
  <2>3. Appends
    BY <2>1, <2>2 DEF Appends
  <2> QED
    BY <1>1, <2>3 DEF EnqueueInsertFlow, cmdVars, flusherVars, dbVars, clientVars
<1>2. ASSUME NEW f \in 1..nextFlowID, NEW kind \in {"update", "tags"}, EnqueueMore(kind, f)
      PROVE  (Appends \/ Skips) /\ nextFlowID' = nextFlowID
  <2>1. CASE f \in void /\ pendingN[f] = 0
    BY <1>2, <2>1 DEF EnqueueMore, Skips
  <2>2. CASE ~(f \in void /\ pendingN[f] = 0)
    <3> DEFINE w == [n |-> accepted + 1, kind |-> kind, id |-> f]
    <3>1. w \in Write
      BY <1>0, <1>2, MoreWrite DEF EnqueueMore
    <3>2. Append1(w) /\ Numbered(w)
      BY <1>0, <1>2, <2>2 DEF EnqueueMore, Numbered
    <3> QED
      BY <1>2, <3>1, <3>2 DEF Appends, EnqueueMore
  <2> QED
    BY <2>1, <2>2
<1>3. CASE EnqueueUpdateFlow \/ EnqueueAddFlowTags
  <2>1. PICK f \in 1..nextFlowID, kind \in {"update", "tags"} : EnqueueMore(kind, f)
    BY <1>3 DEF EnqueueUpdateFlow, EnqueueAddFlowTags
  <2> QED
    BY <1>2, <2>1 DEF EnqueueMore, cmdVars, flusherVars, dbVars, clientVars
<1> QED
  BY <1>1, <1>3 DEF Enqueues

\* Where each step of the flusher leaves its batch.
Batched ==
  /\ pc \in {"select", "drain", "exit"} => chunk = <<>> /\ rest = <<>>
  /\ pc = "chunk" => chunk = <<>>
  /\ pc \in {"tx", "completeOne"} => chunk # <<>>

\* Only the flusher moves the flusher.
LEMMA FlusherOnly == [Next]_vars => Flusher \/ UNCHANGED <<pc, cmd, pass, chunk, rest>>
BY DEF Next, vars, flusherVars, EnqueueInsertFlow, EnqueueUpdateFlow, EnqueueAddFlowTags, EnqueueMore,
       ClientBegins, ClientStep, ClientChecks, ClientLocks, ClientFlushed, ClientActs,
       CloseBegins, CloseTimesOut, CloseStep, CloseDrained, CloseAbandons, CloseDatabase

\* The flusher's steps keep Batched.
LEMMA BatchedStep == TypeOK /\ Batched /\ [Next]_vars => Batched'
<1> SUFFICES ASSUME TypeOK, Batched, [Next]_vars PROVE Batched'
    OBVIOUS
<1> USE DEF Batched
<1>1. CASE UNCHANGED <<pc, cmd, pass, chunk, rest>>
  BY <1>1
<1>2. CASE Woken \/ Commanded \/ DrainAbandons \/ DrainIdle \/ TakeBatch
  BY <1>2 DEF Woken, Commanded, DrainAbandons, DrainIdle, DrainReturns, TakeBatch
<1>3. CASE NextChunk
  BY <1>3, ChunkMove DEF NextChunk
<1>4. CASE AbandonRest \/ BatchDone
  BY <1>4 DEF AbandonRest, BatchDone, DrainReturns
<1>5. CASE TxCommit \/ TxFail \/ CompleteChunk \/ ReplayOne \/ CompleteOne \/ ReplayDone
  BY <1>5 DEF TxCommit, TxFail, CompleteChunk, ReplayOne, CompleteOne, ReplayDone
<1> QED
  BY <1>1, <1>2, <1>3, <1>4, <1>5, FlusherOnly DEF Flusher

\* The line is in the order of acceptance, and nothing in it is newer than the
\* last write accepted.
InOrder ==
  /\ Rising(chunk) /\ Rising(rest) /\ Rising(pending)
  /\ Ahead(Members(chunk), Members(rest)) /\ Ahead(Members(chunk), Members(pending))
  /\ Ahead(Members(rest), Members(pending))
  /\ \A w \in Held : w.n <= accepted

\* The steps that move writes along the line, and what the others leave alone.
LEMMA LineMoves ==
  [Next]_vars =>
    \/ Enqueues \/ DrainAbandons \/ CloseAbandons \/ TakeBatch \/ NextChunk \/ AbandonRest
    \/ CompleteChunk \/ CompleteOne \/ ReplayDone
    \/ UNCHANGED <<chunk, rest, pending, accepted>>
BY DEF Next, vars, Enqueues, Flusher, queueVars, flusherVars, histVars, Woken, Commanded, DrainIdle,
       BatchDone, TxCommit, TxFail, ReplayOne, ClientBegins, ClientStep, ClientChecks, ClientLocks,
       ClientFlushed, ClientActs, CloseBegins, CloseTimesOut, CloseStep, CloseDrained, CloseDatabase

\* A write taken off the head of the chunk.
LEMMA HeadMove ==
  ASSUME TypeOK, Batched, CompleteOne
  PROVE  /\ <<Head(chunk)>> \in Seq(Write) /\ chunk' \in Seq(Write)
         /\ chunk = <<Head(chunk)>> \o chunk' /\ chunk # <<>>
BY HeadCut DEF TypeOK, BatchType, Batched, CompleteOne

\* What the queue holds before and after a write is appended.
LEMMA AppendMembers ==
  ASSUME TypeOK, NEW w \in Write, Append1(w)
  PROVE  /\ Members(pending') = Members(Kept) \cup {w}
         /\ Members(Kept) \subseteq Members(pending)
         /\ ~Full => Members(pending) = Members(Kept)
         /\ Full => Members(pending) = Members(Kept) \cup {Head(pending)}
         /\ Full /\ Rising(pending) => Ahead({Head(pending)}, Members(Kept))
         /\ Rising(pending) => Rising(Kept)
         /\ Rising(Kept) /\ Ahead(Members(Kept), {w}) => Rising(pending')
<1>1. Members(Kept \o <<w>>) = Members(Kept) \cup {w}
  BY AppendMove, MembersConcat, MembersOne
<1>2. Rising(Kept) /\ Ahead(Members(Kept), {w}) => Rising(Kept \o <<w>>)
  BY AppendMove, RisingConcat, RisingShort, MembersOne
<1>3. Full => Members(pending) = Members(Kept) \cup {Head(pending)}
  <2>1. Full => Members(<<Head(pending)>> \o Kept) = {Head(pending)} \cup Members(Kept)
    BY AppendMove, MembersConcat, MembersOne
  <2> QED
    BY <2>1, AppendMove
<1>4. Full /\ Rising(pending) => Rising(Kept) /\ Ahead({Head(pending)}, Members(Kept))
  <2>1. Full => (Rising(<<Head(pending)>> \o Kept)
                   => Rising(Kept) /\ Ahead(Members(<<Head(pending)>>), Members(Kept)))
    BY AppendMove, RisingConcat
  <2> QED
    BY <2>1, AppendMove, MembersOne
<1>5. ~Full => Members(pending) = Members(Kept) /\ (Rising(pending) => Rising(Kept))
  BY AppendMove
<1> QED
  BY <1>1, <1>2, <1>3, <1>4, <1>5, AppendMove

\* Every move along the line keeps it in order.
LEMMA InOrderStep == TypeOK /\ Batched /\ InOrder /\ [Next]_vars => InOrder'
<1> SUFFICES ASSUME TypeOK, Batched, InOrder, [Next]_vars PROVE InOrder'
    OBVIOUS
<1>0. chunk \in Seq(Write) /\ rest \in Seq(Write) /\ pending \in Seq(Write) /\ accepted \in Nat
  BY BoundsAssumption DEF TypeOK, BatchType, QueueType, HistoryType, BoundsAssumption
<1>1. \A w \in Held : w.n \in Nat
  BY <1>0, MembersWrites, WriteFields, BoundsAssumption DEF Held, BoundsAssumption
<1>2. CASE Enqueues
  <2>1. CASE Skips
    <3>1. UNCHANGED <<chunk, rest, pending>> /\ accepted' = accepted + 1
      BY <1>2, <2>1, EnqueueCases DEF Skips
    <3> QED
      BY <1>0, <1>1, <3>1 DEF InOrder, Held
  <2>2. CASE Appends
    <3>1. PICK w \in Write : Append1(w) /\ w.n = accepted + 1
      BY <2>2 DEF Appends, Numbered
    <3>2. UNCHANGED <<chunk, rest>> /\ accepted' = accepted + 1
      BY <1>2, <3>1, EnqueueCases DEF Append1
    <3>3. \A v \in Held : v.n < w.n
      BY <1>0, <1>1, <3>1 DEF InOrder
    <3>4. Members(pending') = Members(Kept) \cup {w} /\ Members(Kept) \subseteq Members(pending)
      BY <3>1, AppendMembers
    <3>5. Rising(pending')
      BY <3>1, <3>3, <3>4, AppendMembers DEF InOrder, Ahead, Held
    <3>6. Ahead(Members(chunk), Members(pending')) /\ Ahead(Members(rest), Members(pending'))
      BY <3>3, <3>4 DEF InOrder, Ahead, Held
    <3>7. \A v \in Members(chunk) \cup Members(rest) \cup Members(pending') : v.n <= accepted + 1
      BY <1>0, <1>1, <3>1, <3>4 DEF InOrder, Held
    <3> QED
      BY <3>2, <3>5, <3>6, <3>7 DEF InOrder, Held
  <2> QED
    BY <1>2, <2>1, <2>2, EnqueueCases
<1>3. CASE DrainAbandons \/ CloseAbandons
  <2>1. pending' = <<>> /\ UNCHANGED <<chunk, rest, accepted>>
    BY <1>3 DEF DrainAbandons, CloseAbandons, AbandonPending, flusherVars
  <2> QED
    BY <2>1, MembersEmpty, RisingShort DEF InOrder, Ahead, Held
<1>4. CASE TakeBatch
  <2>1. rest' = pending /\ pending' = <<>> /\ chunk' = <<>> /\ accepted' = accepted
    BY <1>4 DEF TakeBatch, Batched, histVars
  <2> QED
    BY <2>1, MembersEmpty, RisingShort DEF InOrder, Ahead, Held
<1>5. CASE NextChunk
  <2>1. rest = chunk' \o rest' /\ chunk' \in Seq(Write) /\ rest' \in Seq(Write)
    BY <1>5, ChunkMove
  <2>2. UNCHANGED <<pending, accepted>>
    BY <1>5 DEF NextChunk, queueVars, histVars
  <2>3. Members(chunk' \o rest') = Members(chunk') \cup Members(rest')
    BY <2>1, MembersConcat
  <2>4. Rising(chunk' \o rest') => /\ Rising(chunk') /\ Rising(rest')
                                  /\ Ahead(Members(chunk'), Members(rest'))
    BY <2>1, RisingConcat
  <2>5. Rising(rest) /\ Members(rest) = Members(chunk') \cup Members(rest')
    BY <2>1, <2>3 DEF InOrder
  <2>6. Rising(chunk') /\ Rising(rest') /\ Ahead(Members(chunk'), Members(rest'))
    BY <2>1, <2>4, <2>5
  <2>7. Ahead(Members(chunk'), Members(pending)) /\ Ahead(Members(rest'), Members(pending))
    BY <2>5 DEF InOrder, Ahead
  <2>8. \A w \in Members(chunk') \cup Members(rest') \cup Members(pending) : w.n <= accepted
    BY <2>5 DEF InOrder, Held
  <2> QED
    BY <2>2, <2>6, <2>7, <2>8 DEF InOrder, Held
<1>6. CASE AbandonRest
  <2>1. rest' = <<>> /\ UNCHANGED <<chunk, pending, accepted>>
    BY <1>6 DEF AbandonRest
  <2> QED
    BY <2>1, MembersEmpty, RisingShort DEF InOrder, Ahead, Held
<1>7. CASE CompleteChunk \/ ReplayDone
  <2>1. chunk' = <<>> /\ UNCHANGED <<rest, pending, accepted>>
    BY <1>7 DEF CompleteChunk, ReplayDone, histVars
  <2> QED
    BY <2>1, MembersEmpty, RisingShort DEF InOrder, Ahead, Held
<1>8. CASE CompleteOne
  <2>1. /\ <<Head(chunk)>> \in Seq(Write) /\ chunk' \in Seq(Write) /\ chunk = <<Head(chunk)>> \o chunk'
        /\ UNCHANGED <<rest, pending, accepted>>
    BY <1>8, HeadMove DEF CompleteOne, histVars
  <2>2. Rising(<<Head(chunk)>> \o chunk') => Rising(chunk')
    BY <2>1, RisingConcat
  <2>3. Members(chunk') \subseteq Members(<<Head(chunk)>> \o chunk')
    BY <2>1, MembersConcat
  <2>4. Rising(chunk') /\ Members(chunk') \subseteq Members(chunk)
    BY <2>1, <2>2, <2>3 DEF InOrder
  <2> QED
    BY <2>1, <2>4 DEF InOrder, Ahead, Held
<1>9. CASE UNCHANGED <<chunk, rest, pending, accepted>>
  BY <1>9 DEF InOrder, Held
<1> QED
  BY <1>2, <1>3, <1>4, <1>5, <1>6, <1>7, <1>8, <1>9, LineMoves

\* Writes at different places of the line have different numbers.
Apart(V, W) == \A v \in V, w \in W : v.n # w.n

\* The chunk, the rest of the batch and the queue share no write number.
LEMMA LineApart ==
  ASSUME TypeOK, InOrder
  PROVE  /\ Held \subseteq Write
         /\ Apart(Members(chunk), Members(rest)) /\ Apart(Members(rest), Members(chunk))
         /\ Apart(Members(chunk), Members(pending)) /\ Apart(Members(pending), Members(chunk))
         /\ Apart(Members(rest), Members(pending)) /\ Apart(Members(pending), Members(rest))
<1>1. Held \subseteq Write
  BY MembersWrites DEF Held, TypeOK, BatchType, QueueType
<1>2. \A w \in Held : w.n \in Nat
  BY <1>1, WriteFields, BoundsAssumption DEF BoundsAssumption
<1> QED
  BY <1>1, <1>2 DEF InOrder, Apart, Ahead, Held

\* The head of a queue in order is apart from the rest of it.
LEMMA HeadApart ==
  ASSUME NEW s \in Seq(Write), s # <<>>, Rising(s)
  PROVE  /\ Members(s) = {Head(s)} \cup Members(Tail(s)) /\ Head(s) \in Write
         /\ Apart({Head(s)}, Members(Tail(s))) /\ Ahead({Head(s)}, Members(Tail(s)))
         /\ Tail(s) \in Seq(Write) /\ Rising(Tail(s))
<1>0. /\ Head(s) \in Write /\ <<Head(s)>> \in Seq(Write) /\ Tail(s) \in Seq(Write)
      /\ s = <<Head(s)>> \o Tail(s)
  BY HeadCut
<1>1. Members(<<Head(s)>> \o Tail(s)) = Members(<<Head(s)>>) \cup Members(Tail(s))
  BY <1>0, MembersConcat
<1>2. Rising(<<Head(s)>> \o Tail(s)) => Rising(Tail(s)) /\ Ahead(Members(<<Head(s)>>), Members(Tail(s)))
  BY <1>0, RisingConcat
<1>3. Members(<<Head(s)>>) = {Head(s)}
  BY MembersOne
<1>4. Members(s) = {Head(s)} \cup Members(Tail(s)) /\ Ahead({Head(s)}, Members(Tail(s)))
      /\ Rising(Tail(s))
  BY <1>0, <1>1, <1>2, <1>3
<1>5. \A w \in Members(Tail(s)) : w.n \in Nat
  <2>1. Members(Tail(s)) \subseteq Write
    BY <1>0, MembersWrites
  <2>2. \A w \in Write : w.n \in Nat
    BY WriteFields, BoundsAssumption DEF BoundsAssumption
  <2> QED
    BY <2>1, <2>2
<1>6. Head(s).n \in Nat
  BY <1>0, WriteFields, BoundsAssumption DEF BoundsAssumption
<1>7. Apart({Head(s)}, Members(Tail(s)))
  BY <1>4, <1>5, <1>6 DEF Apart, Ahead
<1> QED
  BY <1>0, <1>4, <1>7

\* Sealing the fate of some writes: theirs, and no other.
LEMMA Sealed ==
  ASSUME HistoryType, NEW ws, NEW what, SetFate(ws, what)
  PROVE  /\ \A w \in Write : w \in ws => fate'[w.n] = what
         /\ \A W \in SUBSET Write : Apart(ws, W) => \A w \in W : fate'[w.n] = fate[w.n]
BY WriteFields DEF SetFate, Apart, HistoryType

\* A queued write has no fate yet, whatever the flusher has just done to another.
HeldQueued ==
  /\ \A w \in Members(rest) \cup Members(pending) : fate[w.n] = "queued"
  /\ pc \in {"tx", "replay"} => \A w \in Members(chunk) : fate[w.n] = "queued"
  /\ pc = "completeOne" => /\ fate[Head(chunk).n] # "queued"
                           /\ \A w \in Members(Tail(chunk)) : fate[w.n] = "queued"
  /\ pc = "complete" => \A w \in Members(chunk) : fate[w.n] # "queued"
  /\ \A n \in 1..MaxWrites : n > accepted => fate[n] = "none"

\* The fate of a write changes when it is accepted, skipped, lost or applied.
LEMMA FateMoves ==
  [Next]_vars =>
    \/ Enqueues \/ DrainAbandons \/ CloseAbandons \/ AbandonRest
    \/ TxCommit \/ ReplayOne \/ ReplayDone
    \/ UNCHANGED <<accepted, fate>>
BY DEF Next, vars, Enqueues, Flusher, histVars, Woken, Commanded, DrainIdle, TakeBatch, NextChunk,
       BatchDone, TxFail, CompleteChunk, CompleteOne, ClientBegins, ClientStep, ClientChecks,
       ClientLocks, ClientFlushed, ClientActs, CloseBegins, CloseTimesOut, CloseStep, CloseDrained,
       CloseDatabase

\* HeldQueued is inductive: a fate is set in the step that takes the write off, or
\* just before it, and never to another write.
LEMMA HeldQueuedStep == TypeOK /\ Batched /\ InOrder /\ HeldQueued /\ [Next]_vars => HeldQueued'
<1> SUFFICES ASSUME TypeOK, Batched, InOrder, HeldQueued, [Next]_vars PROVE HeldQueued'
    OBVIOUS
<1>0. /\ chunk \in Seq(Write) /\ rest \in Seq(Write) /\ pending \in Seq(Write)
      /\ accepted \in 0..MaxWrites /\ HistoryType /\ fate \in [1..MaxWrites -> Fates]
  BY DEF TypeOK, BatchType, QueueType, HistoryType
<1>1. \A w \in Held : w \in Write /\ w.n \in 1..MaxWrites /\ w.n <= accepted
  BY LineApart, WriteFields DEF InOrder
<1>2. chunk # <<>> => /\ Head(chunk) \in Members(chunk) /\ Members(Tail(chunk)) \subseteq Members(chunk)
                      /\ Members(chunk) = {Head(chunk)} \cup Members(Tail(chunk))
                      /\ Apart({Head(chunk)}, Members(Tail(chunk)))
  BY <1>0, HeadApart DEF InOrder
<1>3. CASE Enqueues
  <2>0. UNCHANGED <<pc, chunk, rest>>
    BY <1>3, EnqueueCases
  <2>1. CASE Skips
    <3>1. /\ UNCHANGED pending /\ accepted' = accepted + 1 /\ accepted < MaxWrites
          /\ fate' = [fate EXCEPT ![accepted + 1] = "skipped"]
      BY <2>1 DEF Skips
    <3>2. \A w \in Held : fate'[w.n] = fate[w.n]
      BY <1>0, <1>1, <3>1
    <3>3. \A n \in 1..MaxWrites : n > accepted' => fate'[n] = "none"
      BY <1>0, <3>1 DEF HeldQueued
    <3> QED
      BY <1>2, <2>0, <3>1, <3>2, <3>3 DEF HeldQueued, Held, Batched
  <2>2. CASE Appends
    <3>1. PICK w \in Write : Append1(w) /\ w.n = accepted + 1
      BY <2>2 DEF Appends, Numbered
    <3>2. \A n \in 1..MaxWrites : fate'[n] =
            IF n = w.n THEN "queued" ELSE IF Full /\ n = Head(pending).n THEN "dropped" ELSE fate[n]
      BY <3>1 DEF Append1
    <3>3. Full => Head(pending) \in Members(pending) /\ Apart({Head(pending)}, Members(Kept))
      <4>1. Full => pending # <<>> /\ Kept = Tail(pending)
        BY <3>1, AppendMove DEF Kept
      <4> QED
        BY <1>0, <4>1, HeadApart DEF InOrder
    <3>4. ASSUME NEW v \in Members(chunk) \cup Members(rest) \cup Members(Kept)
          PROVE  fate'[v.n] = fate[v.n]
      <4>1. v \in Held
        BY <3>1, AppendMembers DEF Held
      <4>2. v.n # w.n
        BY <1>0, <1>1, <3>1, <4>1
      <4>3. Full => v.n # Head(pending).n
        BY <3>3, LineApart DEF Apart
      <4> QED
        BY <1>1, <3>2, <4>1, <4>2, <4>3
    <3>5. Members(pending') = Members(Kept) \cup {w} /\ Members(Kept) \subseteq Members(pending)
      BY <3>1, AppendMembers
    <3>6. fate'[w.n] = "queued"
      BY <3>2, WriteFields
    <3>7. \A v \in Members(rest) \cup Members(pending') : fate'[v.n] = "queued"
      BY <3>4, <3>5, <3>6 DEF HeldQueued
    <3>8. accepted' = accepted + 1 /\ (Full => Head(pending).n <= accepted)
      BY <1>1, <3>1, <3>3 DEF Append1, Held
    <3>9. \A n \in 1..MaxWrites : n > accepted' => fate'[n] = "none"
      <4> SUFFICES ASSUME NEW n \in 1..MaxWrites, n > accepted + 1 PROVE fate'[n] = "none"
        BY <3>8
      <4>1. Full => Head(pending).n \in 1..MaxWrites
        BY <1>1, <3>3 DEF Held
      <4>2. n > accepted /\ n # w.n /\ (Full => n # Head(pending).n)
        BY <1>0, <3>1, <3>8, <4>1
      <4> QED
        BY <3>2, <4>2 DEF HeldQueued
    <3>10. \A v \in Members(chunk) : fate'[v.n] = fate[v.n]
      BY <3>4
    <3> QED
      BY <1>2, <2>0, <3>7, <3>9, <3>10 DEF HeldQueued, Batched
  <2> QED
    BY <1>3, <2>1, <2>2, EnqueueCases
<1>4. CASE DrainAbandons \/ CloseAbandons
  <2>1. /\ SetFate(Members(pending), "dropped") /\ pending' = <<>> /\ UNCHANGED <<chunk, rest, accepted>>
    BY <1>4 DEF DrainAbandons, CloseAbandons, AbandonPending, flusherVars
  <2>2. pc' = pc \/ pc' \in {"select", "exit"}
    BY <1>4 DEF DrainAbandons, CloseAbandons, DrainReturns, flusherVars
  <2>3. \A w \in Members(chunk) \cup Members(rest) : fate'[w.n] = fate[w.n]
    <3>1. Apart(Members(pending), Members(chunk) \cup Members(rest))
      BY LineApart DEF Apart
    <3>2. Members(chunk) \cup Members(rest) \subseteq Write
      BY LineApart DEF Held
    <3> QED
      BY <1>0, <2>1, <3>1, <3>2, Sealed
  <2>4. \A n \in 1..MaxWrites : n > accepted => fate'[n] = "none"
    BY <1>0, <1>1, <2>1 DEF SetFate, HeldQueued, Held
  <2> QED
    BY <1>2, <2>1, <2>2, <2>3, <2>4, MembersEmpty DEF HeldQueued, Batched
<1>5. CASE AbandonRest
  <2>1. /\ SetFate(Members(rest), "dropped") /\ rest' = <<>> /\ pc = "chunk"
        /\ UNCHANGED <<chunk, pending, accepted, pc>>
    BY <1>5 DEF AbandonRest
  <2>2. \A w \in Members(pending) : fate'[w.n] = fate[w.n]
    BY <1>0, <2>1, Sealed, LineApart, MembersWrites
  <2>3. \A n \in 1..MaxWrites : n > accepted => fate'[n] = "none"
    BY <1>0, <1>1, <2>1 DEF SetFate, HeldQueued, Held
  <2> QED
    BY <2>1, <2>2, <2>3, MembersEmpty DEF HeldQueued
<1>6. CASE TxCommit
  <2>1. /\ pc = "tx" /\ pc' = "complete" /\ UNCHANGED <<chunk, rest, pending, accepted>>
        /\ fate' = [n \in 1..MaxWrites |->
                IF \E i \in DOMAIN chunk : chunk[i].n = n
                  THEN IF \E i \in Landing(chunk) : chunk[i].n = n THEN "committed" ELSE "skipped"
                  ELSE fate[n]]
    BY <1>6 DEF TxCommit, queueVars
  <2>2. \A w \in Members(chunk) : fate'[w.n] # "queued"
    BY <1>1, <2>1 DEF Members, Held
  <2>3. ASSUME NEW n \in 1..MaxWrites, \A w \in Members(chunk) : w.n # n PROVE fate'[n] = fate[n]
    BY <2>1, <2>3 DEF Members
  <2>4. \A w \in Members(rest) \cup Members(pending) : fate'[w.n] = fate[w.n]
    BY <1>1, <2>3, LineApart DEF Apart, Held
  <2>5. \A n \in 1..MaxWrites : n > accepted => fate'[n] = "none"
    BY <1>0, <1>1, <2>3 DEF HeldQueued, Held
  <2> QED
    BY <2>1, <2>2, <2>4, <2>5 DEF HeldQueued
<1>7. CASE ReplayOne
  <2>1. /\ pc = "replay" /\ pc' = "completeOne" /\ chunk # <<>>
        /\ UNCHANGED <<chunk, rest, pending, accepted>>
    BY <1>7 DEF ReplayOne, queueVars
  <2>2. PICK what \in {"skipped", "committed", "failed"} : SetFate({Head(chunk)}, what)
    BY <1>7 DEF ReplayOne
  <2>3. fate'[Head(chunk).n] = what
    BY <1>0, <1>1, <1>2, <2>1, <2>2, Sealed DEF Held
  <2>4. Apart({Head(chunk)}, Members(Tail(chunk)) \cup Members(rest) \cup Members(pending))
    BY <1>2, <2>1, LineApart DEF Apart
  <2>5. Members(Tail(chunk)) \cup Members(rest) \cup Members(pending) \subseteq Write
    BY <1>2, <2>1, LineApart DEF Held
  <2>6. \A w \in Members(Tail(chunk)) \cup Members(rest) \cup Members(pending) : fate'[w.n] = fate[w.n]
    BY <1>0, <2>2, <2>4, <2>5, Sealed
  <2>7. \A n \in 1..MaxWrites : n > accepted => fate'[n] = "none"
    BY <1>0, <1>1, <1>2, <2>1, <2>2 DEF SetFate, HeldQueued, Held
  <2> QED
    BY <1>2, <2>1, <2>3, <2>6, <2>7 DEF HeldQueued
<1>8. CASE ReplayDone
  <2>1. /\ SetFate(Members(chunk), "dropped") /\ chunk' = <<>> /\ pc' = "chunk"
        /\ UNCHANGED <<rest, pending, accepted>>
    BY <1>8 DEF ReplayDone
  <2>2. \A w \in Members(rest) \cup Members(pending) : fate'[w.n] = fate[w.n]
    BY <1>0, <2>1, Sealed, LineApart, MembersWrites
  <2>3. \A n \in 1..MaxWrites : n > accepted => fate'[n] = "none"
    BY <1>0, <1>1, <2>1 DEF SetFate, HeldQueued, Held
  <2> QED
    BY <2>1, <2>2, <2>3, MembersEmpty DEF HeldQueued
<1>9. CASE UNCHANGED <<accepted, fate>> /\ UNCHANGED <<chunk, rest, pending, pc>>
  BY <1>9 DEF HeldQueued
<1>10. CASE UNCHANGED <<accepted, fate>> /\ Flusher
  <2>1. CASE Woken \/ Commanded \/ DrainIdle \/ BatchDone
    <3>1. pc' \in {"select", "drain", "exit"} /\ UNCHANGED <<chunk, rest, pending>>
      BY <2>1 DEF Woken, Commanded, DrainIdle, BatchDone, DrainReturns, queueVars
    <3> QED
      BY <1>10, <3>1 DEF HeldQueued
  <2>2. CASE TakeBatch
    <3>1. pc' = "chunk" /\ rest' = pending /\ pending' = <<>>
      BY <2>2 DEF TakeBatch
    <3> QED
      BY <1>10, <3>1, MembersEmpty DEF HeldQueued
  <2>3. CASE NextChunk
    <3>1. rest = chunk' \o rest' /\ chunk' \in Seq(Write) /\ rest' \in Seq(Write)
      BY <2>3, ChunkMove
    <3>2. Members(chunk' \o rest') = Members(chunk') \cup Members(rest')
      BY <3>1, MembersConcat
    <3>3. Members(rest) = Members(chunk') \cup Members(rest') /\ UNCHANGED pending /\ pc' = "tx"
      BY <2>3, <3>1, <3>2 DEF NextChunk, queueVars
    <3> QED
      BY <1>10, <3>3 DEF HeldQueued
  <2>4. CASE TxFail
    <3>1. pc = "tx" /\ pc' = "replay" /\ UNCHANGED <<chunk, rest, pending>>
      BY <2>4 DEF TxFail, queueVars
    <3> QED
      BY <1>10, <3>1 DEF HeldQueued
  <2>5. CASE CompleteChunk
    <3>1. pc' = "chunk" /\ UNCHANGED <<rest, pending>>
      BY <2>5 DEF CompleteChunk
    <3> QED
      BY <1>10, <3>1 DEF HeldQueued
  <2>6. CASE CompleteOne
    <3>1. pc = "completeOne" /\ pc' = "replay" /\ chunk' = Tail(chunk) /\ UNCHANGED <<rest, pending>>
      BY <2>6 DEF CompleteOne
    <3> QED
      BY <1>10, <3>1 DEF HeldQueued
  <2> QED
    BY <1>4, <1>5, <1>6, <1>7, <1>8, <1>10, <2>1, <2>2, <2>3, <2>4, <2>5, <2>6 DEF Flusher
<1>11. UNCHANGED <<accepted, fate>> /\ [Next]_vars /\ ~Flusher /\ ~CloseAbandons
         => Enqueues \/ UNCHANGED <<chunk, rest, pending, pc>>
  BY LineMoves, FlusherOnly DEF Flusher
<1> QED
  BY <1>3, <1>4, <1>5, <1>6, <1>7, <1>8, <1>9, <1>10, <1>11, FateMoves

-----------------------------------------------------------------------------
(* The counts are exact *)

\* Shutdown gives up only after the queue was closed.
Closing == (giveUp => closed) /\ (closer \in {"draining", "drained"} => closed)
           /\ (closer \in {"givingUp", "gaveUp"} => giveUp)

\* Close goes through its stages in order.
LEMMA ClosingStep == TypeOK /\ Closing /\ [Next]_vars => Closing'
<1> SUFFICES ASSUME TypeOK, Closing, [Next]_vars PROVE Closing'
    OBVIOUS
<1> USE DEF Closing
<1>1. CASE Enqueues
  BY <1>1, EnqueueCases
<1>2. CASE CloseBegins \/ CloseTimesOut \/ CloseStep
  BY <1>2 DEF CloseBegins, CloseTimesOut, CloseStep, CloseDrained, CloseAbandons, CloseDatabase,
              queueVars
<1>3. [Next]_vars => Enqueues \/ CloseBegins \/ CloseTimesOut \/ CloseStep
                     \/ UNCHANGED <<giveUp, closed, closer>>
  BY DEF Next, vars, Enqueues, Flusher, queueVars, clientVars, Woken, Commanded, DrainAbandons,
         DrainIdle, TakeBatch, NextChunk, AbandonRest, BatchDone, TxCommit, TxFail, CompleteChunk,
         ReplayOne, CompleteOne, ReplayDone, ClientBegins, ClientStep, ClientChecks, ClientLocks,
         ClientFlushed, ClientActs
<1> QED
  BY <1>1, <1>2, <1>3

\* The inductive form of BusyIsExact: the writes of a flow, place by place.
BusyInv ==
  ~giveUp => \A f \in Flows :
    pendingN[f] = CountOf(chunk, f) + CountOf(rest, f) + CountOf(pending, f)

\* The counts before and after a write is appended.
LEMMA AppendCounts ==
  ASSUME TypeOK, NEW w \in Write, Append1(w), NEW f \in Flows
  PROVE  /\ CountOf(Kept, f) \in Nat
         /\ CountOf(pending', f) = CountOf(Kept, f) + (IF f = w.id THEN 1 ELSE 0)
         /\ CountOf(pending, f) = CountOf(Kept, f) + (IF Drops(f) THEN 1 ELSE 0)
<1>1. /\ Kept \in Seq(Write) /\ <<w>> \in Seq(Write) /\ pending' = Kept \o <<w>>
      /\ ~Full => Kept = pending
      /\ Full => <<Head(pending)>> \in Seq(Write) /\ pending = <<Head(pending)>> \o Kept
  BY AppendMove
<1>2. CountOf(Kept, f) \in Nat
  BY <1>1, CountOfNat
<1>3. CountOf(Kept \o <<w>>, f) = CountOf(Kept, f) + CountOf(<<w>>, f)
  BY <1>1, CountConcat
<1>4. CountOf(<<w>>, f) = IF f = w.id THEN 1 ELSE 0
  BY CountOne
<1>5. CountOf(pending', f) = CountOf(Kept, f) + (IF f = w.id THEN 1 ELSE 0)
  BY <1>1, <1>3, <1>4
<1>6. CASE Full
  <2>1. CountOf(<<Head(pending)>> \o Kept, f) = CountOf(<<Head(pending)>>, f) + CountOf(Kept, f)
    BY <1>1, <1>6, CountConcat
  <2>2. CountOf(<<Head(pending)>>, f) = IF Head(pending).id = f THEN 1 ELSE 0
    BY CountOne
  <2>3. CountOf(pending, f) = (IF Drops(f) THEN 1 ELSE 0) + CountOf(Kept, f)
    BY <1>1, <1>6, <2>1, <2>2 DEF Drops
  <2>4. \A a \in Nat, b \in {0, 1} : b + a = a + b
    OBVIOUS
  <2> QED
    BY <1>2, <1>5, <2>3, <2>4
<1>7. CASE ~Full
  <2>1. CountOf(pending, f) = CountOf(Kept, f) /\ ~Drops(f)
    BY <1>1, <1>7 DEF Drops
  <2> QED
    BY <1>2, <1>5, <2>1
<1> QED
  BY <1>6, <1>7

\* Retiring the writes of a queue takes their counts away.
LEMMA Retired ==
  ASSUME TypeOK, NEW s \in Seq(Write), pendingN' = FinishPending(s), NEW f \in Flows,
         NEW k \in Nat, pendingN[f] = CountOf(s, f) + k
  PROVE  pendingN'[f] = k
<1>1. CountOf(s, f) \in Nat
  BY CountOfNat
<1>2. \A a, b \in Nat : Less(a + b, a) = b
  BY DEF Less
<1> QED
  BY <1>1, <1>2 DEF FinishPending

\* Every bump of a flow's count has its release, on the path the write takes.
LEMMA BusyStep == TypeOK /\ Batched /\ Closing /\ BusyInv /\ [Next]_vars => BusyInv'
<1> SUFFICES ASSUME TypeOK, Batched, Closing, BusyInv, [Next]_vars, ~giveUp',
                    NEW f \in Flows
             PROVE  pendingN'[f] = CountOf(chunk', f) + CountOf(rest', f) + CountOf(pending', f)
    BY DEF BusyInv
<1>0. chunk \in Seq(Write) /\ rest \in Seq(Write) /\ pending \in Seq(Write) /\ pendingN[f] \in Nat
  BY DEF TypeOK, BatchType, QueueType
<1>1. CountOf(chunk, f) \in Nat /\ CountOf(rest, f) \in Nat /\ CountOf(pending, f) \in Nat
  BY <1>0, CountOfNat
<1>2. ~giveUp
  <2>1. giveUp => giveUp' \/ UNCHANGED giveUp
    BY DEF Next, vars, Flusher, EnqueueInsertFlow, EnqueueUpdateFlow, EnqueueAddFlowTags, EnqueueMore,
           Woken, Commanded, DrainAbandons, DrainIdle, TakeBatch, NextChunk, AbandonRest, BatchDone,
           TxCommit, TxFail, CompleteChunk, ReplayOne, CompleteOne, ReplayDone, ClientBegins,
           ClientStep, ClientChecks, ClientLocks, ClientFlushed, ClientActs, CloseBegins,
           CloseTimesOut, CloseStep, CloseDrained, CloseAbandons, CloseDatabase
  <2> QED
    BY <2>1
<1>3. pendingN[f] = CountOf(chunk, f) + CountOf(rest, f) + CountOf(pending, f)
  BY <1>2 DEF BusyInv
<1>4. CASE Enqueues
  <2>0. UNCHANGED <<chunk, rest>>
    BY <1>4, EnqueueCases
  <2>1. CASE Skips
    BY <1>3, <2>0, <2>1 DEF Skips
  <2>2. CASE Appends
    <3>1. PICK w \in Write : Append1(w)
      BY <2>2 DEF Appends
    <3>2. pendingN'[f] = Less(pendingN[f], IF Drops(f) THEN 1 ELSE 0) + (IF f = w.id THEN 1 ELSE 0)
      BY <3>1 DEF Append1
    <3>3. /\ CountOf(Kept, f) \in Nat
          /\ CountOf(pending', f) = CountOf(Kept, f) + (IF f = w.id THEN 1 ELSE 0)
          /\ CountOf(pending, f) = CountOf(Kept, f) + (IF Drops(f) THEN 1 ELSE 0)
      BY <3>1, AppendCounts
    <3>4. ASSUME NEW d \in 0..1, NEW k \in Nat, NEW a \in Nat, NEW b \in Nat
          PROVE  Less(a + b + (k + d), d) = a + b + k
      BY DEF Less
    <3>5. Less(pendingN[f], IF Drops(f) THEN 1 ELSE 0) = CountOf(chunk, f) + CountOf(rest, f) + CountOf(Kept, f)
      BY <1>1, <1>3, <3>3, <3>4
    <3> QED
      BY <1>1, <2>0, <3>2, <3>3, <3>5
  <2> QED
    BY <1>4, <2>1, <2>2, EnqueueCases
<1>5. CASE DrainAbandons \/ CloseAbandons
  <2>1. /\ pendingN' = FinishPending(pending) /\ pending' = <<>> /\ UNCHANGED <<chunk, rest>>
    BY <1>5 DEF DrainAbandons, CloseAbandons, AbandonPending, flusherVars
  <2>2. pendingN'[f] = CountOf(chunk, f) + CountOf(rest, f)
    BY <1>0, <1>1, <1>3, <2>1, Retired
  <2> QED
    BY <1>1, <2>1, <2>2, CountEmpty
<1>6. CASE TakeBatch
  <2>1. /\ rest' = pending /\ pending' = <<>> /\ chunk' = chunk /\ rest = <<>> /\ pendingN' = pendingN
    BY <1>6 DEF TakeBatch, Batched
  <2> QED
    BY <1>1, <1>3, <2>1, CountEmpty
<1>7. CASE NextChunk
  <2>1. rest = chunk' \o rest' /\ chunk' \in Seq(Write) /\ rest' \in Seq(Write)
    BY <1>7, ChunkMove
  <2>2. CountOf(chunk' \o rest', f) = CountOf(chunk', f) + CountOf(rest', f)
    BY <2>1, CountConcat
  <2>3. chunk = <<>> /\ UNCHANGED <<pending, pendingN>>
    BY <1>7 DEF NextChunk, Batched, queueVars
  <2>4. CountOf(rest, f) = CountOf(chunk', f) + CountOf(rest', f) /\ CountOf(chunk, f) = 0
    BY <2>1, <2>2, <2>3, CountEmpty
  <2> QED
    BY <1>1, <1>3, <2>3, <2>4
<1>8. CASE AbandonRest
  BY <1>2, <1>8 DEF AbandonRest
<1>9. CASE CompleteChunk
  <2>1. pendingN' = FinishPending(chunk) /\ chunk' = <<>> /\ UNCHANGED <<rest, pending>>
    BY <1>9 DEF CompleteChunk, Complete
  <2>2. pendingN'[f] = CountOf(rest, f) + CountOf(pending, f)
    BY <1>0, <1>1, <1>3, <2>1, Retired
  <2> QED
    BY <1>1, <2>1, <2>2, CountEmpty
<1>10. CASE CompleteOne
  <2>1. /\ <<Head(chunk)>> \in Seq(Write) /\ chunk' \in Seq(Write) /\ chunk = <<Head(chunk)>> \o chunk'
        /\ UNCHANGED <<rest, pending>> /\ pendingN' = FinishPending(<<Head(chunk)>>)
    BY <1>10, HeadMove DEF CompleteOne, Complete
  <2>2. CountOf(<<Head(chunk)>> \o chunk', f) = CountOf(<<Head(chunk)>>, f) + CountOf(chunk', f)
    BY <2>1, CountConcat
  <2>3. CountOf(chunk', f) \in Nat /\ CountOf(<<Head(chunk)>>, f) \in Nat
    BY <2>1, CountOfNat
  <2>4. pendingN[f] = CountOf(<<Head(chunk)>>, f) + (CountOf(chunk', f) + CountOf(rest, f) + CountOf(pending, f))
    <3>1. CountOf(chunk, f) = CountOf(<<Head(chunk)>>, f) + CountOf(chunk', f)
      BY <2>1, <2>2
    <3>2. \A a, b, c, d \in Nat : (a + b) + c + d = a + (b + c + d)
      OBVIOUS
    <3> QED
      BY ONLY <1>1, <1>3, <2>3, <3>1, <3>2
  <2>5. CountOf(chunk', f) + CountOf(rest, f) + CountOf(pending, f) \in Nat
    BY <1>1, <2>3
  <2>6. pendingN'[f] = CountOf(chunk', f) + CountOf(rest, f) + CountOf(pending, f)
    BY <2>1, <2>4, <2>5, Retired
  <2> QED
    BY <2>1, <2>6
<1>11. CASE ReplayDone
  <2>1. chunk' = chunk /\ UNCHANGED <<rest, pending, pendingN>>
    BY <1>2, <1>11 DEF ReplayDone
  <2> QED
    BY <1>3, <2>1
<1>12. CASE UNCHANGED <<chunk, rest, pending, pendingN>>
  BY <1>3, <1>12
<1>13. [Next]_vars =>
    \/ Enqueues \/ DrainAbandons \/ CloseAbandons \/ TakeBatch \/ NextChunk \/ AbandonRest
    \/ CompleteChunk \/ CompleteOne \/ ReplayDone
    \/ UNCHANGED <<chunk, rest, pending, pendingN>>
  BY DEF Next, vars, Enqueues, Flusher, queueVars, flusherVars, Woken, Commanded, DrainIdle,
         BatchDone, TxCommit, TxFail, ReplayOne, ClientBegins, ClientStep, ClientChecks, ClientLocks,
         ClientFlushed, ClientActs, CloseBegins, CloseTimesOut, CloseStep, CloseDrained, CloseDatabase
<1> QED
  BY <1>4, <1>5, <1>6, <1>7, <1>8, <1>9, <1>10, <1>11, <1>12, <1>13

\* The count of the line is the sum of the counts of its places.
LEMMA LineCounts ==
  ASSUME TypeOK, NEW f \in Flows
  PROVE  CountOf(chunk \o rest \o pending, f) = CountOf(chunk, f) + CountOf(rest, f) + CountOf(pending, f)
<1>1. chunk \in Seq(Write) /\ rest \in Seq(Write) /\ pending \in Seq(Write) /\ chunk \o rest \in Seq(Write)
  BY ConcatProperties DEF TypeOK, BatchType, QueueType
<1>2. CountOf((chunk \o rest) \o pending, f) = CountOf(chunk \o rest, f) + CountOf(pending, f)
  BY <1>1, CountConcat
<1>3. CountOf(chunk \o rest, f) = CountOf(chunk, f) + CountOf(rest, f)
  BY <1>1, CountConcat
<1> QED
  BY <1>2, <1>3

\* What the line holds is what its places hold.
LEMMA LineMembers == TypeOK => Members(chunk \o rest \o pending) = Held
<1> SUFFICES ASSUME TypeOK PROVE Members(chunk \o rest \o pending) = Held
    OBVIOUS
<1>1. chunk \in Seq(Write) /\ rest \in Seq(Write) /\ pending \in Seq(Write) /\ chunk \o rest \in Seq(Write)
  BY ConcatProperties DEF TypeOK, BatchType, QueueType
<1>2. Members((chunk \o rest) \o pending) = Members(chunk \o rest) \cup Members(pending)
  BY <1>1, MembersConcat
<1>3. Members(chunk \o rest) = Members(chunk) \cup Members(rest)
  BY <1>1, MembersConcat
<1> QED
  BY <1>2, <1>3 DEF Held

-----------------------------------------------------------------------------
(* Fates are final, and losses are counted *)

\* A fate, once settled, is settled; a write is only queued by being accepted.
LEMMA FatesFinal ==
  ASSUME TypeOK, Batched, InOrder, HeldQueued, [Next]_vars, NEW n \in 1..MaxWrites
  PROVE  /\ fate[n] \in Settled => fate'[n] = fate[n]
         /\ fate'[n] = "queued" => fate[n] = "queued" \/ (Enqueues /\ n = accepted + 1)
<1>0. /\ chunk \in Seq(Write) /\ rest \in Seq(Write) /\ pending \in Seq(Write)
      /\ accepted \in 0..MaxWrites /\ HistoryType /\ fate \in [1..MaxWrites -> Fates]
  BY DEF TypeOK, BatchType, QueueType, HistoryType
<1>1. fate[n] \in Settled => fate[n] # "queued" /\ fate[n] # "none"
  BY DEF Settled
<1>2. CASE Enqueues
  <2>1. CASE Skips
    BY <1>0, <1>1, <1>2, <2>1 DEF Skips, HeldQueued
  <2>2. CASE Appends
    <3>1. PICK w \in Write : Append1(w) /\ w.n = accepted + 1
      BY <2>2 DEF Appends, Numbered
    <3>2. fate'[n] = IF n = w.n THEN "queued" ELSE IF Full /\ n = Head(pending).n THEN "dropped" ELSE fate[n]
      BY <3>1 DEF Append1
    <3>3. n = w.n => fate[n] = "none"
      BY <1>0, <3>1 DEF HeldQueued
    <3>4. Full => fate[Head(pending).n] = "queued"
      BY <3>1, AppendMembers DEF HeldQueued
    <3> QED
      BY <1>1, <1>2, <3>1, <3>2, <3>3, <3>4
  <2> QED
    BY <1>2, <2>1, <2>2, EnqueueCases
<1>3. ASSUME NEW ws, NEW what \in Settled, SetFate(ws, what), \A w \in ws : fate[w.n] = "queued"
      PROVE  /\ fate[n] \in Settled => fate'[n] = fate[n]
             /\ fate'[n] = "queued" => fate[n] = "queued"
  BY <1>1, <1>3 DEF SetFate, Settled
<1>4. CASE DrainAbandons \/ CloseAbandons
  <2>1. SetFate(Members(pending), "dropped")
    BY <1>4 DEF DrainAbandons, CloseAbandons, AbandonPending
  <2> QED
    BY <1>3, <2>1 DEF HeldQueued, Settled
<1>5. CASE AbandonRest
  BY <1>3, <1>5 DEF AbandonRest, HeldQueued, Settled
<1>6. CASE TxCommit
  <2>1. (\E i \in DOMAIN chunk : chunk[i].n = n) => fate[n] = "queued"
    BY <1>6 DEF TxCommit, HeldQueued, Members
  <2>2. fate'[n] = IF \E i \in DOMAIN chunk : chunk[i].n = n
                  THEN IF \E i \in Landing(chunk) : chunk[i].n = n THEN "committed" ELSE "skipped"
                  ELSE fate[n]
    BY <1>6 DEF TxCommit
  <2> QED
    BY <1>1, <2>1, <2>2
<1>7. CASE ReplayOne
  <2>1. PICK what \in {"skipped", "committed", "failed"} : SetFate({Head(chunk)}, what)
    BY <1>7 DEF ReplayOne
  <2>2. fate[Head(chunk).n] = "queued"
    BY <1>0, <1>7, HeadApart DEF ReplayOne, HeldQueued, InOrder
  <2> QED
    BY <1>3, <2>1, <2>2 DEF Settled
<1>8. CASE ReplayDone
  <2>1. SetFate(Members(chunk), "dropped") /\ \A w \in Members(chunk) : fate[w.n] = "queued"
    BY <1>8 DEF ReplayDone, HeldQueued
  <2> QED
    BY <1>3, <2>1 DEF Settled
<1> QED
  BY <1>2, <1>4, <1>5, <1>6, <1>7, <1>8, FateMoves

\* The writes that were dropped.
Lost == {n \in 1..MaxWrites : fate[n] = "dropped"}

\* They can be counted.
LEMMA LostFinite == IsFiniteSet(Lost) /\ Cardinality(Lost) \in Nat
<1>1. IsFiniteSet(1..MaxWrites)
  BY BoundsAssumption, FS_Interval DEF BoundsAssumption
<1> QED
  BY <1>1, FS_Subset, FS_CardinalityType DEF Lost

\* A queue in order holds as many writes as it is long.
LEMMA NumbersOf ==
  ASSUME NEW s \in Seq(Write), Rising(s)
  PROVE  LET N == {w.n : w \in Members(s)} IN IsFiniteSet(N) /\ Cardinality(N) = Len(s)
<1> DEFINE N == {w.n : w \in Members(s)}
           f == [i \in 1..Len(s) |-> s[i].n]
<1>1. DOMAIN s = 1..Len(s) /\ Len(s) \in Nat /\ \A i \in 1..Len(s) : s[i].n \in Nat
  BY LenProperties, QueueElements, BoundsAssumption DEF BoundsAssumption
<1>2. f \in Bijection(1..Len(s), N)
  <2>1. \A i \in 1..Len(s) : s[i].n \in N
    BY <1>1 DEF Members
  <2>2. ASSUME NEW i \in 1..Len(s), NEW j \in 1..Len(s), s[i].n = s[j].n PROVE i = j
    <3>1. ~(i < j) /\ ~(j < i)
      BY <1>1, <2>2 DEF Rising
    <3> QED
      BY <1>1, <3>1
  <2>3. \A k \in N : \E i \in 1..Len(s) : f[i] = k
    BY <1>1 DEF Members
  <2> QED
    BY <2>1, <2>2, <2>3 DEF Bijection, Injection, Surjection, IsInjective
<1>3. IsFiniteSet(1..Len(s)) /\ Cardinality(1..Len(s)) = Len(s)
  <2>1. \A n \in Nat : IsFiniteSet(1..n) /\ Cardinality(1..n) = n
    <3> TAKE n \in Nat
    <3>1. IsFiniteSet(1..n) /\ Cardinality(1..n) = IF 1 <= n THEN n - 1 + 1 ELSE 0
      BY FS_Interval
    <3> QED
      BY <3>1
  <2> QED
    BY <1>1, <2>1
<1> HIDE DEF N, f
<1>4. IsFiniteSet(N) /\ Cardinality(N) = Len(s)
  BY <1>2, <1>3, FS_Bijection DEF ExistsBijection
<1> QED
  BY <1>4 DEF N

\* Dropping queued writes, and counting them, keeps the count of losses.
LEMMA LossCounted ==
  ASSUME TypeOK, DroppedIsExact, NEW s \in Seq(Write), Rising(s),
         \A w \in Members(s) : fate[w.n] = "queued",
         SetFate(Members(s), "dropped"), dropped' = dropped + Len(s)
  PROVE  DroppedIsExact'
<1> DEFINE N == {w.n : w \in Members(s)}
<1>1. IsFiniteSet(N) /\ Cardinality(N) = Len(s) /\ Len(s) \in Nat
  BY NumbersOf, LenProperties
<1>2. N \subseteq 1..MaxWrites
  BY MembersWrites, WriteFields
<1>3. {n \in 1..MaxWrites : fate'[n] = "dropped"} = Lost \cup N
  BY <1>2 DEF SetFate, Lost
<1>4. Lost \cap N = {}
  BY DEF Lost
<1>5. Cardinality(Lost \cup N) = Cardinality(Lost) + Cardinality(N) - Cardinality(Lost \cap N)
  BY <1>1, LostFinite, FS_Union
<1>6. Cardinality({}) = 0
  BY FS_EmptySet
<1> HIDE DEF N
<1>7. Cardinality(Lost \cup N) = Cardinality(Lost) + Len(s)
  <2>1. \A a, b \in Nat : a + b - 0 = a + b
    OBVIOUS
  <2> QED
    BY <1>1, <1>4, <1>5, <1>6, <2>1, LostFinite
<1> QED
  BY <1>3, <1>7 DEF DroppedIsExact, Lost

\* The counter moves with the losses: an eviction, a queue that is discarded, the rest
\* of a batch or of a replay.
LEMMA DroppedStep ==
  TypeOK /\ Batched /\ InOrder /\ HeldQueued /\ DroppedIsExact /\ [Next]_vars => DroppedIsExact'
<1> SUFFICES ASSUME TypeOK, Batched, InOrder, HeldQueued, DroppedIsExact, [Next]_vars
             PROVE  DroppedIsExact'
    OBVIOUS
<1>0. /\ chunk \in Seq(Write) /\ rest \in Seq(Write) /\ pending \in Seq(Write)
      /\ accepted \in 0..MaxWrites /\ HistoryType /\ fate \in [1..MaxWrites -> Fates] /\ dropped \in Nat
  BY DEF TypeOK, BatchType, QueueType, HistoryType
<1>1. CASE Enqueues
  <2>1. CASE Skips
    <3>1. \A n \in 1..MaxWrites : fate'[n] = "dropped" <=> fate[n] = "dropped"
      BY <1>0, <2>1 DEF Skips, HeldQueued
    <3> QED
      BY <2>1, <3>1 DEF Skips, DroppedIsExact
  <2>2. CASE Appends
    <3>1. PICK w \in Write : Append1(w) /\ w.n = accepted + 1
      BY <2>2 DEF Appends, Numbered
    <3>2. /\ \A n \in 1..MaxWrites : fate'[n] =
                IF n = w.n THEN "queued" ELSE IF Full /\ n = Head(pending).n THEN "dropped" ELSE fate[n]
          /\ dropped' = IF Full THEN dropped + 1 ELSE dropped
      BY <3>1 DEF Append1
    <3>3. fate[w.n] = "none" /\ w.n \in 1..MaxWrites
      BY <1>0, <3>1, WriteFields DEF HeldQueued
    <3>4. CASE ~Full
      <4>1. \A n \in 1..MaxWrites : fate'[n] = "dropped" <=> fate[n] = "dropped"
        BY <3>2, <3>3, <3>4
      <4> QED
        BY <3>2, <3>4, <4>1 DEF DroppedIsExact
    <3>5. CASE Full
      <4> DEFINE h == Head(pending).n
      <4>1. Head(pending) \in Members(pending) /\ Head(pending) \in Write
        BY <3>1, <3>5, AppendMove, AppendMembers
      <4>2. h \in 1..MaxWrites /\ fate[h] = "queued"
        BY <4>1, WriteFields DEF HeldQueued
      <4>3. h # w.n
        BY <3>3, <4>2
      <4>4. {n \in 1..MaxWrites : fate'[n] = "dropped"} = Lost \cup {h}
        BY <3>2, <3>3, <3>5, <4>2, <4>3 DEF Lost
      <4>5. h \notin Lost
        BY <4>2 DEF Lost
      <4> HIDE DEF h
      <4>6. Cardinality(Lost \cup {h}) = Cardinality(Lost) + 1
        BY <4>5, LostFinite, FS_AddElement
      <4> QED
        BY <3>2, <3>5, <4>4, <4>6 DEF DroppedIsExact, Lost
    <3> QED
      BY <3>4, <3>5
  <2> QED
    BY <1>1, <2>1, <2>2, EnqueueCases
<1>2. CASE DrainAbandons \/ CloseAbandons
  <2>1. SetFate(Members(pending), "dropped") /\ dropped' = dropped + Len(pending)
    BY <1>2 DEF DrainAbandons, CloseAbandons, AbandonPending, CountDropped
  <2> QED
    BY <1>0, <2>1, LossCounted DEF HeldQueued, InOrder
<1>3. CASE AbandonRest
  <2>1. SetFate(Members(rest), "dropped") /\ dropped' = dropped + Len(rest)
    BY <1>3 DEF AbandonRest, CountDropped
  <2> QED
    BY <1>0, <2>1, LossCounted DEF HeldQueued, InOrder
<1>4. CASE ReplayDone
  <2>1. SetFate(Members(chunk), "dropped") /\ dropped' = dropped + Len(chunk) /\ pc = "replay"
    BY <1>4 DEF ReplayDone, CountDropped
  <2> QED
    BY <1>0, <2>1, LossCounted DEF HeldQueued, InOrder
<1>5. CASE TxCommit
  <2>1. \A n \in 1..MaxWrites : fate'[n] = "dropped" <=> fate[n] = "dropped"
    <3> TAKE n \in 1..MaxWrites
    <3>1. fate[n] = "dropped" => fate'[n] = "dropped"
      BY FatesFinal DEF Settled
    <3>2. fate'[n] = "dropped" => fate[n] = "dropped"
      BY <1>5 DEF TxCommit
    <3> QED
      BY <3>1, <3>2
  <2> QED
    BY <1>5, <2>1 DEF DroppedIsExact, TxCommit, queueVars
<1>6. CASE ReplayOne
  <2>1. PICK what \in {"skipped", "committed", "failed"} : SetFate({Head(chunk)}, what)
    BY <1>6 DEF ReplayOne
  <2>2. \A n \in 1..MaxWrites : fate'[n] = "dropped" <=> fate[n] = "dropped"
    <3> TAKE n \in 1..MaxWrites
    <3>1. fate[n] = "dropped" => fate'[n] = "dropped"
      BY FatesFinal DEF Settled
    <3>2. fate'[n] = "dropped" => fate[n] = "dropped"
      BY <2>1 DEF SetFate
    <3> QED
      BY <3>1, <3>2
  <2> QED
    BY <1>6, <2>2 DEF DroppedIsExact, ReplayOne, queueVars
<1>7. CASE UNCHANGED <<fate, dropped>>
  BY <1>7 DEF DroppedIsExact
<1>8. [Next]_vars => \/ Enqueues \/ DrainAbandons \/ CloseAbandons \/ AbandonRest \/ ReplayDone
                     \/ TxCommit \/ ReplayOne \/ UNCHANGED <<fate, dropped>>
  BY DEF Next, vars, Enqueues, Flusher, queueVars, histVars, Woken, Commanded, DrainIdle, TakeBatch,
         NextChunk, BatchDone, TxFail, CompleteChunk, CompleteOne, ClientBegins, ClientStep,
         ClientChecks, ClientLocks, ClientFlushed, ClientActs, CloseBegins, CloseTimesOut, CloseStep,
         CloseDrained, CloseDatabase
<1> QED
  BY <1>1, <1>2, <1>3, <1>4, <1>5, <1>6, <1>7, <1>8

-----------------------------------------------------------------------------
(* What the database shows *)

\* The line only grows by an enqueue.
LEMMA HeldShrinks ==
  ASSUME TypeOK, Batched, [Next]_vars, ~Enqueues PROVE Held' \subseteq Held
<1>1. CASE DrainAbandons \/ CloseAbandons
  <2>1. pending' = <<>> /\ UNCHANGED <<chunk, rest>>
    BY <1>1 DEF DrainAbandons, CloseAbandons, AbandonPending, flusherVars
  <2> QED
    BY <2>1, MembersEmpty DEF Held
<1>2. CASE TakeBatch
  <2>1. rest' = pending /\ pending' = <<>> /\ chunk' = chunk
    BY <1>2 DEF TakeBatch
  <2> QED
    BY <2>1, MembersEmpty DEF Held
<1>3. CASE NextChunk
  <2>1. rest = chunk' \o rest' /\ chunk' \in Seq(Write) /\ rest' \in Seq(Write)
    BY <1>3, ChunkMove
  <2>2. Members(chunk' \o rest') = Members(chunk') \cup Members(rest')
    BY <2>1, MembersConcat
  <2>3. Members(rest) = Members(chunk') \cup Members(rest') /\ UNCHANGED pending
    BY <1>3, <2>1, <2>2 DEF NextChunk, queueVars
  <2> QED
    BY <2>3 DEF Held
<1>4. CASE AbandonRest
  BY <1>4, MembersEmpty DEF AbandonRest, Held
<1>5. CASE CompleteChunk \/ ReplayDone
  BY <1>5, MembersEmpty DEF CompleteChunk, ReplayDone, Held
<1>6. CASE CompleteOne
  <2>1. /\ <<Head(chunk)>> \in Seq(Write) /\ chunk' \in Seq(Write) /\ chunk = <<Head(chunk)>> \o chunk'
        /\ UNCHANGED <<rest, pending>>
    BY <1>6, HeadMove DEF CompleteOne
  <2>2. Members(chunk') \subseteq Members(<<Head(chunk)>> \o chunk')
    BY <2>1, MembersConcat
  <2>3. Members(chunk') \subseteq Members(chunk)
    BY <2>1, <2>2
  <2> QED
    BY <2>1, <2>3 DEF Held
<1>7. CASE UNCHANGED <<chunk, rest, pending, accepted>>
  BY <1>7 DEF Held
<1> QED
  BY <1>1, <1>2, <1>3, <1>4, <1>5, <1>6, <1>7, LineMoves

\* What applying the writes of s does to the row of one flow.
LEMMA RowsOf ==
  ASSUME TypeOK, NEW s \in Seq(Write), RowsAfter(s), NEW f \in Flows
  PROVE  /\ (\A i \in Landing(s) : s[i].id # f) => rowVer'[f] = rowVer[f] /\ rowTags'[f] = rowTags[f]
         /\ \/ rowVer'[f] = rowVer[f]
            \/ \E i \in Landing(s) : s[i].id = f /\ s[i].kind # "tags" /\ rowVer'[f] = s[i].n
         /\ rowTags'[f] = rowTags[f] \cup {s[i].n : i \in {j \in Landing(s) : s[j].id = f /\ s[j].kind = "tags"}}
         /\ rowVer'[f] \in 0..MaxWrites
         /\ rowVer[f] > 0 => rowVer'[f] > 0
         /\ (\E i \in Landing(s) : s[i].id = f) => rowVer'[f] > 0
<1>0. rowVer[f] \in 0..MaxWrites /\ rowVer'[f] \in 0..MaxWrites /\ ShowsLast(s, f, rowVer'[f])
  BY DEF TypeOK, RowsType, RowsAfter
<1> DEFINE content == {i \in Landing(s) : s[i].id = f /\ s[i].kind # "tags"}
<1>1. rowTags'[f] = rowTags[f] \cup {s[i].n : i \in {j \in Landing(s) : s[j].id = f /\ s[j].kind = "tags"}}
  BY DEF RowsAfter
<1>2. content = {} => rowVer'[f] = rowVer[f]
  BY <1>0 DEF ShowsLast
<1>3. content # {} => \E i \in content : rowVer'[f] = s[i].n
  BY <1>0 DEF ShowsLast
<1>4. \A i \in Landing(s) : i \in DOMAIN s /\ s[i].n \in 1..MaxWrites
  BY QueueElements DEF Landing
<1>5. content # {} => rowVer'[f] > 0
  BY <1>3, <1>4, BoundsAssumption DEF BoundsAssumption
<1>6. ASSUME NEW i \in Landing(s), s[i].id = f, ~(rowVer[f] > 0) PROVE content # {}
  <2>1. PICK j \in 1..i : s[j].id = s[i].id /\ s[j].kind = "insert"
    BY <1>6 DEF Landing
  <2>2. j \in DOMAIN s
    BY <1>4, LenProperties
  <2>3. j \in 1..j
    BY <2>1, <1>4, LenProperties
  <2>4. j \in Landing(s)
    BY <1>6, <2>1, <2>2, <2>3 DEF Landing
  <2> QED
    BY <1>6, <2>1, <2>4
<1>7. (\E i \in Landing(s) : s[i].id = f) => rowVer'[f] > 0
  BY <1>2, <1>5, <1>6
<1>8. rowVer[f] > 0 => rowVer'[f] > 0
  BY <1>2, <1>5
<1>9. (\A i \in Landing(s) : s[i].id # f) => rowTags'[f] = rowTags[f] /\ rowVer'[f] = rowVer[f]
  BY <1>1, <1>2
<1> QED
  BY <1>0, <1>1, <1>2, <1>3, <1>7, <1>8, <1>9

\* The only steps that write rows.
LEMMA RowMoves ==
  [Next]_vars =>
    \/ TxCommit /\ RowsAfter(chunk)
    \/ ReplayOne /\ RowsAfter(<<Head(chunk)>>) /\ SetFate({Head(chunk)}, "committed")
    \/ \E c \in Clients : ClientActs(c) /\ \E f : rowVer' = [rowVer EXCEPT ![f] = 0]
                                              /\ rowTags' = [rowTags EXCEPT ![f] = {}]
    \/ UNCHANGED <<rowVer, rowTags>>
<1>1. ReplayOne => \/ RowsAfter(<<Head(chunk)>>) /\ SetFate({Head(chunk)}, "committed")
                   \/ UNCHANGED <<rowVer, rowTags>>
  BY DEF ReplayOne
<1>2. TxCommit => RowsAfter(chunk)
  BY DEF TxCommit
<1>3. \A c \in Clients : ClientActs(c) =>
        \/ \E f : rowVer' = [rowVer EXCEPT ![f] = 0] /\ rowTags' = [rowTags EXCEPT ![f] = {}]
        \/ UNCHANGED <<rowVer, rowTags>>
  BY DEF ClientActs
<1>4. [Next]_vars => \/ TxCommit \/ ReplayOne \/ \E c \in Clients : ClientActs(c)
                     \/ UNCHANGED <<rowVer, rowTags>>
  BY DEF Next, vars, dbVars, EnqueueInsertFlow, EnqueueUpdateFlow, EnqueueAddFlowTags, EnqueueMore,
         Flusher, Woken, Commanded, DrainAbandons, DrainIdle, TakeBatch, NextChunk, AbandonRest,
         BatchDone, TxFail, CompleteChunk, CompleteOne, ReplayDone, ClientBegins, ClientStep,
         ClientChecks, ClientLocks, ClientFlushed, CloseBegins, CloseTimesOut, CloseStep,
         CloseDrained, CloseAbandons, CloseDatabase
<1> QED
  BY <1>1, <1>2, <1>3, <1>4

\* Every row, void mark and queued write is of a flow that was inserted; a flow is
\* inserted once, and its row and its void mark come after its insert.
Inserted ==
  /\ \A f \in Flows : rowVer[f] > 0 \/ rowTags[f] # {} => f <= nextFlowID
  /\ \A f \in void : f <= nextFlowID
  /\ \A w \in Held : w.id <= nextFlowID
  /\ \A v, w \in Held : v.kind = "insert" /\ w.kind = "insert" /\ v.id = w.id => v = w
  /\ \A w \in Held : w.kind = "insert" /\ fate[w.n] = "queued" =>
       rowVer[w.id] = 0 /\ rowTags[w.id] = {} /\ w.id \notin void

\* The writes a step applies to rows: what they are and what becomes of them.
LEMMA Applies ==
  ASSUME TypeOK, Batched, InOrder, HeldQueued,
         NEW s, \/ TxCommit /\ s = chunk
                \/ ReplayOne /\ s = <<Head(chunk)>>
  PROVE  /\ s \in Seq(Write) /\ Members(s) \subseteq Members(chunk)
         /\ \A w \in Members(s) : fate[w.n] = "queued" /\ fate'[w.n] \in Settled /\ fate'[w.n] # "dropped"
         /\ UNCHANGED <<nextFlowID, void, chunk, rest, pending, accepted, deleted, dbOpen, client, closed>>
<1>0. chunk \in Seq(Write) /\ HistoryType
  BY DEF TypeOK, BatchType
<1>1. CASE TxCommit /\ s = chunk
  <2>1. \A w \in Members(chunk) : fate'[w.n] \in {"committed", "skipped"}
    <3>1. \A i \in DOMAIN chunk : chunk[i].n \in 1..MaxWrites
      BY <1>0, QueueElements
    <3> QED
      BY <1>1, <3>1 DEF TxCommit, Members
  <2> QED
    BY <1>0, <1>1, <2>1 DEF TxCommit, HeldQueued, queueVars, clientVars, Settled
<1>2. CASE ReplayOne /\ s = <<Head(chunk)>>
  <2>1. chunk # <<>> /\ pc = "replay"
    BY <1>2 DEF ReplayOne
  <2>2. <<Head(chunk)>> \in Seq(Write) /\ Members(<<Head(chunk)>>) = {Head(chunk)}
        /\ Head(chunk) \in Members(chunk) /\ Head(chunk) \in Write
    BY <1>0, <2>1, HeadCut, HeadApart, MembersOne DEF InOrder
  <2>3. PICK what \in {"skipped", "committed", "failed"} : SetFate({Head(chunk)}, what)
    BY <1>2 DEF ReplayOne
  <2>4. fate'[Head(chunk).n] = what
    BY <1>0, <2>2, <2>3, Sealed
  <2>5. fate[Head(chunk).n] = "queued"
    BY <2>1, <2>2 DEF HeldQueued
  <2> QED
    BY <1>2, <2>2, <2>4, <2>5 DEF ReplayOne, queueVars, clientVars, Settled
<1> QED
  BY <1>1, <1>2

\* Rows only appear for a flow with a row, or with its insert among the writes.
LEMMA LandingOf ==
  ASSUME NEW s \in Seq(Write), NEW i \in Landing(s)
  PROVE  /\ s[i] \in Members(s) /\ s[i].id \notin void
         /\ rowVer[s[i].id] > 0 \/ \E w \in Members(s) : w.id = s[i].id /\ w.kind = "insert"
<1>1. i \in DOMAIN s /\ \A j \in 1..i : j \in DOMAIN s
  BY LenProperties DEF Landing
<1> QED
  BY <1>1 DEF Landing, Members

\* A flow becomes void when its queued insert is dropped.
LEMMA Voided ==
  ASSUME TypeOK, HeldQueued, [Next]_vars, NEW f \in void'
  PROVE  \/ f \in void
         \/ \E v \in Members(pending) : /\ v.kind = "insert" /\ v.id = f
                                        /\ fate[v.n] = "queued" /\ fate'[v.n] = "dropped"
<1>0. pending \in Seq(Write) /\ HistoryType
  BY DEF TypeOK, QueueType
<1>1. CASE Enqueues
  <2>1. CASE Skips
    BY <2>1 DEF Skips
  <2>2. CASE Appends
    <3>1. PICK w \in Write : Append1(w) /\ w.n = accepted + 1
      BY <2>2 DEF Appends, Numbered
    <3>2. CASE ~Full
      BY <3>1, <3>2 DEF Append1
    <3>3. CASE Full
      <4>1. Head(pending) \in Members(pending) /\ Head(pending) \in Write
        BY <3>1, <3>3, AppendMove, AppendMembers
      <4>2. Head(pending).n \in 1..MaxWrites /\ fate[Head(pending).n] = "queued"
        BY <4>1, WriteFields DEF HeldQueued
      <4>3. w.n \in 1..MaxWrites /\ fate[w.n] = "none"
        <5>1. w.n \in 1..MaxWrites
          BY WriteFields
        <5>2. w.n > accepted
          BY <3>1, BoundsAssumption DEF TypeOK, HistoryType, BoundsAssumption
        <5> QED
          BY <5>1, <5>2 DEF HeldQueued
      <4>4. fate'[Head(pending).n] = "dropped"
        BY <3>1, <3>3, <4>2, <4>3 DEF Append1
      <4>5. void' = void \cup Inserts({Head(pending)})
        BY <3>1, <3>3 DEF Append1
      <4> QED
        BY <4>1, <4>2, <4>4, <4>5 DEF Inserts
    <3> QED
      BY <3>2, <3>3
  <2> QED
    BY <1>1, <2>1, <2>2, EnqueueCases
<1>2. CASE DrainAbandons \/ CloseAbandons
  <2>1. SetFate(Members(pending), "dropped") /\ void' = void \cup Inserts(Members(pending))
    BY <1>2 DEF DrainAbandons, CloseAbandons, AbandonPending
  <2>2. \A v \in Members(pending) : fate'[v.n] = "dropped" /\ fate[v.n] = "queued"
    BY <1>0, <2>1, Sealed, MembersWrites DEF HeldQueued
  <2> QED
    BY <2>1, <2>2 DEF Inserts
<1>3. CASE CompleteChunk \/ CompleteOne
  BY <1>3 DEF CompleteChunk, CompleteOne, Complete
<1>4. [Next]_vars => \/ Enqueues \/ DrainAbandons \/ CloseAbandons \/ CompleteChunk \/ CompleteOne
                     \/ UNCHANGED void
  BY DEF Next, vars, Enqueues, Flusher, queueVars, Woken, Commanded, DrainIdle, TakeBatch, NextChunk,
         AbandonRest, BatchDone, TxCommit, TxFail, ReplayOne, ReplayDone, ClientBegins, ClientStep,
         ClientChecks, ClientLocks, ClientFlushed, ClientActs, CloseBegins, CloseTimesOut, CloseStep,
         CloseDrained, CloseDatabase
<1> QED
  BY <1>1, <1>2, <1>3, <1>4

\* Only an insert takes a flow id.
LEMMA IdsGrow ==
  ASSUME TypeOK, [Next]_vars
  PROVE  nextFlowID' = nextFlowID \/ (Enqueues /\ Appends /\ nextFlowID' = nextFlowID + 1)
<1>1. CASE EnqueueInsertFlow
  <2>1. Enqueues /\ nextFlowID' # nextFlowID /\ nextFlowID' = nextFlowID + 1
    BY <1>1 DEF Enqueues, EnqueueInsertFlow, TypeOK, QueueType
  <2> QED
    BY <2>1, EnqueueCases DEF Skips
<1>2. [Next]_vars /\ ~EnqueueInsertFlow => UNCHANGED nextFlowID
  BY DEF Next, vars, Flusher, EnqueueUpdateFlow, EnqueueAddFlowTags, EnqueueMore, queueVars, Woken,
         Commanded, DrainAbandons, DrainIdle, TakeBatch, NextChunk, AbandonRest, BatchDone, TxCommit,
         TxFail, CompleteChunk, ReplayOne, CompleteOne, ReplayDone, ClientBegins, ClientStep,
         ClientChecks, ClientLocks, ClientFlushed, ClientActs, CloseBegins, CloseTimesOut, CloseStep,
         CloseDrained, CloseAbandons, CloseDatabase
<1> QED
  BY <1>1, <1>2

\* What the line holds after a write is appended.
LEMMA HeldAppend ==
  ASSUME TypeOK, Enqueues, NEW w \in Write, Append1(w)
  PROVE  Held' \subseteq Held \cup {w} /\ w \in Held'
<1>1. Members(pending') = Members(Kept) \cup {w} /\ Members(Kept) \subseteq Members(pending)
  BY AppendMembers
<1>2. UNCHANGED <<chunk, rest>>
  BY EnqueueCases
<1> QED
  BY <1>1, <1>2 DEF Held

\* Rows and void marks follow the inserts.
LEMMA InsertedStep ==
  TypeOK /\ Batched /\ InOrder /\ HeldQueued /\ Inserted /\ [Next]_vars => Inserted'
<1> SUFFICES ASSUME TypeOK, Batched, InOrder, HeldQueued, Inserted, [Next]_vars PROVE Inserted'
    OBVIOUS
<1>0. /\ nextFlowID \in Nat /\ nextFlowID' \in Nat /\ nextFlowID' >= nextFlowID
      /\ accepted \in Nat /\ rowVer \in [Flows -> 0..MaxWrites]
      /\ rowTags \in [Flows -> SUBSET (1..MaxWrites)] /\ void \subseteq Flows
  <2>1. nextFlowID \in Nat
    BY BoundsAssumption DEF TypeOK, QueueType, BoundsAssumption
  <2>2. nextFlowID' \in Nat /\ nextFlowID' >= nextFlowID
    BY <2>1, IdsGrow
  <2>3. accepted \in Nat
    BY BoundsAssumption DEF TypeOK, HistoryType, BoundsAssumption
  <2> QED
    BY <2>1, <2>2, <2>3 DEF TypeOK, QueueType, RowsType
<1>1. \A w \in Held : w \in Write /\ w.n \in 1..MaxWrites /\ w.n \in Nat /\ w.id \in Flows
  BY LineApart, WriteFields, BoundsAssumption DEF BoundsAssumption
<1>2. \A w \in Held : fate'[w.n] = "queued" => fate[w.n] = "queued"
  BY <1>0, <1>1, FatesFinal DEF InOrder
<1>3. \A f \in void' : f <= nextFlowID
  BY Voided DEF Inserted, Held
<1>4. ASSUME NEW w \in Held, w.kind = "insert", fate'[w.n] = "queued" PROVE w.id \notin void'
  <2>1. w.id \notin void /\ fate[w.n] = "queued"
    BY <1>2, <1>4 DEF Inserted
  <2>2. ASSUME NEW v \in Members(pending), v.kind = "insert", v.id = w.id, fate'[v.n] = "dropped" PROVE FALSE
    <3>1. v = w
      BY <1>4, <2>2 DEF Inserted, Held
    <3> QED
      BY <1>4, <2>2, <3>1
  <2> QED
    BY <2>1, <2>2, Voided
<1>5. CASE Enqueues
  <2>0. UNCHANGED <<rowVer, rowTags>>
    BY <1>5, EnqueueCases
  <2>1. CASE Skips
    <3>1. UNCHANGED <<nextFlowID, void>> /\ Held' = Held
      BY <1>5, <2>1, EnqueueCases DEF Skips, Held
    <3> QED
      BY <1>2, <2>0, <3>1 DEF Inserted
  <2>2. CASE Appends
    <3>1. PICK w \in Write : Append1(w) /\ Numbered(w)
      BY <2>2 DEF Appends
    <3>2. Held' \subseteq Held \cup {w}
      BY <1>5, <3>1, HeldAppend
    <3>3. w.id <= nextFlowID'
      BY <1>0, <3>1 DEF Numbered
    <3>4. \A v \in Held' : v.id <= nextFlowID'
      BY <1>0, <1>1, <3>2, <3>3 DEF Inserted
    <3>5. w.kind = "insert" => \A v \in Held : v.id # w.id
      BY <1>0, <1>1, <3>1 DEF Numbered, Inserted
    <3>6. w.kind = "insert" => w.id \notin void' /\ rowVer[w.id] = 0 /\ rowTags[w.id] = {}
      <4>1. w.kind = "insert" => ~(w.id <= nextFlowID) /\ w.id \in Flows
        BY <1>0, <3>1, WriteFields DEF Numbered
      <4> QED
        BY <1>0, <1>3, <4>1 DEF Inserted
    <3>7. \A u, v \in Held' : u.kind = "insert" /\ v.kind = "insert" /\ u.id = v.id => u = v
      BY <3>2, <3>5 DEF Inserted
    <3>8. \A v \in Held' : v.kind = "insert" /\ fate'[v.n] = "queued" =>
            rowVer[v.id] = 0 /\ rowTags[v.id] = {} /\ v.id \notin void'
      <4> TAKE v \in Held'
      <4>1. CASE v = w
        BY <3>6, <4>1
      <4>2. CASE v \in Held
        BY <1>2, <1>4, <4>2 DEF Inserted
      <4> QED
        BY <3>2, <4>1, <4>2
    <3>9. \A f \in Flows : rowVer[f] > 0 \/ rowTags[f] # {} => f <= nextFlowID'
      BY <1>0 DEF Inserted
    <3>10. \A f \in void' : f <= nextFlowID'
      <4>1. \A f \in void' : f \in Nat
        <5>1. void' \subseteq Flows
          BY <3>1, AppendType DEF TypeOK
        <5> QED
          BY <5>1, BoundsAssumption DEF BoundsAssumption
      <4> QED
        BY <1>0, <1>3, <4>1
    <3> QED
      BY <2>0, <3>4, <3>7, <3>8, <3>9, <3>10 DEF Inserted
  <2> QED
    BY <1>5, <2>1, <2>2, EnqueueCases
<1>6. CASE ~Enqueues
  <2>1. Held' \subseteq Held
    BY <1>6, HeldShrinks
  <2>2. nextFlowID' = nextFlowID
    BY <1>6, IdsGrow
  <2>3. ASSUME NEW s, \/ TxCommit /\ s = chunk
                      \/ ReplayOne /\ s = <<Head(chunk)>>,
               RowsAfter(s)
        PROVE  Inserted'
    <3>1. /\ s \in Seq(Write) /\ Members(s) \subseteq Held
          /\ \A w \in Members(s) : fate'[w.n] # "queued"
          /\ Held' = Held
      BY <2>3, Applies DEF Held, Settled
    <3>2. ASSUME NEW f \in Flows, rowVer'[f] # rowVer[f] \/ rowTags'[f] # rowTags[f]
          PROVE  \E w \in Members(s) : w.id = f /\ (rowVer[f] > 0 \/ w.kind = "insert")
      <4>1. PICK i \in Landing(s) : s[i].id = f
        BY <2>3, <3>1, <3>2, RowsOf
      <4> QED
        BY <3>1, <4>1, LandingOf
    <3>3. \A f \in Flows : rowVer'[f] > 0 \/ rowTags'[f] # {} => f <= nextFlowID
      BY <3>1, <3>2 DEF Inserted
    <3>4. ASSUME NEW w \in Held, w.kind = "insert", fate'[w.n] = "queued"
          PROVE  rowVer'[w.id] = 0 /\ rowTags'[w.id] = {}
      <4>1. rowVer[w.id] = 0 /\ rowTags[w.id] = {} /\ w.id \in Flows
        BY <1>1, <1>2, <3>4 DEF Inserted
      <4>2. \A v \in Members(s) : ~(v.id = w.id /\ v.kind = "insert")
        BY <3>1, <3>4 DEF Inserted
      <4>3. ~(rowVer[w.id] > 0)
        BY <4>1
      <4> QED
        BY <3>2, <4>1, <4>2, <4>3
    <3> QED
      BY <1>3, <1>4, <2>2, <3>1, <3>3, <3>4 DEF Inserted
  <2>4. ASSUME \A f \in Flows : /\ rowVer'[f] = rowVer[f] \/ rowVer'[f] = 0
                                /\ rowTags'[f] = rowTags[f] \/ rowTags'[f] = {}
        PROVE  Inserted'
    <3>1. \A f \in Flows : rowVer'[f] > 0 \/ rowTags'[f] # {} => f <= nextFlowID
      BY <2>4 DEF Inserted
    <3>2. \A w \in Held : w.kind = "insert" /\ fate'[w.n] = "queued" =>
            rowVer'[w.id] = 0 /\ rowTags'[w.id] = {}
      BY <1>1, <1>2, <2>4 DEF Inserted
    <3> QED
      BY <1>3, <1>4, <2>1, <2>2, <3>1, <3>2 DEF Inserted
  <2>5. ASSUME NEW g, rowVer' = [rowVer EXCEPT ![g] = 0], rowTags' = [rowTags EXCEPT ![g] = {}]
        PROVE  Inserted'
    BY <1>0, <2>4, <2>5
  <2>6. CASE UNCHANGED <<rowVer, rowTags>>
    BY <2>4, <2>6
  <2> QED
    BY <2>3, <2>5, <2>6, RowMoves
<1> QED
  BY <1>5, <1>6

\* A write fails for itself, or because the database is closed.
LEMMA FailsForItself ==
  ASSUME TypeOK, Batched, InOrder, HeldQueued, [Next]_vars,
         NEW n \in 1..MaxWrites, fate'[n] = "failed", fate[n] # "failed"
  PROVE  dbOpen => n \in Bad
<1>1. CASE ReplayOne
  <2>1. \/ SetFate({Head(chunk)}, "skipped") \/ SetFate({Head(chunk)}, "committed")
        \/ SetFate({Head(chunk)}, "failed") /\ ~(dbOpen /\ Head(chunk).n \notin Bad)
    BY <1>1 DEF ReplayOne
  <2> QED
    BY <2>1 DEF SetFate
<1>2. CASE Enqueues
  <2>1. CASE Skips
    <3>1. fate \in [1..MaxWrites -> Fates]
      BY DEF TypeOK, HistoryType
    <3> QED
      BY <2>1, <3>1 DEF Skips
  <2>2. CASE Appends
    BY <2>2 DEF Appends, Append1
  <2> QED
    BY <1>2, <2>1, <2>2, EnqueueCases
<1>3. CASE DrainAbandons \/ CloseAbandons \/ AbandonRest \/ ReplayDone
  BY <1>3 DEF DrainAbandons, CloseAbandons, AbandonPending, AbandonRest, ReplayDone, SetFate
<1>4. CASE TxCommit
  BY <1>4 DEF TxCommit
<1> QED
  BY <1>1, <1>2, <1>3, <1>4, FateMoves

\* Every step keeps rows, void marks and fates in agreement.
LEMMA RowsStep ==
  TypeOK /\ Batched /\ InOrder /\ HeldQueued /\ Inserted /\ RowsMatchFates /\ [Next]_vars
    => RowsMatchFates'
<1> SUFFICES ASSUME TypeOK, Batched, InOrder, HeldQueued, Inserted, RowsMatchFates, [Next]_vars
             PROVE  RowsMatchFates'
    OBVIOUS
<1>0. /\ rowVer \in [Flows -> 0..MaxWrites] /\ rowTags \in [Flows -> SUBSET (1..MaxWrites)]
      /\ void \subseteq Flows /\ HistoryType
  BY DEF TypeOK, QueueType, HistoryType, RowsType
<1>1. \A n \in 1..MaxWrites : fate[n] = "committed" => fate'[n] = "committed"
  BY FatesFinal DEF Settled
<1>2. \A f \in Flows : rowVer[f] > 0 => rowVer[f] \in 1..MaxWrites
  BY <1>0, BoundsAssumption DEF BoundsAssumption
<1>3. dbOpen' => \A n \in 1..MaxWrites : fate'[n] = "failed" => n \in Bad
  <2>1. dbOpen' => dbOpen
    BY DEF Next, vars, dbVars, Flusher, EnqueueInsertFlow, EnqueueUpdateFlow, EnqueueAddFlowTags,
           EnqueueMore, Woken, Commanded, DrainAbandons, DrainIdle, TakeBatch, NextChunk, AbandonRest,
           BatchDone, TxCommit, TxFail, CompleteChunk, ReplayOne, CompleteOne, ReplayDone,
           ClientBegins, ClientStep, ClientChecks, ClientLocks, ClientFlushed, ClientActs,
           CloseBegins, CloseTimesOut, CloseStep, CloseDrained, CloseAbandons, CloseDatabase
  <2> QED
    BY <2>1, FailsForItself DEF RowsMatchFates
<1>4. \A f \in void' : f \in void \/ (f \in Flows /\ rowVer[f] = 0 /\ rowTags[f] = {})
  <2> TAKE f \in void'
  <2>1. CASE f \in void
    BY <2>1
  <2>2. ASSUME NEW v \in Members(pending), v.kind = "insert", v.id = f, fate[v.n] = "queued"
        PROVE  f \in Flows /\ rowVer[f] = 0 /\ rowTags[f] = {}
    <3>1. v \in Held /\ v \in Write
      BY LineApart DEF Held
    <3> QED
      BY <2>2, <3>1, WriteFields DEF Inserted
  <2> QED
    BY <2>1, <2>2, Voided
<1>5. \A f \in void' : f \in Flows /\ rowVer[f] = 0 /\ rowTags[f] = {}
  BY <1>0, <1>4 DEF RowsMatchFates
<1>6. ASSUME NEW s, \/ TxCommit /\ s = chunk
                    \/ ReplayOne /\ s = <<Head(chunk)>> /\ SetFate({Head(chunk)}, "committed"),
             RowsAfter(s)
      PROVE  RowsMatchFates'
  <2>1. s \in Seq(Write) /\ void' = void
    BY <1>6, Applies
  <2>2. \A i \in Landing(s) : s[i].n \in 1..MaxWrites /\ fate'[s[i].n] = "committed"
    <3> TAKE i \in Landing(s)
    <3>1. i \in DOMAIN s /\ s[i].n \in 1..MaxWrites
      BY <2>1, QueueElements DEF Landing
    <3>2. CASE TxCommit /\ s = chunk
      BY <3>1, <3>2 DEF TxCommit
    <3>3. CASE ReplayOne /\ s = <<Head(chunk)>> /\ SetFate({Head(chunk)}, "committed")
      <4>1. s[i] = Head(chunk)
        BY <3>1, <3>3
      <4> QED
        BY <3>1, <3>3, <4>1 DEF SetFate
    <3> QED
      BY <1>6, <3>1, <3>2, <3>3
  <2>3. ASSUME NEW f \in Flows PROVE rowVer'[f] > 0 => fate'[rowVer'[f]] = "committed"
    <3>1. CASE rowVer'[f] = rowVer[f]
      BY <1>1, <1>2, <3>1 DEF RowsMatchFates
    <3>2. CASE \E i \in Landing(s) : rowVer'[f] = s[i].n
      BY <2>2, <3>2
    <3> QED
      BY <1>6, <2>1, <3>1, <3>2, RowsOf
  <2>4. ASSUME NEW f \in Flows, NEW n \in rowTags'[f] PROVE fate'[n] = "committed" /\ rowVer'[f] > 0
    <3>1. CASE n \in rowTags[f]
      <4>1. fate[n] = "committed" /\ rowVer[f] > 0 /\ n \in 1..MaxWrites
        BY <1>0, <3>1 DEF RowsMatchFates
      <4> QED
        BY <1>1, <1>6, <2>1, <4>1, RowsOf
    <3>2. CASE \E i \in Landing(s) : s[i].id = f /\ n = s[i].n
      BY <1>6, <2>1, <2>2, <3>2, RowsOf
    <3>3. rowTags'[f] = rowTags[f] \cup {s[i].n : i \in {j \in Landing(s) : s[j].id = f /\ s[j].kind = "tags"}}
      BY <1>6, <2>1, RowsOf
    <3> QED
      BY <2>4, <3>1, <3>2, <3>3
  <2>5. ASSUME NEW f \in void PROVE rowVer'[f] = 0 /\ rowTags'[f] = {}
    <3>1. \A i \in Landing(s) : s[i].id # f
      BY <2>1, LandingOf
    <3> QED
      BY <1>0, <1>6, <2>1, <3>1, RowsOf DEF RowsMatchFates
  <2> QED
    BY <1>3, <2>1, <2>3, <2>4, <2>5 DEF RowsMatchFates
<1>7. ASSUME \A f \in Flows : \/ rowVer'[f] = rowVer[f] /\ rowTags'[f] = rowTags[f]
                              \/ rowVer'[f] = 0 /\ rowTags'[f] = {}
      PROVE  RowsMatchFates'
  <2>1. ASSUME NEW f \in Flows
        PROVE  /\ rowVer'[f] > 0 => fate'[rowVer'[f]] = "committed"
               /\ \A n \in rowTags'[f] : fate'[n] = "committed" /\ rowVer'[f] > 0
    <3>1. CASE rowVer'[f] = rowVer[f] /\ rowTags'[f] = rowTags[f]
      BY <1>0, <1>1, <1>2, <3>1 DEF RowsMatchFates
    <3>2. CASE rowVer'[f] = 0 /\ rowTags'[f] = {}
      BY <3>2
    <3> QED
      BY <1>7, <3>1, <3>2
  <2>2. \A f \in void' : rowVer'[f] = 0 /\ rowTags'[f] = {}
    BY <1>5, <1>7
  <2> QED
    BY <1>3, <2>1, <2>2 DEF RowsMatchFates
<1>8. ASSUME NEW g, rowVer' = [rowVer EXCEPT ![g] = 0], rowTags' = [rowTags EXCEPT ![g] = {}]
      PROVE  RowsMatchFates'
  BY <1>0, <1>7, <1>8
<1>9. CASE UNCHANGED <<rowVer, rowTags>>
  BY <1>7, <1>9
<1> QED
  BY <1>6, <1>8, <1>9, RowMoves

-----------------------------------------------------------------------------
(* The theorems about the line *)

\* The inductive invariant of the line, without the counts.
LineInv == Batched /\ InOrder /\ HeldQueued /\ Closing

\* An empty store has nothing in the line.
LEMMA LineInit == Init => LineInv /\ BusyInv /\ DroppedIsExact /\ Inserted /\ RowsMatchFates
<1> SUFFICES ASSUME Init PROVE LineInv /\ BusyInv /\ DroppedIsExact /\ Inserted /\ RowsMatchFates
    OBVIOUS
<1>1. Members(chunk) = {} /\ Members(rest) = {} /\ Members(pending) = {} /\ Held = {}
  BY MembersEmpty DEF Init, Held
<1>2. Batched /\ Closing
  BY DEF Init, Batched, Closing
<1>3. InOrder
  BY <1>1, RisingShort DEF Init, InOrder, Ahead
<1>4. HeldQueued
  BY <1>1 DEF Init, HeldQueued
<1>5. BusyInv
  BY CountEmpty DEF Init, BusyInv
<1>6. DroppedIsExact
  <2>1. {n \in 1..MaxWrites : fate[n] = "dropped"} = {}
    BY DEF Init
  <2> QED
    BY <2>1, FS_EmptySet DEF Init, DroppedIsExact
<1>7. Inserted
  BY <1>1 DEF Init, Inserted
<1>8. RowsMatchFates
  BY DEF Init, RowsMatchFates
<1> QED
  BY <1>2, <1>3, <1>4, <1>5, <1>6, <1>7, <1>8 DEF LineInv

\* The line is inductive.
LEMMA LineStep == TypeOK /\ LineInv /\ [Next]_vars => LineInv'
BY BatchedStep, InOrderStep, HeldQueuedStep, ClosingStep DEF LineInv

\* The line holds in every state.
LEMMA LineSafe == Spec => [](TypeOK /\ LineInv)
<1>1. Init => LineInv
  BY LineInit
<1> QED
  BY <1>1, LineStep, TypeCorrect, PTL DEF Spec

\* Until shutdown gives up, the busy count of a flow is the number of its writes
\* still on their way: through drops, abandoned queues, chunks and replays, every
\* bump of flowPendingN has its finishFlowPendingLocked (writebehind.go).
THEOREM BusyCountIsExact == Spec => []BusyIsExact
<1>1. Init => BusyInv
  BY LineInit
<1>2. (TypeOK /\ LineInv) /\ BusyInv /\ [Next]_vars => BusyInv'
  BY BusyStep DEF LineInv
<1>3. (TypeOK /\ LineInv) /\ BusyInv => BusyIsExact
  BY LineCounts DEF BusyInv, BusyIsExact
<1> QED
  BY <1>1, <1>2, <1>3, LineSafe, PTL DEF Spec

\* FlowsDropped is the number of writes lost to the full buffer and to shutdown,
\* each counted once.
THEOREM DroppedCountIsExact == Spec => []DroppedIsExact
<1>1. Init => DroppedIsExact
  BY LineInit
<1>2. (TypeOK /\ LineInv) /\ DroppedIsExact /\ [Next]_vars => DroppedIsExact'
  BY DroppedStep DEF LineInv
<1> QED
  BY <1>1, <1>2, LineSafe, PTL DEF Spec

\* A flow is inserted once, and its row and its void mark come after its insert.
LEMMA InsertedSafe == Spec => []Inserted
<1>1. Init => Inserted
  BY LineInit
<1>2. (TypeOK /\ LineInv) /\ Inserted /\ [Next]_vars => Inserted'
  BY InsertedStep DEF LineInv
<1> QED
  BY <1>1, <1>2, LineSafe, PTL DEF Spec

\* Rows and tags come from committed writes, a flow whose insert was dropped has
\* neither, and a write is only refused for itself or by a closed database, however
\* chunks fail and are replayed (applyFlowOpsOneByOne).
THEOREM RowsShowCommitted == Spec => []RowsMatchFates
<1>1. Init => RowsMatchFates
  BY LineInit
<1>2. (TypeOK /\ LineInv) /\ Inserted /\ RowsMatchFates /\ [Next]_vars => RowsMatchFates'
  BY RowsStep DEF LineInv
<1> QED
  BY <1>1, <1>2, LineSafe, InsertedSafe, PTL DEF Spec

-----------------------------------------------------------------------------
(* Readers and deletions wait long enough *)

\* While the store is open, the one command under way is the flush of the client
\* that holds flowCmdMu: in the channel, served, or answered.
CommandInv ==
  ~closed =>
    /\ opCh \in {"none", "flush"} /\ cmd \in {"none", "flush"}
    /\ cmdMu = Nobody => opCh = "none" /\ cmd = "none" /\ ~answered
    /\ opCh # "none" => cmd = "none" /\ ~answered
    /\ cmd # "none" => ~answered
    /\ pc = "select" => cmd = "none"
    /\ \A c \in Clients : client[c].at = "wait" =>
         cmdMu = c /\ (opCh = "flush" \/ cmd = "flush" \/ answered)

\* The queue is closed once and for all.
LEMMA ClosedStays == [Next]_vars /\ closed => closed'
BY DEF Next, vars, queueVars, Flusher, EnqueueInsertFlow, EnqueueUpdateFlow, EnqueueAddFlowTags,
       EnqueueMore, Woken, Commanded, DrainAbandons, DrainIdle, TakeBatch, NextChunk, AbandonRest,
       BatchDone, TxCommit, TxFail, CompleteChunk, ReplayOne, CompleteOne, ReplayDone, ClientBegins,
       ClientStep, ClientChecks, ClientLocks, ClientFlushed, ClientActs, CloseBegins, CloseTimesOut,
       CloseStep, CloseDrained, CloseAbandons, CloseDatabase

\* A client's step leaves the queue, the flusher and the other clients alone.
LEMMA ClientAlone ==
  ASSUME TypeOK, NEW c \in Clients, ClientBegins(c) \/ ClientStep(c)
  PROVE  /\ UNCHANGED <<nextFlowID, pending, pendingN, void, closed, giveUp, pc, cmd, pass,
                        chunk, rest, accepted, fate, closer>>
         /\ \A d \in Clients \ {c} : client'[d] = client[d]
         /\ ClientStep(c) /\ client'[c].at # "idle" =>
              /\ client[c].at # "idle" /\ client'[c].id = client[c].id
              /\ client'[c].seen = client[c].seen /\ client'[c].want = client[c].want
<1>0. client \in [Clients -> ClientState] /\ client[c] \in ClientState
  BY DEF TypeOK
<1>1. UNCHANGED <<nextFlowID, pending, pendingN, void, closed, giveUp, pc, cmd, pass,
                  chunk, rest, accepted, fate, closer>>
  BY DEF ClientBegins, ClientStep, ClientChecks, ClientLocks, ClientFlushed, ClientActs, queueVars,
         flusherVars, histVars
<1>2. \A d \in Clients \ {c} : client'[d] = client[d]
  BY <1>0 DEF ClientBegins, ClientStep, ClientChecks, ClientLocks, ClientFlushed, ClientActs
<1>3. CASE ClientChecks(c) \/ ClientLocks(c)
  <2>1. PICK a \in {"lock", "act", "wait"} : client' = [client EXCEPT ![c].at = a]
    BY <1>3 DEF ClientChecks, ClientLocks
  <2>2. client[c].at # "idle"
    BY <1>3 DEF ClientChecks, ClientLocks
  <2> QED
    BY <1>0, <1>1, <1>2, <2>1, <2>2 DEF ClientState
<1>4. CASE ClientFlushed(c)
  BY <1>0, <1>1, <1>2, <1>4 DEF ClientFlushed, ClientState
<1>5. CASE ClientActs(c)
  BY <1>0, <1>1, <1>2, <1>5 DEF ClientActs, Idle
<1>6. CASE ClientBegins(c) /\ ~ClientStep(c)
  BY <1>1, <1>2, <1>6
<1> QED
  BY <1>3, <1>4, <1>5, <1>6 DEF ClientStep

\* The command channel is inductive: flowCmdMu lets one flush in at a time.
LEMMA CommandStep == TypeOK /\ Closing /\ CommandInv /\ [Next]_vars => CommandInv'
<1> SUFFICES ASSUME TypeOK, Closing, CommandInv, [Next]_vars, ~closed' PROVE CommandInv'
    BY DEF CommandInv
<1>0. ~closed /\ client \in [Clients -> ClientState] /\ answered \in BOOLEAN
  BY ClosedStays DEF TypeOK, ControlType
<1> USE <1>0 DEF CommandInv
<1>1. CASE Enqueues
  BY <1>1, EnqueueCases
<1>2. CASE Woken \/ Commanded
  BY <1>2 DEF Woken, Commanded, cmdVars, clientVars
<1>3. CASE DrainAbandons \/ DrainIdle
  <2>1. DrainReturns /\ UNCHANGED <<cmdMu, opCh, client>>
    BY <1>3 DEF DrainAbandons, DrainIdle, clientVars
  <2> QED
    BY <2>1 DEF DrainReturns
<1>4. CASE BatchDone
  <2>1. UNCHANGED <<cmdMu, opCh, client>> /\ (DrainReturns \/ (pc' = "drain" /\ UNCHANGED <<cmd, answered>>))
    BY <1>4 DEF BatchDone, clientVars
  <2> QED
    BY <2>1 DEF DrainReturns
<1>5. CASE TakeBatch \/ NextChunk \/ AbandonRest \/ TxCommit \/ TxFail
  BY <1>5 DEF TakeBatch, NextChunk, AbandonRest, TxCommit, TxFail, cmdVars, clientVars
<1>6. CASE CompleteChunk \/ ReplayOne \/ CompleteOne \/ ReplayDone
  BY <1>6 DEF CompleteChunk, ReplayOne, CompleteOne, ReplayDone, cmdVars, clientVars
<1>7. ASSUME NEW c \in Clients, ClientBegins(c) \/ ClientStep(c) PROVE CommandInv'
  <2>1. UNCHANGED <<pc, cmd>> /\ \A d \in Clients \ {c} : client'[d] = client[d]
    BY <1>7, ClientAlone
  <2>2. CASE ClientBegins(c) \/ ClientChecks(c) \/ ClientActs(c)
    <3>1. UNCHANGED <<cmdMu, opCh, answered>>
      BY <2>2 DEF ClientBegins, ClientChecks, ClientActs, cmdVars
    <3>2. client'[c].at # "wait"
      <4>1. CASE ClientBegins(c)
        BY <4>1 DEF ClientBegins
      <4>2. CASE ClientChecks(c)
        BY <4>2 DEF ClientChecks, ClientState
      <4>3. CASE ClientActs(c)
        BY <4>3 DEF ClientActs, Idle
      <4> QED
        BY <2>2, <4>1, <4>2, <4>3
    <3> QED
      BY <2>1, <3>1, <3>2
  <2>3. CASE ClientLocks(c)
    <3>1. cmdMu = Nobody /\ cmdMu' = c /\ opCh' = "flush" /\ UNCHANGED answered
      BY <2>3 DEF ClientLocks
    <3>2. \A d \in Clients : client[d].at # "wait"
      BY <3>1, ClientsAssumption
    <3>3. c # Nobody
      BY ClientsAssumption
    <3> QED
      BY <2>1, <3>1, <3>2, <3>3
  <2>4. CASE ClientFlushed(c)
    <3>1. client[c].at = "wait" /\ answered /\ answered' = FALSE /\ cmdMu' = Nobody /\ opCh' = opCh
      BY <2>4 DEF ClientFlushed
    <3>2. client'[c].at # "wait"
      BY <2>4 DEF ClientFlushed, ClientState
    <3>3. opCh = "none" /\ cmd = "none"
      BY <3>1
    <3>4. \A d \in Clients : client'[d].at # "wait"
      BY <2>1, <3>1, <3>2
    <3> QED
      BY <2>1, <3>1, <3>3, <3>4
  <2> QED
    BY <1>7, <2>2, <2>3, <2>4 DEF ClientStep
<1>8. CASE CloseBegins
  BY <1>8 DEF CloseBegins
<1>9. CASE CloseTimesOut \/ CloseDrained \/ CloseAbandons
  BY <1>9 DEF CloseTimesOut, CloseDrained, CloseAbandons, Closing
<1>10. CASE CloseDatabase \/ UNCHANGED vars
  BY <1>10 DEF CloseDatabase, vars, cmdVars, flusherVars, clientVars
<1> QED
  BY <1>1, <1>2, <1>3, <1>4, <1>5, <1>6, <1>7, <1>8, <1>9, <1>10 DEF Next, Flusher, CloseStep, Enqueues

\* No write of W that the call k must wait for: those of its flow, up to the last
\* one accepted when it began.
Past(k, W) == \A w \in W : w.id = k.id => w.n > k.seen

\* A drain that has taken its first batch.
Underway == pc \in {"chunk", "tx", "complete", "replay", "completeOne"} \/ (pc = "drain" /\ pass > 0)

\* A call that was answered once, or goes on, has no write left to wait for; while
\* its flush is served, what it waits for has left the queue with the first batch.
FlushInv ==
  /\ \A c \in Clients : client[c].seen <= accepted
  /\ ~closed => \A c \in Clients :
       /\ client[c].at = "wait" /\ cmd = "flush" /\ Underway => Past(client[c], Members(pending))
       /\ \/ client[c].tries > 0 \/ client[c].at = "act"
          \/ (client[c].at = "wait" /\ answered)
          => Past(client[c], Held)

\* A queue without a write of a flow holds none.
LEMMA NoneOf ==
  ASSUME NEW s \in Seq(Write), NEW f \in Flows, CountOf(s, f) = 0
  PROVE  \A w \in Members(s) : w.id # f
<1>1. {i \in DOMAIN s : s[i].id = f} = {}
  BY PlacesFinite, FS_EmptySet DEF CountOf
<1> QED
  BY <1>1 DEF Members

\* A flow whose busy count is zero has no write on its way.
LEMMA IdleFlow ==
  ASSUME TypeOK, BusyInv, ~giveUp, NEW f \in Flows, pendingN[f] = 0
  PROVE  \A w \in Held : w.id # f
<1>0. chunk \in Seq(Write) /\ rest \in Seq(Write) /\ pending \in Seq(Write)
  BY DEF TypeOK, BatchType, QueueType
<1>1. CountOf(chunk, f) \in Nat /\ CountOf(rest, f) \in Nat /\ CountOf(pending, f) \in Nat
  BY <1>0, CountOfNat
<1>2. CountOf(chunk, f) + CountOf(rest, f) + CountOf(pending, f) = 0
  BY DEF BusyInv
<1>3. CountOf(chunk, f) = 0 /\ CountOf(rest, f) = 0 /\ CountOf(pending, f) = 0
  <2>1. \A a, b, c \in Nat : a + b + c = 0 => a = 0 /\ b = 0 /\ c = 0
    OBVIOUS
  <2> QED
    BY ONLY <1>1, <1>2, <2>1
<1> QED
  BY <1>0, <1>3, NoneOf DEF Held

\* Calls are about flows that were inserted, before they began.
SeenInv ==
  \A c \in Clients : client[c].at # "idle" =>
    /\ client[c].id \in 1..nextFlowID
    /\ \A w \in Held : w.kind = "insert" /\ w.id = client[c].id => w.n <= client[c].seen

\* SeenInv is inductive: numbers and flow ids are given out in order.
LEMMA SeenStep == TypeOK /\ Batched /\ InOrder /\ SeenInv /\ [Next]_vars => SeenInv'
<1> SUFFICES ASSUME TypeOK, Batched, InOrder, SeenInv, [Next]_vars PROVE SeenInv'
    OBVIOUS
<1>0. client \in [Clients -> ClientState] /\ nextFlowID \in Nat
  BY BoundsAssumption DEF TypeOK, QueueType, BoundsAssumption
<1>1. CASE Enqueues
  <2>0. UNCHANGED client
    BY <1>1, EnqueueCases
  <2>1. CASE Skips
    <3>1. Held' = Held /\ nextFlowID' = nextFlowID
      BY <1>1, <2>1, EnqueueCases DEF Skips, Held
    <3> QED
      BY <2>0, <3>1 DEF SeenInv
  <2>2. CASE Appends
    <3>1. PICK w \in Write : Append1(w) /\ Numbered(w)
      BY <2>2 DEF Appends
    <3>2. Held' \subseteq Held \cup {w}
      BY <1>1, <3>1, HeldAppend
    <3>3. ASSUME NEW c \in Clients, client[c].at # "idle"
          PROVE  client[c].id \in 1..nextFlowID' /\ ~(w.kind = "insert" /\ w.id = client[c].id)
      BY <1>0, <3>1, <3>3 DEF Numbered, SeenInv
    <3> QED
      BY <2>0, <3>2, <3>3 DEF SeenInv
  <2> QED
    BY <1>1, <2>1, <2>2, EnqueueCases
<1>2. ASSUME NEW c \in Clients, ClientBegins(c) \/ ClientStep(c) PROVE SeenInv'
  <2>1. UNCHANGED nextFlowID /\ Held' = Held
    BY <1>2, ClientAlone DEF Held
  <2>2. \A d \in Clients \ {c} : client'[d] = client[d]
    BY <1>2, ClientAlone
  <2>3. CASE ClientBegins(c)
    <3>1. client'[c].id \in 1..nextFlowID /\ client'[c].seen = accepted
      BY <1>0, <2>3 DEF ClientBegins
    <3> QED
      BY <2>1, <2>2, <3>1 DEF SeenInv, InOrder
  <2>4. CASE ClientStep(c)
    <3>1. client'[c].at # "idle" => /\ client[c].at # "idle" /\ client'[c].id = client[c].id
                                   /\ client'[c].seen = client[c].seen
      BY <2>4, ClientAlone
    <3> QED
      BY <2>1, <2>2, <3>1 DEF SeenInv
  <2> QED
    BY <1>2, <2>3, <2>4
<1>3. CASE ~Enqueues /\ UNCHANGED client
  <2>1. Held' \subseteq Held /\ nextFlowID' = nextFlowID
    BY <1>3, HeldShrinks, IdsGrow
  <2> QED
    BY <1>3, <2>1 DEF SeenInv
<1> QED
  BY <1>1, <1>2, <1>3, ClientsOnly

\* A step of the queue, the flusher or Close keeps what a call may rely on.
LEMMA FlushByOthers ==
  ASSUME TypeOK, LineInv, CommandInv, FlushInv, [Next]_vars, ~closed', UNCHANGED client,
         NEW c \in Clients
  PROVE  /\ client[c].at = "wait" /\ cmd' = "flush" /\ Underway' => Past(client[c], Members(pending'))
         /\ \/ client[c].tries > 0 \/ client[c].at = "act"
            \/ (client[c].at = "wait" /\ answered')
            => Past(client[c], Held')
<1>0. ~closed /\ client[c] \in ClientState /\ client[c].seen \in Nat /\ accepted \in Nat
      /\ client[c].seen <= accepted
  BY ClosedStays, BoundsAssumption DEF TypeOK, ClientState, FlushInv, HistoryType, BoundsAssumption
<1>1. CASE Enqueues
  <2>0. UNCHANGED <<cmd, pc, pass, answered>>
    BY <1>1, EnqueueCases
  <2>1. CASE Skips
    <3>1. UNCHANGED pending /\ Held' = Held
      BY <1>1, <2>1, EnqueueCases DEF Skips, Held
    <3> QED
      BY <1>0, <2>0, <3>1 DEF FlushInv, Underway
  <2>2. CASE Appends
    <3>1. PICK w \in Write : Append1(w) /\ w.n = accepted + 1
      BY <2>2 DEF Appends, Numbered
    <3>2. Held' \subseteq Held \cup {w} /\ Members(pending') \subseteq Members(pending) \cup {w}
      BY <1>1, <3>1, HeldAppend, AppendMembers
    <3>3. w.n > client[c].seen
      BY <1>0, <3>1
    <3> QED
      BY <1>0, <2>0, <3>2, <3>3 DEF FlushInv, Past, Underway
  <2> QED
    BY <1>1, <2>1, <2>2, EnqueueCases
<1>2. CASE ~Enqueues
  <2>0. Held' \subseteq Held
    BY <1>2, HeldShrinks DEF LineInv
  <2>1. client[c].at = "wait" /\ answered' => answered \/ Past(client[c], Held')
    <3>1. CASE UNCHANGED answered
      BY <3>1
    <3>2. CASE DrainAbandons \/ DrainIdle
      <4>1. chunk' = <<>> /\ rest' = <<>> /\ pending' = <<>>
        BY <3>2 DEF DrainAbandons, DrainIdle, AbandonPending, LineInv, Batched, queueVars
      <4> QED
        BY <4>1, MembersEmpty DEF Past, Held
    <3>3. CASE BatchDone
      <4>1. chunk' = <<>> /\ rest' = <<>> /\ pending' = pending /\ pc = "chunk"
        BY <3>3 DEF BatchDone, LineInv, Batched
      <4>2. Held' = Members(pending)
        BY <4>1, MembersEmpty DEF Held
      <4>3. answered' => answered \/ cmd # "none"
        BY <3>3 DEF BatchDone, DrainReturns
      <4>4. cmd # "none" => cmd = "flush"
        BY <1>0 DEF CommandInv
      <4> QED
        BY <1>0, <4>1, <4>2, <4>3, <4>4 DEF FlushInv, Underway
    <3>4. [Next]_vars /\ UNCHANGED client =>
            answered' = FALSE \/ UNCHANGED answered \/ DrainAbandons \/ DrainIdle \/ BatchDone
      BY DEF Next, vars, cmdVars, Flusher, EnqueueInsertFlow, EnqueueUpdateFlow, EnqueueAddFlowTags,
             EnqueueMore, Woken, Commanded, TakeBatch, NextChunk, AbandonRest, TxCommit, TxFail,
             CompleteChunk, ReplayOne, CompleteOne, ReplayDone, ClientBegins, ClientStep,
             ClientChecks, ClientLocks, ClientFlushed, ClientActs, CloseBegins, CloseTimesOut,
             CloseStep, CloseDrained, CloseAbandons, CloseDatabase
    <3> QED
      BY <3>1, <3>2, <3>3, <3>4
  <2>2. \/ client[c].tries > 0 \/ client[c].at = "act" \/ (client[c].at = "wait" /\ answered')
        => Past(client[c], Held')
    BY <1>0, <2>0, <2>1 DEF FlushInv, Past
  <2>3. client[c].at = "wait" /\ cmd' = "flush" /\ Underway' => Past(client[c], Members(pending'))
    <3>1. CASE Woken \/ Commanded \/ DrainAbandons \/ DrainIdle
      BY <3>1 DEF Woken, Commanded, DrainAbandons, DrainIdle, DrainReturns, Underway
    <3>2. CASE TakeBatch
      <4>1. pending' = <<>>
        BY <3>2 DEF TakeBatch
      <4> QED
        BY <4>1, MembersEmpty DEF Past
    <3>3. CASE \/ NextChunk \/ AbandonRest \/ BatchDone \/ TxCommit \/ TxFail
               \/ CompleteChunk \/ ReplayOne \/ CompleteOne \/ ReplayDone
      <4>1. Underway /\ UNCHANGED pending
        BY <3>3 DEF NextChunk, AbandonRest, BatchDone, TxCommit, TxFail, CompleteChunk, ReplayOne,
                    CompleteOne, ReplayDone, queueVars, Underway
      <4>2. cmd' = "flush" => cmd = "flush"
        BY <3>3 DEF NextChunk, AbandonRest, BatchDone, DrainReturns, TxCommit, TxFail, CompleteChunk,
                    ReplayOne, CompleteOne, ReplayDone
      <4> QED
        BY <1>0, <4>1, <4>2 DEF FlushInv
    <3>4. CASE UNCHANGED <<pc, cmd, pass, chunk, rest>>
      <4>1. Members(pending') \subseteq Members(pending)
        <5>1. pending' = <<>> \/ UNCHANGED pending
          <6>1. [Next]_vars /\ ~Enqueues /\ ~Flusher => UNCHANGED pending \/ CloseAbandons
            BY DEF Next, vars, Enqueues, queueVars, ClientBegins, ClientStep, ClientChecks, ClientLocks,
                   ClientFlushed, ClientActs, CloseBegins, CloseTimesOut, CloseStep, CloseDrained,
                   CloseDatabase
          <6>2. CloseAbandons => pending' = <<>>
            BY DEF CloseAbandons, AbandonPending
          <6>3. Flusher /\ UNCHANGED <<pc, cmd, pass, chunk, rest>> => pending' = <<>> \/ UNCHANGED pending
            BY DEF Flusher, Woken, Commanded, DrainAbandons, DrainIdle, TakeBatch, NextChunk, AbandonRest,
                   BatchDone, TxCommit, TxFail, CompleteChunk, ReplayOne, CompleteOne, ReplayDone,
                   AbandonPending, queueVars
          <6> QED
            BY <1>2, <3>4, <6>1, <6>2, <6>3
        <5> QED
          BY <5>1, MembersEmpty
      <4>2. Underway' => Underway
        BY <3>4 DEF Underway
      <4> QED
        BY <1>0, <3>4, <4>1, <4>2 DEF FlushInv, Past
    <3> QED
      BY <3>1, <3>2, <3>3, <3>4, FlusherOnly DEF Flusher
  <2> QED
    BY <2>2, <2>3
<1> QED
  BY <1>1, <1>2

\* A call that goes on without a flush has no write to wait for.
LEMMA ChecksEnough ==
  ASSUME TypeOK, LineInv, BusyInv, FlushInv, SeenInv, ~closed, NEW c \in Clients,
         client[c].at = "check", ~MustFlush(client[c])
  PROVE  Past(client[c], Held)
<1>0. ~giveUp /\ client[c].tries \in Nat /\ client[c].id \in Flows
      /\ client[c].want \in {"read", "delete"} /\ pendingN \in [Flows -> Nat]
  <2>1. client[c] \in ClientState /\ nextFlowID \in 0..MaxFlows
    BY DEF TypeOK, QueueType
  <2>2. client[c].id \in 1..nextFlowID
    BY DEF SeenInv
  <2>3. client[c].id \in Flows
    BY <2>1, <2>2, BoundsAssumption DEF BoundsAssumption
  <2> QED
    BY <2>1, <2>3 DEF LineInv, Closing, ClientState, TypeOK, QueueType
<1>1. CASE client[c].tries > 0
  BY <1>1 DEF FlushInv
<1>2. CASE ~(client[c].tries > 0)
  <2>1. client[c].tries = 0
    BY <1>0, <1>2
  <2>2. pendingN[client[c].id] = 0
    BY <1>0, <2>1, BoundsAssumption DEF MustFlush, BusyID, FlowsBusy, BoundsAssumption
  <2> QED
    BY <1>0, <2>2, IdleFlow DEF Past
<1> QED
  BY <1>1, <1>2

\* FlushInv is inductive: the first batch of a flush takes every write its call has
\* seen, and what is queued later is newer.
LEMMA FlushStep ==
  TypeOK /\ LineInv /\ BusyInv /\ CommandInv /\ SeenInv /\ FlushInv /\ [Next]_vars => FlushInv'
<1> SUFFICES ASSUME TypeOK, LineInv, BusyInv, CommandInv, SeenInv, FlushInv, [Next]_vars PROVE FlushInv'
    OBVIOUS
<1>0. client \in [Clients -> ClientState] /\ accepted \in Nat /\ answered \in BOOLEAN
  BY BoundsAssumption DEF TypeOK, ControlType, HistoryType, BoundsAssumption
<1>1. \A c \in Clients : client'[c].seen <= accepted'
  <2>1. CASE UNCHANGED client
    <3>1. accepted' = accepted \/ accepted' = accepted + 1
      <4>1. Enqueues => accepted' = accepted + 1
        BY EnqueueCases DEF Appends, Append1, Numbered, Skips
      <4>2. ~Enqueues => accepted' = accepted
        BY FateMoves DEF DrainAbandons, CloseAbandons, AbandonRest, TxCommit, ReplayOne, ReplayDone
      <4> QED
        BY <4>1, <4>2
    <3>2. \A c \in Clients : client[c].seen \in Nat
      BY <1>0, BoundsAssumption DEF ClientState, BoundsAssumption
    <3> QED
      BY <1>0, <2>1, <3>1, <3>2 DEF FlushInv
  <2>2. ASSUME NEW c \in Clients, ClientBegins(c) \/ ClientStep(c)
        PROVE  \A d \in Clients : client'[d].seen <= accepted'
    <3>1. UNCHANGED accepted /\ \A d \in Clients \ {c} : client'[d] = client[d]
      BY <2>2, ClientAlone
    <3>2. client'[c].seen <= accepted
      <4>1. CASE ClientBegins(c)
        BY <1>0, <4>1 DEF ClientBegins
      <4>2. CASE ClientActs(c)
        BY <1>0, <4>2 DEF ClientActs, Idle
      <4>3. CASE ClientStep(c) /\ ~ClientActs(c)
        <5>1. client'[c].at # "idle"
          BY <1>0, <4>3 DEF ClientStep, ClientChecks, ClientLocks, ClientFlushed, ClientState
        <5> QED
          BY <4>3, <5>1, ClientAlone DEF FlushInv
      <4> QED
        BY <2>2, <4>1, <4>2, <4>3
    <3> QED
      BY <3>1, <3>2 DEF FlushInv
  <2> QED
    BY <2>1, <2>2, ClientsOnly
<1>2. ASSUME ~closed', NEW c \in Clients, ClientBegins(c) \/ ClientStep(c), NEW d \in Clients
      PROVE  /\ client'[d].at = "wait" /\ cmd = "flush" /\ Underway => Past(client'[d], Members(pending))
             /\ \/ client'[d].tries > 0 \/ client'[d].at = "act"
                \/ (client'[d].at = "wait" /\ answered')
                => Past(client'[d], Held)
  <2>0. ~closed
    BY <1>2, ClosedStays
  <2>1. answered' => answered
    BY <1>2 DEF ClientBegins, ClientStep, ClientChecks, ClientLocks, ClientFlushed, ClientActs, cmdVars
  <2>2. CASE d # c
    <3>1. client'[d] = client[d]
      BY <1>2, <2>2, ClientAlone
    <3> QED
      BY <2>0, <2>1, <3>1 DEF FlushInv
  <2>3. CASE d = c
    <3>1. CASE ClientBegins(c)
      BY <1>0, <2>3, <3>1 DEF ClientBegins
    <3>2. CASE ClientActs(c)
      BY <1>0, <2>3, <3>2 DEF ClientActs, Idle
    <3>3. CASE ClientChecks(c)
      <4>1. PICK a \in {"lock", "act"} : /\ client' = [client EXCEPT ![c].at = a]
                                         /\ a = "act" => ~MustFlush(client[c])
        BY <3>3 DEF ClientChecks
      <4>2. /\ client'[c].at = a /\ client'[c].tries = client[c].tries
            /\ client'[c].id = client[c].id /\ client'[c].seen = client[c].seen
        BY <1>0, <4>1 DEF ClientState
      <4>3. a = "act" => Past(client[c], Held)
        BY <2>0, <3>3, <4>1, ChecksEnough DEF ClientChecks
      <4> QED
        BY <2>0, <2>3, <4>2, <4>3 DEF FlushInv, Past
    <3>4. CASE ClientLocks(c)
      <4>1. cmdMu = Nobody /\ client' = [client EXCEPT ![c].at = "wait"] /\ UNCHANGED answered
        BY <2>0, <3>4 DEF ClientLocks
      <4>2. /\ client'[c].at = "wait" /\ client'[c].tries = client[c].tries
            /\ client'[c].id = client[c].id /\ client'[c].seen = client[c].seen
        BY <1>0, <4>1 DEF ClientState
      <4>3. cmd = "none" /\ ~answered
        BY <2>0, <4>1 DEF CommandInv
      <4> QED
        BY <2>0, <2>3, <4>1, <4>2, <4>3 DEF FlushInv, Past
    <3>5. CASE ClientFlushed(c)
      <4>1. client[c].at = "wait" /\ answered
        BY <3>5 DEF ClientFlushed
      <4>2. /\ client'[c].at \in {"check", "act"} /\ client'[c].id = client[c].id /\ client'[c].seen = client[c].seen
        BY <1>0, <3>5 DEF ClientFlushed, ClientState
      <4>3. Past(client[c], Held)
        BY <2>0, <4>1 DEF FlushInv
      <4> QED
        BY <2>3, <4>2, <4>3 DEF Past
    <3> QED
      BY <1>2, <3>1, <3>2, <3>3, <3>4, <3>5 DEF ClientStep
  <2> QED
    BY <2>2, <2>3
<1>3. ASSUME ~closed', NEW c \in Clients, ClientBegins(c) \/ ClientStep(c) PROVE FlushInv'
  <2>1. UNCHANGED <<pending, pc, pass, cmd>> /\ Held' = Held
    BY <1>3, ClientAlone DEF Held
  <2> QED
    BY <1>1, <1>2, <1>3, <2>1 DEF FlushInv, Underway
<1>4. ASSUME ~closed', UNCHANGED client PROVE FlushInv'
  BY <1>1, <1>4, FlushByOthers DEF FlushInv
<1>5. CASE closed'
  BY <1>1, <1>5 DEF FlushInv
<1> QED
  BY <1>3, <1>4, <1>5, ClientsOnly

\* A deleted flow has no row, and no insert on its way that could bring it back.
DeletedInv ==
  \A f \in deleted :
    /\ rowVer[f] = 0 /\ rowTags[f] = {} /\ f <= nextFlowID
    /\ \A w \in Held : w.kind = "insert" => w.id # f

\* DeletedInv is inductive: a flow is inserted once, and its insert is off the line
\* when the delete reaches SQLite.
LEMMA DeletedStep ==
  TypeOK /\ LineInv /\ SeenInv /\ FlushInv /\ DeletedInv /\ [Next]_vars => DeletedInv'
<1> SUFFICES ASSUME TypeOK, LineInv, SeenInv, FlushInv, DeletedInv, [Next]_vars PROVE DeletedInv'
    OBVIOUS
<1>0. /\ rowVer \in [Flows -> 0..MaxWrites] /\ rowTags \in [Flows -> SUBSET (1..MaxWrites)]
      /\ nextFlowID \in Nat /\ deleted \subseteq Flows /\ client \in [Clients -> ClientState]
  BY BoundsAssumption DEF TypeOK, QueueType, RowsType, HistoryType, BoundsAssumption
<1>1. CASE Enqueues
  <2>0. UNCHANGED <<rowVer, rowTags, deleted>>
    BY <1>1, EnqueueCases
  <2>1. CASE Skips
    <3>1. Held' = Held /\ nextFlowID' = nextFlowID
      BY <1>1, <2>1, EnqueueCases DEF Skips, Held
    <3> QED
      BY <2>0, <3>1 DEF DeletedInv
  <2>2. CASE Appends
    <3>1. PICK w \in Write : Append1(w) /\ Numbered(w)
      BY <2>2 DEF Appends
    <3>2. Held' \subseteq Held \cup {w}
      BY <1>1, <3>1, HeldAppend
    <3>3. \A f \in deleted : f \in Nat
      BY <1>0, BoundsAssumption DEF BoundsAssumption
    <3>4. ASSUME NEW f \in deleted PROVE f <= nextFlowID' /\ ~(w.kind = "insert" /\ w.id = f)
      BY <1>0, <3>1, <3>3, <3>4 DEF Numbered, DeletedInv
    <3> QED
      BY <2>0, <3>2, <3>4 DEF DeletedInv
  <2> QED
    BY <1>1, <2>1, <2>2, EnqueueCases
<1>2. ASSUME ~Enqueues PROVE Held' \subseteq Held /\ nextFlowID' = nextFlowID
  BY <1>2, HeldShrinks, IdsGrow DEF LineInv
<1>3. ASSUME NEW s, \/ TxCommit /\ s = chunk
                    \/ ReplayOne /\ s = <<Head(chunk)>>,
             RowsAfter(s)
      PROVE  DeletedInv'
  <2>1. /\ s \in Seq(Write) /\ Members(s) \subseteq Held /\ Held' = Held
        /\ UNCHANGED <<nextFlowID, deleted>>
    BY <1>3, Applies DEF Held, LineInv
  <2>2. ASSUME NEW f \in deleted PROVE rowVer'[f] = 0 /\ rowTags'[f] = {}
    <3>1. rowVer[f] = 0 /\ rowTags[f] = {} /\ ~(rowVer[f] > 0)
          /\ \A w \in Members(s) : ~(w.id = f /\ w.kind = "insert")
      BY <2>1 DEF DeletedInv
    <3>2. \A i \in Landing(s) : s[i].id # f
      BY <2>1, <3>1, LandingOf
    <3> QED
      BY <1>0, <1>3, <2>1, <3>1, <3>2, RowsOf
  <2> QED
    BY <2>1, <2>2 DEF DeletedInv
<1>4. ASSUME NEW c \in Clients, ClientActs(c) PROVE DeletedInv'
  <2>0. Held' = Held /\ nextFlowID' = nextFlowID
    BY <1>4, ClientAlone DEF Held, ClientStep
  <2>1. CASE client[c].want = "delete" /\ dbOpen
    <3> DEFINE k == client[c].id
    <3>1. /\ rowVer' = [rowVer EXCEPT ![k] = 0] /\ rowTags' = [rowTags EXCEPT ![k] = {}]
          /\ deleted' = IF closed THEN deleted ELSE deleted \cup {k}
          /\ client[c].at = "act"
      BY <1>4, <2>1 DEF ClientActs
    <3>2. k \in 1..nextFlowID /\ \A w \in Held : w.kind = "insert" /\ w.id = k => w.n <= client[c].seen
      BY <3>1 DEF SeenInv
    <3>3. k \in Flows
      <4>1. client[c] \in ClientState /\ client[c].id \in 0..MaxFlows
        BY <1>0 DEF ClientState
      <4> QED
        BY <1>0, <3>2, <4>1, BoundsAssumption DEF BoundsAssumption
    <3>4. ~closed => \A w \in Held : w.kind = "insert" => w.id # k
      <4>1. ~closed => Past(client[c], Held)
        BY <3>1 DEF FlushInv
      <4>2. \A w \in Held : w.n \in Nat
        BY LineApart, WriteFields, BoundsAssumption DEF LineInv, BoundsAssumption
      <4>3. client[c].seen \in Nat
        BY <1>0, BoundsAssumption DEF ClientState, BoundsAssumption
      <4> QED
        BY <3>2, <4>1, <4>2, <4>3 DEF Past
    <3>5. k <= nextFlowID
      BY <1>0, <3>2
    <3> HIDE DEF k
    <3>6. \A f \in Flows : /\ rowVer'[f] = IF f = k THEN 0 ELSE rowVer[f]
                           /\ rowTags'[f] = IF f = k THEN {} ELSE rowTags[f]
      BY <1>0, <3>1
    <3>7. \A f \in deleted' : f \in Flows /\ (f = k \/ f \in deleted) /\ (f = k /\ f \notin deleted => ~closed)
      BY <1>0, <3>1, <3>3
    <3> QED
      BY <2>0, <3>4, <3>5, <3>6, <3>7 DEF DeletedInv
  <2>2. CASE ~(client[c].want = "delete" /\ dbOpen)
    <3>1. UNCHANGED <<rowVer, rowTags, deleted>>
      BY <1>4, <2>2 DEF ClientActs
    <3> QED
      BY <2>0, <3>1 DEF DeletedInv
  <2> QED
    BY <2>1, <2>2
<1>5. CASE UNCHANGED <<rowVer, rowTags>> /\ ~Enqueues /\ \A c \in Clients : ~ClientActs(c)
  <2>1. UNCHANGED deleted
    <3>1. [Next]_vars => Enqueues \/ (\E c \in Clients : ClientActs(c)) \/ UNCHANGED deleted
      BY DEF Next, vars, histVars, Enqueues, Flusher, Woken, Commanded, DrainAbandons, DrainIdle,
             TakeBatch, NextChunk, AbandonRest, BatchDone, TxCommit, TxFail, CompleteChunk, ReplayOne,
             CompleteOne, ReplayDone, ClientBegins, ClientStep, ClientChecks, ClientLocks,
             ClientFlushed, CloseBegins, CloseTimesOut, CloseStep, CloseDrained, CloseAbandons,
             CloseDatabase
    <3> QED
      BY <1>5, <3>1
  <2> QED
    BY <1>2, <1>5, <2>1 DEF DeletedInv
<1> QED
  BY <1>1, <1>3, <1>4, <1>5, RowMoves

\* No call is under way in the initial state.
LEMMA ClientsInit == Init => CommandInv /\ SeenInv /\ FlushInv /\ DeletedInv
<1> SUFFICES ASSUME Init PROVE CommandInv /\ SeenInv /\ FlushInv /\ DeletedInv
    OBVIOUS
<1>1. \A c \in Clients : client[c] = Idle
  BY DEF Init
<1>2. CommandInv /\ SeenInv /\ DeletedInv
  BY <1>1 DEF Init, CommandInv, SeenInv, DeletedInv, Idle
<1>3. FlushInv
  BY <1>1 DEF Init, FlushInv, Idle
<1> QED
  BY <1>2, <1>3

\* The inductive invariant of the calls.
CallInv == BusyInv /\ CommandInv /\ SeenInv /\ FlushInv

\* The calls' invariant holds in every state.
LEMMA CallsSafe == Spec => [](TypeOK /\ LineInv /\ CallInv)
<1>1. Init => CallInv
  BY LineInit, ClientsInit DEF CallInv
<1>2. (TypeOK /\ LineInv) /\ CallInv /\ [Next]_vars => CallInv'
  BY BusyStep, CommandStep, SeenStep, FlushStep DEF CallInv, LineInv
<1> QED
  BY <1>1, <1>2, LineSafe, PTL DEF Spec

\* When GetFlow or DeleteFlows goes on to SQLite in an open store, every write of
\* its flow accepted before the call has been applied or is lost: through the pass
\* cap, other clients' flushes and the enqueues in between.
THEOREM ReadsSeeAllCaptured == Spec => []ReadsSeeCapture
<1>1. (TypeOK /\ LineInv /\ CallInv) => ReadsSeeCapture
  <2> SUFFICES ASSUME TypeOK, LineInv, CallInv, NEW c \in Clients, client[c].at = "act", ~closed,
                      NEW w \in Members(chunk \o rest \o pending),
                      w.id = client[c].id, w.n <= client[c].seen
               PROVE  FALSE
    BY DEF ReadsSeeCapture
  <2>1. w \in Held /\ w.n \in Nat /\ client[c].seen \in Nat
    BY LineMembers, LineApart, WriteFields, BoundsAssumption
    DEF LineInv, TypeOK, ClientState, BoundsAssumption
  <2>2. w.n > client[c].seen
    BY <2>1 DEF CallInv, FlushInv, Past
  <2> QED
    BY <2>1, <2>2
<1> QED
  BY <1>1, CallsSafe, PTL

\* A flow deleted while capture was open never comes back: its insert has landed or
\* is lost when DeleteFlows deletes, and an update finds no row.
THEOREM DeletedNeverReturns == Spec => []DeletedStaysDeleted
<1>1. Init => DeletedInv
  BY ClientsInit
<1>2. (TypeOK /\ LineInv /\ CallInv) /\ DeletedInv /\ [Next]_vars => DeletedInv'
  BY DeletedStep DEF CallInv
<1>3. DeletedInv => DeletedStaysDeleted
  BY DEF DeletedInv, DeletedStaysDeleted
<1> QED
  BY <1>1, <1>2, <1>3, CallsSafe, PTL DEF Spec

-----------------------------------------------------------------------------
(* The queue keeps the promise of FlowCapture *)

\* The writes whose fate is open.
Waiting == {w \in Held : fate[w.n] = "queued"}

\* Those the flusher has left in its chunk.
Left == IF pc \in {"tx", "replay"} THEN Members(chunk)
        ELSE IF pc = "completeOne" THEN Members(Tail(chunk)) ELSE {}

\* The writes that wait, place by place.
LEMMA WaitingPlaces ==
  TypeOK /\ LineInv => Waiting = Left \cup Members(rest) \cup Members(pending)
<1> SUFFICES ASSUME TypeOK, LineInv PROVE Waiting = Left \cup Members(rest) \cup Members(pending)
    OBVIOUS
<1>1. chunk # <<>> => Members(chunk) = {Head(chunk)} \cup Members(Tail(chunk))
  BY HeadApart DEF TypeOK, BatchType, LineInv, InOrder
<1>2. \A w \in Members(rest) \cup Members(pending) : fate[w.n] = "queued"
  BY DEF LineInv, HeldQueued
<1>3. {w \in Members(chunk) : fate[w.n] = "queued"} = Left
  <2>1. CASE pc \in {"tx", "replay"}
    BY <2>1 DEF Left, LineInv, HeldQueued
  <2>2. CASE pc = "completeOne"
    BY <1>1, <2>2 DEF Left, LineInv, HeldQueued, Batched
  <2>3. CASE pc = "complete"
    BY <2>3 DEF Left, LineInv, HeldQueued
  <2>4. CASE pc \in {"select", "drain", "exit", "chunk"}
    BY <2>4, MembersEmpty DEF Left, LineInv, Batched
  <2> QED
    BY <2>1, <2>2, <2>3, <2>4 DEF TypeOK, ControlType
<1> QED
  BY <1>2, <1>3 DEF Waiting, Held

\* Both views of what waits, now and after a step.
LEMMA WaitingNow ==
  TypeOK => {w \in Members(chunk \o rest \o pending) : fate[w.n] = "queued"} = Waiting
BY LineMembers DEF Waiting

\* The same after the step.
LEMMA WaitingNext ==
  TypeOK' => {w \in Members(chunk' \o rest' \o pending') : fate'[w.n] = "queued"} = Waiting'
<1>1. (TypeOK => {w \in Members(chunk \o rest \o pending) : fate[w.n] = "queued"} = Waiting)'
  BY WaitingNow, PTL
<1> QED
  BY <1>1

\* The abstract writes are the writes.
LEMMA SameWrites == Promise!Write = Write /\ Promise!Flows = Flows
BY DEF Promise!Write, Write, Promise!Kinds, Kinds, Promise!Flows

\* The steps of FlowCapture, in terms of Waiting.
LEMMA MapsToStutter ==
  ASSUME TypeOK, TypeOK', Waiting' = Waiting, UNCHANGED <<accepted, rowVer, rowTags>>
  PROVE  UNCHANGED Promise!absVars
BY WaitingNow, WaitingNext DEF Promise!absVars

\* One write is accepted: it waits, or not at all.
LEMMA MapsToAccept ==
  ASSUME TypeOK, TypeOK', NEW w \in Write, w.n = accepted + 1, accepted' = w.n,
         Waiting' \in {Waiting, Waiting \cup {w}}, UNCHANGED <<rowVer, rowTags>>
  PROVE  Promise!Accept
BY WaitingNow, WaitingNext, SameWrites DEF Promise!Accept

\* One write is accepted, and an older one is lost.
LEMMA MapsToAcceptAndLose ==
  ASSUME TypeOK, TypeOK', NEW w \in Write, w.n = accepted + 1, accepted' = w.n, NEW v \in Waiting,
         Waiting' = (Waiting \ {v}) \cup {w}, UNCHANGED <<rowVer, rowTags>>
  PROVE  Promise!AcceptAndLose
BY WaitingNow, WaitingNext, SameWrites DEF Promise!AcceptAndLose

\* Some writes that waited are lost.
LEMMA MapsToLose ==
  ASSUME TypeOK, TypeOK', NEW S \in SUBSET Waiting,
         Waiting' = Waiting \ S, UNCHANGED <<accepted, rowVer, rowTags>>
  PROVE  Promise!Lose \/ UNCHANGED Promise!absVars
<1>1. CASE S = {}
  BY <1>1, MapsToStutter
<1>2. CASE S # {}
  BY <1>2, WaitingNow, WaitingNext DEF Promise!Lose
<1> QED
  BY <1>1, <1>2

\* The row and the tags of a flow go.
LEMMA MapsToDelete ==
  ASSUME TypeOK, TypeOK', NEW f \in Flows, Waiting' = Waiting, UNCHANGED accepted,
         rowVer' = [rowVer EXCEPT ![f] = 0], rowTags' = [rowTags EXCEPT ![f] = {}]
  PROVE  Promise!Delete
BY WaitingNow, WaitingNext, SameWrites DEF Promise!Delete

\* The writes that land in the abstract rows are those that land in SQLite: a void
\* flow has neither a row nor an insert that still waits.
LEMMA SameLanding ==
  ASSUME TypeOK, LineInv, Inserted, RowsMatchFates, NEW s \in Seq(Write), Rising(s),
         Members(s) \subseteq Waiting
  PROVE  Promise!Landing(Members(s)) = {s[i] : i \in Landing(s)}
<1>0. DOMAIN s = 1..Len(s) /\ Len(s) \in Nat /\ \A i \in DOMAIN s : s[i] \in Members(s) /\ s[i].n \in Nat
  BY LenProperties, QueueElements, BoundsAssumption DEF Members, BoundsAssumption
<1>1. ASSUME NEW w \in Members(s),
             \/ rowVer[w.id] > 0
             \/ \E v \in Members(s) : v.id = w.id /\ v.kind = "insert" /\ v.n <= w.n
      PROVE  \E i \in Landing(s) : w = s[i]
  <2>1. PICK i \in DOMAIN s : w = s[i]
    BY DEF Members
  <2>2. CASE rowVer[w.id] > 0
    <3>1. w.id \notin void
      BY <2>2 DEF RowsMatchFates
    <3> QED
      BY <2>1, <2>2, <3>1 DEF Landing
  <2>3. CASE \E v \in Members(s) : v.id = w.id /\ v.kind = "insert" /\ v.n <= w.n
    <3>1. PICK j \in DOMAIN s : s[j].id = w.id /\ s[j].kind = "insert" /\ s[j].n <= s[i].n
      BY <2>1, <2>3 DEF Members
    <3>2. s[j] \in Held /\ fate[s[j].n] = "queued"
      BY <1>0, <3>1 DEF Waiting
    <3>3. w.id \notin void
      BY <3>1, <3>2 DEF Inserted
    <3>4. ~(i < j)
      BY <1>0, <3>1 DEF Rising
    <3>5. j \in 1..i
      BY <1>0, <3>4
    <3> QED
      BY <2>1, <3>1, <3>3, <3>5 DEF Landing
  <2> QED
    BY <1>1, <2>2, <2>3
<1>2. ASSUME NEW i \in Landing(s)
      PROVE  /\ s[i] \in Members(s)
             /\ \/ rowVer[s[i].id] > 0
                \/ \E v \in Members(s) : v.id = s[i].id /\ v.kind = "insert" /\ v.n <= s[i].n
  <2>1. i \in DOMAIN s
    BY DEF Landing
  <2>2. ASSUME NEW j \in 1..i, s[j].id = s[i].id, s[j].kind = "insert"
        PROVE  s[j] \in Members(s) /\ s[j].n <= s[i].n
    <3>1. j \in DOMAIN s /\ (j < i \/ j = i)
      BY <1>0, <2>1
    <3> QED
      BY <1>0, <2>1, <3>1 DEF Rising
  <2> QED
    BY <1>0, <2>1, <2>2 DEF Landing
<1>3. Promise!Landing(Members(s)) =
        {w \in Members(s) : \/ rowVer[w.id] > 0
                            \/ \E v \in Members(s) : v.id = w.id /\ v.kind = "insert" /\ v.n <= w.n}
  BY DEF Promise!Landing
<1> QED
  BY <1>1, <1>2, <1>3

\* Applying the oldest writes, in order, is a commit of FlowCapture.
LEMMA MapsToCommit ==
  ASSUME TypeOK, TypeOK', LineInv, Inserted, RowsMatchFates,
         NEW s \in Seq(Write), s # <<>>, Rising(s), Members(s) \subseteq Waiting,
         \A w \in Members(s), v \in Waiting : v.n < w.n => v \in Members(s),
         RowsAfter(s), Waiting' = Waiting \ Members(s), UNCHANGED accepted
  PROVE  Promise!Commit
<1> DEFINE L == Promise!Landing(Members(s))
<1>0. DOMAIN s = 1..Len(s) /\ Len(s) \in Nat /\ \A i \in DOMAIN s : s[i].n \in Nat
  BY LenProperties, QueueElements, BoundsAssumption DEF BoundsAssumption
<1>1. L = {s[i] : i \in Landing(s)} /\ \A i \in Landing(s) : i \in DOMAIN s
  BY SameLanding DEF Landing
<1>2. Members(s) # {}
  <2>1. Head(s) \in Members(s)
    BY HeadApart
  <2> QED
    BY <2>1
<1>3. Promise!NoOvertaking(Members(s))
  BY WaitingNow DEF Promise!NoOvertaking
<1>4. ASSUME NEW f \in Flows PROVE Promise!ShowsNewest(L, f, rowVer'[f])
  <2> DEFINE here == {i \in Landing(s) : s[i].id = f /\ s[i].kind # "tags"}
             there == {w \in L : w.id = f /\ w.kind # "tags"}
  <2>1. there = {s[i] : i \in here}
    BY <1>1
  <2>2. ShowsLast(s, f, rowVer'[f])
    BY DEF RowsAfter
  <2>3. CASE here = {}
    <3>1. there = {} /\ rowVer'[f] = rowVer[f]
      BY <2>1, <2>2, <2>3 DEF ShowsLast
    <3> QED
      BY <3>1 DEF Promise!ShowsNewest
  <2>4. CASE here # {}
    <3>1. PICK i \in here : rowVer'[f] = s[i].n /\ \A j \in here : j <= i
      BY <2>2, <2>4 DEF ShowsLast
    <3>2. \A j \in here : s[j].n <= s[i].n
      <4> TAKE j \in here
      <4>1. i \in DOMAIN s /\ j \in DOMAIN s /\ (j < i \/ j = i)
        BY <1>0, <1>1, <3>1
      <4> QED
        BY <1>0, <4>1 DEF Rising
    <3>3. s[i] \in there /\ \A x \in there : x.n <= s[i].n
      BY <2>1, <3>1, <3>2
    <3> QED
      BY <3>1, <3>3 DEF Promise!ShowsNewest
  <2> QED
    BY <2>3, <2>4
<1>5. rowTags' = [f \in Flows |-> rowTags[f] \cup {w.n : w \in {x \in L : x.id = f /\ x.kind = "tags"}}]
  <2>1. ASSUME NEW f \in Flows
        PROVE  {s[i].n : i \in {j \in Landing(s) : s[j].id = f /\ s[j].kind = "tags"}}
                 = {w.n : w \in {x \in L : x.id = f /\ x.kind = "tags"}}
    BY <1>1
  <2> HIDE DEF L
  <2> QED
    BY <2>1 DEF RowsAfter
<1>6. rowVer' \in [Flows -> 0..MaxWrites]
  BY DEF RowsAfter
<1> HIDE DEF L
<1>7. Promise!Landing(Members(s)) = L
  BY DEF L
<1> QED
  BY <1>2, <1>3, <1>4, <1>5, <1>6, <1>7, WaitingNow, WaitingNext, SameWrites DEF Promise!Commit

\* The same after the step.
LEMMA PlacesNext ==
  TypeOK' /\ LineInv' => Waiting' = Left' \cup Members(rest') \cup Members(pending')
<1>1. (TypeOK /\ LineInv => Waiting = Left \cup Members(rest) \cup Members(pending))'
  BY WaitingPlaces, PTL
<1> QED
  BY <1>1

\* The places do not share a write.
LEMMA PlacesApart ==
  ASSUME TypeOK, LineInv
  PROVE  /\ Left \subseteq Members(chunk)
         /\ Members(chunk) \cap Members(rest) = {} /\ Members(chunk) \cap Members(pending) = {}
         /\ Members(rest) \cap Members(pending) = {}
<1>1. pc = "completeOne" => chunk # <<>>
  BY DEF LineInv, Batched
<1>2. Left \subseteq Members(chunk)
  BY <1>1, HeadApart DEF Left, TypeOK, BatchType, LineInv, InOrder
<1> QED
  BY <1>2, LineApart DEF Apart, LineInv

\* Accepting a write: it waits, or is discarded at once, and a full buffer loses
\* its oldest.
LEMMA EnqueueMaps ==
  ASSUME TypeOK, TypeOK', LineInv, LineInv', Enqueues
  PROVE  Promise!Accept \/ Promise!AcceptAndLose
<1>0. /\ Waiting = Left \cup Members(rest) \cup Members(pending)
      /\ Waiting' = Left' \cup Members(rest') \cup Members(pending')
      /\ UNCHANGED <<pc, chunk, rest, rowVer, rowTags>> /\ accepted \in 0..MaxWrites
  BY WaitingPlaces, PlacesNext, EnqueueCases DEF TypeOK, HistoryType
<1>1. Left' = Left
  BY <1>0 DEF Left
<1>2. CASE Skips
  <2>1. PICK f \in void : TRUE
    BY <1>2 DEF Skips
  <2>2. f \in Flows
    BY DEF TypeOK, QueueType
  <2> DEFINE w == [n |-> accepted + 1, kind |-> "update", id |-> f]
  <2>3. w \in Write
    BY <1>0, <1>2, <2>2, BoundsAssumption DEF Skips, Write, Kinds, BoundsAssumption
  <2>4. w.n = accepted + 1 /\ accepted' = w.n
    BY <1>2 DEF Skips
  <2>5. Waiting' = Waiting
    BY <1>0, <1>1, <1>2 DEF Skips
  <2> HIDE DEF w
  <2> QED
    BY <1>0, <2>3, <2>4, <2>5, MapsToAccept
<1>3. CASE Appends
  <2>1. PICK w \in Write : Append1(w) /\ w.n = accepted + 1
    BY <1>3 DEF Appends, Numbered
  <2>2. Members(pending') = Members(Kept) \cup {w} /\ accepted' = w.n
    BY <2>1, AppendMembers DEF Append1
  <2>3. CASE ~Full
    <3>1. Kept = pending
      BY <2>3 DEF Kept
    <3>2. Waiting' = Waiting \cup {w}
      BY <1>0, <1>1, <2>2, <3>1
    <3> QED
      BY <1>0, <2>1, <2>2, <3>2, MapsToAccept
  <2>4. CASE Full
    <3> DEFINE v == Head(pending)
    <3>1. Kept = Tail(pending) /\ pending # <<>>
      BY <2>1, <2>4, AppendMove DEF Kept
    <3>2. Members(pending) = {v} \cup Members(Kept) /\ v \notin Members(Kept)
      BY <3>1, HeadApart DEF TypeOK, QueueType, LineInv, InOrder, Apart
    <3>3. v \notin Members(chunk) /\ v \notin Members(rest)
      BY <3>2, LineApart DEF Apart, LineInv
    <3>4. v \notin Left
      <4>1. Left \subseteq Members(chunk)
        BY PlacesApart
      <4> QED
        BY <3>3, <4>1
    <3> HIDE DEF v
    <3>5. v \in Waiting /\ Waiting' = (Waiting \ {v}) \cup {w}
      BY <1>0, <1>1, <2>2, <3>2, <3>3, <3>4
    <3> QED
      BY <1>0, <2>1, <2>2, <3>5, MapsToAcceptAndLose
  <2> QED
    BY <2>3, <2>4
<1> QED
  BY <1>2, <1>3, EnqueueCases

\* Giving up loses writes that wait.
LEMMA LosesMaps ==
  ASSUME TypeOK, TypeOK', LineInv, LineInv',
         DrainAbandons \/ CloseAbandons \/ AbandonRest \/ ReplayDone
  PROVE  Promise!Lose \/ UNCHANGED Promise!absVars
<1>0. /\ Waiting = Left \cup Members(rest) \cup Members(pending)
      /\ Waiting' = Left' \cup Members(rest') \cup Members(pending')
  BY WaitingPlaces, PlacesNext
<1>1. CASE DrainAbandons \/ CloseAbandons
  <2>1. pending' = <<>> /\ UNCHANGED <<chunk, rest, accepted, rowVer, rowTags>>
    BY <1>1 DEF DrainAbandons, CloseAbandons, AbandonPending, flusherVars, dbVars
  <2>2. Left' = Left
    <3>1. CASE DrainAbandons
      <4>1. pc = "drain" /\ pc' \in {"select", "exit"}
        BY <3>1 DEF DrainAbandons, DrainReturns
      <4> QED
        BY <4>1 DEF Left
    <3>2. CASE CloseAbandons
      BY <3>2 DEF CloseAbandons, flusherVars, Left
    <3> QED
      BY <1>1, <3>1, <3>2
  <2>3. Waiting' = Waiting \ Members(pending) /\ Members(pending) \subseteq Waiting
    BY <1>0, <2>1, <2>2, MembersEmpty, PlacesApart
  <2> QED
    BY <2>1, <2>3, MapsToLose
<1>2. CASE AbandonRest
  <2>1. rest' = <<>> /\ UNCHANGED <<pc, chunk, pending, accepted, rowVer, rowTags>>
    BY <1>2 DEF AbandonRest, dbVars
  <2>2. Left' = Left
    BY <2>1 DEF Left
  <2>3. Waiting' = Waiting \ Members(rest) /\ Members(rest) \subseteq Waiting
    BY <1>0, <2>1, <2>2, MembersEmpty, PlacesApart
  <2> QED
    BY <2>1, <2>3, MapsToLose
<1>3. CASE ReplayDone
  <2>1. pc = "replay" /\ pc' = "chunk" /\ UNCHANGED <<rest, pending, accepted, rowVer, rowTags>>
    BY <1>3 DEF ReplayDone, dbVars
  <2>2. Left = Members(chunk) /\ Left' = {}
    BY <2>1 DEF Left
  <2>3. Waiting' = Waiting \ Members(chunk) /\ Members(chunk) \subseteq Waiting
    BY <1>0, <2>1, <2>2, PlacesApart
  <2> QED
    BY <2>1, <2>3, MapsToLose
<1> QED
  BY <1>1, <1>2, <1>3

\* A transaction commits the oldest writes, or loses the one it replays.
LEMMA AppliesMaps ==
  ASSUME TypeOK, TypeOK', LineInv, LineInv', Inserted, RowsMatchFates, TxCommit \/ ReplayOne
  PROVE  Promise!Commit \/ Promise!Lose \/ UNCHANGED Promise!absVars
<1>0. /\ Waiting = Left \cup Members(rest) \cup Members(pending)
      /\ Waiting' = Left' \cup Members(rest') \cup Members(pending')
      /\ UNCHANGED <<rest, pending, accepted>> /\ Left = Members(chunk) /\ chunk \in Seq(Write)
  <2>1. UNCHANGED <<rest, pending, accepted>> /\ pc \in {"tx", "replay"}
    BY DEF TxCommit, ReplayOne, queueVars
  <2> QED
    BY <2>1, WaitingPlaces, PlacesNext DEF Left, TypeOK, BatchType
<1>1. /\ Rising(chunk) /\ Ahead(Members(chunk), Members(rest)) /\ Ahead(Members(chunk), Members(pending))
      /\ \A w \in Held : w.n \in Nat
  BY LineApart, WriteFields, BoundsAssumption DEF LineInv, InOrder, BoundsAssumption
<1>2. \A v \in Members(rest) \cup Members(pending), w \in Members(chunk) : ~(v.n < w.n)
  BY <1>1 DEF Ahead, Held
<1>3. CASE TxCommit
  <2>1. Left' = {}
    BY <1>3 DEF TxCommit, Left
  <2>2. Waiting' = Waiting \ Members(chunk)
    BY <1>0, <2>1, PlacesApart
  <2>3. \A w \in Members(chunk), v \in Waiting : v.n < w.n => v \in Members(chunk)
    BY <1>0, <1>2
  <2>4. chunk # <<>> /\ RowsAfter(chunk)
    BY <1>3 DEF TxCommit, LineInv, Batched
  <2> QED
    BY <1>0, <1>1, <2>2, <2>3, <2>4, MapsToCommit
<1>4. CASE ReplayOne
  <2> DEFINE w == Head(chunk)
  <2>1. chunk # <<>> /\ pc' = "completeOne" /\ chunk' = chunk
    BY <1>4 DEF ReplayOne
  <2>2. /\ Members(chunk) = {w} \cup Members(Tail(chunk)) /\ w \in Write
        /\ w \notin Members(Tail(chunk)) /\ Ahead({w}, Members(Tail(chunk)))
        /\ <<w>> \in Seq(Write) /\ Members(<<w>>) = {w} /\ Rising(<<w>>) /\ <<w>> # <<>>
    BY <1>0, <1>1, <2>1, HeadApart, HeadCut, MembersOne, RisingShort DEF Apart
  <2>3. Left' = Members(Tail(chunk))
    BY <2>1 DEF Left
  <2>4. Waiting' = Waiting \ {w} /\ {w} \subseteq Waiting
    BY <1>0, <2>2, <2>3, PlacesApart
  <2>5. \A v \in Waiting : v.n < w.n => v \in {w}
    <3>1. \A v \in Members(Tail(chunk)) : ~(v.n < w.n)
      BY <1>1, <2>2 DEF Ahead, Held
    <3>2. \A v \in Members(rest) \cup Members(pending) : ~(v.n < w.n)
      BY <1>2, <2>2
    <3> QED
      BY <1>0, <2>2, <3>1, <3>2
  <2>6. RowsAfter(<<w>>) \/ UNCHANGED <<rowVer, rowTags>>
    BY <1>4 DEF ReplayOne
  <2> HIDE DEF w
  <2>7. CASE RowsAfter(<<w>>)
    BY <1>0, <2>2, <2>4, <2>5, <2>7, MapsToCommit
  <2>8. CASE UNCHANGED <<rowVer, rowTags>>
    BY <1>0, <2>4, <2>8, MapsToLose
  <2> QED
    BY <2>6, <2>7, <2>8
<1> QED
  BY <1>3, <1>4

\* The rest of the flusher moves writes along without deciding their fate.
LEMMA MovesMap ==
  ASSUME TypeOK, TypeOK', LineInv, LineInv',
         \/ Woken \/ Commanded \/ DrainIdle \/ TakeBatch \/ NextChunk \/ BatchDone
         \/ TxFail \/ CompleteChunk \/ CompleteOne
  PROVE  UNCHANGED Promise!absVars
<1>0. /\ Waiting = Left \cup Members(rest) \cup Members(pending)
      /\ Waiting' = Left' \cup Members(rest') \cup Members(pending')
  BY WaitingPlaces, PlacesNext
<1>1. UNCHANGED <<accepted, rowVer, rowTags>>
  BY DEF Woken, Commanded, DrainIdle, TakeBatch, NextChunk, BatchDone, TxFail, CompleteChunk,
         CompleteOne, dbVars, histVars
<1>2. CASE Woken \/ Commanded \/ DrainIdle \/ BatchDone
  <2>1. UNCHANGED <<chunk, rest, pending>>
    BY <1>2 DEF Woken, Commanded, DrainIdle, BatchDone, queueVars
  <2>2. Left = {} /\ Left' = {}
    <3>1. pc \in {"select", "drain", "chunk"}
      BY <1>2 DEF Woken, Commanded, DrainIdle, BatchDone
    <3>2. pc' \in {"select", "drain", "exit"}
      BY <1>2 DEF Woken, Commanded, DrainIdle, BatchDone, DrainReturns
    <3> QED
      BY <3>1, <3>2 DEF Left
  <2> QED
    BY <1>0, <1>1, <2>1, <2>2, MapsToStutter
<1>3. CASE TakeBatch
  <2>1. rest = <<>> /\ rest' = pending /\ pending' = <<>>
    BY <1>3 DEF TakeBatch, LineInv, Batched
  <2>2. Left = {} /\ Left' = {}
    BY <1>3 DEF TakeBatch, Left
  <2> QED
    BY <1>0, <1>1, <2>1, <2>2, MembersEmpty, MapsToStutter
<1>4. CASE NextChunk
  <2>1. rest = chunk' \o rest' /\ chunk' \in Seq(Write) /\ rest' \in Seq(Write) /\ pending' = pending
    BY <1>4, ChunkMove DEF NextChunk, queueVars
  <2>2. Members(chunk' \o rest') = Members(chunk') \cup Members(rest')
    BY <2>1, MembersConcat
  <2>3. Left = {} /\ Left' = Members(chunk')
    BY <1>4 DEF NextChunk, Left
  <2> QED
    BY <1>0, <1>1, <2>1, <2>2, <2>3, MapsToStutter
<1>5. CASE TxFail
  <2>1. UNCHANGED <<chunk, rest, pending>> /\ pc = "tx" /\ pc' = "replay"
    BY <1>5 DEF TxFail, queueVars
  <2>2. Left' = Left
    BY <2>1 DEF Left
  <2> QED
    BY <1>0, <1>1, <2>1, <2>2, MapsToStutter
<1>6. CASE CompleteChunk
  <2>1. Left = {} /\ Left' = {} /\ UNCHANGED <<rest, pending>>
    BY <1>6 DEF CompleteChunk, Left
  <2> QED
    BY <1>0, <1>1, <2>1, MapsToStutter
<1>7. CASE CompleteOne
  <2>1. pc = "completeOne" /\ pc' = "replay" /\ chunk' = Tail(chunk) /\ UNCHANGED <<rest, pending>>
    BY <1>7 DEF CompleteOne
  <2>2. Left = Members(Tail(chunk)) /\ Left' = Members(chunk')
    BY <2>1 DEF Left
  <2> QED
    BY <1>0, <1>1, <2>1, <2>2, MapsToStutter
<1> QED
  BY <1>2, <1>3, <1>4, <1>5, <1>6, <1>7

\* A client's delete deletes, and nothing else of a client or of Close shows.
LEMMA OthersMap ==
  ASSUME TypeOK, TypeOK', SeenInv,
         \/ \E c \in Clients : ClientBegins(c) \/ ClientStep(c)
         \/ CloseBegins \/ CloseTimesOut \/ CloseDrained \/ CloseDatabase
  PROVE  Promise!Delete \/ UNCHANGED Promise!absVars
<1>1. UNCHANGED <<chunk, rest, pending, accepted, fate>>
  BY DEF ClientBegins, ClientStep, ClientChecks, ClientLocks, ClientFlushed, ClientActs, CloseBegins,
         CloseTimesOut, CloseDrained, CloseDatabase, queueVars, flusherVars, histVars
<1>2. Waiting' = Waiting
  BY <1>1 DEF Waiting, Held
<1>3. ASSUME NEW c \in Clients, ClientActs(c), client[c].want = "delete", dbOpen PROVE Promise!Delete
  <2>1. client[c].id \in Flows
    <3>1. client[c].id \in 1..nextFlowID /\ nextFlowID \in 0..MaxFlows
      BY <1>3 DEF ClientActs, SeenInv, TypeOK, QueueType
    <3> QED
      BY <3>1, BoundsAssumption DEF BoundsAssumption
  <2>2. /\ rowVer' = [rowVer EXCEPT ![client[c].id] = 0]
        /\ rowTags' = [rowTags EXCEPT ![client[c].id] = {}]
    BY <1>3 DEF ClientActs
  <2> QED
    BY <1>1, <1>2, <2>1, <2>2, MapsToDelete
<1>4. CASE UNCHANGED <<rowVer, rowTags>>
  BY <1>1, <1>2, <1>4, MapsToStutter
<1>5. \/ \E c \in Clients : ClientActs(c) /\ client[c].want = "delete" /\ dbOpen
      \/ UNCHANGED <<rowVer, rowTags>>
  BY DEF ClientBegins, ClientStep, ClientChecks, ClientLocks, ClientFlushed, ClientActs, CloseBegins,
         CloseTimesOut, CloseDrained, CloseDatabase, dbVars
<1> QED
  BY <1>3, <1>4, <1>5

\* Every step of the queue is one of FlowCapture, or a stutter.
LEMMA PromiseStep ==
  TypeOK /\ TypeOK' /\ LineInv /\ LineInv' /\ Inserted /\ RowsMatchFates /\ SeenInv /\ [Next]_vars
    => [Promise!Next]_(Promise!absVars)
<1> SUFFICES ASSUME TypeOK, TypeOK', LineInv, LineInv', Inserted, RowsMatchFates, SeenInv, [Next]_vars
             PROVE  Promise!Next \/ UNCHANGED Promise!absVars
    OBVIOUS
<1>1. CASE Enqueues
  BY <1>1, EnqueueMaps DEF Promise!Next
<1>2. CASE DrainAbandons \/ CloseAbandons \/ AbandonRest \/ ReplayDone
  BY <1>2, LosesMaps DEF Promise!Next
<1>3. CASE TxCommit \/ ReplayOne
  BY <1>3, AppliesMaps DEF Promise!Next
<1>4. CASE \/ Woken \/ Commanded \/ DrainIdle \/ TakeBatch \/ NextChunk \/ BatchDone
           \/ TxFail \/ CompleteChunk \/ CompleteOne
  BY <1>4, MovesMap
<1>5. CASE \/ \E c \in Clients : ClientBegins(c) \/ ClientStep(c)
           \/ CloseBegins \/ CloseTimesOut \/ CloseDrained \/ CloseDatabase
  BY <1>5, OthersMap DEF Promise!Next
<1>6. CASE UNCHANGED vars
  <2>1. UNCHANGED <<chunk, rest, pending, fate, accepted, rowVer, rowTags>>
    BY <1>6 DEF vars, queueVars, flusherVars, dbVars, histVars
  <2>2. Waiting' = Waiting
    BY <2>1 DEF Waiting, Held
  <2> QED
    BY <2>1, <2>2, MapsToStutter
<1> QED
  BY <1>1, <1>2, <1>3, <1>4, <1>5, <1>6 DEF Next, Flusher, Enqueues, CloseStep

\* The write-behind queue implements FlowCapture: whatever the buffer drops, the
\* flusher batches, replays or abandons and the clients delete, each write is applied
\* or lost as a whole, in the order of acceptance within its flow, and a row shows
\* the newest write that reached it.
THEOREM KeepsPromise == Spec => PromiseSpec
<1>1. Init => Promise!Init
  <2>1. <<>> \o <<>> \o <<>> = <<>>
    OBVIOUS
  <2>2. Init => Members(chunk \o rest \o pending) = {}
    BY <2>1, MembersEmpty DEF Init
  <2> QED
    BY <2>2, SameWrites DEF Init, Promise!Init
<1>2. Spec => []SeenInv
  BY CallsSafe, PTL DEF CallInv
<1>3. (TypeOK /\ LineInv) /\ (TypeOK /\ LineInv)' /\ Inserted /\ RowsMatchFates /\ SeenInv /\ [Next]_vars
        => [Promise!Next]_(Promise!absVars)
  BY PromiseStep
<1> QED
  BY <1>1, <1>2, <1>3, LineSafe, InsertedSafe, RowsShowCommitted, PTL DEF Spec, PromiseSpec, Promise!Spec
=============================================================================
