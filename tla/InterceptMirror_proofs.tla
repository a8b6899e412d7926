------------------------ MODULE InterceptMirror_proofs ------------------------
(***************************************************************************)
(* The rows a browser shows are those of one generation, for any messages,  *)
(* any buffer, any number of refreshes in flight and of broken streams.     *)
(***************************************************************************)
EXTENDS InterceptMirror, TLAPS

-----------------------------------------------------------------------------
(* Frames and what they claim *)

IsSnapshot(k) == k \in {"hello", "snapshot"}

\* A snapshot claims what the queues held at a generation, a delta how they
\* changed from the one before.
SoundIn(f, n, p) ==
  /\ f.seq \in 0..n
  /\ IsSnapshot(f.kind) => f.items = p[f.seq]
  /\ f.kind = "held" => f.seq > 0 /\ p[f.seq] = p[f.seq - 1] \cup f.items
  /\ f.kind = "released" => f.seq > 0 /\ p[f.seq] = p[f.seq - 1] \ f.items

Sound(f) == SoundIn(f, seq, past)

EngineInv ==
  /\ seq \in Nat /\ past \in [0..seq -> SUBSET Items] /\ past[seq] = queue
  /\ queue \subseteq Items

FramesSound ==
  /\ \A f \in emits : Sound(f)
  /\ chan \in Seq(Frames) /\ \A i \in 1..Len(chan) : Sound(chan[i])
  /\ wire \in Seq(Frames) /\ \A i \in 1..Len(wire) : Sound(wire[i])

EmitsTyped == emits \subseteq Frames

\* What a refresh was answered is what the queues held then.
FetchesSound ==
  \A i \in Fetches : fetches[i].at = "answered" =>
    fetches[i].seq \in 0..seq /\ fetches[i].items = past[fetches[i].seq]

Fetch == [at : {"idle", "asked", "answered"}, seq : Nat, items : SUBSET Items,
          overtaken : BOOLEAN, gap : BOOLEAN]
FetchesTyped == fetches \in [Fetches -> Fetch]

ViewSound ==
  viewSeq # Unknown => viewSeq \in 0..seq /\ view \subseteq past[viewSeq] /\ past[viewSeq] \ removed \subseteq view

MirrorInv == EngineInv /\ EmitsTyped /\ FramesSound /\ FetchesTyped /\ FetchesSound /\ ViewSound

\* What a fetch starts from is well typed, and answers nothing yet.
LEMMA NewFetch ==
  ASSUME NEW gap \in BOOLEAN
  PROVE  /\ Asked(gap) \in Fetch /\ Asked(gap).at = "asked"
         /\ NoFetch \in Fetch /\ NoFetch.at = "idle"
BY DEF Asked, NoFetch, Fetch

LEMMA InitMirror == Init => MirrorInv
<1> SUFFICES ASSUME Init PROVE MirrorInv
  OBVIOUS
<1>1. EngineInv
  BY DEF Init, HoldInit, EngineInv
<1>2. EmitsTyped /\ FramesSound
  BY DEF Init, EmitsTyped, FramesSound
<1>3. FetchesTyped /\ FetchesSound
  BY NewFetch DEF Init, FetchesTyped, FetchesSound
<1>4. ViewSound
  BY DEF Init, ViewSound
<1> QED
  BY <1>1, <1>2, <1>3, <1>4 DEF MirrorInv

-----------------------------------------------------------------------------
(* Steps of the engine: history only grows *)

\* A change adds one generation to the history, and its frame claims just that.
LEMMA ChangeKeeps ==
  ASSUME MirrorInv, NEW kind \in {"held", "released", "reset"}, NEW items \in SUBSET Items,
         Changed, queue' \subseteq Items, Change(kind, items),
         kind = "held" => queue' = queue \cup items,
         kind = "released" => queue' = queue \ items
  PROVE  MirrorInv'
<1> USE DEF MirrorInv
<1>1. seq \in Nat /\ seq' = seq + 1 /\ seq' <= MaxSeq
  BY SidesAssumption DEF EngineInv, Changed, SidesAssumption
<1>2. /\ \A n \in 0..seq : n \in 0..seq' /\ past'[n] = past[n]
      /\ past'[seq'] = queue' /\ past' \in [0..seq' -> SUBSET Items]
  BY <1>1 DEF Change, EngineInv
<1>3. EngineInv'
  BY <1>1, <1>2 DEF EngineInv
<1>4. ASSUME NEW f, Sound(f) PROVE SoundIn(f, seq', past')
  BY <1>1, <1>2, <1>4 DEF Sound, SoundIn, IsSnapshot
<1> DEFINE new == [kind |-> kind, seq |-> seq', items |-> items]
<1>5. SoundIn(new, seq', past')
  <2>1. seq' - 1 = seq /\ seq' > 0 /\ seq' \in 0..seq'
    BY <1>1
  <2>2. past'[seq] = queue
    BY <1>1, <1>2 DEF EngineInv
  <2> QED
    BY <1>2, <2>1, <2>2 DEF SoundIn, IsSnapshot
<1>6. EmitsTyped' /\ FramesSound'
  <2>1. new \in Frames
    BY <1>1 DEF Frames, Generations
  <2>2. emits' = emits \cup {new} /\ chan' = chan /\ wire' = wire
    BY DEF Change, streamVars
  <2> HIDE DEF new
  <2> QED
    BY <1>4, <1>5, <2>1, <2>2 DEF EmitsTyped, FramesSound, Sound
<1>7. FetchesTyped' /\ FetchesSound'
  <2>1. fetches' = fetches
    BY DEF Change, fetchVars
  <2> QED
    BY <1>2, <2>1 DEF FetchesTyped, FetchesSound
<1>8. ViewSound'
  <2>1. UNCHANGED <<view, viewSeq, removed>>
    BY DEF Change, rowVars
  <2> QED
    BY <1>2, <2>1 DEF ViewSound
<1> QED
  BY <1>3, <1>6, <1>7, <1>8

-----------------------------------------------------------------------------
(* Steps of the hub and of the browser: no claim is made up *)

\* When the engine does not move, a claim stays true.
LEMMA StillSound ==
  ASSUME UNCHANGED <<seq, past>>, NEW f
  PROVE  Sound(f)' <=> Sound(f)
BY DEF Sound, SoundIn

\* A snapshot claims the present.
LEMMA SummarySound ==
  ASSUME EngineInv, seq \in Generations, NEW k \in {"hello", "snapshot"}
  PROVE  Sound(Summary(k)) /\ Summary(k) \in Frames
BY DEF EngineInv, Sound, SoundIn, Summary, IsSnapshot, Frames

\* Frames that are broadcast, lost, sent or cut off claim what they claimed.
LEMMA HubKeeps ==
  ASSUME MirrorInv, seq \in Generations,
         \/ \E f \in emits : Summarise(f) \/ Broadcast(f)
         \/ Connect \/ Greet \/ Pump \/ Cut
  PROVE  MirrorInv'
<1> USE DEF MirrorInv
<1>1. UNCHANGED <<holdVars, past, view, viewSeq, removed, fetches>>
  BY DEF Summarise, Broadcast, Connect, Greet, Pump, Cut, engineVars, rowVars, fetchVars, ownVars
<1>2. EngineInv' /\ ViewSound' /\ FetchesTyped' /\ FetchesSound'
  BY <1>1 DEF EngineInv, ViewSound, FetchesTyped, FetchesSound, holdVars
<1>3. UNCHANGED <<seq, past>>
  BY <1>1 DEF holdVars
<1>4. ASSUME NEW f \in emits, Summarise(f) PROVE EmitsTyped' /\ FramesSound'
  <2>1. emits' = (emits \ {f}) \cup {Summary("snapshot")} /\ chan' = chan /\ wire' = wire
    BY <1>4 DEF Summarise, streamVars
  <2> QED
    BY <1>3, <2>1, SummarySound, StillSound DEF EmitsTyped, FramesSound
<1>5. ASSUME NEW f \in emits, Broadcast(f) PROVE EmitsTyped' /\ FramesSound'
  <2>1. emits' \subseteq emits /\ wire' = wire /\ (chan' = chan \/ chan' = Append(chan, f))
    BY <1>5 DEF Broadcast
  <2>2. f \in Frames /\ Sound(f)
    BY DEF EmitsTyped, FramesSound
  <2>3. chan' \in Seq(Frames) /\ \A i \in 1..Len(chan') : Sound(chan'[i])
    <3>1. chan \in Seq(Frames) /\ \A i \in 1..Len(chan) : Sound(chan[i])
      BY DEF FramesSound
    <3>2. CASE chan' = chan
      BY <3>1, <3>2
    <3>3. CASE chan' = Append(chan, f)
      <4>1. Append(chan, f) \in Seq(Frames) /\ Len(Append(chan, f)) = Len(chan) + 1
        BY <2>2, <3>1
      <4>2. \A i \in 1..Len(chan) + 1 : Append(chan, f)[i] = IF i = Len(chan) + 1 THEN f ELSE chan[i]
        BY <2>2, <3>1
      <4>3. \A i \in 1..Len(chan) + 1 : i \in 1..Len(chan) \/ i = Len(chan) + 1
        BY <3>1
      <4> QED
        BY <2>2, <3>1, <3>3, <4>1, <4>2, <4>3
    <3> QED
      BY <2>1, <3>2, <3>3
  <2> QED
    BY <1>3, <2>1, <2>3, StillSound DEF EmitsTyped, FramesSound
<1>6. CASE Connect
  <2>1. UNCHANGED <<emits, chan, wire>>
    BY <1>6 DEF Connect, engineVars
  <2> QED
    BY <1>2, <1>3, <2>1, StillSound DEF EmitsTyped, FramesSound
<1>7. CASE Greet
  <2>1. UNCHANGED <<emits, chan>> /\ wire' = <<Summary("hello")>>
    BY <1>7 DEF Greet, engineVars
  <2>2. wire' \in Seq(Frames) /\ \A i \in 1..Len(wire') : Sound(wire'[i])
    BY <2>1, SummarySound
  <2> QED
    BY <1>2, <1>3, <2>1, <2>2, StillSound DEF EmitsTyped, FramesSound
<1>8. CASE Pump
  <2>1. chan # <<>> /\ UNCHANGED emits /\ wire' = <<Head(chan)>> /\ chan' = Tail(chan)
    BY <1>8 DEF Pump, engineVars
  <2>2. /\ Head(chan) \in Frames /\ Sound(Head(chan))
        /\ Tail(chan) \in Seq(Frames) /\ \A i \in 1..Len(Tail(chan)) : Sound(Tail(chan)[i])
    BY <2>1 DEF FramesSound
  <2>3. wire' \in Seq(Frames) /\ \A i \in 1..Len(wire') : Sound(wire'[i])
    BY <2>1, <2>2
  <2> QED
    BY <1>2, <1>3, <2>1, <2>2, <2>3, StillSound DEF EmitsTyped, FramesSound
<1>9. CASE Cut
  <2>1. UNCHANGED emits /\ chan' = <<>> /\ wire' = <<>>
    BY <1>9 DEF Cut, engineVars
  <2> QED
    BY <1>2, <1>3, <2>1, StillSound DEF EmitsTyped, FramesSound
<1> QED
  BY <1>2, <1>4, <1>5, <1>6, <1>7, <1>8, <1>9

\* A fetch that is only asked for, discarded or overtaken claims nothing new.
LEMMA FetchesKeep ==
  ASSUME FetchesSound, UNCHANGED <<seq, past>>,
         \A i \in Fetches : fetches'[i].at = "answered" =>
           /\ fetches[i].at = "answered"
           /\ fetches'[i].seq = fetches[i].seq /\ fetches'[i].items = fetches[i].items
  PROVE  FetchesSound'
BY DEF FetchesSound

\* Overtaking a fetch changes neither where it is nor what it brings.
LEMMA OvertakeKeeps ==
  ASSUME FetchesTyped
  PROVE  /\ Overtake \in [Fetches -> Fetch]
         /\ \A i \in Fetches : Overtake[i].at = "answered" =>
              /\ fetches[i].at = "answered"
              /\ Overtake[i].seq = fetches[i].seq /\ Overtake[i].items = fetches[i].items
<1>1. ASSUME NEW i \in Fetches
      PROVE  /\ Overtake[i] \in Fetch
             /\ Overtake[i].at = fetches[i].at
             /\ Overtake[i].seq = fetches[i].seq /\ Overtake[i].items = fetches[i].items
  BY DEF Overtake, FetchesTyped, Fetch
<1> QED
  BY <1>1 DEF Overtake

\* The reducer: the next delta applied to rows of one generation gives rows of the next.
LEMMA ReceiveKeeps == ASSUME MirrorInv, Receive PROVE MirrorInv'
<1> USE DEF MirrorInv
<1> DEFINE f == Head(wire)
<1>1. /\ wire # <<>> /\ wire' = <<>> /\ UNCHANGED <<holdVars, past, emits, chan>>
      /\ ReceiveSnapshot(f) \/ ReceiveNext(f) \/ ReceiveDuplicate(f) \/ ReceiveGap(f)
  BY DEF Receive, engineVars
<1>2. Sound(f)
  BY <1>1 DEF FramesSound
<1> HIDE DEF f
<1>3. UNCHANGED <<seq, past, queue>>
  BY <1>1 DEF holdVars
<1>4. EngineInv' /\ EmitsTyped' /\ FramesSound'
  BY <1>1, <1>3, StillSound DEF EngineInv, EmitsTyped, FramesSound
<1>5. CASE ReceiveSnapshot(f)
  <2>1. view' = f.items /\ viewSeq' = f.seq /\ removed' = removed /\ fetches' = Overtake /\ IsSnapshot(f.kind)
    BY <1>5 DEF ReceiveSnapshot, Replace, ownVars, IsSnapshot
  <2>2. ViewSound'
    BY <1>2, <1>3, <2>1 DEF ViewSound, Sound, SoundIn
  <2> QED
    BY <1>3, <1>4, <2>1, <2>2, OvertakeKeeps, FetchesKeep DEF FetchesTyped
<1>6. CASE ReceiveNext(f)
  <2>1. /\ f.kind \in {"held", "released"} /\ viewSeq # Unknown /\ f.seq = viewSeq + 1
        /\ view' = IF f.kind = "held" THEN view \cup f.items ELSE view \ f.items
        /\ viewSeq' = f.seq /\ UNCHANGED <<removed, fetches>>
    BY <1>6 DEF ReceiveNext, IsDelta, Contiguous, fetchVars, ownVars
  <2>2. f.seq \in 0..seq /\ f.seq - 1 = viewSeq
    BY <1>2, <2>1 DEF Sound, SoundIn, ViewSound, EngineInv
  <2>3. ASSUME f.kind = "held" PROVE ViewSound'
    <3>1. past[f.seq] = past[viewSeq] \cup f.items
      BY <1>2, <2>2, <2>3 DEF Sound, SoundIn
    <3>2. view' = view \cup f.items
      BY <2>1, <2>3
    <3> QED
      BY <1>3, <2>1, <2>2, <3>1, <3>2 DEF ViewSound
  <2>4. ASSUME f.kind = "released" PROVE ViewSound'
    <3>1. past[f.seq] = past[viewSeq] \ f.items
      BY <1>2, <2>2, <2>4 DEF Sound, SoundIn
    <3>2. view' = view \ f.items
      BY <2>1, <2>4
    <3> QED
      BY <1>3, <2>1, <2>2, <3>1, <3>2 DEF ViewSound
  <2>5. ViewSound'
    BY <2>1, <2>3, <2>4
  <2> QED
    BY <1>3, <1>4, <2>1, <2>5 DEF FetchesSound, FetchesTyped
<1>7. CASE ReceiveDuplicate(f)
  <2>1. UNCHANGED <<view, viewSeq, removed, fetches>>
    BY <1>7 DEF ReceiveDuplicate, rowVars, fetchVars, ownVars
  <2> QED
    BY <1>3, <1>4, <2>1 DEF FetchesSound, FetchesTyped, ViewSound
<1>8. CASE ReceiveGap(f)
  <2>1. viewSeq' = Unknown
    BY <1>8 DEF ReceiveGap
  <2>2. fetches' = fetches \/ \E i \in Fetches : fetches' = [fetches EXCEPT ![i] = Asked(TRUE)]
    BY <1>8 DEF ReceiveGap
  <2>3. Asked(TRUE) \in Fetch /\ Asked(TRUE).at = "asked"
    BY NewFetch
  <2>4. FetchesSound' /\ FetchesTyped'
    BY <1>3, <2>2, <2>3 DEF FetchesSound, FetchesTyped
  <2> QED
    BY <1>4, <2>1, <2>4 DEF ViewSound
<1> QED
  BY <1>1, <1>5, <1>6, <1>7, <1>8

\* A refresh: its answer is the queues of its moment, and replaces the rows as a whole.
LEMMA FetchKeeps ==
  ASSUME MirrorInv, NEW i \in Fetches, Ask(i) \/ Answer(i) \/ Land(i) \/ Discard(i) \/ FetchFails(i)
  PROVE  MirrorInv'
<1> USE DEF MirrorInv
<1>1. UNCHANGED <<holdVars, past, emits, chan, wire, removed>>
  BY DEF Ask, Answer, Land, Discard, FetchFails, Over, engineVars, streamVars, ownVars
<1>2. UNCHANGED <<seq, past, queue>>
  BY <1>1 DEF holdVars
<1>3. EngineInv' /\ EmitsTyped' /\ FramesSound'
  BY <1>1, <1>2, StillSound DEF EngineInv, EmitsTyped, FramesSound
<1>4. CASE Ask(i) \/ Discard(i) \/ FetchFails(i)
  <2>1. UNCHANGED <<view, viewSeq>>
    BY <1>4 DEF Ask, Discard, FetchFails, Over, rowVars
  <2>2. PICK r \in {Asked(FALSE), NoFetch} : fetches' = [fetches EXCEPT ![i] = r]
    BY <1>4 DEF Ask, Discard, FetchFails, Over
  <2>3. r \in Fetch /\ r.at # "answered"
    BY NewFetch
  <2>4. FetchesSound' /\ FetchesTyped'
    BY <1>2, <2>2, <2>3 DEF FetchesSound, FetchesTyped
  <2> QED
    BY <1>1, <1>2, <1>3, <2>1, <2>4 DEF ViewSound
<1>5. CASE Answer(i)
  <2>1. /\ UNCHANGED <<view, viewSeq>>
        /\ fetches' = [fetches EXCEPT ![i] = [@ EXCEPT !.at = "answered", !.seq = seq, !.items = queue]]
    BY <1>5 DEF Answer, rowVars
  <2>2. FetchesSound' /\ FetchesTyped'
    <3>1. ASSUME NEW j \in Fetches, j # i PROVE fetches'[j] = fetches[j]
      BY <2>1, <3>1 DEF FetchesTyped
    <3>2. fetches'[i] = [fetches[i] EXCEPT !.at = "answered", !.seq = seq, !.items = queue]
      BY <2>1 DEF FetchesTyped
    <3>3. fetches'[i] \in Fetch /\ FetchesTyped'
      BY <2>1, <3>2 DEF FetchesTyped, Fetch, EngineInv
    <3>4. fetches'[i].at = "answered" => fetches'[i].seq \in 0..seq /\ fetches'[i].items = past[fetches'[i].seq]
      <4>1. fetches'[i].seq = seq /\ fetches'[i].items = queue
        BY <3>2 DEF FetchesTyped, Fetch
      <4> QED
        BY <4>1 DEF EngineInv
    <3> QED
      BY <1>2, <3>1, <3>3, <3>4 DEF FetchesSound
  <2> QED
    BY <1>1, <1>2, <1>3, <2>1, <2>2 DEF ViewSound
<1>6. CASE Land(i)
  <2>1. /\ fetches[i].at = "answered" /\ viewSeq' = fetches[i].seq /\ view' = fetches[i].items
        /\ fetches' = [Overtake EXCEPT ![i] = NoFetch]
    BY <1>6 DEF Land, Replace
  <2>2. ViewSound'
    BY <1>1, <1>2, <2>1 DEF ViewSound, FetchesSound
  <2>3. FetchesTyped' /\ \A j \in Fetches : fetches'[j] = IF j = i THEN NoFetch ELSE Overtake[j]
    BY <2>1, OvertakeKeeps, NewFetch DEF FetchesTyped
  <2>4. FetchesSound'
    BY <1>2, <2>3, OvertakeKeeps, NewFetch, FetchesKeep
  <2> QED
    BY <1>3, <2>2, <2>3, <2>4
<1> QED
  BY <1>4, <1>5, <1>6

-----------------------------------------------------------------------------
(* The theorem *)

LEMMA NextMirror == MirrorInv /\ seq \in Generations /\ [Next]_vars => MirrorInv'
<1> SUFFICES ASSUME MirrorInv, seq \in Generations, [Next]_vars PROVE MirrorInv'
  OBVIOUS
<1>0. queue \subseteq Items
  BY DEF MirrorInv, EngineInv
<1>1. ASSUME NEW m \in Items, EngineHolds(m) PROVE MirrorInv'
  <2>1. Changed /\ Change("held", {m}) /\ queue' = queue \cup {m}
    BY <1>1 DEF EngineHolds, Enter
  <2> QED
    BY <1>0, <2>1, ChangeKeeps
<1>2. ASSUME NEW m \in Items, EngineReleases(m) \/ ReleaseHere(m) PROVE MirrorInv'
  <2>1. Changed /\ Change("released", {m}) /\ queue' = queue \ {m}
    BY <1>2 DEF EngineReleases, ReleaseHere, Leave
  <2> QED
    BY <1>0, <2>1, ChangeKeeps
<1>3. ASSUME NEW s \in Sides, EngineSwitches(s) PROVE MirrorInv'
  <2>1. Changed /\ Change("reset", {}) /\ queue' \subseteq queue
    BY <1>3 DEF EngineSwitches, SwitchOn, SwitchOff
  <2> QED
    BY <1>0, <2>1, ChangeKeeps
<1>4. ASSUME NEW m \in Items, RemoveRow(m) PROVE MirrorInv'
  <2>1. /\ UNCHANGED <<holdVars, past, emits, chan, wire, viewSeq>>
        /\ view' = view \ {m} /\ removed' = removed \cup {m} /\ fetches' = Overtake
    BY <1>4 DEF RemoveRow, engineVars, streamVars
  <2>2. UNCHANGED <<seq, past, queue>>
    BY <2>1 DEF holdVars
  <2>3. EngineInv' /\ EmitsTyped' /\ FramesSound' /\ ViewSound'
    BY <2>1, <2>2, StillSound DEF MirrorInv, EngineInv, EmitsTyped, FramesSound, ViewSound
  <2>4. FetchesSound' /\ FetchesTyped'
    BY <2>1, <2>2, OvertakeKeeps, FetchesKeep DEF MirrorInv, FetchesTyped
  <2> QED
    BY <2>3, <2>4 DEF MirrorInv
<1>5. CASE UNCHANGED vars
  <2>1. UNCHANGED <<seq, past, queue, emits, chan, wire, view, viewSeq, removed, fetches>>
    BY <1>5 DEF vars, engineVars, holdVars, streamVars, rowVars, fetchVars, ownVars
  <2>2. EngineInv' /\ EmitsTyped' /\ FramesSound' /\ ViewSound'
    BY <2>1, StillSound DEF MirrorInv, EngineInv, EmitsTyped, FramesSound, ViewSound
  <2> QED
    BY <2>1, <2>2 DEF MirrorInv, FetchesSound, FetchesTyped
<1> QED
  BY <1>1, <1>2, <1>3, <1>4, <1>5, HubKeeps, ReceiveKeeps, FetchKeeps DEF Next

\* Generations stay within the bound.
Bounded == seq \in Generations

LEMMA SeqBounded == Bounded /\ [Next]_vars => Bounded'
<1> USE DEF Bounded
<1> SUFFICES ASSUME seq \in Generations, [Next]_vars PROVE seq' \in Generations
  OBVIOUS
<1>1. ASSUME Changed PROVE seq' \in Generations
  BY <1>1, SidesAssumption DEF Changed, Generations, SidesAssumption
<1>2. CASE seq' = seq
  BY <1>2 DEF Generations
<1>3. Changed \/ seq' = seq
  BY DEF Next, vars, engineVars, holdVars, EngineHolds, Enter, EngineReleases, ReleaseHere, Leave, EngineSwitches,
         SwitchOn, SwitchOff, RemoveRow, Summarise, Broadcast, Connect, Greet, Pump, Cut, Receive, Ask, Answer,
         Land, Discard, Over, FetchFails
<1> QED
  BY <1>1, <1>2, <1>3

\* Whatever frames are lost, repeated or reordered, and whenever refreshes are
\* answered, rows with a known generation are the queues of that generation but
\* for the rows the browser has taken out itself (MirrorIsPast).
THEOREM RowsAreOfOneGeneration == Spec => []MirrorIsPast
<1>1. Init => Bounded
  BY SidesAssumption DEF Init, HoldInit, Bounded, Generations, SidesAssumption
<1>2. Spec => []Bounded
  BY <1>1, SeqBounded, PTL DEF Spec
<1>a. MirrorInv /\ Bounded /\ [Next]_vars => MirrorInv'
  BY NextMirror DEF Bounded
<1>3. Spec => []MirrorInv
  BY <1>2, <1>a, InitMirror, PTL DEF Spec
<1>4. MirrorInv => MirrorIsPast
  BY DEF MirrorInv, ViewSound, MirrorIsPast
<1> QED
  BY <1>3, <1>4, PTL

-----------------------------------------------------------------------------
(* What was taken out does not come back *)

\* A message is held once: what this browser released has been held and is so no
\* more.
ReleasedLeft == queue \subseteq entered /\ mine \cup removed \subseteq entered \ queue

\* An answer that may still land was taken after the last row was taken out.
LandingsFresh ==
  \A i \in Fetches : fetches[i].at = "answered" /\ ~fetches[i].overtaken =>
    fetches[i].items \cap removed = {}

RemovalInv == ReleasedLeft /\ LandingsFresh

\* The engine's steps hold a message that was never held, or let one go.
LEMMA EngineKeepsLeft ==
  ASSUME ReleasedLeft,
         \/ \E m \in Items : EngineHolds(m) \/ EngineReleases(m) \/ ReleaseHere(m)
         \/ \E s \in Sides : EngineSwitches(s)
  PROVE  ReleasedLeft' /\ UNCHANGED <<fetches, removed>>
<1> USE DEF ReleasedLeft, Change, fetchVars
<1>1. ASSUME NEW m \in Items, EngineHolds(m) PROVE ReleasedLeft' /\ UNCHANGED <<fetches, removed>>
  BY <1>1 DEF EngineHolds, Enter
<1>2. ASSUME NEW m \in Items, EngineReleases(m) \/ ReleaseHere(m)
      PROVE  ReleasedLeft' /\ UNCHANGED <<fetches, removed>>
  BY <1>2 DEF EngineReleases, ReleaseHere, Leave
<1>3. ASSUME NEW s \in Sides, EngineSwitches(s) PROVE ReleasedLeft' /\ UNCHANGED <<fetches, removed>>
  BY <1>3 DEF EngineSwitches, SwitchOn, SwitchOff
<1> QED
  BY <1>1, <1>2, <1>3

\* An answer that was not overtaken, and that no step has touched, is still fresh.
LEMMA FreshKept ==
  ASSUME LandingsFresh, UNCHANGED removed,
         \A i \in Fetches : fetches'[i].at = "answered" /\ ~fetches'[i].overtaken =>
           /\ fetches[i].at = "answered" /\ ~fetches[i].overtaken
           /\ fetches'[i].items = fetches[i].items
  PROVE  LandingsFresh'
BY DEF LandingsFresh

\* Overtake leaves no fetch that could land.
LEMMA OvertakeDiscards ==
  ASSUME FetchesTyped
  PROVE  \A i \in Fetches : ~(Overtake[i].at = "answered" /\ ~Overtake[i].overtaken)
BY DEF Overtake, FetchesTyped, Fetch

\* The browser's own steps: a removal overtakes every fetch under way, and an answer
\* brings the queue of its moment.
LEMMA BrowserKeepsFresh ==
  ASSUME FetchesTyped, RemovalInv,
         \/ \E m \in Items : RemoveRow(m)
         \/ Receive
         \/ \E i \in Fetches : Ask(i) \/ Answer(i) \/ Land(i) \/ Discard(i) \/ FetchFails(i)
  PROVE  RemovalInv'
<1> USE DEF RemovalInv
<1>0. ReleasedLeft /\ LandingsFresh
  OBVIOUS
<1>1. UNCHANGED holdVars /\ mine' \cup removed' = mine \cup removed
  BY DEF RemoveRow, Receive, ReceiveSnapshot, ReceiveNext, ReceiveDuplicate, ReceiveGap, Ask, Answer, Land,
         Discard, FetchFails, Over, engineVars, ownVars
<1>2. ReleasedLeft'
  BY <1>1 DEF ReleasedLeft, holdVars
<1>3. ASSUME NEW m \in Items, RemoveRow(m) PROVE LandingsFresh'
  BY <1>3, OvertakeDiscards DEF RemoveRow, LandingsFresh
<1>4. ASSUME Receive PROVE LandingsFresh'
  <2>0. removed' = removed
    BY <1>4 DEF Receive, ReceiveSnapshot, ReceiveNext, ReceiveDuplicate, ReceiveGap, ownVars
  <2>1. \/ fetches' = Overtake \/ fetches' = fetches
        \/ \E i \in Fetches : fetches' = [fetches EXCEPT ![i] = Asked(TRUE)]
    BY <1>4 DEF Receive, ReceiveSnapshot, ReceiveNext, ReceiveDuplicate, ReceiveGap, fetchVars, ownVars
  <2>2. CASE fetches' = Overtake
    BY <2>2, OvertakeDiscards DEF LandingsFresh
  <2>3. CASE fetches' = fetches
    BY <1>0, <2>0, <2>3 DEF LandingsFresh
  <2>4. ASSUME NEW i \in Fetches, fetches' = [fetches EXCEPT ![i] = Asked(TRUE)] PROVE LandingsFresh'
    <3>1. Asked(TRUE).at # "answered"
      BY NewFetch
    <3>2. \A j \in Fetches : fetches'[j] = IF j = i THEN Asked(TRUE) ELSE fetches[j]
      BY <2>4 DEF FetchesTyped
    <3> QED
      BY <1>0, <2>0, <3>1, <3>2 DEF LandingsFresh
  <2> QED
    BY <2>1, <2>2, <2>3, <2>4
<1>5. ASSUME NEW i \in Fetches, Ask(i) \/ Discard(i) \/ FetchFails(i) PROVE LandingsFresh'
  <2>1. PICK r \in {Asked(FALSE), NoFetch} : fetches' = [fetches EXCEPT ![i] = r]
    BY <1>5 DEF Ask, Discard, FetchFails, Over
  <2>2. r.at # "answered" /\ removed' = removed
    BY <1>5, NewFetch DEF Ask, Discard, FetchFails, Over, ownVars
  <2> QED
    BY <2>1, <2>2, FreshKept DEF FetchesTyped
<1>6. ASSUME NEW i \in Fetches, Answer(i) PROVE LandingsFresh'
  <2>1. /\ removed' = removed
        /\ fetches' = [fetches EXCEPT ![i] = [@ EXCEPT !.at = "answered", !.seq = seq, !.items = queue]]
    BY <1>6 DEF Answer, ownVars
  <2>2. fetches'[i].items = queue
    BY <2>1 DEF FetchesTyped, Fetch
  <2>3. \A j \in Fetches : j # i => fetches'[j] = fetches[j]
    BY <2>1 DEF FetchesTyped
  <2> QED
    BY <2>1, <2>2, <2>3 DEF LandingsFresh, ReleasedLeft
<1>7. ASSUME NEW i \in Fetches, Land(i) PROVE LandingsFresh'
  <2>1. removed' = removed /\ fetches' = [Overtake EXCEPT ![i] = NoFetch]
    BY <1>7 DEF Land, ownVars
  <2>2. \A j \in Fetches : fetches'[j] = IF j = i THEN NoFetch ELSE Overtake[j]
    BY <2>1, OvertakeKeeps
  <2> QED
    BY <2>2, NewFetch, OvertakeDiscards DEF LandingsFresh
<1> QED
  BY <1>2, <1>3, <1>4, <1>5, <1>6, <1>7

\* The removals through every step.
LEMMA NextRemoval == FetchesTyped /\ RemovalInv /\ [Next]_vars => RemovalInv'
<1> SUFFICES ASSUME FetchesTyped, RemovalInv, [Next]_vars PROVE RemovalInv'
  OBVIOUS
<1>1. CASE \/ \E m \in Items : EngineHolds(m) \/ EngineReleases(m) \/ ReleaseHere(m)
           \/ \E s \in Sides : EngineSwitches(s)
  BY <1>1, EngineKeepsLeft DEF RemovalInv, LandingsFresh
<1>2. CASE (\E f \in emits : Summarise(f) \/ Broadcast(f)) \/ Connect \/ Greet \/ Pump \/ Cut \/ UNCHANGED vars
  <2>1. UNCHANGED <<queue, entered, mine, removed, fetches>>
    BY <1>2 DEF Summarise, Broadcast, Connect, Greet, Pump, Cut, vars, engineVars, holdVars, fetchVars, ownVars
  <2> QED
    BY <2>1 DEF RemovalInv, ReleasedLeft, LandingsFresh
<1> QED
  BY <1>1, <1>2, BrowserKeepsFresh DEF Next

\* A refresh never puts back a row that this browser has released and taken out
\* (RemovedStaysRemoved): what lands was answered after the removal.
THEOREM TakenOutStaysOut == Spec => RemovedStaysRemoved
<1>1. Init => RemovalInv
  BY NewFetch DEF Init, HoldInit, RemovalInv, ReleasedLeft, LandingsFresh
<1>2. Init => Bounded
  BY SidesAssumption DEF Init, HoldInit, Bounded, Generations, SidesAssumption
<1>3. MirrorInv /\ Bounded /\ [Next]_vars => MirrorInv'
  BY NextMirror DEF Bounded
<1>4. MirrorInv => FetchesTyped
  BY DEF MirrorInv
<1>5. RemovalInv => (\A i \in Fetches : Land(i) => view' \cap removed \subseteq view)
  BY DEF RemovalInv, LandingsFresh, Land, Replace
<1>6. RemovalInv => [\A i \in Fetches : Land(i) => view' \cap removed \subseteq view]_vars
  BY <1>5
<1> QED
  BY <1>1, <1>2, <1>3, <1>4, <1>6, InitMirror, SeqBounded, NextRemoval, PTL DEF Spec, RemovedStaysRemoved
-----------------------------------------------------------------------------
(* Types: what MirrorInv does not say of them *)

EngineType == enabled \subseteq Sides /\ entered \subseteq Items /\ mine \subseteq Items /\ removed \subseteq Items

StreamType ==
  /\ link \in {"down", "open", "live"} /\ cuts \in 0..MaxCuts
  /\ Len(chan) <= Buffer /\ Len(wire) <= 1

BrowserType ==
  /\ view \subseteq Items /\ pending \in BOOLEAN /\ resync \in BOOLEAN /\ unknown \in BOOLEAN
  /\ \A i \in Fetches : fetches[i].seq \in Generations

RestType == EngineType /\ StreamType /\ BrowserType

\* The parts give the type invariant: generations on the screen are past ones.
LEMMA PartsGiveTypes == MirrorInv /\ Bounded /\ RestType => TypeOK
<1> SUFFICES ASSUME MirrorInv, Bounded, RestType PROVE TypeOK
  OBVIOUS
<1>1. seq \in Nat /\ MaxSeq \in Nat /\ seq <= MaxSeq
  BY SidesAssumption DEF Bounded, Generations, SidesAssumption
<1>2. viewSeq \in Generations \cup {Unknown}
  BY <1>1 DEF MirrorInv, ViewSound, Generations
<1>3. fetches \in [Fetches -> [at : {"idle", "asked", "answered"}, seq : Generations,
                               items : SUBSET Items, overtaken : BOOLEAN, gap : BOOLEAN]]
  BY DEF MirrorInv, FetchesTyped, Fetch, RestType, BrowserType
<1> QED
  BY <1>2, <1>3 DEF MirrorInv, EngineInv, EmitsTyped, FramesSound, Bounded, RestType, EngineType, StreamType,
     BrowserType, TypeOK

\* The engine and the browser's own releases.
LEMMA EngineTypeStep == MirrorInv /\ RestType /\ [Next]_vars => EngineType'
<1> SUFFICES ASSUME MirrorInv, RestType, [Next]_vars PROVE EngineType'
  OBVIOUS
<1> USE DEF RestType, EngineType
<1>1. ASSUME NEW m \in Items, EngineHolds(m) \/ EngineReleases(m) \/ ReleaseHere(m) \/ RemoveRow(m)
      PROVE  EngineType'
  BY <1>1 DEF EngineHolds, EngineReleases, ReleaseHere, RemoveRow, Enter, Leave, Change, ownVars, engineVars, holdVars
<1>2. ASSUME NEW s \in Sides, EngineSwitches(s) PROVE EngineType'
  BY <1>2 DEF EngineSwitches, SwitchOn, SwitchOff, Change
<1>3. CASE \/ (\E f \in emits : Summarise(f) \/ Broadcast(f)) \/ Connect \/ Greet \/ Pump \/ Cut \/ UNCHANGED vars
           \/ \E i \in Fetches : Ask(i) \/ Answer(i) \/ Land(i) \/ Discard(i) \/ FetchFails(i)
  <2>1. UNCHANGED <<enabled, entered, mine, removed>>
    BY <1>3 DEF Summarise, Broadcast, Connect, Greet, Pump, Cut, Ask, Answer, Land, Discard, FetchFails, Over,
       vars, engineVars, holdVars, ownVars
  <2> QED
    BY <2>1
<1>4. CASE Receive
  <2>1. UNCHANGED <<enabled, entered>>
    BY <1>4 DEF Receive, engineVars, holdVars
  <2>2. UNCHANGED <<mine, removed>>
    BY <1>4 DEF Receive, ReceiveSnapshot, ReceiveNext, ReceiveDuplicate, ReceiveGap, ownVars
  <2> QED
    BY <2>1, <2>2
<1> QED
  BY <1>1, <1>2, <1>3, <1>4 DEF Next

\* A channel never holds more than its buffer: what does not fit is lost.
LEMMA StreamTypeStep == MirrorInv /\ RestType /\ [Next]_vars => StreamType'
<1> SUFFICES ASSUME MirrorInv, RestType, [Next]_vars PROVE StreamType'
  OBVIOUS
<1> USE MirrorAssumption DEF RestType, StreamType, MirrorAssumption
<1>0. chan \in Seq(Frames) /\ wire \in Seq(Frames)
  BY DEF MirrorInv, FramesSound
<1>1. CASE UNCHANGED streamVars
  BY <1>1 DEF streamVars
<1>2. ASSUME NEW f \in emits, Broadcast(f) PROVE StreamType'
  <2>1. UNCHANGED <<link, cuts, wire>> /\ chan' = IF Lost THEN chan ELSE Append(chan, f)
    BY <1>2 DEF Broadcast
  <2>2. Len(chan') <= Buffer
    <3>1. CASE Lost
      BY <2>1, <3>1
    <3>2. CASE ~Lost
      <4>1. Len(chan) \in Nat /\ Len(chan) # Buffer
        BY <1>0, <3>2 DEF Lost
      <4>2. f \in Frames
        BY DEF MirrorInv, EmitsTyped
      <4>3. Len(Append(chan, f)) = Len(chan) + 1
        BY <1>0, <4>2
      <4> QED
        BY <2>1, <3>2, <4>1, <4>3
    <3> QED
      BY <3>1, <3>2
  <2> QED
    BY <2>1, <2>2
<1>3. CASE Connect
  BY <1>3 DEF Connect
<1>4. CASE Greet
  <2>1. UNCHANGED <<cuts, chan>> /\ link' = "live" /\ Len(wire') = 1
    BY <1>4 DEF Greet
  <2> QED
    BY <2>1
<1>5. CASE Pump
  <2>1. UNCHANGED <<link, cuts>> /\ Len(wire') = 1 /\ chan # <<>> /\ chan' = Tail(chan)
    BY <1>5 DEF Pump
  <2>2. Len(chan') <= Len(chan) /\ Len(chan') \in Nat /\ Len(chan) \in Nat
    BY <1>0, <2>1
  <2> QED
    BY <2>1, <2>2
<1>6. CASE Cut
  BY <1>6 DEF Cut
<1>7. CASE Receive
  <2>1. UNCHANGED <<link, cuts, chan>> /\ Len(wire') = 0
    BY <1>7 DEF Receive
  <2> QED
    BY <2>1
<1>8. \/ UNCHANGED streamVars \/ \E f \in emits : Broadcast(f)
      \/ Connect \/ Greet \/ Pump \/ Cut \/ Receive
  BY DEF Next, vars, EngineHolds, EngineReleases, ReleaseHere, RemoveRow, EngineSwitches, Change, Summarise,
     Ask, Answer, Land, Discard, FetchFails, Over
<1> QED
  BY <1>1, <1>2, <1>3, <1>4, <1>5, <1>6, <1>7, <1>8

\* A fetch brings a generation already given, or none.
LEMMA FetchGenerations ==
  ASSUME MirrorInv, RestType, NEW i \in Fetches
  PROVE  Asked(TRUE).seq \in Generations /\ Asked(FALSE).seq \in Generations /\ NoFetch.seq \in Generations
         /\ Overtake[i].seq \in Generations
<1>1. 0 \in Generations
  BY SidesAssumption DEF Generations, SidesAssumption
<1>2. Overtake[i].seq = fetches[i].seq
  BY DEF Overtake, MirrorInv, FetchesTyped, Fetch
<1> QED
  BY <1>1, <1>2 DEF Asked, NoFetch, RestType, BrowserType

\* Rows, switches and refreshes.
LEMMA BrowserTypeStep == MirrorInv /\ Bounded /\ RestType /\ [Next]_vars => BrowserType'
<1> SUFFICES ASSUME MirrorInv, Bounded, RestType, [Next]_vars PROVE BrowserType'
  OBVIOUS
<1> USE DEF RestType, BrowserType
<1>0. fetches \in [Fetches -> Fetch] /\ queue \subseteq Items
  BY DEF MirrorInv, FetchesTyped, EngineInv
<1>1. CASE UNCHANGED <<rowVars, fetchVars>>
  BY <1>1 DEF rowVars, fetchVars
<1>2. ASSUME NEW m \in Items, RemoveRow(m) PROVE BrowserType'
  BY <1>2, FetchGenerations DEF RemoveRow
<1>3. CASE Receive
  <2> DEFINE f == Head(wire)
  <2>1. f \in Frames
    BY <1>3 DEF Receive, MirrorInv, FramesSound
  <2>2. ReceiveSnapshot(f) \/ ReceiveNext(f) \/ ReceiveDuplicate(f) \/ ReceiveGap(f)
    BY <1>3 DEF Receive
  <2> HIDE DEF f
  <2>3. f.items \subseteq Items
    BY <2>1 DEF Frames
  <2>4. CASE ReceiveSnapshot(f)
    BY <2>3, <2>4, FetchGenerations DEF ReceiveSnapshot, Replace
  <2>5. CASE ReceiveNext(f)
    BY <2>3, <2>5 DEF ReceiveNext, fetchVars
  <2>6. CASE ReceiveDuplicate(f)
    BY <2>6 DEF ReceiveDuplicate, rowVars, fetchVars
  <2>7. CASE ReceiveGap(f)
    <3>1. UNCHANGED <<view, resync, unknown>> /\ pending' = TRUE
      BY <2>7 DEF ReceiveGap
    <3>2. fetches' = fetches \/ \E i \in Fetches : fetches' = [fetches EXCEPT ![i] = Asked(TRUE)]
      BY <2>7 DEF ReceiveGap
    <3>3. \A i \in Fetches : fetches'[i].seq \in Generations
      BY <1>0, <3>2, FetchGenerations
    <3> QED
      BY <3>1, <3>3
  <2> QED
    BY <2>2, <2>4, <2>5, <2>6, <2>7
<1>4. ASSUME NEW i \in Fetches, Ask(i) \/ Discard(i) \/ FetchFails(i) PROVE BrowserType'
  <2>1. PICK r \in {Asked(FALSE), NoFetch} : fetches' = [fetches EXCEPT ![i] = r]
    BY <1>4 DEF Ask, Discard, FetchFails, Over
  <2>2. \A j \in Fetches : fetches'[j].seq \in Generations
    BY <1>0, <2>1, FetchGenerations
  <2>3. view' = view
    BY <1>4 DEF Ask, Discard, FetchFails, Over, rowVars
  <2>4. pending' \in BOOLEAN /\ resync' \in BOOLEAN /\ unknown' \in BOOLEAN
    BY <1>4 DEF Ask, Discard, FetchFails, Over, rowVars
  <2> QED
    BY <2>2, <2>3, <2>4
<1>5. ASSUME NEW i \in Fetches, Answer(i) PROVE BrowserType'
  <2>1. /\ UNCHANGED <<view, pending, resync, unknown>>
        /\ fetches' = [fetches EXCEPT ![i] = [@ EXCEPT !.at = "answered", !.seq = seq, !.items = queue]]
    BY <1>5 DEF Answer, rowVars
  <2>2. fetches'[i].seq = seq /\ \A j \in Fetches : j # i => fetches'[j] = fetches[j]
    BY <1>0, <2>1 DEF Fetch
  <2>3. \A j \in Fetches : fetches'[j].seq \in Generations
    BY <2>2 DEF Bounded
  <2> QED
    BY <2>1, <2>3
<1>6. ASSUME NEW i \in Fetches, Land(i) PROVE BrowserType'
  <2>1. /\ view' = fetches[i].items /\ pending' = FALSE /\ resync' = resync /\ unknown' = FALSE
        /\ fetches' = [Overtake EXCEPT ![i] = NoFetch]
    BY <1>6 DEF Land, Replace
  <2>2. fetches[i].items \subseteq Items
    BY <1>0 DEF Fetch
  <2>3. \A j \in Fetches : fetches'[j] = IF j = i THEN NoFetch ELSE Overtake[j]
    BY <2>1, OvertakeKeeps DEF MirrorInv
  <2>4. \A j \in Fetches : fetches'[j].seq \in Generations
    BY <2>3, FetchGenerations
  <2> QED
    BY <2>1, <2>2, <2>4
<1>7. \/ UNCHANGED <<rowVars, fetchVars>> \/ (\E m \in Items : RemoveRow(m)) \/ Receive
      \/ \E i \in Fetches : Ask(i) \/ Answer(i) \/ Land(i) \/ Discard(i) \/ FetchFails(i)
  BY DEF Next, vars, EngineHolds, EngineReleases, ReleaseHere, EngineSwitches, Change, Summarise, Broadcast,
     Connect, Greet, Pump, Cut
<1> QED
  BY <1>1, <1>2, <1>3, <1>4, <1>5, <1>6, <1>7

LEMMA InitRest == Init => RestType
<1> SUFFICES ASSUME Init PROVE RestType
  OBVIOUS
<1>1. EngineType
  BY DEF Init, HoldInit, EngineType
<1>2. StreamType
  BY MirrorAssumption DEF Init, StreamType, MirrorAssumption
<1>3. BrowserType
  <2>1. Asked(FALSE).seq = 0 /\ NoFetch.seq = 0 /\ 0 \in Generations
    BY SidesAssumption DEF Asked, NoFetch, Generations, SidesAssumption
  <2>2. PICK i \in Fetches : fetches = [j \in Fetches |-> IF j = i THEN Asked(FALSE) ELSE NoFetch]
    BY DEF Init
  <2>3. \A j \in Fetches : fetches[j].seq \in Generations
    BY <2>1, <2>2
  <2> QED
    BY <2>3 DEF Init, BrowserType
<1> QED
  BY <1>1, <1>2, <1>3 DEF RestType

\* Every variable stays in its domain (TypeOK): no frame, refresh or row is of a
\* generation the engine has not given, and a channel keeps to its buffer.
THEOREM MirrorTypes == Spec => []TypeOK
<1>1. Init => Bounded
  BY SidesAssumption DEF Init, HoldInit, Bounded, Generations, SidesAssumption
<1>2. MirrorInv /\ Bounded /\ [Next]_vars => MirrorInv'
  BY NextMirror DEF Bounded
<1>3. MirrorInv /\ Bounded /\ RestType /\ [Next]_vars => RestType'
  BY EngineTypeStep, StreamTypeStep, BrowserTypeStep DEF RestType
<1> QED
  BY <1>1, <1>2, <1>3, InitMirror, InitRest, SeqBounded, PartsGiveTypes, PTL DEF Spec
==============================================================================
