--------------------------- MODULE InterceptMirror ---------------------------
(***************************************************************************)
(* The copy of the hold queues that a browser keeps: the engine's changes,  *)
(* broadcast by goroutines that race each other (control/events.go), a      *)
(* buffer that drops when it is full, a stream that breaks and comes back,  *)
(* and the reducer that applies deltas by generation or fetches a snapshot  *)
(* (ui/js/intercept-delta.js, intercept.js, app.js).                        *)
(***************************************************************************)
EXTENDS HoldQueue, Integers, Sequences

CONSTANTS Fetches,  \* snapshot requests that may be in flight at once (bound)
          Buffer,   \* frames a client's channel holds
          MaxCuts   \* bound: broken streams

ASSUME MirrorAssumption == Buffer \in Nat \ {0} /\ MaxCuts \in Nat

VARIABLES
  past,     \* what the queues held at each generation
  emits,    \* changes applied and not yet broadcast
  link,     \* the event stream: down, open (channel registered), live (greeted)
  cuts,     \* broken streams so far
  chan,     \* the client's channel in the hub
  wire,     \* the frame on its way to the browser
  view,     \* the rows the browser shows
  viewSeq,  \* interceptSeq: the generation they mirror, or Unknown
  pending,  \* interceptResnapshotPending
  fetches,  \* refreshIntercept calls
  resync,   \* a reconnect has scheduled a refresh
  unknown,  \* interceptUnknown: the last refresh failed, and the UI says so
  mine,     \* messages this browser released, whose answer is on its way
  removed   \* rows it took out itself

engineVars == <<holdVars, past, emits>>
streamVars == <<link, cuts, chan, wire>>
rowVars == <<view, viewSeq, pending>>
fetchVars == <<fetches, resync, unknown>>
ownVars == <<mine, removed>>
vars == <<engineVars, streamVars, rowVars, fetchVars, ownVars>>

Unknown == -1
Generations == 0..MaxSeq
Frames == [kind : {"hello", "snapshot", "held", "released", "reset"},
           seq : Generations, items : SUBSET Items]

Summary(kind) == [kind |-> kind, seq |-> seq, items |-> queue]

\* A fetch: where it is, what it brings, whether interceptStateEpoch has moved on
\* since it began, and whether a gap asked for it.
NoFetch == [at |-> "idle", seq |-> 0, items |-> {}, overtaken |-> FALSE, gap |-> FALSE]
Asked(gap) == [NoFetch EXCEPT !.at = "asked", !.gap = gap]

\* At boot every panel is fetched before the stream is opened.
Init ==
  /\ HoldInit /\ past = [n \in {0} |-> {}] /\ emits = {}
  /\ link = "down" /\ cuts = 0 /\ chan = <<>> /\ wire = <<>>
  /\ view = {} /\ viewSeq = Unknown /\ pending = FALSE
  /\ \E i \in Fetches : fetches = [j \in Fetches |-> IF j = i THEN Asked(FALSE) ELSE NoFetch]
  /\ resync = FALSE /\ unknown = FALSE /\ mine = {} /\ removed = {}

(* ------------------------------ the engine ------------------------------ *)

Change(kind, items) ==
  /\ past' = [n \in 0..seq' |-> IF n = seq' THEN queue' ELSE past[n]]
  /\ emits' = emits \cup {[kind |-> kind, seq |-> seq', items |-> items]}
  /\ UNCHANGED <<streamVars, rowVars, fetchVars, removed>>

EngineHolds(m) == Enter(m) /\ Change("held", {m}) /\ UNCHANGED mine

\* Another client, or the one whose request it is.
EngineReleases(m) == Leave(m) /\ Change("released", {m}) /\ UNCHANGED mine

\* Forward or Drop from this browser, on a row it shows.
ReleaseHere(m) ==
  /\ m \in view /\ Leave(m) /\ Change("released", {m})
  /\ mine' = mine \cup {m}

EngineSwitches(s) ==
  /\ SwitchOn(s) \/ SwitchOff(s)
  /\ Change("reset", {}) /\ UNCHANGED mine

(* -------------------------------- the hub ------------------------------- *)

\* A reset is broadcast as a snapshot taken then, not when the change was made.
Summarise(f) ==
  /\ f \in emits /\ f.kind = "reset"
  /\ emits' = (emits \ {f}) \cup {Summary("snapshot")}
  /\ UNCHANGED <<holdVars, past, streamVars, rowVars, fetchVars, ownVars>>

\* Sends never block: a full channel, or no channel, loses the frame.
Lost == link = "down" \/ Len(chan) = Buffer

Broadcast(f) ==
  /\ f \in emits /\ f.kind # "reset"
  /\ emits' = emits \ {f}
  /\ chan' = IF Lost THEN chan ELSE Append(chan, f)
  /\ UNCHANGED <<holdVars, past, link, cuts, wire, rowVars, fetchVars, ownVars>>

\* handleEvents registers the channel ...
Connect ==
  /\ link = "down"
  /\ link' = "open"
  /\ UNCHANGED <<engineVars, cuts, chan, wire, rowVars, fetchVars, ownVars>>

\* ... and only then takes the snapshot that it sends first.
Greet ==
  /\ link = "open"
  /\ link' = "live" /\ wire' = <<Summary("hello")>>
  /\ UNCHANGED <<engineVars, cuts, chan, rowVars, fetchVars, ownVars>>

Pump ==
  /\ link = "live" /\ wire = <<>> /\ chan # <<>>
  /\ wire' = <<Head(chan)>> /\ chan' = Tail(chan)
  /\ UNCHANGED <<engineVars, link, cuts, rowVars, fetchVars, ownVars>>

\* The stream breaks: nothing is replayed.
Cut ==
  /\ link # "down" /\ cuts < MaxCuts
  /\ link' = "down" /\ cuts' = cuts + 1 /\ chan' = <<>> /\ wire' = <<>>
  /\ UNCHANGED <<engineVars, rowVars, fetchVars, ownVars>>

(* ------------------------------ the browser ----------------------------- *)

Overtake == [i \in Fetches |-> [fetches[i] EXCEPT !.overtaken = fetches[i].at # "idle"]]

\* replaceInterceptState: an authoritative snapshot rebases the generation.
Replace(n, items) == view' = items /\ viewSeq' = n

ReceiveSnapshot(f) ==
  /\ f.kind \in {"hello", "snapshot"}
  /\ Replace(f.seq, f.items) /\ pending' = FALSE
  /\ fetches' = Overtake
  /\ resync' = (resync \/ (f.kind = "hello" /\ cuts > 0))
  /\ UNCHANGED <<unknown, ownVars>>

IsDelta(f) == f.kind \in {"held", "released"}

\* Fault: a later delta is applied as well as the next one.
AnyLater(f) == viewSeq # Unknown /\ f.seq > viewSeq

Contiguous(f) == viewSeq # Unknown /\ f.seq = viewSeq + 1

ReceiveNext(f) ==
  /\ IsDelta(f) /\ Contiguous(f)
  /\ view' = IF f.kind = "held" THEN view \cup f.items ELSE view \ f.items
  /\ viewSeq' = f.seq
  /\ UNCHANGED <<pending, fetchVars, ownVars>>

ReceiveDuplicate(f) ==
  /\ IsDelta(f) /\ viewSeq # Unknown /\ f.seq <= viewSeq
  /\ UNCHANGED <<rowVars, fetchVars, ownVars>>

\* One fetch at a time is asked for by a gap.
ReceiveGap(f) ==
  /\ IsDelta(f) /\ (viewSeq = Unknown \/ f.seq > viewSeq) /\ ~Contiguous(f)
  /\ viewSeq' = Unknown /\ pending' = TRUE
  /\ IF pending
       THEN UNCHANGED fetches
       ELSE \E i \in Fetches : /\ fetches[i].at = "idle"
                               /\ fetches' = [fetches EXCEPT ![i] = Asked(TRUE)]
  /\ UNCHANGED <<view, resync, unknown, ownVars>>

Receive ==
  /\ wire # <<>>
  /\ LET f == Head(wire) IN
       ReceiveSnapshot(f) \/ ReceiveNext(f) \/ ReceiveDuplicate(f) \/ ReceiveGap(f)
  /\ wire' = <<>>
  /\ UNCHANGED <<engineVars, link, cuts, chan>>

\* resyncAfterStaleReconnect, or the Retry button of a failed refresh.
Ask(i) ==
  /\ fetches[i].at = "idle" /\ (resync \/ unknown)
  /\ fetches' = [fetches EXCEPT ![i] = Asked(FALSE)]
  /\ resync' = FALSE
  /\ UNCHANGED <<engineVars, streamVars, rowVars, unknown, ownVars>>

Answer(i) ==
  /\ fetches[i].at = "asked"
  /\ fetches' = [fetches EXCEPT ![i] = [@ EXCEPT !.at = "answered", !.seq = seq, !.items = queue]]
  /\ UNCHANGED <<engineVars, streamVars, rowVars, resync, unknown, ownVars>>

\* Fault: the answer is applied whatever has happened since it was asked for.
LandAlways(i) ==
  /\ fetches[i].at = "answered"
  /\ Replace(fetches[i].seq, fetches[i].items) /\ pending' = FALSE
  /\ fetches' = [Overtake EXCEPT ![i] = NoFetch]
  /\ unknown' = FALSE
  /\ UNCHANGED <<engineVars, streamVars, resync, ownVars>>

Land(i) ==
  /\ fetches[i].at = "answered" /\ ~fetches[i].overtaken
  /\ Replace(fetches[i].seq, fetches[i].items) /\ pending' = FALSE
  /\ fetches' = [Overtake EXCEPT ![i] = NoFetch]
  /\ unknown' = FALSE
  /\ UNCHANGED <<engineVars, streamVars, resync, ownVars>>

\* The finally of a fetch that brought nothing: discarded, or failed.
Over(i) ==
  /\ fetches' = [fetches EXCEPT ![i] = NoFetch]
  /\ pending' = (pending /\ ~fetches[i].gap)
  /\ UNCHANGED <<engineVars, streamVars, view, viewSeq, resync, ownVars>>

Discard(i) ==
  /\ fetches[i].at = "answered" /\ fetches[i].overtaken
  /\ Over(i) /\ UNCHANGED unknown

FetchFails(i) ==
  /\ fetches[i].at = "asked"
  /\ Over(i) /\ unknown' = (unknown \/ ~fetches[i].overtaken)

\* reconcileHeldRemoval: the release is answered once it has been broadcast.
RemoveRow(m) ==
  /\ m \in mine /\ \A f \in emits : f.kind = "released" => m \notin f.items
  /\ view' = view \ {m} /\ mine' = mine \ {m} /\ removed' = removed \cup {m}
  /\ fetches' = Overtake
  /\ UNCHANGED <<engineVars, streamVars, viewSeq, pending, resync, unknown>>

Next ==
  \/ \E m \in Items : EngineHolds(m) \/ EngineReleases(m) \/ ReleaseHere(m) \/ RemoveRow(m)
  \/ \E s \in Sides : EngineSwitches(s)
  \/ \E f \in emits : Summarise(f) \/ Broadcast(f)
  \/ Connect \/ Greet \/ Pump \/ Cut \/ Receive
  \/ \E i \in Fetches : Ask(i) \/ Answer(i) \/ Land(i) \/ Discard(i) \/ FetchFails(i)

Spec == Init /\ [][Next]_vars

(* ------------------------------ properties ------------------------------ *)

\* Every variable stays in its domain.
TypeOK ==
  /\ enabled \in SUBSET Sides /\ queue \in SUBSET Items /\ entered \in SUBSET Items
  /\ seq \in Generations /\ past \in [0..seq -> SUBSET Items]
  /\ emits \in SUBSET Frames
  /\ link \in {"down", "open", "live"} /\ cuts \in 0..MaxCuts
  /\ chan \in Seq(Frames) /\ Len(chan) <= Buffer /\ wire \in Seq(Frames) /\ Len(wire) <= 1
  /\ view \in SUBSET Items /\ viewSeq \in Generations \cup {Unknown} /\ pending \in BOOLEAN
  /\ fetches \in [Fetches -> [at : {"idle", "asked", "answered"}, seq : Generations,
                              items : SUBSET Items, overtaken : BOOLEAN, gap : BOOLEAN]]
  /\ resync \in BOOLEAN /\ unknown \in BOOLEAN
  /\ mine \in SUBSET Items /\ removed \in SUBSET Items

\* Rows with a known generation are what the engine held at that generation,
\* but for rows this browser has taken out: lost, repeated and reordered frames
\* never mix two generations on the screen.
MirrorIsPast ==
  viewSeq # Unknown => view \subseteq past[viewSeq] /\ past[viewSeq] \ removed \subseteq view

\* A refresh never puts back a row this browser has released and taken out: what
\* it brings was asked for after the release, or is discarded.
RemovedStaysRemoved == [][\A i \in Fetches : Land(i) => view' \cap removed \subseteq view]_vars

\* Nothing is on its way to the browser, and it does not say that it is behind.
Quiet ==
  /\ link = "live" /\ emits = {} /\ chan = <<>> /\ wire = <<>>
  /\ \A i \in Fetches : fetches[i].at = "idle"
  /\ ~resync /\ ~unknown /\ mine = {}

\* What intercept-delta.js promises: a quiet browser that knows its generation
\* shows the queues as they are.
QuietIsExact == Quiet /\ viewSeq # Unknown => view = queue

==============================================================================
