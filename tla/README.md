# A verification project for Interseptor

Interseptor is an intercepting HTTP(S) proxy with a store of captured traffic, a hold queue
through which operators forward, edit or drop live messages, and a browser UI kept up to date by an
event stream. This directory holds TLA+ models of the parts of it where goroutines, transactions,
files and browsers act at the same time, the TLC configurations that check them on small
instances, and TLAPS proofs of the invariants that matter most, for every value of the constants.

Paths below are relative to the repository; `store/...` stands for `internal/store/...` and so on.

## 1. The system

```
 clients ──► proxy ──hold──► intercept engine ──changes──► event hub ──SSE──► browser mirror
               │                    ▲   ▲                                         │
               │ bodies             └───┴──── REST: forward, drop, toggle ◄───────┘
               ▼
          body store  ◄── release ── write-behind queue ──chunks──► SQLite ◄── readers, deletions
               ▲                         ▲                            ▲
               └── GC, merges, uploads   └── Close, drain timeout     └── findings, imports, merges
```

| Component | State | Operations | Hard behaviour | What makes it correct |
|---|---|---|---|---|
| **Capture write-behind queue** (`store/writebehind.go`) | queued writes, unsettled writes per flow, void flows, wake token, dropped count; the flusher's batch | enqueue insert / update / tags, flush, wait for a flow, drain, chunk transaction, replay, close | capture must never wait for SQLite; the buffer overflows; a transaction fails; Close gives up while the flusher still commits | a write settles once, and its fate is final; readers see what was captured; a deleted flow stays deleted; the dropped count is exact |
| **Body store** (`store/bodies.go`, `retention.go`, `merge.go`, `finding_images.go`) | files by hash, ownership counts of captures and merges, claims of the pass under way | Finalize, publish, GC pass, merge, image upload | four kinds of writer and a collector that looks at files, rows and owners at different moments | a referenced or owned file is never unlinked; ownership balances; garbage is not overlooked |
| **Intercept engine** (`intercept/`) | two hold queues, one decision channel per message, scheduled drops, generation | hold, forward, drop, schedule a drop, switch a side, client gives up | several operators and the client decide about one message; announcements overtake each other | nobody is stranded or answered twice; a scheduled drop wins; a side that is off is empty; each generation is announced once |
| **Intercept mirror** (`control/events.go`, `control/ui/js/intercept*.js`, `app.js`) | buffered channel per client, rows, known generation, snapshots in flight | broadcast, connect, greet, delta, snapshot, refresh, local removal | frames are dropped, reordered and repeated; streams break; answers are late | rows are always of one generation; what was released does not come back; a quiet mirror is exact |
| **WebSocket frames** (`store/wsframes.go`) | queued frames, the flusher's batch, rows, dropped count | save, flush, trim, delete, close | several triggers for one flusher; a batch whose transaction fails | frames are stored in order, each is accounted for, a flow keeps a bounded number |
| **Leaf certificates** (`tlsca/`) | cache, eviction order, mints in flight | leaf for a host | one mint per host, shared; expiry; eviction | bounded; no failed mint is inherited; every handshake returns |
| **CONNECT and the bypass list** (`proxy/proxy.go`, `proxy/tlsbypass.go`) | bypassed hosts and their version, the saved list, callbacks under way | tunnel, handshake, automatic bypass, save | callbacks save the whole list outside the lock; a PUT replaces it meanwhile | what is saved is what is in force |
| **Settings update** (`control/control.go`) | saved routes, what sender and proxy use, a PUT's steps | plan, apply a step, undo, commit, set | any step, and the transaction, may fail half way | store and live agree after a success and after a failure |
| **Session and login macro** (`sender/`, `control/session.go`) | session headers live and stored, login generation, shared login | send, refresh, re-authenticate, run by hand, edit | a 401 storm shares one login; edits race it; a login fails or brings nothing | one login per generation; no edit lost |
| **Collection runs** (`collrun/`) | runs by name, order of finished ones, slots, pause, pending decision | start, pause, resume, abort, decide, close | slots under concurrent starts; a run that ends before it is registered | the limits hold; the accepted answer is the decision |
| Project switch, instances (`control/project.go`, `launcher/`, `cmd/interseptor`) | armed switch, registry file | arm, fire, stop; register, reconcile | a timer that cannot be stopped any more; a late cleanup | only the last switch fires; a live instance stays registered |
| Intruder (`intruder/`) | workers, barrier, back-off | start, cancel | workers that end while others are dispatched | every payload is sent once or the run says why not |
| IP allowlist (`store/allowlist.go`) | snapshot, generation | match, reload, invalidate | reload outside the lock | a match sees the writes before it |
| Findings, versioned settings (`store/findings.go`, `versioned_setting.go`, ...) | rows with revisions | optimistic updates | left to SQLite transactions | no lost update |
| Other REST handlers, MCP, scanner, collections, scripts, vault, sysproxy, devices, reports, UI forms | see `PROJECT.json` | | I/O, child processes, text, rendering | |

`PROJECT.json` lists every component with its sources and, for those without a module, the reason.
It also lists the hazards this code is exposed to, each at its line with the properties that cover
it; a hazard that no property covers says why.

## 2. The modules

| Module | Role |
|---|---|
| `FlowCapture` | abstract: what the queue promises of a write (accepted, committed once or lost, rows follow acceptance order) |
| `FlowWriteBehind` | the queue, the flusher, readers and deletions, Close |
| `FlowWriteBehind_proofs` | the queue's invariants, what readers and deletions see, and that it implements `FlowCapture` |
| `BodyStore` | files, owners, references, the collection pass, merges, uploads |
| `BodyStore_proofs` | owners are counted right, a pass overlooks nothing and removes nothing that is needed |
| `HoldQueue` | abstract: the two hold queues and their generation. The base of the next two modules |
| `InterceptQueue` | the engine with its goroutines: holders, operators, notifications |
| `InterceptQueue_proofs` | nobody stranded; a scheduled drop wins; an off side is empty; changes are counted; it implements `HoldSpec` |
| `InterceptMirror` | hub, channel, stream and browser on top of the engine's changes |
| `InterceptMirror_proofs` | the rows a browser shows are of one generation; what it took out stays out |
| `WSFrames` | the frame queue, its flusher, deletions, Close |
| `WSFrames_proofs` | frames are accounted for in order, few are kept, deleted ones stay gone |
| `Handshakes` | the hosts and connections that the next three share |
| `LeafCache` | certificate cache and mints; a component of its own with `LeafSpec` |
| `TLSBypass` | the bypass list and the callback that saves it |
| `SettingsUpdate` | PUT /api/settings, on top of the bypass list |
| `ProxyConnect` | composes the three: CONNECT with its handshake, rejection and automatic bypass |
| `ProxyConnect_proofs` | the cache's invariants; the proxy implements `LeafSpec`; store and live agree; the saved list is the list in force |
| `SessionLogin` | requests with 401 and refresh, shared login, login by hand, edits |
| `SessionLogin_proofs` | types; one shared login; one login per generation; stored is live |
| `CollectionRuns` | the run manager and its runs |
| `CollectionRuns_proofs` | the limits hold; the last runs are kept; the first answer stands |
| `MC*` | values of the constants for TLC; nothing else |

An action is one critical section of the code, or one step between two of them: what runs under
one hold of a mutex is one action, what the code reads before it lets a lock go and uses
afterwards is a variable. Operators whose comment begins with *Fault* are wrong variants of the
definition below them (a dropped guard, a missing reset, an off-by-one); the specification does not
use them. Each checked property is paired in `PROJECT.json` with a fault that breaks it.

### Capture write-behind queue: `FlowWriteBehind`

A write is its number in the order of acceptance, its kind and its flow; what a row contains is the
number of the write it shows. `pending`, `pendingN`, `void`, `inFlight`, `closed`, `dropped` and
`wake` are the fields guarded by `flowMu`; `cmdMu`, `opCh` and `answered` are `flowCmdMu`, the
command channel and the answer a caller waits for. `pc` says where the flusher goroutine is:
in its select, draining, in a transaction, completing, replaying, or gone. `EnqueueInsertFlow`,
`EnqueueUpdateFlow` and `EnqueueAddFlowTags` each include the whole of what the code does under the
lock: the overflow that drops the oldest write, the void mark, the count, the wake-up.
`TxCommit` and `TxFail` are a chunk's transaction, `ReplayOne` and `CompleteOne` the replay write by
write. `ClientBegins` to `ClientActs` are a reader (`waitFlow`) or a deletion (`syncFlows`); one whose flush is
refused (`erred`) goes on at once, without another look at its flow. The tags of a flow that is not queued are
written directly, outside the queue, and left out.
`fate` is history: what became of each write. In the code `PassMax` and `WaitMax` are 8,
`BufCap` is 4096 and `BatchMax` 512; the theorems hold for all of them.

### Body store: `BodyStore`

`disk` is the set of files, `pendingBodies` and `mergeBodies` the ownership counts, `bodyGCClaimed`
what was claimed since the pass began. A flow goes through `HoldEdited` / `QueueInsert` /
`CaptureBody` / `QueueUpdate`; `queue` and `chunk` are the write-behind queue reduced to the hashes
each write carries (a request and a response body take part alike, so a write carries an original
and a body). A flow whose insert was dropped is `void`: its update passes the queue by (`Discard`), and the
hashes of all dropped writes are released by those who enqueued, in any order (`ReleaseDropped`). A collection pass reads the flow rows (`GCReadsFlows`), then the findings
(`GCReadsFindings`), then walks the directory (`GCVisits`, in any order) and unlinks what is
orphaned and not owned (`GCRemoves`): everything else may happen between any two of them.
A merge brings one flow; `MergeProtects`, `MergeRenames` and `MergeChecks` are the separate steps of
`copyBodiesWithOps`; a rename that fails ends the merge, and a flow that is here already is skipped by
`MergeInserts` without a release. Waiting for the queue before a deletion is `DeleteSynced`.

### Intercept engine: `HoldQueue`, `InterceptQueue`

`HoldQueue` has the two queues, the sides that are on, and the generation. `InterceptQueue`
conjoins its actions with the goroutines around them: `Hold`, `Decided`, `CancelHeld`, `CancelLate`
are the call that holds a message; `BeginForward` and `TakeForward` are the two lock
acquisitions of `Forward` with the parsing of an edited message between them; `Disable` takes
every message of a side at once and `Send`s the decisions one by one after unlocking; `Announce`,
`Finish` and `Notify` are `emit`, which runs after the lock. Match-and-replace rules transform one
message and are not modelled; whether the hold filter matches is a choice. `Notify` may overlap
the release it belongs to, which allows a little more than `emit` does.

### Intercept mirror: `InterceptMirror`

Every change of `HoldQueue` leaves a frame in `emits`; the goroutine that broadcasts it may be
overtaken, and for a reset it takes its snapshot (`Summarise`) before it broadcasts (`Broadcast`).
`chan` is the client's channel, which loses what does not fit; `Connect` registers it before
`Greet` sends the snapshot; `Cut` is a broken stream. `Receive` is the browser's reducer: the next
generation is applied, a duplicate ignored, a gap makes the generation unknown and asks for one
refresh. `Ask`, `Answer`, `Land`, `Discard`, `FetchFails` are `refreshIntercept`, whose answer is
thrown away when `interceptStateEpoch` moved; `ReleaseHere` and `RemoveRow` are a row released
from this browser. Toggle and filter requests of the same browser, selection and editing are left
out.

### WebSocket frames: `WSFrames`

`pending` is the queue, `batch` what the flusher took, `rows` the table; a frame is its number and
its flow, and its row has an id besides. The column is AUTOINCREMENT (`store/store.go:204`): `lastId` only
grows, so the ids of rows that were trimmed or deleted are not given again. `SaveWSFrame` / `SaveDropping` are the two branches of one lock hold; the flusher looks,
waits for a wake-up, its timer or a request, takes the whole queue and inserts it in one
transaction, with the trim once `PerFlow` rows were inserted, or loses it. `call` is `FlushWSFrames`,
a deletion (which flushes first) or Close. The notify callback and the pause that tests use are left
out; a restart, after which flow ids may be reused (`store/store.go:706`), too.

### CONNECT, certificates, bypass list, settings: `ProxyConnect`

`LeafCache`: `LeafForHost` is the hit path under the read lock; `FoundAfterAll`, `JoinMint`,
`LeadMint` the second look under the write lock; the mint runs without a lock, `MintEnds` stores the
leaf and clears the marker under it, `Publish` closes the channel that the waiters read in `Share`.
`TLSBypass`: `AddBypassHost` is one lock hold, `LoadVersion`, `LoadList`, `SaveList`, `CheckVersion` are
the loop of `notifyBypassAdded`. `SettingsUpdate`: a PUT plans, runs its steps (sender first, then
proxy; either refuses), saves all keys in one transaction, then applies the setters; a failure
undoes the steps, latest first. `ProxyConnect` adds what `handleConnect` does with them: `Tunnel`,
`Handshake`, `Minting`, `Accepted`, `Rejects`, `Unminted`, `Saving`.

Abstracted: wildcards of the list (membership), basic authentication, the claim of
`recordBypassOnce`, the captured row of a TLS failure, listener rebinds (they follow the pattern of
the other steps), the kept password of an upstream proxy. A handshake that ends before the
ClientHello counts as a rejection; the undo of one step is one action for both sides.

### Session and login: `SessionLogin`

`job` is a request (`Send` to `Answered`) or a run by hand; `flights` are the shared logins, `flight`
the one under way, `gen` the completed logins. `Stale`, `Follow`, `Lead` are the three outcomes of
`joinFlight`; `EndFlight` is `endFlight` with the retry of the request that led. A login answers, fails,
or brings no session header; `Merge`, `SaveLogin`, `ApplySessionHeaders`, `MarkRefreshed` are its
steps, between which anybody may act. An edit saves, reads back and applies under `sessionWriteMu`.
A session is a switch, the login's token and one header of the operator; the other fields of
`setSession`, the token macro and changes of the macro are left out. `crossed` records that a login
and another update overlapped (see section 3).

### Collection runs: `CollectionRuns`

`call` is `Start`, whose slot is reserved (`starting`) before the run has a name; `phase` is the run's
goroutine; `runs` and `order` are the manager's map and list, `Remember` its bound. Pause and resume
act on the runner first and on the status afterwards. A run that finds itself paused takes the channel
of that pause (`gate`), and once it is closed sends its request without looking again (`HoldPaused`, `Goes`,
`SendRequest`, `Wake`): after a resume and a pause in quick succession one more request goes out. `Decide` looks at the status, then offers the
answer to a channel of one. Requests are a counter `left`; cookies, delays, subscribers' events and
`setNextRequest` are left out. Two small things the model shows and no property forbids: a pause and a
resume that overlap may leave the status saying the opposite of the runner, and a second `Decide`
after the first answer was read reports success although it changes nothing.

## 3. What the runs check

Deadlock is not checked (`CHECK_DEADLOCK FALSE` in every configuration): each instance ends when
its bounds are used up, and the programs themselves may be idle for ever or closed.

| Run | Instance | Properties |
|---|---|---|
| `flow_capture` | 2 flows, 5 writes of which the second is always refused, buffer 3, chunks of 2, 1 drain pass | `NoLostWakeup` `BusyIsExact` `DroppedIsExact` `RowsMatchFates`; `EveryWriteSettles` `CloseTerminates`; refinement `PromiseSpec` |
| `flow_clients` | a reader or deleter against 3 writes of which the second is always refused, buffer 2 | `ReadsSeeCapture` `DeletedStaysDeleted`; `CallsReturn` |
| `body_capture` | 2 captured flows and an imported one over one content, a queue of 2, chunks of 2, an upload that may be refused, 1 pass, a deletion, a failed chunk | `ReferencesResolve` `CapturedBodyKept` `OwnershipBalanced` `NothingOverlooked` |
| `body_merge` | a merge and an edited flow over different contents whose files may be there already, an upload, 2 passes, a deletion, a failed chunk; renames that fail, a flow that is here already | `MergedBodiesKept` `OriginalBodyKept` |
| `intercept_queue` | 2 requests, 1 response, 2 operators, 4 changes | `NeverStranded` `ScheduledDropWins` `OffHoldsNothing` `EveryChangeCounted`; `TakenIsAnswered` |
| `intercept_mirror` | 2 requests, 3 changes, a channel of one frame, 2 refreshes in flight, 1 broken stream | `MirrorIsPast`; `RemovedStaysRemoved` |
| `proxy_connect` | 2 hosts of which one is an address, 2 connections with one CONNECT each, room for one leaf, 2 mints, 1 expiry, 1 PUT of one route and a list | `CacheIsOrdered` `NoInheritedFailure` `BypassIsSaved` `StoreAndLiveAgree`; `WaitsForItsClientOnly` |
| `session` | 2 calls (requests or runs by hand), 1 edit, 2 logins that are answered | `OneSharedLogin` `OneLoginPerGeneration` `StoredIsLive`; `OnlyTheTargetIsWaitedFor` |
| `collection_runs` | 3 runs for 2 slots, 1 kept, 2 operators, 2 operations | `ActiveBounded` `KeptAreTheLast` `FirstAnswerCounts`; `AbortedEnds` |
| `ws_frames` | 2 flows, 4 frames, buffer 3, batches of 2, 2 rows kept, 1 caller with 2 calls | `Accounted` `Retained` `DeletedStayGone`; `FramesSettle` |

What the less obvious properties say:

* `NoLostWakeup`: a drain stops after its pass cap with writes left; the flusher never goes back to
  its select without a token for them. `EveryWriteSettles` is its consequence under fairness.
* `BusyIsExact`: `pendingN` is kept by enqueue, overflow, commit, replay, abandon and Close; until
  Close gives up it equals the writes that the queue and the flusher hold.
* `PromiseSpec`: `FlowWriteBehind` implements `FlowCapture`, with the waiting writes mapped to
  those in the queue, in the batch or in the chunk whose fate is open.
* `NothingOverlooked`: the other side of `ReferencesResolve`. A collector that removes nothing is
  safe; this one, when a pass ends, has left only files that were referenced or owned.
* `NeverStranded`: a goroutine whose message left the queue has exactly one decision in its
  channel, or one release that has still to send it. A second would block for ever on the full channel.
* `EveryChangeCounted`: a generation is notified, or on its way, or carried by the release that
  made it, and only one of these: a mirror never misses a generation without a gap to see.
* `MirrorIsPast`: for a known generation, the rows are the queue at that generation, but for rows the
  user took out. A mirror may be behind; it may not be a mixture.

* `RowsMatchFates`: the rows of the table are those of the writes that were committed, each by a
  chunk or by the replay after it failed, and nothing of a failed transaction; a refused write costs
  itself only.
* `NoInheritedFailure`: sharing a mint also shares its failure, so a call may report the error only
  of a mint that was not over when the call began. Otherwise one bad moment bypasses a host.
* `BypassIsSaved`: callbacks save whole lists outside the lock and overtake each other and the PUT; the
  last one to end leaves the list in force. It excludes a setting that could not be written, and
  the window named by `crossed`: a callback that saves between the transaction of a PUT and its setter.
* `StoreAndLiveAgree`: "the store and the live proxy never diverge and a rejected request changes
  nothing", for one PUT at a time here, and for PUTs of different routes by theorem.
* `WaitsForItsClientOnly`: `handleConnect` sets no deadline on the connection it has hijacked, so a silent client
  keeps its handshake for ever. Anything else ends: no CONNECT waits for a mint that nobody runs, for another
  connection's client, or in the loop that saves the list.
* `OnlyTheTargetIsWaitedFor`: a request waits for its target without limit (`sender/sender.go:257`); a login does not,
  and nobody who waits for a login, a refresh or a slot waits for ever.
* `OneLoginPerGeneration`: requests that were refused with the same generation cost one login, even if
  the last of the refusals arrives after it. A login that failed does not count.
* `StoredIsLive`: what a restart reads is what is attached, and the operator's header is still in it.
* `Accounted`: a saved frame is queued, a row, a removed row, counted as dropped, or lost with a failed
  transaction (the code counts these nowhere, so the model does), and the rest is in order.
* `KeptAreTheLast`: a run that its `Start` registers after `Keep` others have ended is outside the list
  that forgets (`late`); the property says that this is the only exception.

**Bounds.** They are the smallest at which the cases meet. Two flows, and a buffer smaller than the
number of writes, let an insert be dropped with its update queued behind it; chunks of two with five
writes give a batch of several chunks of which one fails and is replayed; one pass is enough to
reach the pass cap with writes left. In `body_capture`, three flows overflow the queue of two, leave a flow
void and give a chunk of two writes, with an import beside them; all share one content, because
what can go wrong there is that an owner of a content takes another's share or is not seen. Every step but
the pass treats contents one by one, and the pass decides about each by itself. `body_merge` has two,
the merge's and the capture's. Two operators race for one message, and a third message keeps a drain busy. Two
refreshes let a late answer meet a younger one. A cache of one leaf and two hosts evicts, and mints an
expired host again; two handshakes share a mint or follow each other after its failure. Two calls
share a login, or lead one each when the first fails; an edit falls between any two steps of it. Three runs
for two slots include a refused start and a run that is forgotten; two operators pause, abort and answer
across each other. Four frames overflow a buffer of
three while a batch of two is being written; with two callers of one call each, `ws_frames` has
three million states and its invariants hold as well (not a run, for its time). `MaxSeq`, `MaxWrites`, `MaxCuts`, `Passes`,
`Deletes`, `Uploads`, `Failures`, `MaxMints`, `MaxExpiries`, `MaxDials`, `MaxPuts`, `MaxCalls`, `MaxEdits`,
`MaxLogins`, `MaxFrames`, `MaxOps` and `MaxRequests` bound otherwise endless behaviours; guards name
them.

**Symmetry** is used for captured flows, for contents, for requests and for refreshes, only in runs without liveness
properties and where the constants treat the members alike.

**Fairness.** The flusher is one goroutine that blocks only in its select: weak fairness on its
steps. A call that has begun takes its own steps; `flowCmdMu` is a `sync.Mutex`, whose starvation
mode hands the lock to a waiter after a millisecond, hence strong fairness on taking it. Close, once
begun, goes on; that its timeout fires is not assumed. In the intercept engine a receive whose
decision is there, a release that has begun and a notification proceed. A CONNECT takes its own steps, with
or without its certificate: a mint ends one way or the other; that the client's handshake ends is not assumed.
So do a PUT, a run and its `Start`. A call of the sender takes the steps between its requests; a
login ends within `macroRequestTimeout`, but nothing says that the target of a request answers. The frame
flusher goes on, and its timer, once armed, fires; a flush or deletion gets `wsCmdMu` in the end
(strong fairness, as above). Nothing is assumed of clients, targets, operators, browsers, of new traffic or of
SQLite succeeding.

### Where the code and its documentation differ

Two of these are runs that TLC ends with a counterexample; `PROJECT.json` quotes the lines.

1. `body_edited` (`CapturedBodyKept`): an edited request's original body is owned once but
   released with its insert and again with its update. The surplus release takes the ownership of
   another flow that captured the same content. Once the edited flow's own row is deleted, nothing
   references the file, and a pass can unlink a body whose row has not committed.
2. `mirror_stale` (`QuietIsExact`): a reset's snapshot taken at one generation and broadcast after a
   later delta takes the browser back, without any frame lost, and it stays there.

Divergences 3 to 8 are left out of the passing runs by their constants or by a history variable, and show
when that is taken away:

3. Inserting a merged flow releases hashes that the merge owned in `mergeBodies` only
   (`store/store.go:517`), so it strips a capture in flight of its ownership. `BodyMerge.cfg` with
   `Captured = {h1, h2}`, `Edited = {}` and `INVARIANT CapturedBodyKept`.
4. A refused image removes "its" file (`store/finding_images.go:61`), which a merge has renamed into
   place after the upload looked and now relies on. `BodyMerge.cfg` with `Rejects = TRUE`:
   `MergedBodiesKept`.
5. The refresh that a gap asked for is discarded when the user releases a row meanwhile
   (`control/ui/js/app.js:792`), and no other is asked for: the mirror stays of an unknown generation
   until the next frame.
6. Two PUTs of the settings at once interleave their steps, and each undoes to what it read: the
   promise quoted at `control/control.go:1958` is kept by one PUT at a time, and by PUTs that do not have
   the same route. `ProxyConnect.cfg` with two `Requests` and `MaxPuts = 2`: `StoreAndLiveAgree`.
7. A login saves and applies without `sessionWriteMu` (`control/session.go:254`), so one that overlaps an
   edit can leave the stored and the live session different, or take the edit away: `StoredIsLive`
   without `~crossed`.
8. Behind a CONNECT to an address, the bypass decision looks the address up (`proxy/proxy.go:484`) while
   the automatic bypass adds the name of the ClientHello (`:505`): the next CONNECT to that address is
   intercepted again. `LogicalHosts` has this; no property claims otherwise.

And one where the documentation is behind the code, which does better:

9. The comment of `GCBodies` (`store/retention.go:270`) and `docs/architecture.md:121` say that a HAR import takes no
   lasting ownership of its bodies, so that a pass that starts between `Finalize` and the row sees an orphan.
   It does take it: `control/har.go:93`, `98`, `117` and `122` stage every body with `stageImportedBody`
   (`control/burp.go:124`), whose `NewFlowBodyWriter` owns the hash until `InsertFlow` publishes it; the `storeBody` that
   does not (`control/har.go:149`) has no caller outside the tests. `CaptureBody` is the code; the fault
   `CaptureUnprotected` is an importer as the comment has it, and `ReferencesResolve` fails with it. Of the
   screenshots the comment is right: `UploadStores` owns nothing and relies on `bodyMu`.

## 4. What is proved

`tlapm` checks these for all values of the constants that satisfy the `ASSUME`s: bounds are natural
numbers, positive where the code needs a buffer, `SideOf` gives every message a side, there is a host,
a flow and a header value, the two names for "nobody" and "Close" as holders of `flowCmdMu` are no
clients, and "field not in the body" (`Same`) is no value and no list. Unless the statement is given,
it is `Spec => []P` for the property `P` that is named.

**Capture queue** (`FlowWriteBehind_proofs`)

| Theorem | Of | Argument |
|---|---|---|
| `TypeCorrect` | `TypeOK` | With `HeadInv` (the flusher completes one write only when its chunk has one) and `TargetInv` (a client at work has a flow). |
| `WakeupNeverLost` | `NoLostWakeup` | The property speaks of the select only; `WakeInv` says it of every state outside a drain, where `DrainReturns` re-arms the token. |
| `BusyCountIsExact` | `BusyIsExact` | `BusyInv` counts the writes of a flow place by place: chunk, rest of the batch, queue. `LineInv` (what a batch is, numbers in order, what is queued has no fate, what Close leaves) lets an overflow, a chunk and an abandoned batch take out what was counted. |
| `DroppedCountIsExact` | `DroppedIsExact` | With `LineInv`: a dropped write was in one place and had no fate. |
| `RowsShowCommitted` | `RowsMatchFates` | With `Inserted`: a flow is inserted once, and its row and void mark come after its insert. |
| `ReadsSeeAllCaptured` | `ReadsSeeCapture` | `CommandInv`: the one command under way is the flush of the client that holds `flowCmdMu`. `FlushInv`: while it is served, what was accepted before the call has left the queue, and has its fate when it is answered. |
| `DeletedNeverReturns` | `DeletedStaysDeleted` | `DeletedInv`: a deleted flow has no row and no insert on its way. By `SeenInv` its insert is older than the call that deletes it, so the flush has seen it. |
| `KeepsPromise` | `Spec => PromiseSpec` | Step simulation: enqueues accept, overflow and abandonment lose, a chunk or a replayed write applies, everything else stutters. Under `LineInv`, `Inserted` and `SeenInv` the waiting writes of `FlowCapture` are those in queue, batch and chunk whose fate is open. |

**Body store** (`BodyStore_proofs`). `Undisturbed`: where merges run, no upload is refused (a condition on
the constants). `Parted` is a condition on the behaviour, in three parts, all of them about ownership that
the code releases once too often:

* `OwnContents`: an edited flow has its contents to itself;
* `NoneOvertaken`: the update of an edited flow is not among the writes put out of a full queue while the
  flusher's chunk still has its insert;
* `MergeTakesNothing`: a merge that has inserted its flow finds no capture owning a content of the peer's.

| Theorem | Of | Argument |
|---|---|---|
| `TypeCorrect` | `TypeOK` | With `MergeCounted` (what a merge has still to release is counted in `mergeBodies`), `UploadNamed`, `HeadThere`, `DeleteCounted`. |
| `PassOverlooksNothing` | `NothingOverlooked` | `PassInv`: while a pass is under way, an owned content was owned when it began or claimed since; what the walk has come to is seen or an orphan, never both. So when no orphan is left, every file that is was owned or referenced when the pass looked, or claimed since: the pass leaves no garbage behind. No hypothesis. |
| `OwnersAreCounted` | `Edited = {}` implies `Spec /\ []MergeTakesNothing => []OwnershipBalanced` | `BalanceInv`: the owners of a content are the flows between capture and their update's settlement, each once in queue, chunk or among the dropped; the counter is their cardinality. It also holds beside edited requests, for contents that are nobody's original. |
| `ForeignAreCounted` | the same for `Foreign` merges, without the temporal hypothesis | A merge of contents that capture never stores finds nothing to take. |
| `MergesAreKept` | `Undisturbed` implies `Spec => []MergedBodiesKept` | A file goes only by a pass, which a merge's claim or count has told, or with a refused upload. |
| `ReferencesAreKept` | `Undisturbed` implies `Spec /\ []Parted => []ReferencesResolve` | `SafeInv`: what is owned is on disk, rows and images resolve, and a pass has seen them from the moment it read them; what is written into a row is owned at that moment, so it has been seen. |
| `CapturesAreKept` | `Undisturbed` implies `Spec /\ []Parted => []CapturedBodyKept` | The flow is an owner (`BalanceInv`), or its body is its own original (`OriginalOwned`), and what is owned is there. |
| `OriginalsAreKept` | `Undisturbed` implies `Spec /\ []Parted => []OriginalBodyKept` | `EditedInv`, below. |
| `UneditedAreKept` | `Edited = {}`, `Foreign` and `Undisturbed` imply `Spec => [](ReferencesResolve /\ CapturedBodyKept)` | `Parted` holds by itself then. |

`EditedInv` is about the two writes of a flow. `InTurn`: nothing overtakes anything, an insert comes before
its update, what the flusher took and what was dropped is older than the queue, and no write is in two
places. `OriginalOwned`: until its update has been released a flow owns its original for the insert on
its way, and once more if its body has the same content. `InsertAhead`: no insert is left behind by the
release of its update. `OriginalInRow`: a row that the insert made has the original, so the update, which
names it again, brings nothing to the row that is not owned. `VoidGone`: of a void flow no insert is on its way,
so the update that passes the queue by overtakes nothing.

None of the three parts of `Parted` can be left out: without any one of them TLC finds a behaviour of
two flows that breaks one of the properties (the first is `body_edited`; the first and third are
divergences 1 and 3 of section 3, `Undisturbed` is divergence 4; the second is the surplus release of
divergence 1 again, taken by the flow's own insert). With them `EditedInv` and the three properties
hold there as well, which was the test of the invariant before its proof. `BodyCapture.cfg` (no edited
request, no merge) and `BodyMerge.cfg` (one edited flow, a `Foreign` merge, no refusals) satisfy all of them.

**Intercept** (`InterceptQueue_proofs`, `InterceptMirror_proofs`)

| Theorem | Of | Argument |
|---|---|---|
| `InterceptTypes` | `TypeOK` | Strengthened by `GenerationKnown`: what is announced or carried is a generation already given. |
| `NobodyIsStranded` | `NeverStranded` | `HoldInv`: queued messages have a waiting goroutine, an answer in a channel has one too, whoever waits is queued, answered or due, and a due message is due from one release. |
| `DropWins` | `ScheduledDropWins` | `DropInv`: a forward that has taken its message took an unmarked one, and a message without decision has no verdict. |
| `OffIsEmpty` | `OffHoldsNothing` | Inductive by itself: joining a queue and switching it off are under one lock. |
| `ChangesAreCounted` | `EveryChangeCounted` | With `CarriedOnce`: no two releases carry the same generation. |
| `EngineHolds` | `Spec => HoldSpec` | Every step is one of `HoldQueue` or leaves its variables alone. |
| `MirrorTypes` | `TypeOK` | From `MirrorInv`: a generation that a frame, an answer or the rows claim is a past one. |
| `RowsAreOfOneGeneration` | `MirrorIsPast` | `MirrorInv`: every frame and every answered refresh, wherever it is, agrees with the history `past` at its generation; a contiguous delta applied to sound rows gives sound rows. |
| `TakenOutStaysOut` | `Spec => RemovedStaysRemoved` | `RemovalInv`: what was taken out has left the queues for good, and an answer that may still land was taken after the last removal. |

**WebSocket frames** (`WSFrames_proofs`)

| Theorem | Of | Argument |
|---|---|---|
| `FramesTyped`, `FramesAccounted` | `TypeOK`, `Accounted` | `FrameInv`: types, `OrderInv` (numbers grow along batch and queue, rows are older than both, ids order rows as numbers do) and `CountInv` (each saved frame was given an id, is in the line, dropped or lost). |
| `FramesRetained` | `Retained` | `KeptInv`: a flow not written to since the last trim has at most `PerFlow` rows, another at most as many more as were inserted since. That a trim leaves at most `PerFlow` is the lemma `NewestAreFew`, on finite sets of ids. |
| `DeletedFramesStayGone` | `DeletedStayGone` | `LockInv` (the holder of `wsCmdMu` is the caller that asked), `ClosedInv` (after Close nothing stays queued), `FlushedInv` (a caller that was answered has its frames behind it), `GoneInv` (line and rows are younger than what was deleted). |

**Proxy** (`ProxyConnect_proofs`)

| Theorem | Of | Argument |
|---|---|---|
| `OneMintAtATime` | `LeafSpec => []OneMintPerHost` | A marked host has a mint of its own that is not done; the marker is cleared before the result is published (`MintInv`). |
| `CacheStaysOrdered` | `LeafSpec => []CacheIsOrdered` | Inductive with the types: each of the three ways to store keeps order and cache the same set, without repetition. |
| `NoErrorInherited` | `LeafSpec => []NoInheritedFailure` | `PastInv`: nobody runs, awaits or reports a mint of its past. A call joins only a marked mint, and a marked mint is not done. |
| `ProxyUsesLeafCache` | `Spec => LeafSpec` | Every step of the proxy is a step of the cache or leaves it alone. |
| `ProxyCacheIsOrdered`, `ProxyInheritsNoFailure` | `CacheIsOrdered`, `NoInheritedFailure` | From the step simulation and the theorems of the cache. |
| `ProxyTypes` | `TypeOK` | For any number of PUTs at once. With `PutShape`: what an undo goes back to was saved, and a PUT between sender and proxy is at a field of its body. |
| `SettingsNeverDiverge` | `Spec /\ []RoutesApart => []StoreAndLiveAgree` | `RouteInv`: a route is the business of the one PUT that has it: the steps before its next one are in force and the others are as saved, so whatever fails, the undo goes back to what is saved. A route that no PUT has is in force as saved. `OneProgress`: the steps of other PUTs do not touch it. |
| `SavedListIsTheListInForce` | `Spec /\ []ListsApart => []BypassIsSaved` | `ListInv`: a callback saves the list in force unless the version it read is old, and then it will see that; otherwise the saved list is current, or a PUT has still to apply it, or a callback is busy. |

Any number of PUTs may run at once in these theorems. Each of the two last ones has a hypothesis on the
behaviour, not on the model: `RoutesApart`, that no two PUTs under way have the same route in their body,
and `ListsApart`, that no two PUTs are both between the transaction that saved their list and the setter
that puts it in force. The server enforces neither, and both are needed: divergence 6 above shows what
happens without the first, and the same two `Requests` with lists and no routes violate `BypassIsSaved`
without the second (two lists are saved in one order and put in force in the other). The run
`proxy_connect`, with one request, satisfies both.

**Sessions and runs** (`SessionLogin_proofs`, `CollectionRuns_proofs`)

| Theorem | Of | Argument |
|---|---|---|
| `LoginIsShared` | `OneSharedLogin` | `SharedInv`, over the roles of requests: nobody's role changes but that of the one that takes the step (`StepsOfRoles`). |
| `LoginsAreOfDistinctGenerations` | `OneLoginPerGeneration` | `Generations`: the generation moves on before a successful flight ends, so a later flight leaves a later one. |
| `StoredSessionIsLive` | `StoredIsLive` | `UpdateInv`: while updates do not overlap, at most one is under way and what it saved is what it will apply. |
| `TypeCorrect` | `TypeOK` | With the parts below. |
| `ActiveAreBounded` | `ActiveBounded` | `ManagerInv`: the slots reserved are the `Start`s between reservation and registration, and these and the active runs together keep to the limit. |
| `LastAreKept` | `KeptAreTheLast` | `KeptInv`: the list names each ended run once and is the tail of the order in which they ended, but for late ones; the lemma `LastOfList` says what cutting a list to its last `k` takes away. |
| `FirstAnswerStands` | `FirstAnswerCounts` | `AnswerInv`: until a run has decided, the answer in its channel is the first one. |

**Only model-checked.** Liveness (`EveryWriteSettles`, `CloseTerminates`, `CallsReturn`,
`TakenIsAnswered`, `WaitsForItsClientOnly`,
`OnlyTheTargetIsWaitedFor`, `AbortedEnds`, `FramesSettle`): fairness needs `ENABLED`, which is
outside the prover. Induction over data is out of reach too, so nothing is proved of recursive definitions,
and the modules have none.

## 5. What is not modelled, and the plan

Left out for good: parsing, TLS and forwarding themselves; SQL queries and what SQLite guarantees
within one transaction; text transformations (rules, codecs, reports, imports); child processes and
devices; rendering. Together these are most of the repository: the models cover the parts where
several actors meet, which are a small share of its lines. Left out of the modelled components:
match-and-replace rules and filters (a choice), the findings a merge brings, retention by age, the
UI's own toggles, and what section 2 names for each module.

Next, in order of importance:

1. **`ProjectSwitch`** (`control/project.go:695`, `launcher/`): timers that fire while they are being
   stopped, shutdown that waits for a relaunch, the registry of instances that are restarted.
   Only the last target fires; no relaunch begins after shutdown.
2. **`AllowlistCache`** (`store/allowlist.go:137`): a snapshot taken outside the lock against writers; an
   abstract linearizable list implemented by it.
3. **`Intruder`**: dispatch, barrier and back-off against cancel.
4. **`SysProxy`**: enable, crash and restore of the desktop's proxy settings.

Proofs: the invariants of the modules above as they are written.
