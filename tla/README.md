# Verification of the incremental (delta) xDS stream server

This directory holds TLA+ models of the delta xDS stream handler in
`src/pkg/server/delta/v2/server.go`, and of the earlier per-type handler in
`src/pkg/server/v2/delta.go`. It contains the TLC configurations that
model-check the models on small instances, and TLAPS proofs of the key
invariants for every value of the constants.

## 1. The system

A delta xDS stream is served by three cooperating parties.

- **The processor**: `processDelta`, lines 153-340. It is a single event loop
  with a `select` over three cases:
  - the server context (`s.ctx.Done()`);
  - the muxed, buffered response channel `values.deltaResponses`;
  - the request channel `reqCh`.

  It owns the stream state: `deltaNonces`, `deltaCancellations` and
  `deltaStreamStates`.
  - For a response, `process()` does the following:
    - `send()` stamps the next nonce, `strconv.FormatInt(streamNonce)`, and calls `str.Send`;
    - it records the nonce;
    - it clears the type's cancel handle;
    - it installs the new stream state via `update()`.
  - For a request, the processor does the following:
    - it rehydrates the node;
    - it polices the type URL;
    - it applies the unsubscribe to the version map;
    - it calls `OnStreamDeltaRequest`;
    - if the type is unseen, or the request carries the last nonce sent for it, it (re)creates the watch. The sequence is: `cancel()` the old one, drain the channel with `processAll`, then call `CreateDeltaWatch` with the current stream state.
  - A deferred function cancels every non-nil handle and calls
    `OnDeltaStreamClosed`. It is installed before `OnDeltaStreamOpen` is
    called.
- **The reader goroutine**: `DeltaStreamHandler`, lines 342-365. It loops on
  `Recv`:
  - it exits if the `reqStop` flag is set;
  - it closes `reqCh` on an error;
  - otherwise it pushes the request on the unbuffered `reqCh`.

  The handler sets `reqStop` after `processDelta` returns.
- **The cache**: `ConfigWatcher`, which is not under `src/`.
  - `CreateDeltaWatch(req, channel, state)` returns a cancel handle.
  - A watch answers at most once, by sending on the stream's channel. It may
    send inside `CreateDeltaWatch` itself.
  - The stream state is passed by value, but its `ResourceVersions` map is
    passed by reference.

The legacy handler, `src/pkg/server/v2/delta.go`, has the same reader goroutine
(lines 51-78) but a different processor (lines 80-316):
- Each type has its own channel `values.deltaX`, cancel function and nonce
  field. These are set when a watch is created and never cleared.
- After a response is sent, its system version goes into
  `s.deltaVersions[typeURL]`. That map is server-wide and guarded by
  `s.deltaLock`, and the next watch of *any* stream for that type is created
  against it.
- A request without a `Node` takes `strconv(streamNonce)` as its response
  nonce. A request with a `Node` takes its own `ResponseNonce`.
- A watch is re-created when the type was never answered, or when that nonce
  equals the last nonce sent for the type.

Interactions that make the code hard:
- the cache's producers race with `cancel()` and with the processor's drain;
- the processor can block inside a cache call while a producer waits for room in
  the channel that only the processor reads;
- the reader can race with the handler's return.

## 2. Modules

| Module | Contents |
|---|---|
| `DeltaServer` | The stream: processor, reader, and the cache's contract. The type invariant and the properties. |
| `MCDeltaServer` | Model values and small sets for TLC: two types `T1`, `T2`, one resource name `R1`, one node `N1`. |
| `DeltaServerProofs` | TLAPS: one lemma per action preserving `TypeOK`, and the theorems `TypeCorrect`, `MutexNeverBlocks` and `NoncesTracked`. |
| `LegacyDelta` | The legacy handler for a set of streams: one processor and one reader per stream, a shared `deltaVersions`, and the cache's contract (a watch answers once or its channel is closed). |
| `LegacyDeltaProofs` | TLAPS: the inductive invariant of the legacy handler and the theorems `LegacyTypeCorrect`, `LegacyWatchesTracked` and `LegacyTeardownReleases`. |
| `LegacyStream` | What the legacy handler promises each stream, without channels, cancel functions, the reader or the shared version map. |
| `LegacyStreamRefinement` | TLAPS: the legacy handler implements `LegacyStream` (theorems `ChannelsOwned`, `LegacyRefinement`). |
| `MCLegacyDelta` | Model values for it: streams `S1`, `S2`, types `T1`, `T2`, versions `V1`, `V2`. |
| `DeltaServerRegistry` | TLAPS: the inductive invariant `TypeOK /\ WatchRegistry` for a cache that sends under its lock, its consequences `LiveWatchTracked` and `NoStaleDelta`, and the action property `HandleReleasedWhenDone` (theorem `HandlesReleased`). |
| `DeltaStream` | The abstract stream: what one delta stream promises, without channels, handles or the reader. |
| `DeltaStreamRefinement` | TLAPS: `processDelta` implements `DeltaStream` (theorem `StreamRefinement`). |
| `DeltaServerChannel` | TLAPS: with one buffer slot per type, the channel never starves the cache (theorems `CacheCallsReturnHolds`, `TeardownReleasesCacheHolds`). |

### State

Data is abstracted.
- A nonce is the integer whose decimal string the code sends, because
  `FormatInt` is injective. `0` stands for `""`, and for any string the server
  never issued.
- A version map is the set of resource names it holds.
- A response carries:
  - `w`, the watch that produced it;
  - `basis`, the stream-state nonce that watch was created against;
  - `vm`, the version map it reports.

| Variable | Code |
|---|---|
| `pc` | where `processDelta` is: open, loop, cancel, drain, create, createWait (inside `CreateDeltaWatch` while the cache answers synchronously), teardown, done, returned |
| `streamNonce` | `streamNonce` |
| `nonces` | `values.deltaNonces` (0 = type not in the map) |
| `cancellations` | `values.deltaCancellations`: a watch id, or `Nil` |
| `states` | `values.deltaStreamStates`: `[nonce, rv]` |
| `node`, `curType` | `node`, the `typeURL` of the request being handled |
| `curUnsub` | `req.GetResourceNamesUnsubscribe()` of the request being handled; `CreateDeltaWatch` still holds `req` |
| `muHeld` | `values.mu` is locked; only `processDelta` takes it |
| `opened`, `closeCalls` | `OnDeltaStreamOpen` succeeded; number of `OnDeltaStreamClosed` calls |
| `responses` | `values.deltaResponses` (a bounded sequence) |
| `watches` | every watch ever created, with its status (active, committed, fired, cancelled), type, basis and maps |
| `rpc`, `pending`, `reqClosed`, `reqStop` | reader position, what `Recv` returned, `close(reqCh)`, `reqStop` |
| `ctxDone`, `sent` | `s.ctx` cancelled; number of requests the client sent (bounded by `MaxRequests`) |

### Actions

Each action is one atomic step of the code.
- `OpenStream` / `OpenStreamFails`: lines 247-251.
- `ContextDone`: 257-263.
- `Respond`: 265-268, which is `Process("loop")`, lines 176-232.
- `RequestsClosed`: 269-273.
- `RejectRequest`: the nil request and the missing ADS type URL, 274-299.
- `HandleRequest`: 285-337 up to the cancel. It covers the node, the
  unsubscribe through `SharesMap`, the request callback, and the nonce test of
  line 320.
- `CancelWatch`: 323-324.
- `DrainOne` / `DrainDone`: the two arms of `processAll`, 234-245.
- `CreateWatch`: 332-336.
- `CreateReturn`.
- `Teardown`: the defer, 169-174, together with `watches.Cancel`, 145-151.
- `HandlerReturn`: 361-362.
- `ReaderRecv`, `ReaderRecvErr`, `ReaderCheck`: 348-357.

The failure arms are enabled when `Failures` is TRUE:
- `OnDeltaStreamOpen` failing;
- `OnStreamDeltaRequest` failing;
- any error of `send`, `GetSystemVersion` or `GetDeltaVersionMap` in `process`.

`process` fails at three points, each a disjunct of `Process`:
- `send` fails before `streamNonce` is incremented (no response, or a failing
  conversion). Nothing else changes.
- `str.Send` fails after the increment. Only `streamNonce` changes.
- `update` fails after the nonce and the cleared handle were recorded. The
  type's state becomes the zero `StreamState`, and `process` returns at line
  227 with `values.mu` still locked (`muHeld`).

A Lock of `values.mu` blocks while it is held. So the success path of
`Process`, an unsubscribe (line 306) and `CreateWatch` (`RLock`, line 332) are
guarded by `~muHeld`.

The cache contributes two actions:
- `CacheCommit(w)`: it decides to answer, computing the version map from the map
  the watch holds.
- `CacheDeliver(w)`: the send, which blocks while the channel is full.

The constant `LockedSend` chooses between two cache behaviours:
- **TRUE**: the cache holds its lock from commit to delivery, so `cancel()` and
  `CreateDeltaWatch` (which take it) wait, and a committed answer is never
  cancelled.
- **FALSE**: a committed answer is still delivered after `cancel()`. This is the
  "deferred cancellation" the `WithXDSBufferSize` comment says the code
  supports.

### Fairness

`FairSpec` assumes the following:
- Weak fairness of the processor and of `ReaderCheck`: these are goroutines
  that run whenever they are not blocked.
- Weak fairness of `ReaderRecvErr` once the handler has returned: gRPC ends the
  stream, and `Recv` then fails.
- Weak fairness of `CacheDeliver`: a producer blocked on the channel proceeds
  when there is room.

The client's requests and the cache's decisions to answer get no fairness.
In `LegacyDelta`, the six identical `case resp, more := <-values.deltaX` arms
are modelled as one pair of actions over `Types`:
- `Respond` sends with the next nonce, then writes `deltaVersions`, then
  records the nonce. Send can fail, and so can `GetSystemVersion`; the latter
  fails only after `""` was stored.
- `WatchFailed` models a closed channel.

`HandleRequest` models the whole request case:
- it rehydrates the node;
- it runs `OnStreamDeltaRequest`;
- it applies the nonce rule;
- it cancels the tracked watch;
- it creates a watch whose `version` is `deltaVersions[t]`.

The per-type `nonce` field is an integer, and 0 stands for `""`. Streams share
one server context, as they share `s.ctx`.

Deadlock checking is off because the stream really ends: in state "returned"
with the reader done, nothing is enabled. Stuck states are instead caught by
`CacheCallsReturn` and `CancelTerminates`.

## 3. Runs

| Run | Instance | Checks | Result |
|---|---|---|---|
| `ads` | ADS, types {T1,T2}, muxed buffer 2, locked cache, no failures, 3 requests | TypeOK, LiveWatchTracked, NoStaleDelta, CacheCallsReturn, TeardownReleasesCache, WatchRegistry, NoncesConsistent, HandleReleasedWhenDone, CancelTerminates, ImplementsStream | pass (444,334 states) |
| `xds` | single type T1, buffer 1, locked cache, all failures, 3 requests | same, plus MutexReleased | pass (104,022 states) |
| `deferred_cancel` | single type, buffer 2, cache delivering after cancel | LiveWatchTracked | violation |
| `dupack` | single type, locked cache | OneWatchPerState | violation |
| `openfail` | failures on, 1 request | ClosedOnlyAfterOpen | violation |
| `reader_leak` | 2 requests, fair | ReaderExits | violation |
| `unsub` | single type T1, buffer 1, locked cache, 3 requests | UnsubscribeBeforeWatch | violation |
| `legacy_ads` | legacy, one ADS stream, types {T1,T2}, all failures, 3 requests | TypeOK, LegacyWatchTracked, LegacyTeardownCancels, LegacyCancelTerminates, ImplementsLegacyStream | pass (122,266 states) |
| `legacy_streams` | legacy, two xDS streams on T1, 2 requests each, safety only | TypeOK, LegacyWatchTracked, LegacyTeardownCancels | pass (8,610,044 states, about 1.5 min) |
| `legacy_isolation` | legacy, two xDS streams on T1, 1 request each, all failures, versions {V1,V2} | ImplementsLegacyStream | pass (231,702 states) |
| `legacy_shared` | legacy, two xDS streams, two versions | StreamVersionOwn | violation |
| `legacy_nack` | legacy, one xDS stream | NackNoRewatch | violation |

What the properties say:
- `LiveWatchTracked`: every watch the cache still holds open is the one
  `deltaCancellations` tracks for its type. So at most one watch per type is
  open, and teardown reaches all of them.
- `NoStaleDelta`: every answer queued or committed was computed against the
  stream state the processor holds for its type now. This is what the
  cancel-then-drain exists for.
- `WatchRegistry`: the inductive strengthening of the two properties above. It
  also says that the channel holds at most one answer per type, from the fired
  watch still tracked for that type. While a type's watch is being replaced,
  nothing of that type can answer, and once the channel is drained nothing of
  that type is queued.
- `NoncesConsistent`: the nonce bookkeeping behind the ACK check of the
  request handler (`responseNonce == nonce`, line 320) is sound:
  - every nonce in `deltaNonces` was issued by `send()`;
  - no two type URLs record the same nonce, so an ACK matches the last
    response of at most one type;
  - while the loop runs, the stream state handed to `CreateDeltaWatch`
    carries its type's recorded nonce.

  A failing `update()` breaks the last conjunct, and the stream then ends.
- `HandleReleasedWhenDone`, an action property: no step loses a watch handle.
  `process()` sets `deltaCancellations[t]` to nil only for the answer of the
  watch that handle names. A new `CreateDeltaWatch` overwrites a handle only
  after `cancel()` has stopped that watch. The mutants that omit the cancel
  or skip the drain break it in two steps: the handle is replaced while the
  old watch is still open, or while its answer is still queued.
- `CacheCallsReturn`: whenever the processor waits inside a cache call, the
  send the cache is blocked on has room. This rules out the deadlock the
  `WithADSBufferSize` comment warns about.
- `TeardownReleasesCache`: after teardown, no watch is open, and everything
  committed fits in the channel nobody reads.
- `CancelTerminates`: a cancelled server context makes the handler return.
- `MutexReleased` (xds only, where failures happen): `values.mu` is held
  only after the processor has left its loop. Teardown does not take it, so no
  Lock or RLock of the handler ever waits on the lock a failing `update()`
  leaves behind.
- `ImplementsStream`: the stream implements the abstract `DeltaStream`
  (below). Every response sent answers a type whose watch is registered and
  consumes that registration. The n-th response sent carries nonce n and
  installs its version map as the type's stream state. A request only removes
  names. Nothing changes after teardown.
- `LegacyWatchTracked`: every open legacy watch is the one held by the cancel
  and channel fields of its stream and type. This holds on every stream at
  once.
- `LegacyTeardownCancels`: after a legacy stream's deferred function, none of
  its watches is open.
- `LegacyCancelTerminates`: the legacy handler returns once the context is
  cancelled.
- `ImplementsLegacyStream`: the legacy handler implements the abstract
  `LegacyStream` under the mapping `LegacyDelta!AbstractLegacy`:
  - a stream's phase comes from its processor's `pc`;
  - `lastNonce` is `streamNonce`;
  - `typeNonce` is `values.deltaXNonce`;
  - `subscribed[s][t]` says that `values.deltaX` of `s` is set and its answer
    has not been received yet.

  A response takes the stream's next nonce and answers, and consumes, a watch
  the stream registered for that type. A failed `Send` or `GetSystemVersion`
  ends the stream with the nonce used and the type's recorded nonce left
  alone. No step of one stream, nor any cache answer to another stream's
  watch, changes another stream's phase, nonces or registrations.

`legacy_streams` checks safety only. With two streams the graph has 8.6 million
states, too many for the liveness checker within the time limit.
`LegacyCancelTerminates` concerns one handler at a time, and is checked on
`legacy_ads`. The refinement is checked on `legacy_ads` (one stream,
re-subscriptions) and on `legacy_isolation`, two streams with one request
each. Two requests per stream would be 17 million states and 8 minutes.

Why the bounds are enough:
- Three requests give a full cycle for a type: initial request, answer, ACK
  with the answer's nonce, re-creation with cancel and drain. They also give,
  for ADS, two types interleaving on the muxed channel.
- One resource name is enough for unsubscribe and for version maps that differ.
- A buffer of 2 with two types is the smallest ADS buffer the `muxBufferSize`
  comment allows; buffer 1 is the xDS default.

The mutants confirm that each property can be broken. A mutant is a plausible
code change that TLC must catch:
- dropping `UpdateWithoutVersionMap`'s map;
- an `update()` given the stream nonce from before `send()`
  (`UpdateStaleNonce`). This breaks `NoncesConsistent`.
- skipping the drain. This breaks `LiveWatchTracked`, `WatchRegistry`,
  `HandleReleasedWhenDone` (xds) and `CacheCallsReturn` (xds).
- omitting `cancel()`. This breaks `NoStaleDelta` and
  `HandleReleasedWhenDone` (ads).
- swapping the two buffer sizes;
- a teardown that cancels nothing;
- a loop that ignores `ctx.Done()`;
- a `processAll()` that logs a failing `process()` and keeps draining. This
  breaks `MutexReleased`.
- a `process()` that keeps the handle of the watch that answered. This breaks
  `ImplementsStream`: a later answer for the type is sent although no watch
  is registered for it.
- for the legacy handler:
  - taking `req.Node` even when it is nil;
  - a re-creation that does not cancel the previous watch;
  - a teardown without `values.Cancel()`;
  - a select without the context arm;
  - a `send()` that does not increment the stream nonce. This breaks
    `ImplementsLegacyStream`.

### Findings

1. **`deferred_cancel`, a code bug at line 222.** With a cache that answers
   after cancel, the late answer is processed after the replacement watch was
   created, and `process()` clears the replacement's handle. That watch is then
   never cancelled, and a second watch of the type can be created.
2. **`dupack`, a divergence from the spec, section 8.** Two requests with the
   same nonce create two watches against the same state. `deltaNonces` only
   changes when a response is processed, so the second request matches again.
3. **`openfail`, a divergence from the spec, section 4.3.1.**
   `OnDeltaStreamClosed` is called after a failed `OnDeltaStreamOpen`, because
   the defer is installed first. The interface comment at line 42 agrees with
   the code.
4. **`reader_leak`, a code bug at line 357.** The reader checks `reqStop`,
   then blocks forever pushing on `reqCh` once the processor has returned.
5. **`legacy_nack`, a divergence from the spec, scenario 3 and section 7, at
   `delta.go:252`.** Take a request without a node, carrying the stale nonce
   "0", sent after response "1". It is taken to acknowledge nonce
   `strconv(streamNonce)` = "1". That matches the type's last nonce, so the
   watch is cancelled and re-created. The spec says a NACK must not re-create
   the watch.
6. **`legacy_shared`, a divergence from the spec's per-stream state store, at
   `delta.go:137`.** Stream S2 answers with V2, which writes the server-wide
   `deltaVersions[T1]`. Stream S1 then creates its next watch against V2, a
   version it never received.
7. **`unsub`, a divergence from the spec, section 4.2 and scenario 2, at
   line 327.** The stream's first request creates a watch. Its answer, with
   R1 in the version map, is still in the channel when a second request with
   the same nonce unsubscribes R1. The handler removes R1 at line 307 and
   then cancels and drains. `process()` installs the queued answer's version
   map, so `CreateDeltaWatch` is called with R1 back in it. The spec says the
   new watch is created without the unsubscribed names.

## 4. Proofs

All proofs assume the constant assumptions of `DeltaServer`:
- types are distinct from the markers;
- buffers are positive;
- `MaxRequests \in Nat`.

**`DeltaServerProofs!TypeCorrect`**: `Spec => []TypeOK`, for all constants and
either cache behaviour. `TypeOK` includes the following:
- the channel never exceeds `BufferSize`;
- every held handle names a created watch;
- the processor never holds a nil handle in the cancel and createWait states.

The proof has one lemma per action, with helper lemmas:
- `RebuildWatches` and `SetStatus`, for the watch list;
- `RequestTypeOK`: a well-formed request's type URL is a known type.

**`DeltaServerProofs!MutexNeverBlocks`**: `Spec => []MutexReleased`, for all
constants. The invariant is inductive by itself (`MutexStep`):
- only the `update()` failure of `Process` locks `values.mu`, and that step goes
  to teardown;
- no action leads from teardown back into the loop.

**`DeltaServerProofs!NoncesTracked`**: `Spec => []NoncesConsistent`, for all
constants and either cache behaviour. The invariant is inductive together with
`TypeOK` (`NoncesStep`). `process()` records `n = streamNonce + 1`, and the
first conjunct puts every earlier nonce below `n`, so `n` is recorded once.
The success path installs `Update(r, n)`, whose nonce is `n`. The failure
paths go to teardown, where the third conjunct no longer applies. A request
only removes names from a version map, and its nonce stays.

**`DeltaServerRegistry!RegistryInvariant`**: under `LockedSend`,
`Spec => [](TypeOK /\ WatchRegistry)`. Its corollaries are:
- `RegistryHolds` (`[]WatchRegistry`);
- `WatchesTracked` (`[]LiveWatchTracked`);
- `NoStaleAnswers` (`[]NoStaleDelta`).

Neither `LiveWatchTracked` nor `NoStaleDelta` is inductive alone. Processing an
answer clears its type's handle, and that is harmless only because the answer's
watch is the tracked one and is already fired. Creating a watch overwrites the
handle, and that is harmless only because the drain left no answer, and no
answering watch, of the type. `WatchRegistry` states exactly these facts. It was
checked by TLC in both passing runs before it was proved. The argument goes by
action:
- `CancelWatch` uses the cache lock (no committed answer exists) to make every
  watch of the type silent.
- `DrainDone` sees an empty channel.
- `Process` uses "one answer per type" to show that no other queued answer
  loses its handle.
- `CacheDeliver` uses the tracking of committed watches to keep "one answer per
  type".

The theorem needs `LockedSend`: the `deferred_cancel` run shows that it fails
without it.

**`DeltaServerRegistry!HandlesReleased`**: under `LockedSend`,
`Spec => HandleReleasedWhenDone`, the action property, for all constants.
`IInv` alone is not enough for the `CreateWatch` step. It says the old watch
of the type is neither open nor committed, but it does not rule out a fired
watch whose answer was already consumed. `HandleInvariant` proves
`Spec => [](IInv /\ HInv)`. `HInv` has two conjuncts:
- `HandleTyped`: a handle names a watch of its own type.
- `FiredQueued`: until teardown, a tracked watch that has fired still has its
  answer in the channel. A failing `process()` takes the answer without
  clearing the handle, so `FiredQueued` only holds before teardown.

Both were checked by TLC on `ads` and `xds` before they were proved. The step
argument (`ReleasedStep`) goes as follows:
- Only `Process` and `CreateWatch` change a handle.
- `Process` clears the handle of the head answer's type, and `WatchRegistry`
  says that handle is the head answer's watch.
- At `create`, the type has no open or committed watch and no queued answer
  (`WatchRegistry`). So the tracked watch cannot be fired (`FiredQueued`), and
  is cancelled.

**`LegacyDeltaProofs!LegacyInvariant`**: `Spec => []IInv` for the legacy
handler. It holds for any set of streams and types and any request bound, and
assumes nothing about the cache beyond its contract. `IInv` is the conjunction
of the following:
- `TypeOK`;
- `ReaderPending`: a request the reader pushes is a request or nil, never the
  Recv error;
- `LegacyWatchTracked`;
- `LegacyTeardownCancels`.

The corollaries are `LegacyTypeCorrect`, `LegacyWatchesTracked` and
`LegacyTeardownReleases`.

`ReaderPending` is needed because `HandleRequest` reads the pushed request's
fields. The two watch properties need each other:
- `Teardown` cancels only the watches its cancel fields hold. It reaches every
  open watch of the stream only because of the tracking.
- A re-created watch overwrites `cancel[s][t]`. That is harmless because the
  tracking says the only open watch of `(s, t)` is the one `CancelTracked`
  cancels.
- A new watch is created only while the stream is in its loop, so it never
  belongs to a stream that has already torn down.

`IInv` was checked by TLC on the `legacy_ads` instance before it was proved.
The proof has one lemma per action, plus facts about `Append`, status changes,
and `CancelTracked`.

**`DeltaStreamRefinement!StreamRefinement`**: under `LockedSend`,
`Spec => ImplementsStream`. `DeltaStream` has four variables, and the
refinement mapping (`DeltaServer!AbstractStream`) defines each from the
implementation:
- `phase` is `StreamPhaseOf(pc)`: "opening" before `OnDeltaStreamOpen`,
  "closed" from teardown on, and "serving" otherwise;
- `lastNonce` is `streamNonce`;
- `applied` is `deltaStreamStates`;
- `subscribed[t]` is `deltaCancellations[t] # nil`.

The proof has one lemma per class of steps:
- `OpenStream` maps to `Open`.
- The four ways of leaving the loop map to `Close`.
- `CreateWatch` maps to `Subscribe`.
- `HandleRequest` maps to `Request` with the request's unsubscribe list.
- A failing `process()` maps to `FailSend`. In `DeltaStream`, `FailSend`
  closes the stream. It may use one nonce, and it may reset the failing
  type's state and registration, but no other type's.
- Every other step of the processor, the reader and the cache leaves the
  mapped state alone.

The one step that is not local is `Process`. Sending the head of the channel
is an abstract `Apply`, and `Apply` requires the type to be subscribed. That
holds because `WatchRegistry` says the handle of the answer's type is the
answer's own watch, and a watch id is never nil. So the refinement rests on
`RegistryInvariant`. It fails without `LockedSend`: in the `deferred_cancel`
instance TLC finds a trace where a cancelled watch still answers after a
newer answer of its type cleared the handle. That late answer, computed
against nonce 0, is then sent as nonce 2 while no watch of its type is
registered.

**`DeltaServerChannel`**: the two buffer properties, for every set of types.
Both theorems assume `LockedSend` and `BufferPerType`. `BufferPerType` says
the channel's capacity is at least the number of types
(`BufferSize >= Cardinality(Types)`), which is what the `WithADSBufferSize`
comment at `server.go:72-74` asks for. Both passing runs satisfy it: ADS has
2 types and a buffer of 2, xDS has 1 type and a buffer of 1.
- `CacheCallsReturnHolds`: `Spec => []CacheCallsReturn`.
- `TeardownReleasesCacheHolds`: `Spec => []TeardownReleasesCache`.

The argument counts types:
- `QueueBound`: the queued answers have pairwise distinct types
  (`WatchRegistry`). Mapping each slot to its type is an injection, so there
  are at most `Cardinality(Types)` of them.
- `CommittedLeavesRoom`: a committed answer holds the handle of its type, and
  a queued answer's watch is already fired. So no queued answer has the
  committed answer's type, and the queue is shorter than `Cardinality(Types)`.

The invariant the argument needs is `CInv`. It is `IInv` from the registry
proof strengthened by two facts:
- `OneCommitted`: under the cache lock, at most one watch is committed. Both
  `CacheCommit` and `CreateWatch` require the lock to be free.
- `QuietAfterTeardown`: after teardown, no watch is active. `values.Cancel()`
  reaches every active watch because each one is tracked, and nothing creates
  a watch afterwards.

`TeardownReleasesCache` then follows by cases. With no committed watch, the
queue holds at most `Cardinality(Types)` answers. With one committed watch,
the queue holds fewer.

**`LegacyStreamRefinement!LegacyRefinement`**: `Spec => ImplementsLegacyStream`
for any sets of streams and types, with `Failures` unconstrained. It has no
hypothesis beyond `LegacyAssumption`. The mapping's `subscribed` reads the
status of the watch a channel field selects, and `Respond` marks that watch
received. This changes the registration of `(s, t)` and of no other
`(s2, t2)` only if no other channel field selects the same watch. The
invariant `ChanOwned` states this: `chan[s][t]` is always a watch that `s`
created for `t`. `ChannelsOwned` proves `Spec => [](IInv /\ ChanOwned)`, with
`IInv` from `LegacyDeltaProofs`. `ChanOwned` was checked by TLC on
`legacy_ads` and `legacy_streams` before it was proved.

The step proof has one lemma per class of steps:
- `OpenStream` maps to `Open`.
- The steps that end a stream before its teardown map to `Close`: a failed
  `OpenStreamRequest` callback, a done context, a closed request channel, a
  rejected request and a failed watch. A failing request callback maps to
  `Close` as well.
- `Respond` maps to `Apply` when it succeeds, and to `FailSend` when either
  failure happens.
- A re-creating request maps to `Subscribe` of its type. It takes a constant
  witness for the request's type, because an instance operator cannot take
  the state-dependent `LRequestType(pending[s])` as its argument. A request
  with a stale nonce stutters.
- Teardown, the handler's return, the reader, the context and the cache
  stutter. They only turn open watches into cancelled, answered or closed
  ones, and never into received ones.

What stays with TLC:
- liveness (`CancelTerminates`, `LegacyCancelTerminates`), because the provers
  in use do not handle fairness or ENABLED;
- the properties of the violation runs, which are counterexamples.

## 5. Not modelled

- **In the legacy server:**
  - `createDeltaResponse` failures (nil or unmarshallable responses) are not
    modelled apart from `Send` failures. Both end the stream, and they differ
    only in whether `streamNonce` was incremented.
  - The `watches` type and its `Cancel` are not under `src/`. `Teardown`
    cancels the watches held by the per-type cancel fields, as the deferred
    call at lines 90-95 does.
- **`callbacks/v2/callbacks.go`**: an interface only.
- **`kill_request.pb.validate.go`**: generated validation code.
- **Logging, status codes and message text.** They are abstracted: every error
  return is a step to teardown.
- **The Go map data race on the shared version map at line 307.** The model
  makes the delete atomic with the cache's read of the map.
