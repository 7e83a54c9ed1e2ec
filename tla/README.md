# cwd: TLA+ specifications

`cwd` is a self-hosted weather dashboard: one Go process polls public feeds,
keeps the last answer of each in memory and in SQLite, and pushes changes to
browsers over server-sent events; it also proxies forecast images through a
memory and a disk tier. This directory holds TLA+ models of its concurrent
core, of the feeds and queries it computes with, of its start and stop, and of
the browser tab that shows the result; the TLC configurations that check them on
small instances; and proofs checked by TLAPS. Everything is translated from the code; where a doc says
something else, a run shows it (see *Disagreements*).

## 1. The system

| Part | Code | State | Operations | Talks to |
|---|---|---|---|---|
| Change cache | `internal/cache/cache.go` | `latest` per source, `subscribers` slice per source, one buffered channel (4) per subscription | `Get`, `Set`, `Subscribe`, the unsubscribe goroutine, `send`, `closeOnce` | written by fetchers and the image proxy, read by the hub and the API |
| SSE hub | `internal/sse/hub.go`, `event.go`, `internal/api/stream.go` | per client: Serve, a mux channel (16), a forwarder goroutine per source | `Serve`: snapshot frame, subscribe, forward, write, return | cache, HTTP clients |
| Fetcher | `internal/fetcher/fetcher.go` | `health`, `failures`, the timer | `Run`, `tick`, `Health` | source, cache, store |
| Sources | `internal/sources/*.go` | `lastETag` and the last parsed list (USGS); none for the hashing ones | `Fetch`, parsers, region filter | upstream feeds |
| Snapshot store | `internal/store/*.go` | rows `(source, fetched_at, validator, payload)` in SQLite | `Append`, `Latest`, `At`, `Prune`, `Range`, `RangeBuckets`, `VolcanoStateChanges` | fetcher, hot start, history API |
| Life cycle | `internal/server/server.go`, `hotstart.go` | which goroutines run | `Run`: open, hot start, fetchers, listen, ready, shutdown; `runPrune` | everything |
| Image hot tier | `internal/imageproxy/hot.go` | LRU list and index, bytes | `Get`, `Put`, `Has`, `evictLocked` | proxy |
| Image disk store | `internal/imageproxy/store.go` | index, byte count, `.bin`, `.json`, `manifest.json` | `Get`, `Put`, `evictIfOverCap`, `writeManifest`, `loadManifest` | proxy |
| Image proxy | `internal/imageproxy/proxy.go`, `prewarm.go` | `entryState` per key, `refreshMu` per key | `Get`, `Refresh`, `refreshAsync`, `Stats`, pollers | tiers, upstream, cache (`image.invalidate`) |
| HTTP API | `internal/api/*.go` | none | handlers over the cache, store, health and proxy | all of the above |
| Configuration | `internal/config/config.go` | one value read at start | defaults, merge, environment, validation | life cycle |
| Web client | `web/src/**` | the snapshot store, image refresh stamps, a chart's effect, timer and request, `<img>` elements | apply `snapshot`, `*.update`, `image.invalidate.update`; fetch history; navigate, unmount | hub, API, the browser's cache |

How they interact: a fetcher's `tick` fetches, appends a row when the validator
differs from the cached one, calls `cache.Set`, then records its health.
`cache.Set` stores the envelope under a mutex and sends it, outside the mutex,
to every subscription it read. One `Serve` per browser holds one subscription
per source. `Refresh` of the image proxy calls `cache.Set` on the slot
`image.invalidate` that all images share.

What is hard, and what would make each part correct:

* **cache**: `Set` ranges over a slice header copied before the lock was
  released while leaving subscribers filter the same array in place, element by
  element; a send meets a close. Correct if nothing is sent to a closed channel, the
  list is exact, order is kept, and an envelope is lost only for a named reason.
* **hub**: the snapshot is read before the subscriptions exist; two bounded
  channels in a row; clients that vanish. Correct if a client never goes back,
  is stale only for a named reason, and leaves nothing behind.
* **fetcher, sources, store**: five places that should agree (the source's
  memory, the cache, the newest row, health, the client) change in five steps,
  each of which can fail, with a prune and a crash in between. Correct if a
  payload never gets another version's validator, the newest row is the cached
  version unless a named fault lost it, health is consistent between ticks,
  and clients end at the upstream's version.
* **image tiers and proxy**: file, entry, manifest and hot entry are written in
  separate steps by concurrent callers. Correct if the accounting behind the
  caps is exact, a reload after an invalidation shows the new image, only
  changes are announced, every `Get` is answered, and a restart finds what was
  stored.
* **feeds and history**: alerts age without their feed changing, bodies return,
  rows leave the retention, buckets and windows have edges, and three packages
  agree only by convention on the JSON that is stored. Correct if clients see
  what the operator asked to see of the last body, an answer covers its window
  and loses no peak, and the retention is kept.
* **configuration**: file, variables, merge and clamps in sequence. Correct if
  the layers override each other in the documented order and every value that
  comes out is usable where it is used.
* **life cycle**: errors and signals at each step, requests that do not end,
  goroutines that outlive the call that started them. Correct if readiness means
  data, one bad row costs one source, the background workers' polling survives
  outages politely, and a stop ends, in order and with an honest result.
* **web client**: effects that cancel, debounced requests, a stream that breaks,
  a cache that answers in the server's place. Correct if a chart and an image at
  rest show the latest the page was told of, or a named case holds, and nothing
  stays loading or open.

`PROJECT.json` lists the components with their status, and every hazard at its
line with the properties that would catch it.

## 2. Modules

| Module | Models | Notes |
|---|---|---|
| `Broadcast` | what the cache promises | abstract: an envelope published for a source is delivered to its open subscriptions (to some more than once) or missed, never an older one after a newer if one goroutine publishes |
| `Cache` | `cache.go` | the shared array with Go's `append` (reallocate or reuse) and in-place filter, which a `Set` in flight reads between any two of its writes; otherwise one action per critical section and per send |
| `Hub` | `hub.go`, extends `Cache` | one action per `cache.Get`, subscription, channel operation and frame |
| `Pipeline` | `fetcher.go`, USGS `Fetch`, the store's `Append`, `Latest`, `Prune`, hot start | one action per step of `tick`; `cache.Set` is one step here |
| `Images` | keys and versions | a version's number stands for bytes, hash and validator |
| `HotTier` | `hot.go` | one operator per critical section; `hotBytes` is `h.bytes` |
| `DiskStore` | `store.go` | one operator per critical section or file operation; the `LastAccess` of a `Put` is taken as it registers (in the code just before its `.json`) |
| `ImageProxy` | `proxy.go`, the pollers; extends `HotTier`, `DiskStore` | every step of `Get` and `Refresh`; crashes |
| `Selection` | subsequences by position | helper of the next two, in place of `SelectSeq` |
| `Sources` | `internal/sources`, the filter, `hotstart.go` | pure: parsers, validators, region filter, what is stored and decoded again |
| `SnapshotRows` | `internal/store` queries | pure: `Range`, `RangeBuckets`, `Prune`, the volcano changes, `Duration` arithmetic with its width |
| `History` | feed to page and to `/api/history`, over time; extends `Sources` and `SnapshotRows` | a tick is one step here, time passes |
| `Config` | `config.go`, `resolveConfigPath`, the substitutions of `server.Run`, backoff | pure: a function of the layers |
| `Server` | `server.Run`, `cmd/cwd`, fetcher and poller loops; extends `Config` | one action per step that can fail or wait |
| `WebClient` | one browser tab | one action per handler, effect, timer, answer and load |
| `CacheProofs` | theorems about `Cache`: types, list, reads, closed channels | TLAPS |
| `DeliveryProofs` | theorems about `Cache`: order, `Broadcast`, losses, skips; extends `CacheProofs` | TLAPS |
| `HubProofs` | theorems about `Hub`; extends `DeliveryProofs` | TLAPS |
| `PipelineProofs` | theorems about `Pipeline` | TLAPS |
| `HistoryProofs` | theorems about `History` and the operators of `Selection`, `Sources` and `SnapshotRows` | TLAPS |
| `ServerProofs` | theorems about `Config` and `Server` | TLAPS |
| `WebClientProofs` | theorems about `WebClient` | TLAPS |
| `ImageProxyProofs` | theorems about `ImageProxy` and its tiers | TLAPS |
| `MC*` | constants for TLC | no definition of the models is replaced |

Operators whose comment says *Mutant of* are plausible bugs in the definition
they name; they appear in no next-state relation. Each property is checked to
fail when one of them replaces the original.

### How the models correspond to the code

*Cache.* `array[a]` is a backing array and `count[s]` the length of
`c.subscribers[s]`; `setVars` holds, for each running `Set`, the slice header it
read, its length and its position. `SetStore` is the critical section of `Set`
(store, decide, copy the header), `SetLoad` and `SetSend` are one iteration of
the unlocked loop (reading the slot, then `send`). The critical section of the
unsubscribe goroutine is the one that is not a single action, because the loops read
the array without its lock: `Unlist` takes the lock and comes to the subscriber that
leaves, each `Shift` is one write of `append(subs[:0], ...)`, `StoreHeader` stores
the shorter slice and unlocks; `mu` is the lock and `gap` the slot written next.
`CloseOnce` is the close after it. So a loop may meet half-shifted arrays, in which it
skips subscribers and meets others twice, and one removal can cost several their
envelope: of [a, b, c, d, e], with a leaving, the loop reads a, the filter moves b and
c, the loop reads c twice, the filter moves d and e, and the loop reads e twice; b and
d are skipped. What holds is that each of them was moved from the slot the loop would
read next into the one it had just read (`crossed`). `log` numbers the envelopes;
`got`, `due`, `crossed`, `joined` and `missed` are history variables for the
properties only. A source that one goroutine sets
(`SingleWriter`) is delivered in order. All fetched sources are such: `cmd/cwd`
starts one fetcher for each, and only its tick calls `Set`. The slot
`image.invalidate` is not: every `Refresh` sets it, and of two announced at
once either may arrive first. The page keeps a stamp per image, so their order
does not matter to it. The runs have one writer per source, as two loops over one
slice multiply the states; the theorems of section 4 are for any writers, and
those about order name the condition.

*Hub.* `serve[c]` and `step[c]` are the position in `Serve`; `fwd`, `hand` and
`mux` are the forwarder goroutine, the envelope it holds and the client's mux.
A frame is the envelope it shows; the region filter and the frame's text are
left out, and so is the heartbeat except that writing it may fail.

*Pipeline.* `prior` is the source's `lastETag` and list, `res` the result of
this tick, `hit`/`latest` the cache slot, `rows` the table, `err`, `fails`,
`reported`, `etag` the health. No clock: a row's `fetched_at` is its place, the
timer may fire whenever the goroutine waits, the prune cutoff may fall after
any row except the one stored in the running tick (`fresh`; the retention is a
day or more and a tick lasts seconds). A hashing source is the instance in
which every version is tagged and 304 never chosen.

*Sources, SnapshotRows, History.* A Go struct is a record whose fields have the
JSON names of the struct's tags, so a consumer that asks for a name the producer
does not write gets the zero value (`FieldOr`), and one that expects another kind
of JSON an error (`Decodes`). `Parse`, `ValidatorOf`, `Filtered` are the sources;
`NWSPoint`, `ScalesPoint`, `AlertsPoint`, `QuakeEvents`, `VolcanoFeeds` the five
answers of `history.go`. `ChangeFeeds` is a set, because Go walks maps in any
order and the cap may cut inside a row. Time is a counter, a day two units and a
`Duration` fourteen values wide, so that `retention_days` = 4 overflows as 106752
does in the code. `History.Poll` is `Pipeline`'s tick without its inner steps and
store failures; `Pipeline` has no bodies and no time. The loops of the code that
keep some of a list (the parsers, the filter, `Range`, `Prune`) are `Picked(s, I)`,
the elements of `s` at the positions `I` in their order; the loop of
`RangeBuckets`, which starts a bucket when the index changes, is a cut of the
range where an index differs from the one before.

*Config, Server.* A layer of the configuration is a partial function from
settings to values. `Unmarshal`, `ApplyEnvOverrides`, `MergeSourceDefaults`,
`Cleaned`, `ValidateImageIntervals`, `Validate` are the calls of
`LoadWithLogger` in its order. `Server`'s `phase` is the place in `Run`; an error
leaves through the defers set so far (`stop`: `imgStop`; `close`: the store).
`worker[w]` is the loop of a fetcher or poller: waiting for its timer, fetching,
and for a fetcher the append, `cache.Set` and the health record as separate
steps. Which version arrives is `Pipeline`'s subject; here a source has data or
not. Main steps that only compute (hub, router) are part of the step before.

*WebClient.* `conn` is the place in `connect` and the state of the EventSource,
`wire` the frames on their way. `row` is the chart: the dependencies its effect
last ran with, the debounce timer, the request of the current closure (a
cancelled one has no effect left and is dropped), the answer, `loading` and
`err`. `img[k]` is the `<img>` with the key it was mounted under. `http` is the
browser's cache for the URLs the page asks for. The server is reduced to what a
tab can see: a version is stored, then broadcast; a restart shows the newest row.

*ImageProxy.* `ref[k]` is the Refresh that holds `refreshMu` of `k`, with the
version it downloaded and the copy of the index it will write; `get[g]` is a
`Get`; `answer[g]` is what it returned. Touching `LastAccess` and copying the
index are one step, and so are `markValidator` and `markSuccess`: nothing
modelled reads between them. ETag and Last-Modified are one validator. Any
cached image may be past its interval. `poll[k]` is the poller of `k`: it waits for its
timer, has a Refresh in flight, or has ended, which a `Put` that failed with
`os.ErrNotExist` makes it do (`PutFails`; `prewarm.go:91-93`) until the process starts
again. A file is replaced by its rename, at
once; that two writers share the name `manifest.json.tmp` is left out.

## 3. Runs

| Run | Instance | Shows |
|---|---|---|
| `cache_safety` | 3 clients, 1 source, 1 writer, channel of 1, 2 Sets, every Set broadcasts | exact list, at every write of the filter; a Set reads only the source's subscribers; order; only a subscriber that a filter moved past the loop is skipped; nothing lost silently; no Set ever waits; nothing sent to a closed channel; `Cache` implements `Broadcast` |
| `cache_skip` | 3 clients, 1 Set | *violated*: a live, listed subscriber is skipped |
| `hub_clients` | 2 clients of 1 source, both channels of 1, 2 Sets | a client never goes back; is stale only by the gap or by a miss |
| `hub_liveness` | 1 client of 2 sources with one mux of 1, 1 Set each | a queued envelope is written to a client that reads, or it is gone; a gone client leaves nothing |
| `pipeline` | 4 versions (two without an ETag, one an empty list), 3 changes, 1 crash, 2 failures counted | the five places agree; a row precedes its broadcast; clients catch up |
| `image_safety` | 2 keys, versions of 1 and 2 bytes, tiers of 2 bytes, hot tier of 2 entries, 1 client, 1 prewarmed key, 2 Gets, `Stats` at any time, 1 crash | tier accounting; reloads; announcements |
| `image_liveness` | 1 key of the same | every Get is answered; announcements catch up unless the poller ended |
| `history` | each feed with 2 to 4 bodies (malformed, empty, odd fields), 3 configurations, 5 units of time, 4 rows, windows of 3 and 4 in 2 buckets, caps of 2 | clients show what was asked for; answers cover their window; peaks survive; the volcano feed, replayed, gives the levels of each row it tells of; the retention is kept |
| `history_shape` | the same | *violated*: the history does not read what is stored |
| `server` | 2 sources, 1 image, 1 long request, 6 setups (overriding variables, nulls, zero, tiny and negative values, unknown keys and invalid entries, unreadable, missing or refused configuration), the image's backoff up to 4 failures, errors, signals and kills at every step | readiness; warm start; orderly stop; workers that poll politely and persistently; usable settings in the right order; every stop ends |
| `web` | 2 windows, 2 images, 2 versions, 2 invalidations; the history page and the hazards page in tabs of their own | chart and images at rest; no stream leaks; no chart stays loading |
| `browser_cache` | the same | *violated*: a reload is answered by the browser's cache |

**Why the bounds are enough.** Three subscribers are needed for the cache's
race (one leaves, the loop is past it, the next one moves down, another one is
there to be met twice), and two Sets for order and for stale array slots. One removal that crosses several subscribers needs five of them; what the
property says is of each one, and the theorem `SkipsOnlyWhenCrossed` is for any
number. A
capacity of one makes *full* reachable after one send; the code's 4 (`cache.go:98`)
and the mux's 16 (`hub.go`) would only lengthen the path to it. In `cache_safety` every Set broadcasts, which is what
costs interleavings; Sets that repeat a validator, and so do not, are in the hub's
runs. Two clients meet each other only through the shared slice; two
sources only through one mux. The pipeline's three changes let a version leave
and return (the case in which an ETag repeats), with tagged, untagged and empty
versions among them, and one crash may fall in any step. Two image versions
give old and new; sizes one and two against caps of two make a Put evict the
other key, itself, or nothing.

In `history`, four rows are enough for a bucket of two rows (a peak that is not
the last), a bucket of one, a row on the end of the window, a level change, an
appearance and a disappearance, and two changes at the cap; five units of time
let an alert age out, a row leave each retention and the look-back, and a window
leave its first row behind. In `server`, four failures pass the doubling (1),
the first doubling (2), twice (3) and the cut (4); the sources' own backoff is
the same operator. The setups are chosen so that each clause of `LayersInOrder`
has a layer that speaks and one that is silent, null or unparsable. In `web`, two
versions and two windows are what a late answer, a debounce and a change of
window need to meet; two images and two invalidations what the shared slot needs
to lose one. The chart and the images share only the stream and the cache, so
each has its own tab; both in one add states, not cases.

**Deadlock** is checked for `Pipeline` and `WebClient`, whose loops never stop.
`Cache` and `Hub` are run with `CHECK_DEADLOCK FALSE`: the number of Sets is
bounded and a client connects once, so the bounded system does stop when all
Sets are done and all clients left. So are `History`, whose clock ends, `Server`,
whose process returns, and `ImageProxy`, whose Gets are bounded and whose poller may
have ended.

**Fairness.** Weak fairness stands for the Go scheduler: a goroutine that can
run does. It is given to the steps of the process, never to clients connecting,
cancelling or reading. In the hub, a handler that returned has its context
cancelled by `net/http`, and the loop of `Serve` has no fairness at all: each pass
writes to the client, the server sets no `WriteTimeout` (`server.go:323-327`), and a
client that stays connected and stops reading holds it as long as it likes.
`QueuedUpdateIsWritten` is therefore about a client that keeps reading (`Reads`, the
fairness of that loop, is its hypothesis); `NothingLeaks` begins where `Serve` has
returned. In the pipeline, strong fairness of a successful fetch
says that an upstream which is asked again and again answers again and again;
failures stay possible for ever before that. In the image proxy the same is said of
the upstream and of the disk writes, a poller that has not ended fires, and strong fairness of `GetRefresh` is Go's mutex
handing the lock to a waiter. In `Server`, the steps of `Run` and of each worker
are weakly fair (calls have time limits, timers fire), and a poller's `Quit` strongly: of
a timer and a cancelled context that are both ready, `select` takes the context in
the end. Nothing makes a client leave, a signal come or a fetch succeed. In
`WebClient`, the browser runs its tasks and effects, and `/api/snapshot` and
`/api/history` answer or fail; streams and images need no fairness. Crashes and upstream changes are bounded, so a
behaviour settles.

## 4. Proofs

`CacheProofs` proves, for any number of clients, sources, writers, Sets and any
channel capacity (under `CacheAssumption`: the sets are what they say, the
capacity is positive):

* `TypeCorrect`: `Spec => []TypeOK`, which includes that no channel exceeds its
  capacity;
* `SubscriberListIsExact`: the slice lists exactly the live subscriptions, once;
* `SetReadsOnlySubscribers`: the unlocked loop never reads an empty slot or a
  subscriber of another source;
* `NoSendOnClosedChannel`: no step of a Set changes a closed channel.

The invariant is the conjunction of the first three and of `FilterOK`. None is inductive alone:
that the loop reads proper subscribers depends on what the filter leaves in the
stale slots behind the new length (the old tail, still subscribers of the same
source, never zeroed), which needs the list to be exact while the filter runs;
that needs the types, and `FilterOK`: the filter at work removes one subscriber and
its gap lies in the list. The proof has one step per action; the two with substance
are `ListStep` (`append` and each write of the filter keep the list exact but for the
gap, by `SlotsStored`) and `ReadsStep` (a header copied earlier still points to subscribers of its
source whatever was appended or filtered since). `cache_safety` checks its
parts but for the types with TLC. The action property follows from the type invariant and
the guard of `send`.

`DeliveryProofs` proves, from the same assumption:

* `OrderedDelivery`: a subscriber of a source with one writer is given its
  envelopes in order;
* `CacheImplementsBroadcast`: the cache implements `Broadcast`, with the slice,
  the headers and the skips hidden and `Serial` the sources with one writer;
* `NoSilentLoss`: once no Set runs, a live subscriber of such a source has the
  last broadcast envelope, joined after it, or missed exactly it for a reason
  the cache knows;
* `SkipsOnlyWhenCrossed`: a Set passes over a live listed subscriber only if a filter
  moved it from the slot its loop would read next into the one just read, with any
  number of subscribers and writers.

Order rests on `CarriesLatest`: a Set in flight carries a stored envelope, and the
newest one if its writer is the only one, because that writer is busy. With it,
what is sent is never older than what a channel holds, and `OInv` (the
invariant of `CacheProofs`, `CarriesLatest`, the order) is inductive. For the
refinement each action maps to one of `Broadcast` or to a stutter
(`BroadcastStep`): `SetStore` publishes, `SetSend` delivers or drops, `CloseOnce`
closes, the rest changes nothing visible. That a delivery meets an open topic
needs `ReachesSubscribed`: whatever the loop still reads was subscribed. Losses
need `AllPaid`: between the Set that stored the last broadcast and the end of
its loop, a subscriber that has not been given it is still due. Skips rest
on `SkipsAccounted`: a live subscriber still due was crossed, is the one in hand, or
is ahead of the loop in the array it reads, outside the gap (`Ahead`). A write of the
filter takes it down one slot (`AheadAfterShift`), which leaves it ahead unless that
slot was read, and then it is crossed.

`HubProofs` proves, for any clients, sources, order of sources, channel and mux
capacity (`HubAssumption` besides the cache's):

* `HubTypeCorrect`: the types, and that no mux exceeds its capacity;
* `FramesNeverGoBack`, `StaleOnlyByGapOrDrop`: the two safety properties of
  `hub_clients`;
* `HubKeepsBroadcast`: a hub behaviour is a cache behaviour and keeps `Broadcast`.

The last one comes first in the argument: every hub step is a step of the cache
or leaves its variables alone (`HubStepIsCacheStep`), so what is proved of
`Cache` holds here without being proved again. What the hub adds is one
pipeline per subscription, `Pipe(x)`: nothing moves before its forwarder
starts, what is shown is no newer than what was received, what the mux holds of
the source lies between the two in order, and the last envelope received is
shown, in hand or in the mux. A step of another subscription changes the mux
too, so the last two parts speak of the mux's entries of one source.

`PipelineProofs` proves, for any versions, tagged or not, empty or not, and any
number of changes, crashes and failures (under `PipelineAssumption`):

* `TypeCorrect`: `Spec => []TypeOK`;
* `PayloadsMatch`: no payload is paired with another version's validator; this
  one is inductive on its own, given the types, because copying a list twice is
  copying it once;
* `StoreKeepsUpAlways`, `HistoryHoldsChanges`, `RowComesFirst`: the three
  properties that relate the stored rows to the cache and to what is broadcast;
* `HealthIsConsistent`: `/api/sources` between ticks.

`StoreKeepsUp` speaks of the state between ticks, and a tick breaks and restores
it, so the induction needs `AtStep`: at each position of the fetcher, which of
the cached and the fetched version the newest row holds, and that only a version
whose validator differs from the cached one is persisted. `AppendIsChange`
follows from it (the newest row is the cached version as long as no store
operation failed), and with it `RowsAreChanges`; `RowComesFirst` is `AtStep` at
the position before `cache.Set`. `HealthAtStep` does the same for the two
critical sections that write the health record. `SuffixFacts` and
`LastOfAppend` say what `Prune` and `Append` do to the sequence.

`ServerProofs` proves, for any sources, images, requests and setups a process
may find, across errors, signals, kills and restarts (under `ConfigAssumption`:
the built-in intervals are positive and the registered images' at least the
floor, which is 4 or more; `ServerAssumption`: sources and images have different
names; `SetupsAssumption`: YAML and `strconv` give numbers to the settings that
are compared with numbers):

* `TypeCorrect`: `Spec => []TypeOK`;
* `StopOrder`: what `Run` returns, and what is stopped by then;
* `ReadinessComplete`: ready means that every enabled source is cached;
* `FirstPaint`: one row that cannot be used leaves no other source cold;
* `Settings`: whatever the layers say, what loads is usable (caps not negative:
  `hot_max_bytes` and `hot_max_entries` may be 0);
* `Layers`: the scalars, sources, image intervals, prewarmed images, window, products,
  region and caps a process runs with are the environment's, else the file's, else the
  default, clamped and cleaned wherever they come from, but for the two named
  exceptions (sources that are null, a hot cap of 0);
* `Pace`: a worker waits its interval after an answer or a first failure, five
  intervals from the fourth failure on, and never less than one nor more than five.

`Settings` rests on `LoadedIsUsable`, which follows a configuration through the
calls of `LoadWithLogger` (`UnmarshalTyped`, `OverrideTyped`, `MergeTyped`,
`ClampTyped`, `CleanedFacts`: each keeps the types; the clamp holds for every
interval that remains, and nothing after it adds one). `Layers` follows every
field the same way (`MergedSource`, `MergedScalars`, `MergedRest`, `CleanedRest`). The invariant `Inv` has
three parts. That no result is left by an earlier phase and that nothing passes
`load` without a configuration (`RunInv`) is why `Spawn` cannot panic. That no
goroutine runs before `serve` and no poller after `stop` (`WorkersInv`) is why
nothing is marked before the hot start replaces the cache. That a success is
cached first, and that a stored row waits for at most the next step of its own
fetcher (`DataInv`) gives the two properties of data. For the types, a goroutine
past its fetch must belong to a source. `Pace` needs what the recursive `Backoff`
computes for every number of failures: `BackoffIs` gives it a closed form, by the
least number for which that form would be wrong.

`WebClientProofs` proves, for any windows, images, versions, breaks and restarts
(under `ClientAssumption`):

* `ImagesAreNewest`: on a live and drained stream an image is the one last
  announced, or one of the named cases holds;
* `StreamsEnd`: an unmounted page leaves no stream open;
* `ChartIsNewest`: a chart at rest shows the chosen window and every stored row
  of the versions the page shows.

For the images, `ImagesInv` follows a version from the announcement to the
stamp: what is on the wire of an image is between what the tab knows and what
was announced, oldest first, and the last announcement is known, on the wire, or
counted as unseen. `StreamInv` says where `connect` can be when the page is
gone. `ChartInv` says that the request of the current closure is for what the
effect last ran with, and that the chart is not at rest while it or its timer
is pending; what a request finds stored covers the versions it was made for,
since rows only grow.

`ImageProxyProofs` proves, for any keys, versions, sizes, caps, clients and
crashes (under `ImagesAssumption`, `HotAssumption`, `DiskAssumption` and
`ProxyAssumption`, which say that the sets are finite or numbers and that every
image has at least one byte):

* `ProxyTypeCorrect`: `Spec => []TypeOK`;
* `Tiers`: the byte counts of both tiers are the sum of what they list, within
  their caps, each key once;
* `AnnouncesOnlyChanges`: until a restart no version is announced twice in a row;
* `ReloadsAreRecent`: a reload after an announcement gets that version or a newer
  one, unless one of the two named cases happened.

Both tiers keep a running total where the property speaks of a sum, so the
module first shows of the community modules' `SumFunctionOnSet`, `FoldLeft` and
`RemoveAt` what a put, a removal or an eviction does to a sum; the induction is over the
smallest set or index for which it would fail. The accounting of the disk alone
is not inductive: a manifest is copied in one step and read back by a restart
after others, so every copy held by any process must itself list an index
(`ManifestOK`), and a `Refresh` returns to the `Get` that waits for it (`Waits`).
`AnnouncesOnlyChanges` needs `HashInv`: the hash kept of an image is that of its
last announcement, except between `markSuccess` and `onInvalidate`. Reloads need
`RecentInv`: announced, on disk, held and upstream versions lie in this order
(`Versioned`), and what a `Get` holds, the hot tier has or an answer carries
is recent unless excused. `KeyStep` reduces the actions to what they can do to
one key: nothing new, a store begun, the file replaced, the hot tier put, an
announcement.

`HistoryProofs` proves, for any bodies, configurations, windows, caps, numbers of
rows, widths of a `Duration` and lengths of a run (under `RowsAssumption`,
`HistoryAssumption` and `FeedAssumption`; the last says that JSON arrays are
sequences, that lengths, retentions and alert windows are numbers, that a
timestamp is a number or does not parse, and that no configured zone or office is
empty, which `validateRegionFilter` sees to):

* `HistoryTypeCorrect`: the inductive invariant `HInv`;
* `ClientsSeeTheFeed`: after a successful poll the page is what the operator asked
  to see of the body polled;
* `RetentionIsKept`: no row younger than the retention is deleted, while the
  retention fits a `Duration`;
* `AnswersCoverWindows`: buckets hold each row of the window once and in order, span
  no more than their length, are at most one too many, and *data starts here* is
  a row;
* `PeaksAreKept`: downsampling loses no peak;
* `FeedExplainsLevels`: the volcano feed, replayed, gives the levels of each row it
  tells of, appearances, changes of level and disappearances alike.

`ClientsShowFeed` is not inductive: after a poll that changes nothing the page
is what an earlier poll, or a hot start from a row, put there. `HInv` therefore
says of the slot and of every row that they are what *some* body gives at *some*
time, and that the page shows the slot. The step that matters is `Poll` with
an unchanged validator: `PayloadOfValidator` shows for each feed that the validator
determines the payload (for `swpc_alerts` because it hashes the payload and not
the body, which is where the mutant fails), so the old slot is the new one. A hot
start needs that decoding a row gives back a slot (`RowGivesSlot`), the page that
the filter by codes keeps what is in the region (`MatchIsInRegion`,
`FilteredIsWanted`).

The answers are functions of the rows, so their theorems are about operators.
`PickedIs` says what a subsequence by position is: the rank of a position among
those kept is its place in the result, by induction over the least rank that has no
position. `RangeIs` lifts that to the rows of a window. Buckets are runs of
equal indices: `RunsCover` and `FlattenRuns` show that the runs of a sequence
cover it once and in order, `DivisionOrder` and `DivisionBound` that a run is short
and the indices few. A maximum exists because a smallest finite set without one
would not be empty and would lose nothing by one element (`MaxExists`); with it `PeaksInWindow`
compares the maxima over buckets with those over rows. Of the volcano feed,
`ChangesBetweenAre` shows that two adjacent rows give each volcano whose level
differs one change, to its new level, and the others none; `ChangesTell` replays them row by row; and a
capped feed has every change before its last (`FeedHasBefore`). The property and the theorem hold for
the field the store asks for and for the one in which the rows have their levels, so
they do not rest on the divergence of section 5; that the two are not the same
field is what `history_shape` shows.

### What is only model-checked

Liveness under fairness, in every run that states it, and `SetNeverWaits`, which
speaks of ENABLED. Every other safety invariant and action property of a passing
run is a theorem, and so are the type invariants of `Cache`, `Hub`, `Pipeline`,
`Server`, `ImageProxy` and `History`. The three refuted properties are
counterexamples, found by TLC.

## 5. Disagreements between code and documents

Three runs are refuted by TLC, with the quoted text in `PROJECT.json`:
`cache_skip`, `history_shape` and `browser_cache`. Others were met while
modelling; the properties name them as conditions, so that what is left is true.

In the cache, hub and pipeline:

* a client whose channel fills stays connected and stale, where the phase 1
  design says it is disconnected (`cache.go:39`; `missed` in `Cache`);
* a change between the snapshot frame and the subscription is in no frame, where
  `docs/plans/2026-05-01-self-hosted-cwd-design.md:298` promises *any source's
  envelope when it changes* (`hub.go:77`; the gap of `StaleOnlyByGapOrMiss`);
* two successive versions without a validator: the second is broadcast and not
  stored (`fetcher.go:125`; the condition in `RowPrecedesBroadcast`);
* a version whose `Append` failed is never stored while its validator stays
  (`fetcher.go:139`; `lost` in `StoreKeepsUp`);
* the only row of a source that does not change is pruned after the retention,
  and a restart then starts cold, where line 84 of the same design has clients
  see *last-known* data (`snapshots.go:61`; the prune case of `StoreKeepsUp`);
* a 304 after an empty list turns `[]` into `null` (`usgs_quakes.go:162`; `Copied`).

In the image proxy:

* a `Get` that read the disk before a `Refresh` stored a newer image puts the old
  one into the hot tier after it, and the next reload shows it (`proxy.go:172`;
  the race of `ReloadIsOldOnlyByRaceOrSize`);
* an image larger than the hot tier, first requested, is stored on disk and
  answered with 502 (`proxy.go:183`), and one that grows beyond it leaves its
  older version in front of the disk (`hot.go:60`; the size case);
* the manifest is copied under the lock and written after it, so the older of
  two copies may stay, where `store.go:25` calls it the *full registry*
  (`PutCopy` and `PutManifest`, `GetTouch` and `GetManifest`);
* `/api/sources` reads every image through `DiskStore.Get` and so makes each
  recent, body and manifest write included (`proxy.go:353`; `StatsGet`).

In configuration, history and life cycle:

* `hot_max_bytes: 0` and `hot_max_entries: 0` *disable the tier* say
  `config.go:76-82` and the messages of `validate` (494-501); `server.go:228-235`
  replaces them by the defaults (`OrDefault`; the exception in `LayersInOrder`);
* `runOne` takes any `os.ErrNotExist` for an unknown key and ends the polling of that
  image for good (`prewarm.go:91-93`), and `Refresh` returns it wrapped when
  `Put` finds a directory or file of the store gone (`proxy.go:291-294`,
  `store.go:90-110`), although `prewarm.go:36-37` promises a doubling backoff on failures
  (`PollerEnds`; the exceptions in `PollsForever` and `AnnouncementsCatchUp`);
* only the background workers have intervals and backoff: every `Get` of a stale
  image starts a `Refresh` (`proxy.go:163-178`), so that a busy page asks an
  upstream that fails, or answers 304, again and again (`PoliteAndPersistent` speaks
  of workers);
* with `sources:` null in the file, `CWD_SOURCES_*` is not looked up, since the
  loop goes over the file's map (`config.go:445`; the exception in `LayersInOrder`);
* `XDG_CONFIG_HOME` set without a file there ends the start, where the usage text
  lists *defaults only (no file)* (`ResolveConfigPath`, `Load`);
* a region filter whose entries are all invalid matches everything, and a zero
  interval in the environment stands for the default (`Cleaned`, `SourceInterval`);
* `retention_days` above 106751 overflows and `Prune` deletes every row
  (`server.go:357`; `DaysOverflow` in `RecentRowsSurvive`);
* a row exactly at the end of the window makes one bucket more than the *at most
  n* of `range.go:63` (the allowance in `AnswerCoversWindow`);
* `server.go:198-199` says `/api/history` applies the region filter; it does not;
* volcano changes look for `observatory` and `alertLevel`, which the stored rows
  do not have: only appearances and disappearances are ever reported, although
  `volcanoes_diff.go:28-30` says *every transition* and `volcanoes_diff_test.go:53-73`
  demands a change of level (`VolcanoKey`, `LevelsOf`; the third conjunct of
  `HistoryReadsStored`); stored space-weather alerts have no `severity`, so all count as
  `alert` (`AlertsPoint`);
* a stop with an open stream takes the 5 s of `Shutdown` and returns its deadline
  error; fetchers, the prune loop and the hub are not waited for (`GraceOver`;
  `StopIsOrderly` speaks of pollers and the store).

In the browser: `/api/history` carries `max-age=60`, so the refetch an update
causes may be answered with the rows before it (the condition in
`ChartShowsLatest`); an announcement lost in a gap of the stream is lost for
good once another image takes the slot (the condition in
`ImageOldOnlyByCacheOrGap`).

## 6. Not modelled, and what could come next

Next, in `ImageProxy`: the pair of bytes and validator a `Get` returns, entries
whose files an eviction removed, the causes of a 502.

Left out for good: SQLite's own durability; the text of frames, JSON and logs;
HTTP routing, `/api/config`, `/api/version` and the static files; themes, labels
and components that only render; React's development-mode double effects; build
information. They have no state, or no property beyond what a unit test shows.
