# Verification of split-synchronizer

TLA+ models of the split-synchronizer repository, TLC configurations that check
them on small instances, and TLAPS proofs of what matters most for every size.
Paths below are relative to the repository unless they start with `tla/`; Go
files are under `splitio/` and the prefix is left out.

The repository builds two programs:

* **split-proxy** stands between SDKs and the Split backend. It keeps feature
  flags, rule-based segments and segments up to date, answers the SDKs' polls
  from its own storage and an HTTP cache, and queues the impressions, events and
  telemetry they post.
* **split-sync** (the producer) copies flags and segments into Redis and moves
  impressions, events, counts and telemetry out of Redis to the backend.

Contents: [inventory](#inventory), [what is modelled](#what-is-modelled),
[the runs](#the-runs), [the properties](#the-properties), [bounds](#bounds),
[fairness](#fairness), [the proofs](#the-proofs),
[divergences](#divergences-between-code-and-documentation),
[not modelled](#not-modelled), [plan](#plan), [how to run](#how-to-run).

## Inventory

For each part: its state, its operations, who it talks to, what is hard about
it and what it must guarantee. "Modelled" names the modules.

### Proxy

**Feature flag storage** (`proxy/storage/splits.go`, `optimized/historic.go`,
`persistent/splits.go`). State: an in-memory snapshot with its change number
(CN), the historic summaries (one view per flag ever seen, with its flag sets),
a BoltDB collection, and `oldestKnownCN`. Operations: `Update`, `KillLocally`,
`ChangesSince`, `snapshotFromDisk`. Called by the synchronizer's goroutine, the
push notification workers and, concurrently, by every request. Hard: `Update`
locks a mutex that `ChangesSince` takes only inside `sinceIsTooOld`, so a request
reads the three stores in any interleaving with an update; a kill changes one
store ahead of the others; a restart restores them from a file. It must never
hand out a `till` ahead of the data it hands out with it. Modelled:
`ProxyFlags`, `HistoricChanges`.

**SDK endpoints** (`proxy/controllers/sdk.go`). No state. `SplitChanges` cleans
up the flag sets, asks the two storages of rules and falls back to the backend
for both when `since` is too old for one; `SegmentChanges`, `MySegments`,
`Memberships` read the segment storage. Modelled: `ProxyFlags`, `RuleServing`,
`SegmentServing`; not the large segments, nor the patching of matchers an old
SDK does not support.

**Flag set matcher** (`proxy/flagsets/flagsets.go`). State: the sets the proxy
fetches. `Sanitize` sorts, filters and dedupes a request's sets in place while
it traverses them. Modelled: `FlagSetMatcher`.

**Rule-based segment storage** (`proxy/storage/rulebasedsegments.go`,
`optimized/rbshistoric.go`, `persistent/rulebasedsegments.go`). The twin of the
flag storage without kills and flag sets, written by the same synchronization
after it and read by the same request after it. Hard: one answer is made of two
storages at two moments, and one eviction stands for both. Modelled:
`RuleServing`.

**Segment storage** (`proxy/storage/segments.go`, `optimized/mysegments.go`,
`persistent/segments.go`). State: per segment the keys ever added, each with its
CN and a removed mark, and per key the segments it is in, both updated by
`Update`. Hard: two stores that treat a key listed as both added and removed
differently, that may fail separately, and that are read separately; change
numbers that do not survive a restart although the keys do. It must answer the
members of a segment, and tell every SDK who left. Modelled: `SegmentStorage`.

**HTTP cache** (`proxy/caching/caching.go`, `workers.go`). State: responses by
request, each with surrogate keys. The cache-aware synchronizers evict a
surrogate after an update changed the CN, or after a kill; requests fill the
cache when they end. Hard: a response computed before an update may be stored
after the eviction; entries of `/mySegments` are evicted one by one; a
synchronization may fail half-way. No other entry may outlive the data it was
computed from. Modelled: `HttpCache`, `SegmentServing` for segments,
`RuleServing` for rules.

**Event and telemetry endpoints** (`proxy/controllers/events.go`,
`telemetry.go`). No state: read the body, forward impressions to the listener,
stage, answer. Hard: an answer is a promise about a bounded queue, and an SDK
that is answered with an error posts again. Modelled: `Intake`.

**Deferred recording** (`proxy/tasks/deferred.go` and its seven users). State: a
bounded queue, a wake-up channel, a drain goroutine and a worker pool with its
own bounded queue. Hard: two bounded queues in a row, the second's refusal is
looked at by no one; wake-ups race the periodic ones; a stop leaves the queue.
It must not lose what it accepted except where it has no room. Modelled:
`DeferredRecording`.

**Proxy telemetry and HTTP middleware** (`proxy/storage/telemetry.go`,
`telemetryts.go`, `proxy/controllers/middleware`). State: totals per endpoint
and a bounded map of time slices, each with latencies and status codes. Hard:
the roll-over deletes the oldest slice, which may be the one just created or
the one another request holds; four switches with a case per endpoint. Modelled:
`EndpointMetrics`.

**Start-up** (`proxy/initialization.go`). Snapshot, storages, first
synchronization with or without data, retries in the background, servers,
health monitors, shutdown handlers. Modelled: `ProcessLife`; what a start with
a snapshot makes of it in `ProxyFlags`, `RuleServing` and `SegmentServing`.

### Producer

**Data eviction pipeline** (`producer/task/pipelined.go`). State: a filler, N
processors and M sinkers, two bounded channels, a running flag, a shutdown
channel, a wait group. Hard: back pressure, closing channels in the right order,
accumulation timeouts, three attempts per post, and `Stop(true)` racing the
filler's loop. It must neither lose a record silently nor count it twice, and
must never send on a closed channel. Modelled: `PipelinedTask`.

**Pipeline workers** (`producer/task/impressions.go`, `events.go`,
`uniquekeys.go`). Parse what was fetched, group it by SDK metadata, cut it into
bulks in pooled buffers, filter unique keys. Hard: buffers shared by processors
and sinkers, one tracker shared by all processors. Modelled:
`ImpressionBatches`, `UniqueKeys`.

**SDK telemetry** (`producer/storage/telemetry.go`, `producer/worker/telemetry.go`).
Two hashes of counters, a hash and a list of configurations, each read and
deleted by separate commands that may fail separately. Hard: what an SDK adds
in between; which of several configurations is the last. Modelled:
`SdkTelemetry`.

**Eviction monitor** (`producer/evcalc/evcalc.go`). A bounded window of flush
records from which a rate (lambda) is computed. Hard: what of which record is
counted. Modelled: `EvictionMonitor`.

**Observable storages** (`provisional/observability/*.go`). Wrap the Redis
storages and keep the active names and counts beside them. Hard: Redis commands
that fail in part, a list filtered in place. Modelled: `ObservableStorage`.

**Start-up** (`producer/initialization.go`, `util.go`). Compares the hash of the
configuration with the one in Redis and clears the database when it changed.
Hard: a crash or an error between the commands. It must never serve data of
another configuration. Modelled: `RedisOwner`; the sequence and its retries in
`ProcessLife`.

### Common

**Application health** (`provisional/healthcheck/application`). Threshold and
periodic counters with a goroutine each, a one-place `reset` and a one-place
`cancel` channel, and a monitor that turns them into a status. Hard:
`ResetThreshold` sends while it holds the lock its receiver needs; `NotifyHit`
sends to a goroutine that may have ended; the monitor holds its own lock across
calls that block. Modelled: `HealthCounters`.

**Services health** (`provisional/healthcheck/services`). Sliding windows of
results, by percentage. Modelled: `ServiceHealth`.

**Runtime** (`common/runtime.go`, `common/sync/sync.go`,
`admin/controllers/shutdown.go`). A process-wide shutdown handler that ends with
a send on an unbuffered channel. Hard: concurrent shutdowns, one during
initialization, one that meets a jammed counter. Modelled: `ProcessLife`.

**Impression listener** (`common/impressionlistener/listener.go`). A bounded
queue and a goroutine that posts. Modelled: `ImpressionListener`.

**Snapshots** (`common/snapshot/snapshot.go`, `admin/controllers/snapshot.go`,
`proxy/storage/persistent/boltdb.go`). The admin endpoint copies the BoltDB file
within a read transaction into an encoded file a later process starts from.
Modelled: what an export contains and what a restart makes of it (`ProxyFlags`,
`RuleServing`, `SegmentServing`); not the file layout.

**Dashboard, configuration, logging, entry points**: see
[not modelled](#not-modelled).

### How the parts interact

```
 backend ── changes ──> synchronizer ── Update / KillLocally ──> storages ──> BoltDB ──> snapshot file
   ^                         │                                    │   ^                      │
   │                         └── evict surrogates ──> HTTP cache <┘   └────── restart <──────┘
   │                                                      │
   │                       SDK ── /splitChanges, /segmentChanges, /mySegments   (too old: the backend answers)
   │
   └── workers <── pool <── queue <── handlers <── SDK ── impressions, events, telemetry
                                         └──> listener ──> the user's endpoint

 SDKs ── RPUSH ──> Redis ── filler ─> inputBuffer ─> processors ─> preSubmitBuffer ─> sinkers ──> backend
      ── HSET ───> Redis ── HGETALL, DEL ─────────────────────────────────────────────> backend

 main ─> initialization ─> synchronizer.Manager ─> health monitors <── notifications
   └────> runtime <── signals, admin requests
```

## What is modelled

| Module | Stands for | State |
|---|---|---|
| `ChangeLog` | the backend's history (external) | operators over a sequence of changes |
| `FlagFeed` | abstract: what the proxy promises an SDK | `log`, `since`, `view` |
| `RuleRecords` | the saves of rules on disk, and what may go wrong with them | constants and an operator |
| `ProxyFlags` | flag storage, synchronizer, SDK requests, export, restart | below |
| `RuleServing` | flags and rule-based segments with the cache of `/splitChanges` | below |
| `FlagSetMatcher` | `Sanitize` | pure operators |
| `HistoricChanges` | historic summaries with flag sets | `log`, `synced`, `bounds`, `data`, `matcher`, `list` |
| `SegmentStorage` | segment storage | `mySegments`, `items`, `segmentsTill` |
| `HttpCache` | requests, surrogates and room of the HTTP cache | pure operators |
| `SegmentServing` | synchronizer, storage, cache and SDKs composed | below |
| `Evacuation` | abstract: what the pipeline promises about records | `queue`, `inPipe`, `delivered`, `dropped`, `stopped` |
| `PipelinedTask` | the pipeline and `Stop(true)` | below |
| `ImpressionBatches`, `UniqueKeys` | what processors make of a fetch | below |
| `SdkTelemetry`, `RedisOwner` | Redis, command by command | below |
| `EvictionMonitor`, `ObservableStorage` | lambda; trackers beside Redis | below |
| `DeferredRecording`, `ImpressionListener`, `Intake` | from an SDK's post to the backend; `Intake` composes the others | below |
| `EndpointMetrics` | telemetry of the proxy's endpoints | below |
| `HealthCounters`, `ProcessLife` | health monitor; start-up, runtime and shutdown around it | below |
| `ServiceHealth` | services monitor | below |

Each `MC...` module gives the constants their values and, where one TLC run
checks several modules, composes them. Modules composed only for a run are
*parts*: they share no variable, so nothing is lost by exploring each with the
others at rest, and the variable `part` says which one runs. Fairness is
stated for the part that runs. `...Proofs` modules hold theorems.

Definitions preceded by "Mutant" are plausible mistakes. No specification uses
them: each is there to replace the definition below it and see a property fail.

### ProxyFlags

A flag's content is identified by the change number that produced it, so every
store maps a flag to a number: `snap` (0: absent), `hist` (the CN of the flag's
view), `items` (the CN of the record on disk). `snapCN` and `oldest` are the
snapshot's change number and `oldestKnownCN`. `file` is the last exported file.
One SDK is modelled with its `since`, the flags it holds (`view`) and its request
in progress (`req`); SDKs do not affect each other or the proxy, so one stands
for all.

| Action | Code |
|---|---|
| `Fetch` | `SynchronizeSplits`: asks the backend from the snapshot's CN |
| `SetStartingPoint`, `UpdateSnapshot`, `UpdateHistoric`, `SaveItem` | the steps of `ProxySplitStorageImpl.Update`, one for each store and one for each record saved |
| `KillLocally` | `KillLocally`, for a change the backend already published |
| `ReadChangeNumber`, `ReadAll` | `ChangesSince(-1)` without flag sets: CN first, flags next |
| `CheckSince` | `sinceIsTooOld`, blocked while an update holds the mutex |
| `ReadHistoric`, `FetchMany` | `GetUpdatedSince`, then the flags from the snapshot as it is by then |
| `FetchFromBackend` | the fallback of `fetchRulesSince` |
| `Receive` | the SDK applies the answer (external) |
| `Export`, `RestartBlank`, `RestartFromFile` | snapshot export; death of the process and start of the next one |

A request reads each store in its own step, so all interleavings with an update,
a kill and the death of the process are explored. What may go wrong with a record
is a matter of two constants (`RuleRecords`, which `RuleServing` uses as well):
with `ExportMidWrite` a snapshot may be taken between two records of a batch, with
`SavesFail` a save may fail, which nobody notices. The code does both, and
`proxy_export` shows an SDK that misses a change; everything else about the two
storages is checked and proved with neither.

### RuleServing

The same storage design, without flag sets, and wider in three ways: there are two
of them (`"flags"` and `"segments"`), a synchronization writes one after the other
and may fail anywhere, and the HTTP cache stands in front. `activeRules`, `activeCN`,
`updatedAt`, `oldestKnownCN` and `disk` are the stores of each kind, `sync` is the
synchronization, `flight` a request between handler and cache, `cache` the
entry of `/splitChanges`, `killing` a kill whose eviction is due. `early` has rules
of the SDK that come from a time when the storage had no CN of the kind (see
[divergences](#divergences-between-code-and-documentation)), and `late` marks an answer of which something was read before
an eviction and filed after it; no action reads either.

| Action | Code |
|---|---|
| `BeginSync` | `CacheAwareSplitSynchronizer.SynchronizeSplits`: notes both CNs |
| `FetchRules`, `NothingNew`, `FetchFails` | the wrapped synchronizer's loop over the backend's answers (external) |
| `StartingPoint`, `WriteSnapshot`, `WriteHistoric`, `SaveRule` | `Update` of each storage, flags first, record by record |
| `EndSync` | the comparison of both CNs and the eviction, whatever the error was |
| `KillRule`, `EvictKilled` | `LocalKill` and its eviction |
| `HandleSplits` | a miss reaches `SplitChanges` |
| `ReadSnapshotCN`, `ReadSnapshot`, `SinceIsTooOld`, `ReadViews`, `FetchRuleVersions` | `ChangesSince` of each storage |
| `FetchFromBackendSince`, `BackendFails` | the fallback of `fetchRulesSince`, for both kinds |
| `Respond`, `HitSplits` | the cache files an answer; the SDK gets it, or one that was filed |
| `ExportRules`, `StartBlank`, `StartFromBackup` | snapshot export; `snapshotFromDisk` of both storages, each at the CN of its highest record, or -1 when the file has no bucket of the kind (`BackupCN`) |

### HistoricChanges and FlagSetMatcher

`data` is the slice of views as the code keeps it: sorted by CN, each with its
associations sorted by name, each association active or not and with the CN it
last changed. `Update` and `GetUpdatedSince` are written as the code computes
them, the merge in `featureShouldBeReturned` turn by turn with its two cursors
(`MergeTurn`). Sorting is an external operation: `InOrder` puts a set in a given
order by rank. An SDK's list of sets passes through `Sanitize` first, a recursive
function over the iterations of its loop. Every change number the proxy ever had is kept in
`bounds`, so the properties speak of every `since` a client may come back with.

### SegmentStorage, HttpCache and SegmentServing

`items[s][k]` is the record of key `k` on disk (CN 0: none), `mySegments[k]` the
list of `k` (its order is left out), `segmentsTill[s]` the CN the synchronizer
asks from, which a new process starts at -1 whatever is on disk. `sync[s]` is the
update of `s` in progress, `cache` the HTTP cache, `flight` a request between
its handler and the cache. One server-side SDK is followed (`since`, `view`);
any other client may ask for anything at any time and fill the cache.

| Action | Code |
|---|---|
| `FetchSegment`, `WriteMySegments`, `WriteItem`, `EvictSegment` | `SynchronizeSegment`: the wrapped call, with the two writes of `Update`, and the evictions |
| `Handle` | a miss: `SegmentChanges`, `MySegments` or `Memberships` reads the storage |
| `Respond` | the cache files the answer, the client gets it |
| `Hit` | the SDK is answered from the cache |
| `Export`, `RestartBlank`, `RestartFromFile` | snapshot export; death of the process and `populateCachesFromDisk` |

One request at a time is between handler and cache: handlers change nothing, so
requests matter to each other through the cache only. `late` marks an answer
overtaken by an eviction; no action reads it.

### PipelinedTask

One process for the filler, each processor, each sinker, the closer and the
caller of `Stop(true)`. A record is an element of `Items`, a bulk a set of
records. `Fetch` takes any part of what is in Redis, which covers short reads
and Redis errors. `Emit(p, S)` sends any part of the batch as one bulk, which
covers every grouping by metadata. A `select` with several ready cases is a
choice between actions.

### ImpressionBatches and UniqueKeys

What `PipelinedTask` leaves to choice. `todo` holds a processor's fetched items
in any order, `groups` the bulks it is making, `sink` those it has sent, `free`
the pool of buffers.

| Action | Code |
|---|---|
| `BeginProcess`, `Ignore`, `Add`, `Tell`, `Send`, `EndProcess` | `ImpressionsPipelineWorker.Process`: an item that cannot be read or is a duplicate, one that goes to the newest bulk of its instance or begins one, the listener, the bulks handed over |
| `RecycleBulk` | the sinker calls `recycle` when it is done with a bulk |
| `Parse`, `Track`, `PopAll` | `UniqueKeysPipelineWorker.Process`: keys the filter does not know go to the tracker, which is emptied |
| `CleanFilter` | the filter is cleared from time to time |

### SdkTelemetry and RedisOwner

One action per Redis command; each may fail, and an SDK, or the death of the
process, may come between any two. A counter is the set of calls counted in it.

| Action | Code |
|---|---|
| `Call`, `Configure` | an SDK counts a call, leaves a configuration (external) |
| `Read`, `Delete`, `PostStats` | `PopLatencies`, `PopExceptions`; `SynchronizeStats` |
| `ReadHash`, `DeleteHash`, `ReadList`, `TrimList`, `PostConfig` | `PopConfigs` and the loop of `SyncrhonizeConfigs` |
| `StartAs` | a process starts with the configuration of `o` |
| `Compare`, `Clear`, `Stamp` | `sanitizeRedis`: GET, the clear, and the deferred SET |
| `Store`, `Leave` | the synchronizer writes its data; the process ends, at any of these points |

### EvictionMonitor and ObservableStorage

`FetchItems` takes items as the pipeline does and notes the sizes before and
after, `StoreDataFlushed` puts the record into the window of `MaxLength` and
computes `lambda` (a fraction) as `CalculateLambda` does. `UpdateFlags` is
`ObservableSplitStorageImpl.Update` with `FilterFailed`, its loop over a list that
shrinks under it; `UpdateSegment` is the wrapped call of
`ObservableSegmentStorageImpl.Update`, whose SADD and SREM work or fail apart, and
`CountSegment` what the tracker does with their results. `FlagsListed` and
`SegmentsCounted` are what the two wrappers see of Redis when they are made: the
names of all flags or, when Redis does not answer, none; and the sizes of some
segments, those a flag names and whose size could be read. `unlisted` and
`overlooked` are the history of what they did not see.

### DeferredRecording, ImpressionListener and Intake

A bulk is an element of `Bulks`. `queue` and `pool` are the two queues, `held` the
bulk the task has between them, `worker` what each worker is posting.

| Action | Code |
|---|---|
| `Stage` | `Stage`: queues or refuses, and wakes the task when the queue became full |
| `FlushOnWakeup`, `Flush`, `Take`, `HandOver`, `FlushDone` | `DeferredRecordingTaskImpl`'s goroutine: the wake-up, the period, `drain` bulk by bulk |
| `StopTask` | `Stop` |
| `WorkerTake`, `DoWork` | the pool's workers: one attempt |
| `Regular`, `Beacon` | `TestImpressionsBulk`, `EventsBulk` and the beacon handlers: body, listener, stage, answer |
| `Request` | an SDK posts, again after a server error (external) |
| `SubmitToListener`, `Submit`, `TakeBulk`, `Post` | the goroutine that forwards; the listener's queue and goroutine |
| `Start`, `Started`, `Stop`, `Leave` | the listener's life cycle |

### EndpointMetrics

`CountTotal`, `GetSlice` and `Put` are the three steps of recording a latency or
a status: the totals, the slice that is looked up (and created, and rolled over)
under a lock, the counter written without it. `Reported` is what `ForResource`
makes of a slice. A counter is the set of requests counted in it.

### HealthCounters, ProcessLife and ServiceHealth

`HealthCounters` has one goroutine per threshold counter (`Loop`) and any number
of callers: *clients*, who notify an event, move a threshold or ask for the
status, and *writers*, who start or stop the monitor. A lock is held between the
action that takes it and the one that releases it, and one that is released
within the same step is a guard. A read lock is the set of clients that hold it.

| Action | Code |
|---|---|
| `CreateTimer`, `SelectTimer`, `SelectReset`, `SelectCancel`, `DeclareUnhealthy`, `RearmTimer`, `Leave` | the goroutine of `ThresholdImp.Start` |
| `NotifyHit`, `SendHit`, `UpdateLastHit` | `NotifyHit` |
| `ResetThreshold`, `LockToReset`, `SendReset` | `ResetThreshold` |
| `GetHealthStatus`, `IsHealthy`, `AnswerStatus` | `GetHealthStatus`, counter by counter |
| `LockMonitor`, `StartCounter`, `StopCounter`, `LockToStop`, `SendCancel`, `UnlockMonitor` | `MonitorImp.Start` and `Stop` with those of the counters |
| `NotifyError`, `NewPeriod` | the periodic counter |

`ProcessLife` adds the main goroutine (`PrepareProxy` or `PrepareProducer` and
`BuildProducer`, `Attempt`, `OnReady`, `OnReadyDone`, `AttemptFailed`, `StartAdmin`,
`StartApi`, `RegisterShutdownHandler`, `Unblock`), the goroutine that retries
(`Retry`), the synchronizer's manager (`SyncAll`), the operating system and the
admin (`OsSignal`, `Kill`, `RequestShutdown`), and `Runtime.Shutdown`
(`HandleSignal`, `StopManager`, `StopPeriodicDataRecording`, `StopServices`,
`Unblock`), which may run any number of times at once and stops the same monitor
that `onReady` starts. A shutdown that finds the manager running waits for the
recording tasks, as `WSync` does, before it comes to the monitors. In split-sync
these are the pipelines, whose `Stop(true)` may never return (`pipeline_stop`): the
manager is then `stuck`, and that shutdown with it. A second shutdown finds the
manager stopping and goes on to the monitors at once, as `Manager.Stop` returns.

`ServiceHealth` has `ServiceHit` and `CalculateHealthy` of the counter by
percentage and `OverallStatus` of the monitor.

## The runs

| Run | Module, cfg | Shows | Distinct states |
|---|---|---|---|
| `proxy` | `MCProxyFlags`, `Proxy.cfg` | flags: `NoLostUpdate`, refinement of `FlagFeed`, `Converges`; rules of both kinds: `RulesKept`, `OnlyLateRulesStale`, `RulesConverge` | 487 400 |
| `flag_sets` | `MCHistoricChanges`, `Historic.cfg` | `IncrementalEqualsFresh`, `AnswerWithinSets`, `NoWantedSetLost` | 2.0 M |
| `segments` | `MCSegmentServing`, `Segments.cfg` | `NoLostUpdate`, `MembersKept`, `OnlyLateAnswersStale`, `Converges` | 1.3 M |
| `pipeline` | `MCPipelinedTask`, `Pipeline.cfg` | `NoSendOnClosed`, `StopDrains`, refinement of `Evacuation`, `Settled` | 46 958 |
| `producer` | `MCProducerData`, `Producer.cfg` | telemetry, ownership, bulks, unique keys, lambda, trackers | 106 416 |
| `intake` | `MCIntake`, `Intake.cfg` | deferred recording with its SDKs and listener; time slices | 388 592 |
| `process` | `MCProcessLife`, `Process.cfg` | start-up, health, shutdown; service windows | 283 528 |
| `proxy_export` | `MCProxyFlags`, `ProxyExport.cfg` | violation of `NoLostUpdate` when a snapshot is taken while a batch is written, or a record cannot be saved | |
| `historic_merge` | `MCHistoricChanges`, `HistoricMerge.cfg` | violation of `ActiveIntersectionReturned` with two sets | |
| `pipeline_stop` | `MCPipelinedTask`, `PipelineStop.cfg` | violation of `StopTerminates` | |
| `segments_restore` | `MCSegmentServing`, `SegmentsRestore.cfg` | violation of `MembersExact` | |
| `endpoint_metrics` | `MCEndpointMetrics`, `Metrics.cfg` | violation of `ReportsOwnRequests` | |

Deadlock is not checked in any run: all these systems really rest, when what was
published or posted is delivered, when a bound is reached, when a task was
stopped and when the process ended. What must not rest is a liveness property.

## The properties

**Flags** (`proxy`, `flag_sets`)

* `NoLostUpdate`: the SDK holds every change at or below its `since`. An SDK
  never asks again for those, so a missing one is lost for good.
* `FeedSpec` (`FlagFeed`): besides, an answer never moves `since` back, contains
  only versions that were published as active, and takes no flag the SDK's
  `since` accounts for back in time. One exception is part of the promise: a
  version that arrived ahead of its `till`, through a local kill, may be taken
  back by an older update that was on its way.
* `Converges`: once at least one flag stays published, a polling SDK ends up with
  the backend's flags.
* `IncrementalEqualsFresh`: whatever change number a client comes from, one
  answer for at most one set brings it where a fresh client is.
* `AnswerWithinSets`: whatever the number of sets, no flag that never had one of
  them is named. `NoWantedSetLost`: the in-place clean-up keeps every wanted set.

**Rules of both kinds behind the cache** (`proxy`)

* `RulesKept`: the SDK holds every change of either kind at or below its CN of
  that kind, from the storages, the backend or the cache. Excepted are rules in
  `early`: see [divergences](#divergences-between-code-and-documentation).
* `OnlyLateRulesStale`: once a synchronization has ended, successfully or not, and
  no kill is being applied, every cached answer covers every update in the
  summaries of both storages and holds no rule older than the snapshot's, except
  those computed before an eviction and filed after it.
* `RulesConverge`: a polling SDK ends up with the backend's rules, unless such a
  late answer is in the cache for good. Premise `Populated`: an update without
  active rules to a blank proxy is ignored by `Update`, so the proxy asks from
  scratch for ever.

**Segments** (`segments`)

* `NoLostUpdate`: an SDK holds every change of a segment at or below its `since`,
  cached answers or not. A key that left while no process was there to see it is
  the exception: the next one fetches members, not who left, so the SDK keeps it
  (restarting without a snapshot is enough for that).
* `MembersKept`: the keys answered a segment are its members, plus keys that came
  with a snapshot and left before this process first synchronized.
* `OnlyLateAnswersStale`: when no update is in progress, every cached answer is
  what its handler would answer now, except those overtaken by an eviction.
* `Converges`: short of those two exceptions a polling SDK ends up with the
  backend's keys.

**Pipeline and what is in Redis** (`pipeline`, `producer`)

* `NoSendOnClosed`: no goroutine can still send when a channel is closed.
  `StopDrains`: when a blocking stop returns nothing is left in the pipe.
  `EvacuationSpec`: records move from Redis to the pipe and from there to
  delivered or dropped, once, and none is fetched after a stop returned.
  `Settled`: each fetched record gets there.
* `BulksAreSound`: a bulk holds one instance's items under their features, counts
  them, and has one more than `defaultBulkSize` at most; of two bulks of one
  instance the earlier is full. `NothingIsShared`: no buffer and no item is in two
  places, and the listener heard of what is sent before it can be recycled.
* `KeysReportedOnce`: a unique key is reported once between two cleanings of the
  filter, and none stays in the tracker when all processors are done.
* `CallsReportedOnce`: a counted call is reported, unless it fell between HGETALL
  and DEL or its method is unknown; and twice only after a DEL that failed.
* `NewestConfigOnItsWay`, `ConfigsNeverGoBack`: the newest configuration of each
  instance is posted in the end unless a command failed or it fell between two,
  and none is followed by an older one, whatever fails.
* `ServesOwnData`: a synchronizer that runs has its own data only, and the hash in
  Redis never names one configuration over the data of another, unless a
  comparison or a clear failed.
* `LambdaTellsBacklog`: lambda is below one exactly when SDKs generated more,
  within the window, than was evicted after its first fetch.
* `TrackersMirrorRedis`: the names listed are those in Redis, whichever failed to be
  stored or removed, but for those not seen at the start and not written since.
  The count of a segment that was seen at the start is that in Redis, whatever part
  of an update failed; that of another is too low, by as much as the fewest keys it
  had since, so that being emptied once puts it right. The code logs that this
  "may introduce inconsistencies"; the property says which, and no others.

**What SDKs post** (`intake`)

* `InOnePlace`: an accepted bulk is in one queue, in one hand, or settled in one
  way; what is under way keeps its order. `AnswersAreTrue`: "ok" is answered
  exactly for what was taken. `DropNeedsCrowd`: nothing is dropped between the two
  queues unless more were under way than one holds. `AcceptedSettles`: what was
  accepted is sent or dropped in the end, unless the task was stopped.
* `HeardWithinTries`: the listener's endpoint hears of a bulk at most once per post.
* `SlicesAreSound`: the slices kept are the newest there were, and each has all the
  requests that were counted for it, however late a request comes.

**The process** (`process`)

* `WatchedFromSyncOn`: no counter runs or fails before the first synchronization;
  from then on one that says it is healthy has a goroutine to say otherwise.
* `SilenceIsNoticed`: a counter whose events stay away is declared unhealthy.
  `SinceIsSound`: a status that names a time since when all is well says that all
  is well.
* `ShutdownEnds`: a shutdown, however many run at once, ends the process, and so
  does a kill. Both liveness properties except a *jam*, a counter whose channel is
  full while the holder of its lock waits to send; the jam is real, and
  `JamsAreFinal` says that nobody frees it. A graceful shutdown of split-sync has a
  second exception, a pipeline whose blocking stop does not return; that of
  split-proxy has not, as its recording tasks end. A kill needs neither exception.
* `WindowIsExact`: a service is healthy exactly when enough of its last results
  succeeded, and the overall status is the worst that is wrong.

Type invariants are the runs' `TypeOK`, or conjuncts of `RulesKept`,
`AnswerWithinSets`, `OnlyLateAnswersStale`, `HeardWithinTries`, `SlicesAreSound`,
`BulksAreSound`, `LambdaTellsBacklog`, `TrackersMirrorRedis` and `SinceIsSound`.

## Bounds

* `proxy`, flags: two flags, three changes, one restart, one SDK. Two flags are
  needed for a batch with an active and an archived record and for a partial
  export; three changes for one before, one during and one after an update; with
  one restart the SDK can outlive the proxy that served it. Fetching starts at the
  first change (see divergences).
* `proxy`, both: snapshots between two updates, saves that succeed. `proxy_export`
  shows what the contrary does; with `ExportMidWrite = FALSE` and `SavesFail = TRUE`
  it is violated as well.
* `proxy`, rules: one rule of each kind, two changes of a kind, three changes and
  restarts in all. The two kinds are what is new here, and one rule of each is
  enough to have one storage ahead of the other; three events are a change that
  is cached, one that evicts, and a restart or a change of the other kind.
* `flag_sets`: two flags, two sets, three changes, lists of up to three sets.
  Three changes let a flag gain, lose and regain a set, or be archived and come
  back; a list of three is the shortest in which the moved item can hide another
  one. Flags are symmetric; sets are not, as their order matters.
* `segments`: one segment, two keys, three changes, one restart, a cache with room
  for one entry. Segments share the lists of keys and the surrogate of the
  memberships, and have all else apart; the module has any number of them. Two
  keys make an update that adds one and removes the other; three changes let a
  key enter, leave and enter again with an update and a request in between. All
  properties of the cache are about single entries, and room is made by dropping
  any of them, so one entry at a time shows what many would.
* `pipeline`: three records, two processors, two sinkers, an input buffer of one
  bulk (so that it fills up), batches of two, two attempts (a first and a last).
* `producer`: two instances, one of which uses the hash; two versions and two
  reports, so that a configuration is overtaken within and between fetches, with
  a `Limit` of one (LTRIM leaves something); two owners that take turns; three
  items in bulks of one plus one, so that a bulk overflows while two processors
  share three buffers; two keys and two processors; a window of two and five
  items, so that it shifts with a backlog; three flags, the shortest list in which
  two failures meet; two segments of two keys, each empty or full and
  counted or not at the start, so that a count that is too low meets removals.
  Items, buffers and processors are
  symmetric, and no liveness is checked.
* `intake`: three bulks, queues of two, one worker: one more than a queue holds
  can be under way. A listener queue of one fills up. Two tries, one of them a
  retry. For time slices: two requests, one slice, two hours, so that a late
  request creates a slice older than the one kept.
* `process`: one threshold counter, one updater, one reader, the starter, the
  handler and one admin request: two shutdowns run at once, and a jam needs one
  counter and two callers. More counters are locked and asked one after the other.
  Two services, one critical and one not, windows of three, six hits: each window
  turns over.
* `Max...` constants other than these sizes bound histories, not the code.

## Fairness

* `ProxyFlags`: weak fairness of `Fetch` (the polling task or the push
  notification worker), of the update in progress (a goroutine that is
  scheduled) and of the SDK's polling. None for kills, exports, restarts.
* `RuleServing`: weak fairness of the synchronization in progress, of an eviction
  that is due and of requests; strong fairness of a fetch that works, from the
  synchronizer or for a request (the backend does not fail for ever), and of the
  SDK getting an answer: requests of others take the slot `flight` again and
  again, in the code each has its own goroutine.
* `SegmentServing`: weak fairness of each segment's update and of `Respond`
  (goroutines are scheduled), strong fairness of the SDK's poll, for the same
  reason.
* `PipelinedTask`: weak fairness of each goroutine: they are scheduled, timers
  fire, and posts end because the HTTP client has a timeout. None for calling
  `Stop`; a caller that started to stop goes on.
* `Intake`: weak fairness of the task, its timer included, and of each worker.
  Nobody has to post, or to stop anything.
* `ProcessLife`: weak fairness of main and the retries, of the manager's
  synchronization (it ends, with success or not), of the signal handler, of each
  shutdown in progress (of its wait for the recording tasks too: they return, or
  the manager is `stuck` for good), of each counter's goroutine and of each caller inside a
  call. Nobody has to call the monitor or to ask for a shutdown.
* The modules of `producer`, `HistoricChanges` and `EndpointMetrics` state none:
  their properties are safety.

## The proofs

Eight modules, checked by `tlapm`. The constants are arbitrary but for the
assumptions named in the modules (sizes are positive, sets that are counted finite)
and those given below. Every safety property of a run that passes, invariant,
action property or refinement, is a theorem.

`ProxyFlagsProofs`, for any set of flags and any number of changes and restarts,
provided `~ExportMidWrite` and `~SavesFail` (`proxy_export` shows the need
for them, with either constant alone):

* `ProxyKeepsUpdates`: `Spec => []NoLostUpdate`. `NoLostUpdate` speaks of the SDK
  only, so the inductive invariant `IInv` gives every store a *level*, a change
  number up to which it has everything. The snapshot is at `snapCN`
  (`SnapshotInv`), the disk too but for the records of the update in progress
  (`DiskInv`), an exported file at its highest record (`FileInv`), and the
  summaries at some `h <= snapCN`, equal to it except between the two steps of an
  update (`HistoricInv`). A new change is above every level (`PublishLevels`), so
  publishing disturbs nothing; an update lifts a level by a batch that has all
  that lies between (`BatchDue`); a request's answer is complete up to its `till`
  from the moment it is read from the summaries (`RequestInv`), and stays so when
  the flags come from a newer snapshot.
  The subtle part is `NotHeld`: a first synchronization brings active flags only,
  so summaries and disk know nothing of flags that were archived by then. An SDK
  that comes from an earlier process and is not too old must not hold one of
  them; `StartInv` carries that fact from the fetch to the end of the first
  update.
* `ProxyTypeCorrect`: `Spec => []TypeOK`, from the same invariant.
* `ProxyFeeds`: `Spec => FeedSpec`: the proxy implements `FlagFeed`. All steps but
  `Receive` and publishing leave the SDK alone. That an answer is complete at its
  `till` is `ProxyKeepsUpdates`. That it has published versions only is
  `GenuineInv`: every store holds versions of the log. That it takes nothing back
  in time is the hard part: an answer names a flag only with a view above its
  `since` (`AnswerInv`), and the version sent comes from a snapshot that is never
  behind the summaries (`AheadInv`), because `Update` writes it first.
* `FeedKeepsUpdates`: in the abstract feed no SDK misses a change at or below its
  `since`. The invariant adds that `since` never exceeds the log; the lemma
  `PublishMoves` says that a new change moves the last change of its own flag
  only, and to a CN above every `since`.

`ChangeLogProofs` has the facts about the backend's log these and the next two
modules use.

`RuleServingProofs`, for any rules, changes of both kinds, events and starts, under
the same two assumptions:

* `RulesAreKept`: `RulesSpec => []RulesKept`. For each kind there is a level `h` up
  to which the summaries have everything: the CN of the snapshot, but for the step
  of an update between the two (`Sound`). `Fits` says what must hold of a client, at
  a CN with the rules it holds, for the storage to serve it from there on: it holds
  what its CN promises, or is too old, or a first update is under way that
  will not leave it behind. It holds of the SDK, and of the SDK once it has applied
  the answer that is being prepared or the one in the cache (`AnswerFits`). Every step of the
  backend, the synchronizer, a kill or a start takes a storage from a level to a
  level and preserves `Fits` for all clients at once (`Moves`); the steps of
  a request are shown to make answers that fit. The disk is at the same level but
  for the records still to be saved (`DiskAt`), so that a file taken between two
  updates starts a storage at the CN of its highest record, and a process may die
  between two records. A kind a file does not have starts blank while requests are
  served; an update without rules moves its starting point and leaves its summaries
  empty (`StartsEmpty`), and the rules a request passes over then are in `early`.
* `OnlyLateRulesAreStale`: `RulesSpec => []OnlyLateRulesStale`. An answer is `Fresh`
  when it covers every update in the summaries and holds no rule older than the
  snapshot's. `AnswersInv` says so of each kind of an answer that is not late while nothing of that kind
  was written since before the synchronization under way (`Settled`); a
  synchronization that writes leaves a CN above the one it noted (`OrderInv`), so it
  ends with an eviction.

The first form of both properties held within the bounds of the run and was false
beyond them: the proofs failed at storages without a CN whose `oldestKnownCN` is
set, which the run is too small to put an SDK in front of.

`SegmentServingProofs`, for any segments, keys, changes and room in the cache:

* `OnlyLateAnswersAreStale`: `Spec => []OnlyLateAnswersStale`, for any number of
  restarts. Inductive form `CacheFresh`: a cached answer is what its handler would
  answer now, or marked late, or an update of a segment it tells of has written
  and has its eviction ahead; a request in flight likewise.
* `MembersAreKept`: `Spec => []MembersKept`. `StoreInv` relates the two stores to
  each other at every point between their writes (`StoresAgree`), an update to
  the backend's changes between two CNs (`SyncExact`), and the live records to the
  members at the segment's CN and the keys of the file (`ItemKept`).
* `NoUpdateIsLost`: `Spec => []NoLostUpdate`, assuming `MaxRestarts <= 1`.
  `ItemExact` says up to which CN the records have every change, `AnswersExact`
  that an answer made from them, cached and late ones included, takes a client
  from its `since` to the answer's `till` without missing one, and `SdkExact` that
  the SDK holds the keys settled at its `since`, and forgotten ones. The assumption is needed: with a start from
  scratch followed by one from an older file TLC finds an SDK that keeps a key
  that is gone.

`IntakeProofs`, for any bulks, workers, attempts and queue sizes:

* `BulksInOnePlace`, `DropsNeedACrowd`, `SdksAreToldTheTruth`: `Spec` implies
  `[]InOnePlace`, `[]DropNeedsCrowd` and `[]AnswersAreTrue`. `RecordingInv` joins
  places, order and answers: posting again is sound only because an answer tells
  exactly what was accepted. A drop needs a full pool and one bulk more in the
  task's hand, that is more than one queue holds, and `CrowdIsCounted` says that
  this never goes unnoticed.
* `ListenerHearsNoMore`: `Spec => []HeardWithinTries`. `HeardInv` counts where the
  attempts to tell the listener have gone: `heard`, the goroutines that forward,
  the copies in its queue (`Copies`, positions rather than a set of bulks) and the
  one being posted add up to no more than the SDK's tries.
* `SlicesHaveTheirRecords`: `MetricsSpec => []SlicesAreSound`, for any number of
  requests, slices kept and times. `KeptAreNewest` says what the rollover does to a
  set of slices. `MetricsInv` adds that a slice handed out was asked for, and is
  gone if the request knows it as dropped; that it does not come back follows from
  the counts: a slice that is dropped is older than all that stay, and as many stay
  as there may be.

`ProducerProofs`, about the pipeline for any set of records, any sets of processors
and sinkers, any capacities, and about the rest for any sets:

* `TypeCorrect`: `Spec => []TypeOK`, that is, channels never exceed their
  capacities and goroutines stay in their states.
* `NeverSendOnClosed`: `Spec => []NoSendOnClosed`. `NoSendOnClosed` is inductive
  with `TypeOK`: no goroutine leaves `done`, `inputBuffer` is closed by the
  step that ends the filler, and the closer waits for all processors.
* `StopLeavesNothing`: `Spec => []StopDrains`, provided there is a processor and
  a sinker. It needs a strengthening: a finished goroutine holds nothing, a
  finished processor saw the input closed and empty, a finished sinker saw the
  output closed and empty, a closed channel stays closed and gets nothing new.
  The assumption on processors is one the code's defaults may break: see below.
* `PipelineEvacuates`: `Spec => EvacuationSpec`, under the same assumption. The
  invariant `OnePlace` says that the places a record can be in are disjoint, place
  by place; then each step is one step of `Evacuation` or none (`StepEvacuates`).
* `OwnDataServed`: `OwnerSpec => []ServesOwnData`. The invariant says for each
  phase of a start what the data and the hash may be, so that the process may die
  in any of them.
* `KeysAreReportedOnce`: `UniqueSpec => []KeysReportedOnce`.
* `CallsAreReportedOnce`: `TelemetrySpec => []CallsReportedOnce`.
* `ConfigsAreInOrder`: `TelemetrySpec => ConfigsNeverGoBack`. `ConfigInv` orders the
  places a configuration goes through: what was posted is no newer than what will
  be, that no newer than what this fetch has read, and that no newer than what is
  left in Redis; what was read from the list is its beginning.
* `NewestGetsThrough`: `TelemetrySpec => []NewestConfigOnItsWay`, from the same order.
  `NewestInv` adds what a fetch without failures knows between two commands: what
  the hash has, it has read. `DedupedKeepsNewest` is about dedupeAndAdd: the last of
  an instance in the list is its newest.

* `BulksStaySound`, `NothingGetsShared`: `BatchSpec` implies `[]BulksAreSound` and
  `[]NothingIsShared`. In `BatchInv` any two bulks, of one processor, of two, or at
  a sinker, have different buffers and no item in common (`Apart`), the index of a
  processor has the newest bulk of each instance (`Indexed`), and that is the only one
  which may not be full (`FullBefore`).

`ProcessProofs`, for any counters, updaters, readers and admin requests:

* `CountersAreWatched`, `SinceStaysSound`: `Spec` implies `[]WatchedFromSyncOn` and
  `[]SinceIsSound`. `ProcessInv` says who may be inside the monitor: nobody but
  readers before the first synchronization (`BlankUntilSynced`); a goroutine leaves a
  healthy counter only when a shutdown told it to (`LoopsKept`); the lock for writing
  is held by one (`Exclusive`); each shutdown goes through the monitors once
  (`StopsKept`); what a reader noted and the field it clears go by a counter that is
  unhealthy, and those stay so (`SinceKept`).
* `JamsStay`: `Spec => JamsAreFinal`, an action property, from the same invariant.
* `WindowsAreExact`: `ServicesSpec => []WindowIsExact`, for any services, window,
  percentage and history. `CounterFits` relates a counter to its history: the cache
  is the end of it, and a message is that of the last failure.

`LoopProofs`, for slices of every length. The library's induction theorems take an
operator, which no installed prover can instantiate, so induction is done over sets:
`LoopInduction` (a set of numbers that has 0 and, with each number, the next has all
up to N) follows from the well-foundedness of `<` on `Nat`, and `LoopExists` says
that a recursive function over `0..N` that steps by a given function exists.

* `WantedSetsStay`: `Spec => []NoWantedSetLost`, for any matcher and any list. The
  loop shrinks the slice it walks over, and a removed item is replaced by one that
  was not looked at. `SanitizeKeepsWanted` has the invariant: every wanted set is in
  the slice, and those that were seen are in the part behind the index.
* `AnswersCatchUp`: `Spec => []IncrementalEqualsFresh`, for any flags, sets, changes
  and every `since` that was handed out. That the answer is right depends on what the
  views remember of the past. The inductive invariant `IInv` says, in `Fits`: a view
  is that of its flag's last change (`ViewFits`), with the sets of that change active
  and all others inactive since that very change (`AssocsFit`); and, for every change
  number the proxy ever had, the sets a flag was active in then are still known to
  its view (`Traced`), so that their loss is noticed. `UpdateFits` shows that an
  update keeps both; `InOrderIs` that a sort by rank has the same elements in order.
  An answer is what is newer than `since` although `findNewerThan` looks for the
  first such view only (`AnswersAre`), and the merge finds every match when one
  set is requested (`MergeIsComplete`): its cursor then always stands at that set. For
  two sets it is wrong, as `historic_merge` shows.
* `AnswersStayWithin`: `Spec => []AnswerWithinSets`, with the type invariant. The
  merge finds nothing that is not there, whatever is requested (`MergeIsSound`), and
  every association comes from a change of the flag (`AssocsPast`).
* `LambdaIsTold`: `MonitorSpec => []LambdaTellsBacklog`. `WindowOK` says that sizes, flushes and
  items generated fit from one record of the window to the next and, added up, from
  the first to the last. The sum is a recursive function over the window; what it
  does when a record is appended or dropped is proved by induction over its
  iterations (`FlushedIs`, `FlushedAppend`, `FlushedTail`).
* `TrackersMirror`: `ObservableSpec => []TrackersMirrorRedis`, from any content of Redis
  and whatever of it was seen at the start. `FilterFailedKeeps` says
  that the list filtered in place loses the failed names and no others; its loop
  invariant `Filtering` is about the items before `idx` and up to `end`. For counts
  the invariant says besides what an update in progress will add: the count and
  what was overlooked are together the keys in Redis.

Only model-checked: all liveness. Fairness and ENABLED are beyond the prover.

## Divergences between code and documentation

Shown by runs:

* `proxy_export`: `SplitChangesCollection.Update` says it works "atomically", but
  saves each record in its own transaction; an export in between has the batch's
  highest CN without all of its records. So has one after a save that failed: the
  error is dropped (`persistent/splits.go:58`).
* `historic_merge`: `featureShouldBeReturned` skips an association whenever its
  cursor reaches the last requested set, so it may not "compare the sets for
  intersection".
* `pipeline_stop`: `Stop(true)` says "drain the pipe", but a filler that finds
  `running` cleared in its loop condition leaves the input buffer open. A graceful
  shutdown of split-sync waits for it (`runtime.go:104`, `sync.go:46`).
* `segments_restore`: a proxy started from a snapshot returns keys removed
  meanwhile as members, until they change again: `segmentsTill` is not restored,
  the first fetch is from scratch. `CHANGES.txt` lists "removed segment keys
  would be returned as active at startup" as fixed in 5.4.1.
* `endpoint_metrics`: `RecordEndpointLatency` swaps the latencies of the telemetry
  configuration and runtime endpoints (`proxy/storage/telemetry.go:266-269`), and
  `ForResource` takes the status codes of three endpoints from one of them
  (`telemetryts.go:204-206`); the docs say "for a specific endpoint".

Met while modelling, without a run. Proxy:

* `Sanitize` says "Sort, Dedupe & Filter" (`flagsets.go:23`) but never looks at the
  item it moves (`flagsets.go:34`).
* An answer computed before an update may be filed in the HTTP cache after the
  update's evictions (`workers.go:115`, `workers.go:56`), and stays. The
  exceptions of `OnlyLateAnswersStale` and `OnlyLateRulesStale` are these.
* `ChangesSince` of segments says "ALL the historically removed keys are always
  returned"; `segments.go:72` leaves out those at or below `since`, and line 76
  all of them when `since` is negative.
* `keyFactoryFN` keeps the query string, `MakeMySegmentsEntries` has none: a
  `/mySegments` request with a query has an entry no update evicts.
* An SDK that comes while the storage of a kind is at CN -1 (`splits.go:68`,
  `rulebasedsegments.go:105-112`) may get rules with `till` -1: the CN is read
  before the first update, the rules after it. It asks from scratch again, and a
  rule archived before that is never taken away. So may a rule the backend answered
  for such a storage: `setStartingPoint` moves `oldestKnownCN` also for an update
  without active rules, which is ignored otherwise (`rulebasedsegments.go:192-198`),
  and `sinceIsTooOld` lets everybody pass while it is -1 (54-62), so the summaries
  answer an SDK they know nothing about. That is how every process begins, and how
  one goes on that was started from a file without records of the kind: the missing
  bucket is an error and `snapshotFromDiskRB` returns -1 (70-74), while requests are
  served. There a request let in before the first update may read the
  summaries after it, although `ErrSinceParamTooOld` "is returned when a summary is
  not cached for a requested change number" (`splits.go:21`). The rules concerned are those in `early`;
  `ProxyFlags` has the kind of flags from the first change on, which leaves these
  starts to `RuleServing`.
* A proxy whose first fetch brings no active rule ignores it and asks from scratch
  again and again (premise `Populated`).
* `updateFlagsets` stamps an association that was inactive already with the new
  CN (`historic.go:115-118`), while `historic.go:200` says such an association is
  not considered. The effect is an answer with more than it needs.
* `pool.QueueMessage`'s result is ignored (`tasks/deferred.go:59`): what the pool
  refuses is gone. `Stop` leaves the queue while the API still accepts.
* The middleware's name for the authentication endpoint, `/api/auth/v2`, matches no
  route (`/api/v2/auth`).
* The listener is told of a post before it is staged, so it hears of a refused bulk
  again with every retry; it loses its queue when stopped, and no program stops it.

Producer:

* `pipelined.go:54` sets the default concurrency to `NumCPU() / 2`, zero on one
  CPU: nothing reads the input buffer.
* `PopConfigs` says "return what's been fetched so far"
  (`producer/storage/telemetry.go:125-127`); on an error it returns nothing, and
  what the other commands removed is lost. Its LRANGE takes one more than `limit`.
* A bulk of impressions may hold `defaultBulkSize` plus one (`impressions.go:212`).
* `SetApikeyHash` is deferred and runs even when the comparison failed
  (`util.go:125`), so that the next start takes another's data for its own.
* The names of pipeline workers are formatted from a pointer; `ImpressionsCounter`
  is copied by value (`producer/initialization.go:263`).

Common:

* A counter can jam (`threshold.go:42`, `:67`), and then a graceful shutdown never
  ends, because `Shutdown` stops the monitor before it lets main go; a forced one
  does.
* `Kill` says it "sends a SIGKILL and aborts immediately" (`runtime.go:120`): it
  puts a value into the channel of the handler and waits for room there.
* Both programs build the runtime with a nil listener; errors of the admin and API
  servers' `Start` are ignored; `main` goes on after a `FlagSetValidationError`.

## Not modelled

`PROJECT.json` lists every component with its status. For good: the dashboard
(read-only views and HTML), the configuration parser (reflection over struct
tags, run once before anything starts), logging, the arguments of the entry
points. The backend, Redis, BoltDB, gin and the Split Go libraries are external:
they are modelled from how the code uses them. JSON and treatment rules are
abstracted into change numbers, latencies into the set of requests that were
counted, the layout of snapshot files into what they hold. So far not: large
segments (kept by a storage of the Split library, read by `Memberships`, evicted
by `CacheAwareLargeSegmentSynchronizer`), the patching of matchers for old SDKs,
counts of keys for the dashboard, what the library's updater of segments returns
with an error (a fetch that fails is one that is not made yet), replies to an SDK's
post that get lost (`Intake`: it posts again after a server error only), impression
counts (`producer/worker/impcounts.go` moves
them from one object of the library to another).

## Plan

1. Large segments as a third cached store of `SegmentServing`.
2. Two counters in `process`: their locks are taken one after the other by the
   monitor, which matters to how long a jam keeps others out, not to whether.
3. Several restarts in `segments`: what an SDK may keep when files are exported by
   one process and used by a later one than the next.

## How to run

In `tla/`: `tlc -config Proxy.cfg MCProxyFlags.tla` (and so on, as
`PROJECT.json` pairs them) and `tlapm ProxyFlagsProofs.tla` (and the other
`...Proofs` modules). Each passing run takes a few minutes at most.
