# A verification project for Token-Pulse

Token-Pulse collects token-usage records from coding assistants, keeps them in
hourly files and shows them in a dashboard. This directory holds TLA+ models of
the way of a record from the tool that produced it to the figure on the screen, and of
the floating widget. TLC checks the models on small instances. For every instance, TLAPS
proves the safety of the data pool, without and with faults, of its archive, of the cache and the view
beside it, of the collectors and of the two windows.

## The system

```
 tools --files, RPC--> collectors --mpsc(256)--> ingest task --push_datalogs--> DataPool <-- run_archive
                        ^  (ingest store)                                          | broadcast(64) PoolNotification
 command task --Upsert, Rebuild                                                    v
       |  \--clear_storage, clear-----------------------------------> DataCache (subscriber task)
       |                                                                  | broadcast(64) CacheUpdateSignal
       \--request_refresh (Refresh)----------------------------> DataShow (background loop)
       ^                                                                  | watch
       | mpsc(32)                          memory monitor --watch--> push task --watch--> dashboard worker
       \------------------------------------- dashboard window <--messages---------------/
```

| Component | State | Operations | What is hard | What makes it correct |
|---|---|---|---|---|
| Data pool, active tier (`tp-pool`: `storage.rs`, `replace.rs`, `active.rs`, `metadata.rs`) | hour files, metadata index, uid registry, the two saved JSON files | `push_datalogs`, queries, `clear_storage`, load | files are written during a call and registry and index saved at its end; errors, crashes and a Rebuild fall in between | one record per uid; an official record is not replaced by a calculated one; registry, index, files and saved state agree between calls |
| Data pool, archive tiers (`archive.rs`, `run_archive`, `digest.rs`) | daily and monthly files, digests, tiers in the index | `run_archive`, `query_by_hour_key`, `query_range` | several files and the index move in steps; late records of archived hours | archiving moves each record once; a digest equals the records it stands for; readers find what was accepted |
| Data cache (`tp-cache`) | aggregator, processed hours, termination key | `build`, `incremental_update`, `clear`, snapshot | builds read files that pushes are writing; notifications are lost; digests stand for whole days | once everything has been handled it has counted each record once |
| Aggregator (`tp-aggregator`) | hot aggregator, view | `refresh`, `build_view` | cold and hot data are read at different times; two callers; a dozen maps merged two by two | no record counted twice; the view ends up equal to the pool |
| Incremental aggregation (`tp-compute`) | sums per dimension | `ingest`, `merge_digest`, `prune_hourly`, `project`, `window` | not idempotent, many maps in parallel | additive in every dimension |
| Pipeline (`main.rs`: `run_pipeline`) | channels, tasks | ingest, command, monitoring and push task | the command task runs beside all others | see above |
| Coordinator (`tp-collector`) | last collection time per source | timer, notification, command, collect and push | collection during changes, failing collections and pushes | nothing between two collections is lost |
| Ingest store, Antigravity collectors | entries, cursor, step offsets and modification times (also on disk), transcript offsets | append, pull, flush, rebuild; list, fetch, advance, mark; transcript pass | cursor and offsets move before the data is safe; a Rebuild may come during an await | each step delivered, once; what is marked was fetched |
| Codex, Claude collectors | none between calls | `collect`, `collect_since` | de-duplication, running totals, the since filter | each message counted once, with the same amount however it was collected |
| Floating widget (`main.rs`) | five states, drag, hover timers, animation, tooltip | window events, `about_to_wait` | event orders | at rest the window lies where the state says |
| Dashboard (`tp-dash`) | view, tab, filtered view, table page and mode, dropdown | messages, clicks | updates between clicks; derived data precalculated | every figure is the one of the view and tab in force |

`PROJECT.json` lists these with their files and status, and under `hazards` the
places at which each can go wrong, with the properties that watch them.

## Modules

| Module | Models | Composed by |
|---|---|---|
| `ReplaceOrPush` | the promise: one record per uid, accepted by the rules at the head of `replace.rs` | refined by `DataPool` |
| `DataPool` | `push_datalogs` and everything it calls, step by step, `persist_all`, the notification ring | |
| `DataPoolFaults` | the pool with I/O errors, crashes and restarts, and `clear_storage` | extends `DataPool` |
| `DataCache` | the subscriber task, `build`, `incremental_update`, `clear`, beside the pool with faults | extends `DataPoolFaults` |
| `DataShow` | both refreshing tasks, the view and the command task | extends `DataCache` |
| `Aggregation` | the aggregate of `tp-compute` and the digests of `digest.rs`, as operators on maps | |
| `DashboardView` | the cold view, the merge with the hot records (`build_view`), titles | extends `Aggregation` |
| `Archive` | `run_archive`, the archive tiers, their readers, the cache's digest fast path | extends `DataPool`, `DashboardView` |
| `IngestStore` | the store between an ingest loop and the coordinator, as operators | |
| `Antigravity` | the ingest rounds of the CLI and IDE collectors, transcript estimates, rebuild and restart | extends `IngestStore` |
| `SessionFiles` | what a collection of Claude Code or Codex files yields, as operators | instantiated by `Collector` |
| `Collector` | one source, its coordinator task, the channel, the ingest task, Upsert and Rebuild, crashes | extends `Antigravity` |
| `FloatingWidget` | the widget's event handlers | |
| `Dashboard` | monitoring task, push task, worker, window, session table | extends `DashboardView` |
| `Desktop` | the two of them side by side: they share a thread and no state | extends `FloatingWidget`, `Dashboard` |
| `DataPoolProofs`, `DataPoolFaultsProofs` | proofs about the pool and the rules it refines; about the pool with faults | the second extends the first |
| `DataShowProofs` | proofs about the cache and the view, with the pool working beside them | extends `DataShow`, `DataPoolFaultsProofs` |
| `AggregationProofs` | what ingesting records adds up to, in one go, in parts or by digests, and what a view of two parts shows | extends `DashboardView` |
| `ArchiveProofs` | proofs about the archive tiers, and the builds and views made from them | extends `Archive`, `DataPoolProofs`, `AggregationProofs` |
| `CollectorProofs` | proofs about a source with its coordinator: types; the way of a call's record and what the records say | extends `Collector` |
| `DesktopProofs` | proofs about the widget and the dashboard | extends `Desktop` |
| `Induction` | induction over sets of numbers and finite sets, lemmas on sequences, on folds over a finite set and on sums | used by the proofs of the aggregates, of the archive, of the cache and of the collectors |
| `MCDataPool`, `MCDataShow`, `MCArchive`, `MCCollector`, `MCDesktop` | constants, batches, scripts and constraints for TLC | |

**Pool, cache, view.** A record is a uid, a class and a payload; an hour file is the
sequence of records `read_hour` returns (a missing file and an empty one are
not told apart, nor does any reader). The uid decides the hour. `files`,
`diskMeta` and `diskRegistry` are what is on disk; `meta` and `registry` are
in memory; `pc`, `todo`, `byHour`, `affected`, `buf`, `cur` are the locals of
the `push_datalogs` call under way. In `DataCache` and `DataShow` the aggregator is
the sequence of records ingested, per hour, with repetition: enough to see one
counted twice. `met` and `overlapped` are history variables of `DataShow`: whether the refresh that began last found the
other task's under way, and whether a push has met a `clear_storage`. One action is one lock section or one file operation of the code.
Where two adjoining sections are merged, the comment at the action says why
nobody can tell. `File::create` in a rewrite is a step of its own, since readers can see
the truncated file.

**Archive and aggregation.** `Aggregation` keeps what `AggregationState` keeps: an
amount per key of each dimension, tokens and (where the code counts them) records,
plus the sets of sources seen with a project or model. `Archive` runs over real
values of it: `DoBuild` takes a day's digest where there is one, `ColdBuild` prunes the
hours, `BuildView` merges the cold and the hot half map by map, and the properties
compare the result with `RefBy`, the sum written down directly. The calendar (hours per
day, days per week and month) is a constant, so that days and months fit a small clock. A
file operation of `run_archive` is an action; its `archPc` names the place in the
two loops.

**Collectors.** A session is the sequence of its generator calls with the
modification time at which each appeared; a session file is a script of lines, each
stamped at one time and written at that time or later. `round.at` is the place in
`ingest_loop`, with one step before and one after each await. `store` and `disk` are the
`IngestStore` and its files; `toff` the transcript offsets with the state of the
estimate. `task` and `batch` are the coordinator's `collect_and_push`, `chan` the mpsc
channel, `command` a command in the broadcast receiver. A Rebuild is the command task's steps one by
one (`rebuild` says which comes next): the storage is cleared, all of it or, where `clear_storage` fails, a
part; the store and its three files are reset; the CLI's transcript offsets; the coordinators are told. The process
may end between any two of them, and between the saves (`RebuildCut`). `lost`, `failed`, `slipped`, `cleared`, `raced`,
`sent` and `resets` are history variables: the code does lose records, and the properties say
exactly which, so that everything else must arrive. `cleared` are the records a Rebuild has removed and not
yet asked for anew, `raced` the session that was being fetched when the store was reset. `Wake` stands for the timer and for the
notification of an append alike. Each instance has one source, chosen in the initial
state among the four kinds, since sources share nothing but the channel.

**Desktop.** `FloatingWidget` has one action per handler of the event loop, which is a
single thread; the timers have no clock, an expired one may be noticed at any later
`about_to_wait`. `Dashboard` has the two senders of `view_tx`, the worker that forwards
changes as messages, and the window's callbacks; `filtered` and `rows` are what
`precalculate` stores. What the aggregator sends is made of the records of `Feeds` (`ViewOf`): the cold ones are those the cache has counted,
of the hours up to its termination key (`tp-aggregator/src/lib.rs:77-81`), whether archived or still active; the hot ones
those of the active hours after it. The hot part is what the cache has still to process: at rest, once it has caught up, there is no
hot record, and with the hot records go the recent list and the marks of estimated sessions, which are made of them. `RecentLimit` is
the length of the list, 50 in the code. `Desktop` puts the two side by side; `MCDesktop` runs one or the
other, as they share no state.

**Variations.** Definitions introduced as variations of another are used by no
specification. Put in the place of the definition they vary, each must break the
property its comment names, which shows that the property depends on that piece of
the code. `PROJECT.json` pairs them under `mutants`.

## What the runs check

| Run | Instance | Shows |
|---|---|---|
| `pool` | `FaultsSpec` with no fault allowed, whose behaviours are those of `PoolSpec`: 3 uids in 2 hours, 2 classes, 2 payloads, all batches of one record and all pairs of distinct uids with one payload, 3 pushes | `TypeOK`, `UniqueRecords`, `RegistryMatchesStore`, `IndexMatchesStore` (both also of what is saved), and the refinement `ImplementsRules` |
| `pool_faults` | the same uids and hours, 4 batches, 3 pushes, one I/O error, one crash, one Rebuild | errors alone break neither `UniqueDespiteErrors` nor `StoredIsRegistered`; a crash at any point leaves saved files of which the registry knows only indexed hours (`KnownIsIndexedOnDisk`); `OfficialStaysRegistered` |
| `view` | 1 uid in each of 2 hours, 3 batches (new, upgrade, new hour), 2 pushes, notification ring of 2, signal ring of 1 | `CacheSettles`, `ColdHotDisjoint`, `NoDoubleCount`, `ViewSettles`, and under fairness `ViewCatchesUp` |
| `rebuild` | one hour pushed twice; one Refresh at any time, or one Rebuild, whole or failing at any step, with at most one push before or during it and another after it | `NothingMissing`, but for a view whose refresh met the other task's and for hours left without metadata |
| `archive` | 4 uids in 3 hours of 2 days, of two sources, models and projects; 5 batches (new, upgrade, late), 3 pushes, any number of archive passes at any time of a clock that makes both days monthly, one crash | `StoredAsRegistered`: a replacement that misses its archived record is appended, and no active file ever holds a uid twice, or with another class than its registered one; `NothingLost`, `ReadOnce`: the tiers together hold each accepted record and `query_by_hour_key` finds it once; `BuildExact`, `ViewExact`: a build from digests and the view made of any split into cold and hot equal the sums over the records; `RangeFindsAll`; `MonthDigestExact` |
| `collector` | each of the four sources; a session of two calls (one without a step index), or a file of three lines with late writes; one fault of any kind, where a Rebuild and the end of the process that keeps it from resetting the store are one | `FetchedIsKept`, `MarkedIsFetched`, `DeliveredOnce`, `EstimateStable`, `CodexExact`, `ReadOrSlipped`, and under fairness `Arrives` |
| `desktop` | a monitor of 6 by 5, drags that end near the left edge, near the bottom, in the corner at the right and off the top; three views of cold and hot records, more hot ones than the recent list keeps, today's hours in both parts, two changes of the warning, pages of two rows, four tabs | `Settled`, `HidesAgain`; `ShowsLatest`, `TabExact`, `RecentExact`, `PageShown` |

Bounds. Three pushes are what an upgrade, its repetition and a downgrade of one
uid need; a second hour and a third uid make a call write two files and a file
hold two records. Two pushes are enough for the view: the first indexes the hour, the
second changes it without a new version, which is the case the version check
of Rule 3 does not see. The rings are smaller than the code's 64 so that they
overflow. In `archive`, three pushes suffice for a record to be archived, another of its
day to come late and a third to upgrade either; two hours of one day make the second merge
with the first's day file. In `collector`, two calls give an offset that is neither empty nor complete, three lines a difference
across one that is left out. One fault loses what a fetch, a push or the end of the process can lose,
and what a Rebuild removes that is cut off between `clear_storage` and the reset of the store, or between two saves of that
reset; the proofs have any number of faults, and ends of the process at every step of a Rebuild.
In `desktop` one page more than fits, and a view that shrinks, move the table's page; a recent list of two
is shorter than the three hot records of the first view.

`view` has no commands. `rebuild` has one, with pushes, builds and refreshes beside each of its steps: the constraint `OneCommand`
excludes a second command, and that two pushes run before or during a Rebuild. Neither is an assumption of the
property, which `ShowNothingMissing` proves without them. What `NothingMissing` excepts it names itself:

- A view whose refresh met the other task's (`met`). The two share `DataShow.aggregator` and the watch channel,
  so the one that is sent last may be the older one, and nothing refreshes again before the next signal or command:
  `older_view_last`. The same sharing makes a view count an hour twice (below).
- Hours without metadata, once a `clear_storage` has failed or met a push (`errors`, `overlapped`). A push under way
  while the storage is cleared may write its hour after the files are removed and index it before the metadata is
  reset; its records are then in a file no index names. In indexed hours nothing may be missing even then.

That a view shows more than the pool is not excluded across a Rebuild: a `DataCache::clear` between the steps of a
build can leave an hour counted twice until the next notification.

What the archive properties except is what the code gets wrong or leaves open, each
named by a definition: `stale` hours, in which a replacement missed its archived record and
was put into an active file no reader opens (`storage.rs:551`); `Pending` hours, whose
late records wait for the next pass; `cut` days, over which a crash cut a pass, so that an
hour may be archived twice; and `HalfDigested` days, digested while an hour of theirs
was still active: `do_build` then takes the digest for the whole day (`tp-cache/src/lib.rs:182`)
and leaves the other hours out. A pass and a push never overlap in the model:
the only caller of `run_archive` is an integration test that awaits one after the other.

### Violations

| Run | What TLC finds |
|---|---|
| `same_batch_twice` | a uid twice in one batch is stored twice: it is registered while its record is only queued (`storage.rs:143`), against `replace.rs:46` |
| `unique_across_rebuild` | a push during `clear_storage` is unregistered again; the record, offered once more, is stored twice |
| `rebuild_mid_fetch` | a Rebuild while the ingest loop awaits an answer: the offset is advanced past records the Rebuild has dropped, which are never fetched again, against `ingest_store.rs:207` and `main.rs:377` |
| `older_view_last` | a Refresh command that built its view before a push was counted sends it after the loop's newer one, and it stays for ever: the refresh every 30 seconds of the comment at `tp-aggregator/src/lib.rs:356` does not exist |
| `estimates_unmarked` | a session whose estimated record the cache has counted is not marked as estimated, against `session_table.rs:93`: the marks are made of the recent records, which are hot ones |

Each has an entry under `findings` with the line it contradicts. Another
disagreement shows in the shape of a property: `NothingMissing` excepts unindexed hours once a
`clear_storage` has failed or met a push, because in them records do stay missing.
A push that fails after registering has the same effect: its uid, offered again, is
appended by `replace_in_hour`, which never indexes the hour.

Three more show in what the properties except, and have no run of their own:

- A crash between the writing of a record (`storage.rs:180`) and `persist_all` (`storage.rs:200`) leaves a record the
  reloaded registry does not know. Offered again it is stored a second time; if the first copy is official and the second
  calculated, the next calculated record is taken for a replacement of the second and rewrites the first of
  the two, against Rule 3 (`replace.rs:7`). `UniqueDespiteErrors` excepts crashes, `OfficialStaysRegistered` the restart.
- If the process ends after a Rebuild's `clear_storage` and before the ingest store is reset (`main.rs:379-386`), the
  offsets on disk lie past records that are gone and are never fetched again, against `main.rs:377`. `FetchedIsKept`,
  `MarkedIsFetched` and `Arrives` except them (`cleared`).
- A Refresh command can store its hot data, taken with an older snapshot, between the loop's store and its
  `build_view` (`tp-aggregator/src/lib.rs:99-104`): the view then counts an hour twice, against the comment at `:76`. With
  `MaxRefreshes = 1` in `MCDataShow.cfg` TLC finds `NoDoubleCount` violated; `ShowNoDoubleCount` has `refreshes = 0`.

### Fairness

`DataShow!Fairness` is weak fairness of four tasks: a push under way, the
subscriber task, the background loop, and a command under way. Each is a tokio
task on a multi-thread runtime, and a task that can run is polled; none waits for
another but through the channels, which the model has. Nobody is obliged to push a
batch or to give a command, and none of the faults is fair. A build may restart for
ever only if versions change for ever, which a bounded number of pushes excludes.

`Collector!Fairness` is weak fairness of the ingest round's own steps, of the
coordinator's timer and send, of the ingest task, and of a Rebuild's steps once it has begun, for the same reason; strong
fairness of `ReceiveCommand`, because `select!` picks at random among the branches that
are ready, so a waiting command is not passed over for ever; and strong fairness of a round
that lists every session, which is the one assumption about the outside: the
language server is reachable again and again. Without it the code promises nothing, as
only that server has the records. `Archive`, `FloatingWidget` and `Dashboard` are
checked for safety only.

## What is proved

The theorems of the table hold for every value of the constants that meets the
assumptions the modules name: `HoursAssumption`, `HourOfAssumption`, `BatchesAssumption`,
`BoundsAssumption` and `FaultBoundsAssumption` (hours are numbers, every uid has its hour,
batches are non-empty sequences of records, bounds are numbers), `ValsAssumption` (in the archive a payload is an amount of
tokens), `SignalAssumption` and
`RefreshAssumption` (the signal ring has room, so has the bound on Refresh commands), `CalendarAssumption` and
`AgesAssumption` (a day has hours, a month days; ages and the clock's bound are numbers), `IngestAssumption`,
`CollectorAssumption` and `ScriptAssumption` (there are finitely many sessions, the channel has
room for one batch, sizes and totals are numbers, the bounds on time and faults too),
`WidgetAssumption` (the monitor holds the expanded widget), `TitlesAssumption` (titles are of conversation
ids), `RecentAssumption` (the recent list has a length), `DashboardAssumption` (a page has a row, channels have room, there is a view) and `FeedsAssumption` (the
aggregator has records, of hours, tokens and the known sources). TLC evaluates each of them on its runs.

| Theorem | Property | Further hypothesis |
|---|---|---|
| `PoolTypeCorrect`, `PoolPersisted` | `TypeOK`, and that between calls what is saved is what is in memory | |
| `PoolUnique`, `PoolRegistryMatches`, `PoolIndexMatches` | `UniqueRecords`, `RegistryMatchesStore`, `IndexMatchesStore` | `DistinctBatches` |
| `PoolStoredAsRegistered` | `StoredAsRegistered` (once at most, with the registered class), of `ReopenedSpec` | `DistinctBatches`, finitely many uids |
| `PoolImplementsRules`, `PoolKeepsOfficial` | the refinement `ImplementsRules`, and Rule 3 from it | `DistinctBatches` |
| `FaultsTypeCorrect`, `FaultsStoredRegistered`, `FaultsIndexedOnDisk`, `FaultsKeepsOfficial` | `FaultsTypeOK`, `StoredIsRegistered`, `KnownIsIndexedOnDisk`, `OfficialStaysRegistered` | |
| `FaultsUnique` | `UniqueDespiteErrors` | `DistinctBatches` |
| `ArchiveTypeCorrect`, `ArchiveLosesNothing`, `ArchiveRangeFindsAll` | `ArchiveTypeOK`, `NothingLost`, `RangeFindsAll` | |
| `ArchiveReadOnce`, `ArchiveStoredAsRegistered` | `ReadOnce`, `StoredAsRegistered` | `DistinctBatches` |
| `ArchiveMonthDigestExact` | `MonthDigestExact` | |
| `ArchiveBuildExact`, `ArchiveViewExact` | `BuildExact`, `ViewExact` | `DistinctBatches` |
| `ShowTypeCorrect` | `ShowTypeOK` | |
| `ShowColdHotDisjoint`, `ShowCacheSettles` | `ColdHotDisjoint`, `CacheSettles` | `clears = 0` |
| `ShowViewSettles` | `ViewSettles` | `clears = 0`, `refreshes = 0` |
| `ShowNoDoubleCount` | `NoDoubleCount` | `clears = 0`, `refreshes = 0`, `DistinctBatches` |
| `ShowNothingMissing` | `NothingMissing` | |
| `CollectorTypeCorrect`, `CollectorDeliveredOnce` | `CollectorTypeOK`, `DeliveredOnce` | |
| `CollectorFetchedIsKept`, `CollectorMarkedIsFetched` | `FetchedIsKept`, `MarkedIsFetched` | |
| `CollectorCodexExact`, `CollectorEstimateStable`, `CollectorReadOrSlipped` | `CodexExact`, `EstimateStable`, `ReadOrSlipped` | |
| `WidgetTypeCorrect`, `WidgetSettled`, `WidgetHidesAgain` | the widget's half of `DesktopTypeOK`, `Settled`, `HidesAgain` | |
| `DashTypeCorrect`, `DashShowsLatest`, `DashPageShown` | the dashboard's half, `ShowsLatest`, `PageShown` | |
| `DashTabExact` | `TabExact` | `NoneAhead` |
| `DesktopTypeCorrect` | `DesktopTypeOK` | |

`DistinctBatches`: no batch has a uid twice. The collectors do not guarantee it, and
`same_batch_twice` shows what happens without. `clears = 0` and `refreshes = 0`: no
Rebuild, and no Refresh command, has come so far. They are conditions on the state and not on the
bounds, so the theorems hold in every run until the first such command. They are needed: with one
Rebuild TLC finds `ColdHotDisjoint`, `CacheSettles` and `NoDoubleCount` violated (`DataCache::clear`
between the steps of a build), with one Refresh command `NoDoubleCount`
and `ViewSettles` (as in `older_view_last`). `ShowNothingMissing` and the theorems about the collectors have no such
condition: they hold for any number of pushes, commands and faults in any order, and what they except is
in the property (`met`, `errors`, `overlapped`; `lost`, `cleared`, `raced`, `failed`). `NoneAhead`: no
record dates from an hour to come. The week and the month of a tab are the days from their first on, without
end, and those of the whole view end today: a record dated ahead would be counted by the one and not by the other.

**Pool.** None of the properties is inductive: while a call runs, the registry runs ahead
of the files. The invariant is `IInv`, made of `TypeOK` and

- `Control`: which locals are empty at which `pc`, and `buf` holding the hour
  being rewritten.
- `Contents`: each hour as a reader would find it were no rewrite half done, so
  that truncation and rewrite become one change. `Restored`: the registry but for
  the uid whose replacement is written and not yet registered.
- `Consistent(Contents, byHour, Restored, todo)`: no uid twice in an hour and
  its queue together; every record in the hour of its uid, with the class the uid is registered
  with; no uid twice in what is still to be decided. The three together are `CInv`.
- `AllHeld`: a registered uid is stored or queued; hence no replacement misses its record and
  `pc` is never `"append"`.

These are about values, not about the state, so each kind of change (queue a record, replace one,
append one, write a queue) is one lemma about sequences, and `PoolSteps` says of each action which
kind it is, or that it changes none of the values. `IndexCounts` adds the counts of the index for
`PoolIndexMatches`. The refinement maps a uid to its queued
or stored record; `ApplyPush` and `ReplaceRewrite` (or `ReplaceAppend`) are the
accepting steps, everything else stutters, and `WriteLogs` stutters because the
record moves from the queue to the file.

`CInv`, without `AllHeld`, is what a pool opened over any registry keeps (`ReopenedSpec`: archived hours, and pushes
that failed before they wrote), hence `PoolStoredAsRegistered`, and what the pool keeps beside an archive, which takes
records out of its hours, hence `ArchiveStoredAsRegistered`. The set of uids is finite there since `ReopenedInit` counts the ones of an archived hour.

**Archive.** A pass moves an hour in six steps and copies a day in three; the invariants see each
as one. `ArchiveControl` ties `archBuf` to its files: what is about to be written is the day file of
before (`DayFile`, as `Content` of an hour) followed by the hour. `PassSteps` says of each step of a pass
whether it `Moves` an hour, `Tells` the index of it, `Copies` a day to its month, `TellsMonth`, or
changes nothing a reader could see.

- `Somewhere`, for `NothingLost`: a registered uid is in its hour (`Waiting`, empty once the hour
  has moved), queued for it, in its day, or of a `cut` day. The day file stays when the day is copied
  to its month. Nothing here forbids a second copy, so it needs no further hypothesis.
- `HourInv`, for `ReadOnce`, is about one `Clean` hour (not `stale`, not of a `cut` day). Its
  registered uids are waiting or queued, or else `Away`; the day file `Archives` the hour: of its uids it
  has exactly those `Away`, once, with their registered class; so does the month's file if the index
  names it; and the day has nothing of an hour that was never archived. A push changes the class of an
  `Away` uid only by a replacement that misses its record, and that makes an archived hour `stale`
  (`AppendMisses`, `PushKeepsAway`); a late record is new, so a second pass appends what the day
  does not have.

`RangeFindsAll` follows from the types: whichever file the index names for an hour is among those
`query_range` reads. What is proved of the folds in it (`SomethingGathers`, `WhatGathers`) is that a sequence
gathered over a finite set has what its parts have, in whichever order they are taken.

`MonthDigestExact` and `BuildExact` compare aggregates, and `ViewExact` what is shown of them. Both sides are folds, over sets (in an order
`CHOOSE` fixes) or sequences, so neither can be computed for every instance; what can be proved is that
both are *the* sum of one family of maps. `AggregationProofs` has that: `Sums(b, fam, X)` says that `b`
has the keys of the maps `fam[x]` and of each key their amounts added up (`Total`, of which
`AddsInAnyOrder` shows that the order does not matter); two maps that are sums of the same are equal
(`SumsSame`), and sums of disjoint sets join (`SumsJoin`). `IngestIs`: ingesting records adds `RefBy` of
them. `MergeDigestGains`: merging the digest of a day's records adds the same, the month included, which
the digest does not have and `merge_digest` makes from its total. `MergeToMonthlyIs`: so do the digests
of a month's days. The invariants are

- `DigestInv`: the digest of a day is the one of what its file holds, but between the rewriting of the
  file and of the digest, and but for `cut` days.
- `BuildInv`: of a day that is not cut, a month's copy says of an hour what the day file says; a day file
  has records of its own day only, and a day that has a digest has records; and the index is finite.

Where the digest stands for a day, every record of the day file is one of an indexed hour, by `HourInv`, and
every indexed hour is digested, since the day is not `HalfDigested`; so the day's records are those of
its hours, taken apart (`HourParts`), and `do_build` adds, by digests or hour by hour, what `Read` says of each
indexed hour once. `RecordsOf` gathers the same hours in another order.

`ViewExact` needs this of the hours up to any boundary, not of all: as every hour after it is active and an active
hour's day has no digest, they have each digested day whole (`WholeDays`), and `BuildIs` is about such
hours. The records of all hours are then those of the cold and of the hot ones (`RecordsInParts`), and
`ViewShowsExactly` is about any two such parts: a window is the sum of its days (`DaysAddUp`), whether taken
from the daily series or record by record; projects with the same title are added in groups (`TotalInGroups`);
and the hours that pruning takes from the cold part are never of today (`DayIsRecent`).

**Pool with faults.** A fault ends a call anywhere, so `Fits` fails: a write that is cut
short loses records, and the registry keeps uids of records that were never written. The
invariants are weaker and hold in the middle of a call, each while nothing has happened that its
property excepts. `Registered` has one direction only (what is stored, queued or about to be
written back is registered, in the hour of its uid); `Distinct` adds that files, queues and
what is still to come do not overlap, for `UniqueDespiteErrors`. `IndexFirst` orders four copies of the
state: the hour of a uid registered in memory is indexed or about to be, that of a uid in the registry
file is indexed in memory, and in the metadata file as well. That is why `persist_all` must
save the metadata first. An interrupted write leaves some of the first records of
what was written, however many (`PrefixUids`, `TornTypes`).

**Cache and view.** `CacheSettles` speaks of moments of rest; the invariant must say
what each half-done push, build, update and refresh still owes, in four layers.

- `Boundary`: a build may miss an hour only if the notification of its indexing is still to be
  taken and comes before any that names the hour for an update (`Ahead`, over the positions in the
  ring, `MetadataChanged` and the notice of a loss being what starts a build). So an update never adds an
  hour after the termination key. That the two keep their order is the order of `ensure_index`
  and `DataPushed` in one push; `Filled` relates it to the files (a file has records only if its hour is
  indexed or the push at work has it among `affected`).
- `Settling`: each hour is `Due` (something that will make the cache read it again is under
  way: a notification, a build that has it still before it, a push that has not announced it) or
  `Counted` (what the cache has, or holds in its hand, is the file). A build that reads a file which a push is
  writing stays correct since that push announces the hour afterwards. This is why the version check of
  Rule 3 may miss a push to an indexed hour.
- `Shown`: each hour is `Unseen` (a signal is pending or the cache owes one) or
  `Viewed` (what the refresh at work has and still will read, or else the view, is the file).
- `Once` and `Apart`: no uid twice in any copy of an hour on its way to the view, and the hot
  half of a refresh begins after the termination key of its snapshot, where `ColdHotDisjoint` has ended
  the cold half.

What the pool does beside is one of the pool's own steps, so `IndexFirst`, `Registered` and `Distinct` carry
over (`PoolPart`).

Across a Rebuild none of this holds as an equality: a clear between the steps of a build leaves an
hour counted twice. That nothing is missing is the other direction, `Within` in place of `=`, and has an
invariant of its own, `MInv`:

- `RebuildAlone`, no push under way with a `clear_storage`, holds until `overlapped`; `OneRefresher`, one of
  the two refreshing tasks idle, holds unless `met`.
- `Tidy`: as long as no error has been met and no push has met a clear, `IndexFirst` and `Filled` hold; under a
  `clear_storage` there are no files instead, and the registry goes last. So a record outside the indexed hours is the
  mark of one or the other, which is what `NothingMissing` excepts.
- `Remembered`: what an indexed hour's file has the cache has, or holds in its hand, unless the hour is `Due`,
  or after the termination key and so read from the active files, or the clear has emptied the
  aggregator and not yet reset the key (`Wiped`). This needs no order between pushes and commands.
- `Watched`, unless `met`: an indexed hour is `Unshown` (a signal is pending or owed, or a Rebuild has still to refresh),
  or every refresh under way will show all of it (`Coming`) and, if there is none, the view does.
  This is where a second refresher would take away what the first has put into the shared aggregator. A refresh that begins
  alone ends an earlier meeting: whatever the view lacks by then, it reads anew (`AloneStep`, `MetStep`).

None of these counts the commands, nor supposes that `clear_storage` came through: whether it
did or not, the cache is cleared and the view refreshed after it, and `Remembered` and `Watched` speak only
of hours that are indexed.

**Collectors.** `Types` says where the marks can be: an offset or time, in memory, on disk or
about to be stored, never passes the session. `Delivery` adds what `FetchedIsKept` and
`MarkedIsFetched` say of the store in memory (`OffsetsKept`, `MarksKept`), and
what the round owes between its steps (`RoundKeeps`): the offset it read is not past the store's,
what lies below the next offset has been appended, and so has what had happened by the listed
time. A Rebuild takes the offset back under a round, and the first of these fails for the session of the round, which
`raced` names; `Delivery` is about the others. In the steps of a Rebuild before the reset of the store the records that
were in the pool are `cleared`, and what the end of the process leaves on disk is the offsets of before or none
(`CrashRestarts`, `Cuts`), so that `Accounted` still has every call below them.
`Once` counts for `DeliveredOnce` instead: the copies of a call's record on its way and in the pool
are never more than the number of resets plus what the marks have passed, less one for a record of a transcript
while a Rebuild has reset the store and not yet the transcript offsets (`Spare`): these come next and are not counted as another reset. `EstimatesSound`
relates the saved state of a transcript to the states a reading in one go passes through; reading
on from one of these and reading in one go agree. `NothingMissed` follows a line of a file: it
is stamped no earlier than `last_collected`, or safe, or slipped. For `CodexExact` it suffices that what
a part of a file yields is among what the whole yields (`CodexPart`), since an amount
depends on the lines before it only.

These models have recursive functions (`InOrder`, `StatesFrom`, `Kept`, the community
modules' `FlattenSeq` and `FoldSet`). Induction rules that take a predicate are of no use to the
provers, so `Induction` derives, from the well-foundedness of `<` in the library, rules about sets
(`SetInduction`: a set that has 0 and with each number the next has all numbers;
`RemovalInduction` is the same of finite sets, whichever element is taken away first); a proof names the set of the
arguments it has its claim about.

**Desktop.** A widget on its way to its place is at no place of its state, so the invariant
`WInv` speaks of `Goal`, the place and size an animation is about to leave, and of a held widget only that
its release starts an animation; `Control` has what the events exclude one another by. In the
dashboard, `Passed` follows the last view and the last warning through the stages: whoever has nothing
new to pass on has passed the present value on, where the last stage is `Newest`, the last message
queued or else the view shown; `OnPage` keeps the page of the table among those that have rows. `Screen` says that
what is stored was made of the view and the tab in force. From it `TabExact` follows by what a view and its
filtered half show. `FeedShown` has, from `ViewShowsExactly`, each map of a feed's view as that of its records,
though the cold aggregate is pruned; `BySourcesIs` and `OfSourceIs`, that summing a map by source over a tab's
sources is counting the tab's own records; `SeenIs`, which sessions and models are kept; `GrandTotal`, what
the amounts of all sessions or models add up to; `TabWindows`, the windows from the days. The sums rest on
`GatheredAmount`: the amounts of some keys together are the amount of the records counted under them.
The theorems about each of them carry over to `Desktop`, as each step of it is a step of the one and a stutter of the other.

**Only model-checked.** `RecentExact`, as the recent records are sorted by `SortSeq` and selected by `SelectSeq`, which
the provers cannot expand; liveness (`ViewCatchesUp`, `Arrives`), which is outside the prover's reach.

## Not modelled

- Pool read errors in the cache's builds (`tp-cache/src/lib.rs:277`): a build ends with a
  warning and without a signal. `invalidate` and `rebuild` of the cache, `invalidate_digest`,
  `merge` and `project_weekly` have no caller outside tests, or feed nothing.
- Costs: a record's cost is its tokens times the price of its model, summed where
  the tokens are. The week and month costs of a view are open-ended ranges, the token
  windows end today; both agree while no record is dated in the future.
- Midnight: `Dashboard` has one day. A filtered view dates its windows at the last
  precalculation and nothing refreshes at midnight.
- `build_daily` leaves `project_names` empty, and the hot half of the daily series adds no
  `message_count`: fields no property speaks of. `source_checksum` is written and never read;
  `digest_valid`, which `has_valid_digest` reads, is always true, as `invalidate_digest` has no caller.
- A record without timestamp takes the time of its fetch (`tp-collector-antigravity/src/lib.rs:421`)
  and so a new uid each time; a Claude message of which an incremental collection sees
  only the later lines is sent again with another uid (`tp-collector-claude/src/lib.rs:318`).
  Records are told apart by line or call in `Collector`, so neither is a duplicate there.
- A line of a file cut in the middle is a record missing, as `read_jsonl_file` skips it; a line
  glued to the remains of a torn one, which loses both, is not told apart from losing one.
- Process location, RPC transport, JSON decoding, token counting of text: input and
  layout. Drawing, charts, glyphs, tray and window creation: output without state. Assumed of
  the window system: one monitor at least as large as the expanded widget, a pressed button
  is released to the widget, the tray menu is used with the cursor elsewhere. The hovered
  flags of the dashboard's buttons only colour them.

## Plan

1. *Done*: pool, faults, cache, view; proofs of the pool.
2. *Done*: archive tiers, digests and the computed view; ingest store, collectors and
   coordinator; widget and dashboard.
3. *Done*: proofs of the pool with faults, of the archive, of the cache and the view, of the
   collectors and of the desktop.
4. *Done*: lemmas on the folds of `Aggregation` (additive over a union of records), and from them the
   proofs about digests, builds and the view.
5. *Done*: from them, that a tab's figures are those of its records.
6. Open: `RecentExact`, which needs facts about `SelectSeq` and `SortSeq`.
