# TLA+ specifications of irish-rail-nabber

This directory models the parts of the repository whose correctness depends on
order, failure and memory: the two collectors (`daemon.py`, `bus_daemon.py`),
which write a database only where something changed, the tools that move the
bus history into its new tables, and of the API the billing webhook with the
cache behind it, the cached session keys and the daily limits. Every model is
checked by TLC on a small instance. TLAPS proves each of the safety properties
and action properties of these runs for every instance (section 5); liveness is
model-checked only.

Paths below are relative to the repository root. `tlc -config X.cfg MCM.tla`
repeats a run, `tlapm MProofs.tla` a proof; `PROJECT.json` lists the runs, the
source lines behind every definition, and a seeded fault per property.

## 1. Inventory

| Component | State | Operations | What must hold | Module |
|---|---|---|---|---|
| Rail collector, `daemon.py` | hashes of responses and rows (process); `train_snapshots`, `train_snapshots_hacon`, `station_events`, `train_movements` (append only) | `fetch_trains`, `fetch_hacon`, `fetch_all_station_boards`, `_fetch_train_movements`, `cleanup_stale_hashes` | what is skipped as unchanged is stored | `RailCollector` |
| Rail stations, `daemon.py` | `stations`; `station_codes` (process) | `fetch_stations`, the reload in `fetch_all_station_boards` | every listed station comes to be polled and classified | `RailStations` |
| Rail delay history, `daemon.py`, migration 008 | `station_events`, `delay_history_hourly` | `normalize_late_minutes`, `_insert_station_events`, `refresh_delay_history_rollups` | a closed hour stays complete | `DelayHistory` |
| Bus request slot, `bus_daemon.py` | `fetch_schedules` row `nta_realtime`, newest realtime row of `fetch_history` | `_reserve_realtime_request`, `_fetch_realtime_payload`, `record_fetch`, `schedule_task` | never two requests within 60 s; both feeds get polled | `RealtimeSlot`, `RequestBudget` |
| TripUpdates pipeline, `bus_daemon.py` | `_previous_update_hashes`, `_previous_update_feed` (process); `bus_stop_live`, `bus_stop_observations`, `bus_delay_samples`, `bus_trip_update_freshness`, `bus_trip_observations` | `poll_realtime`, `_insert_trip_updates`, `prune_working_tables`, effects of `refresh_static_feed` | the archive holds what the last poll said; board and samples too, unless a clean-up overtook it | `TripUpdates` |
| Realtime response, `bus_daemon.py` | none: one response | `parse_realtime_feed`, `filter_bus_realtime_feed`, `bus_poll_delay_histogram` | buses of the active feed and nothing else; each prediction counts once | `RealtimeFeed` |
| Vehicle snapshot, `bus_daemon.py` | `_previous_vehicle_hashes`; `bus_vehicle_positions`, `bus_vehicle_observations` | `_upsert_vehicle_positions` | the table is one complete, newest snapshot | `VehicleSnapshot` |
| Static GTFS refresh, `bus_daemon.py` | `transit_feed_versions`, schedule and shape tables, archive directory | `_download_static_feed`, `_activate_existing_version`, `_import_static_feed`, `_archive_static_feed` | the active version is complete, exactly one, and its ZIP is kept | `StaticFeed` |
| GTFS archive, `bus_daemon.py`, migrations 011, 012 | none: one archive and the tables of its version | `_select_static_feed`, the rows of `_import_static_feed`, `_load_active_bus_ids` | exactly the bus timetable; sound archives accepted, others refused | `GtfsSelection` |
| Bus process, `bus_daemon.py` | pool, tasks, shutdown event | `init`, `run`, `schedule_task`, `close` | no task without a connection; a signal ends it; failures do not | `DaemonLife` |
| Storage backfill, `backfill_bus_storage.py`, `verify_bus_storage.py`, migration 016 | `bus_storage_backfill_progress`, advisory lock | resumable batches, comparison of old and new, retirement of the legacy table | no row skipped, no newer row overwritten | `StorageBackfill` |
| Published performance, `import_bus_performance.py` | one snapshot per content hash | one transaction | idempotent | not modelled |
| Billing webhook, `api/src/billing/handlers.rs`, `db/users.rs` | `users.role`, `polar_customer_id`, `polar_state_updated_at`; `billing_webhook_events` | `webhook`, `apply_polar_state` | the newest state wins; nothing acknowledged is lost | `Entitlement` |
| User cache, `api/src/auth/clerk.rs` | one cache per process, entries of 60 s | `resolve_user`, `invalidate_user` | a served role is recent | `Entitlement` |
| Session keys (JWKS), `api/src/auth/clerk.rs` | cached key set behind a lock | `signing_key` | a new key is unknown for at most a minute and a fetch, a withdrawn one used for at most an hour and a fetch, unless refreshes fail | `SessionKeys` |
| Rate limits, `api/src/rate_limit.rs`, `db/usage.rs` | `api_daily_usage` | `graphql_rate_limit`, `billing_action_rate_limit`, `record_daily_request` | exactly the requests within the limit pass | `DailyQuota` |
| GraphQL API, `api/src/schema`, `state.rs` | caches with a time to live | read-only queries | - | not modelled |
| Chat, `api/src/chat.rs` | none | streams a model's answer | - | not modelled |
| Dashboard, `dashboard/src` | hooks that poll, history sync, telemetry budget | - | late answers do not replace newer ones | planned in part |
| Deployment, `Jenkinsfile`, `docker-entrypoint.sh`, `migrations/` | - | migrate, restart | - | not modelled |
| Offline analysis and backup scripts | - | one-shot | - | not modelled |

**How they interact.** The two collectors and the API are separate processes
that share one PostgreSQL database and nothing else. Inside a collector all
tasks run in one asyncio loop: a step lasts from one `await` to the next, so
memory changes are atomic between awaits and everything else interleaves.
Transactions are READ COMMITTED: each statement sees what is committed when it
begins, and one that waits for a row goes on with what became of the row. A
bus poll first reads the active version (written by the static refresh), then
takes the slot (shared with all other collectors), then waits for NTA, then
compares with its memory and commits. The static refresh and the clean-up of
the working tables run beside it and change what it relies on. In the API,
each request is a task that is dropped at any await if its client goes away.
External systems are Irish Rail, NTA, Polar, Clerk and the operator; they are
modelled only by what the code can observe of them.

**Hard behaviours.** Memory in the process against rows in the database, which
are changed by failed transactions, by restarts, by the clean-up and by other
processes; reservations that precede what they reserve; two looks at the
database with a long parse in between; transactions of two collectors that overlap; a
copy in batches of tables that are being written, stopped and resumed anywhere;
deliveries repeated and out of order; invalidation against slow readers; files
whose rows contradict one another. `PROJECT.json` lists each hazard with its
line and the properties that would catch it.

## 2. Modules and code

Modules have their parameters as CONSTANTS, with a named assumption where a
parameter has to meet one, one action per operation, and no RECURSIVE operator.
`MCx.tla` gives the parameters small values, `xProofs.tla` holds the theorems.
Operators marked `Mutant:` are seeded faults; no action uses them.

Components that share no state are checked in one run where that keeps the runs
few: `MCRail`, `MCBusStorage`, `MCBusDaemon` and `MCApi` have a variable `part`, which says
which component a behaviour is about, and the variables of the others stay at
one initial value. The runs are sums of state spaces, not products, and are no
claim about interaction. `MCBoard` divides one component in the same way:
`TripUpdates` with its clean-up, or with switches of the version.

### RealtimeSlot, RequestBudget

`RequestBudget` is the promise: requests are never less than `Gap` apart.
`RealtimeSlot` is what the code does: `Reserve` is the transaction of
`_reserve_realtime_request` (the conditional upsert, then the choice of the
feed from `fetch_history`), `Send` the request, `Record`/`RecordIsLost` the
history row, `Sleep` the wait of `schedule_task`, which begins when the poll
ends, whatever it came to. Time is one tick for all processes and for the
database (the upsert uses `clock_timestamp()`); times in the row are kept as
the time left. `MaxDelay` bounds the time from the commit of a reservation to
the moment its request leaves: the code has no such bound below its connect
timeout, which is what `slot_delay` is about.

### TripUpdates

The state of one poll is the record `poll[c]`: `StartPoll` reads the active
version, `Receive` stamps, parses and filters the response, `Compare` reloads
saved states if the version is not the remembered one and picks out the changed
predictions, `Commit` is the transaction and the assignment to the memory after
it. `ImportCommits`, `RefreshPrunesHashes` and `RefreshFails` are the static
refresh as the poll sees it, at its two awaits. A prediction is its hash;
`DelayOf` says which delay it carries. Ages replace timestamps. `Tick` holds the environment assumption: no process
counts on a trip that no poll has seen for longer than `MaxGap`.

`prune_working_tables` is one transaction of several statements on a connection
of its own, and polls commit between them. `PruneStarts` is the moment of
`NOW()` and of the snapshot in which the first DELETE finds its rows.
`PruneChooses` is the end of that statement and the choice of
`expired_bus_trips`: at most `PruneLimit` trips that were old when the clean-up
began, have not been seen since, and have their last sighting in the archive.
`PruneFindsSamples` and `PruneFindsFreshness` are the snapshots of the next two
DELETEs, which ask for the chosen trips and not again when they were seen;
`PruneCommits` the commit, `PruneFails` an error, or a deadlock with a poll. A
row that a statement has found and a poll has upserted since is deleted all the
same: PostgreSQL checks it again with the freshness rows of the statement's own
snapshot. A row the clean-up has deleted (`DeletedLive`, `DeletedSamples`) is
locked until its end, so the poll's `Commit` waits. `Without` takes the rows of
one clean-up from another's. While the legacy table of observations exists, the
code returns before the first statement; that is the time of `StorageBackfill`,
which has no clean-up.

Three history variables serve the properties: `reported`, the last committed
poll; `lastDelay`, the last delay committed for a key in the sample window;
`overtaken`, the keys of trips that a poll saw while an open clean-up was about
to delete something of theirs, until the key is written again.

### StaticFeed

`DownloadFeed` to `RecordSuccess` are the stages of `refresh_static_feed`. The two
transactions hold the advisory lock from their first statement to the commit
and are one step each; a failure or a crash between any two steps is
`StaticRefreshFails`, which forgets everything the process held. `IsComplete` is the
condition under which the code only activates; `Activates` the four statements
of `_activate_version_and_prune_stop_times`. `StaticInit` admits a database that was
imported before shapes existed (migration 012). A refresh that runs with
`BUS_GTFS_ARCHIVE_DIRECTORY` unset keeps no ZIP; the model is of one where it
is set.

### Entitlement

`FindUser`, `Apply`/`Skip`/`MissingUser`, `Invalidate` are the awaits of the
webhook; `WorkerFails` is a database error or a dropped request at any of them.
`ReadRow` and `FillCache` are the two halves of `resolve_user`. The model
follows one user, since neither the row nor the cache entry of a user depends
on another's. `Carrying` are the events whose `external_id` names the user; the
others find the user only by the stored customer.

### SessionKeys

`LookUp` is `signing_key` up to the read lock's release, `LookAgain` and
`BeginFetch` what it does with the write lock, `StoreKeys` and `FetchFails` the two
ends of the fetch. The writer keeps the lock while it waits for Clerk
(`holder`), so one slow fetch, of up to the client's ten seconds, holds up every
other verification. Two things make the times of the properties what they are:
the age of a set begins when it arrives, not when Clerk made it, and a failed
fetch leaves the age as it was. No set yet is modelled as an empty one that
has expired: both are looked up in vain and lead to a fetch or its failure.
`ClerkReplies` fixes what the reply contains while it is still on its way, and
`DropVerification` is axum dropping the request at either wait.
`sinceAbsent` and `sinceListed` exist for the properties only. `MCSessionKeys`
adds a clock that the code does not have, the time since a fetch last began
(`sinceAsked`), for the run `keys_retry`.

### DailyQuota

A subject is a user, an address or a user's billing action. `ArrivePost` is the
authentication, which fixes the role; `CountPost` the upsert, which locks the row,
with the answer; `CountFails` an error of it, whose effect may or may not be in
the table. Between the two the role may change (`PlanChanges`) and the database's
day may end (`Midnight`). A request is counted whether it passes or not. A limit of 0 is
none, for `plan_limit`; billing actions have fixed positive limits.

### RailCollector

One task per poll: the snapshot, HACON, each board, each journey. `KindOf` says
how a task remembers: snapshots and events when the response (and the row)
arrives, journeys after the commit. `InsertFails` is the error that
`fetch_hacon` and `_insert_station_events` catch row by row: PostgreSQL has
aborted the transaction, later inserts fail as well, and the `COMMIT` at the
end rolls back without an error. `_fetch_train_movements` lets the error leave
the poll. Two tasks of one kind share no hash, so sequential boards are a
special case. Rows that cannot be parsed are not rows here.

### RailStations

`ReceiveList`, `UpsertStation`, `CommitStations`, `Classify`, `ReloadCodes` are the
awaits of `fetch_stations`. `UpsertStation` takes one row: the code's `except`
around it logs the error, but the transaction is aborted, the remaining rows
fail as well, and `COMMIT` rolls back silently. A row fails where another code
holds the identifier (`station_id` is UNIQUE). The list's codes are trimmed and
upper-cased before they are stored, those of the class lists are looked up as
they come; `InClass` are the lists that spell a code as it is stored, and a list
that spells it otherwise changes nothing. `Classify(lists)` writes the lists
that arrived, in the order DART, mainline, suburban, so a station on several
gets the last. `BoardsRead`/`BoardsTake` are the reload of a board poll that
finds no codes: what it read may be older than what `fetch_stations` stores
between the two. The boards start only after the first `fetch_stations` has
ended (`Booting`).

### DelayHistory

`Normalized` is `normalize_late_minutes` with Python's `or`, for which 00:00 is
missing; `Summarised` is the WHERE of the summary with SQL's `COALESCE` and
`NULLIF`. `BoardBegins` fixes the time of the row, `NOW()` of the transaction,
which may commit after the hour is over and after a refresh (`BoardCommits`).
`Refresh` recomputes from two hours before the current one and leaves earlier
hours as they are. `FillOnce` is migration 008. A summary is the set of events
it is made of, because every column is a function of that set. A transaction
has one row here; `RailCollector` has several.

### RealtimeFeed

`ParseEntity` reads one entity, `FilterBuses` resolves routes and drops what is no
bus; a trip that the static feed knows has the route it has there, whatever the
entity says (`BelievedRoute`); `CountDelays` makes the histogram. Identities (`TripKey`, `VehicleKey`,
`StateKey`) are the tuples that the code hashes or joins, with the order in which
it falls back from one field to the next. Entity ids are distinct if present,
as GTFS Realtime wants them; the trips of entities without one may repeat. The
rows that `FilterBuses` keeps stay at their places, with gaps, since the code
drops rows and moves none; `CurrentUpdates` are the places of the last states,
and a bin of the histogram counts its places (`InBin`).

### VehicleSnapshot

A transaction is three steps, because another collector's may come between
them: the upsert, which locks the rows it writes until the commit; the DELETE,
which picks the rows of absent vehicles out of what is committed when it starts
(`Absent`) and waits for their locks (`IsLocked`); the commit. `RollBackVehicles` is any
failure, cancellation or a deadlock resolved by PostgreSQL. Responses are
numbered in the order they arrived, which is the order of `fetched_at`, because
the slot keeps requests apart.

### GtfsSelection

One step per file of the first pass, in the code's order, each of which may
reject the archive (`Passes`); `FollowParent` is the loop over parents of stops;
`ImportRows` the second pass, with the primary keys, the deferred foreign keys and
the comparison of the counts. A file is a set of rows with their lines, so that
rows which repeat one another word for word, or become equal when the agency is
filled in, stay two rows, as in the code's lists, and meet in a primary key.
`stops.txt` is a function since its later rows replace earlier ones. A row is
`valid` if the code's parsers take it and `fits` if PostgreSQL does: an integer
beyond 32 bits, an hour for example, is accepted by `parse_gtfs_time` and
refused by its INTEGER column, which fails the transaction (`RowsFit`).

### DaemonLife

`main` is where `run` is, `task` where each task is; a cancelled task unwinds
before it is done, and holds its connection until then. `threadBusy` is a call
given to `asyncio.to_thread`, which goes on after its task is cancelled (it can
leave a `.tmp` file) and which only the end of the process waits for.
`OthersImport` is another collector that takes or returns the import lock.
`CancelTasks` may find a transaction whose commit is already in force. Sleeps
have no length.

### StorageBackfill

The collector is `TripUpdates` reduced to one version and one stop per trip, with
the time of each poll (`Fetch`, `Commit`). Beside it runs at most one tool, which
holds the advisory lock (`job`): `StartArchive`, `ArchiveBatch`, `ArchiveEnds`, `TripArchive`;
`StartSamples`, `SamplesRead`, `SamplesWrite`, `SamplesEnd`; the refresh by buckets; the
live phase. A batch that reads and then writes is two steps, so that a poll may
commit between. `JobStops` ends the tool anywhere: a failure, Ctrl-C, a full
disk, the batch limit. `Retire` is migration 016. `ArchiveMissing`, `TripArchiveMissing`,
`StatsMismatches` and `LiveMismatches` are the queries of `verify_bus_storage.py`. The
code's assumption, stated in `Fetch`: a trip instance belongs to a service day
and is not seen again after a week.

## 3. Runs

| Run | Bounds | Shows |
|---|---|---|
| `slot_delay` | 2 collectors, intervals 3 (least) and 4, margin 1, delay at most 2 | violation: the ceiling needs a delay within the margin |
| `board`, the clean-up | 1 collector, 1 version, 1 trip and stop, 2 predictions (one without a delay), windows 1 (live) and 2 (samples) | `BoardMissesOnlyOvertaken`, `HistoryEndsWithLatest`, `SamplesKeepLatestDelay`, `BoardCatchesUp` |
| `board`, the switches | 1 collector, 2 versions, 1 prediction that comes and goes, no clean-up, the same windows | the same |
| `board_clean_up` | 1 collector, 1 version, clean-up | violation of `BoardShowsLatest`: a row is deleted after the poll that wrote it |
| `board_outage` | a process may count on a trip for 2, a live row lasts 1 | violation of `BoardMissesOnlyOvertaken`: the memory outlives the row |
| `board_replicas` | 2 collectors, 1 version | violation of `BoardMissesOnlyOvertaken`: private memories |
| `storage`, the move | 2 trips, up to 3 polls of which 1 or 2 before the move, 3 states (one without a delay), batches of 2 ids, 2 buckets, windows 1 and 3 | `CopiesAreComplete`, `StatisticsComplete`, `FinishedMoveVerifies`, `BoardAgreesWithMemory`, `ProjectionsNeverGoBack`, `ArchivedBeforeRetired` |
| `storage`, the vehicles | 2 collectors, 2 versions, 2 vehicles, 2 states, 3 responses | `MapIsOneResponse`, `MapIsArchived` |
| `bus`, the slot | 2 collectors, intervals 3 (least) and 4, margin 1, delay at most 1 | `CeilingKept`, `BothFeedsGetSlots` |
| `bus`, the static feed | 2 processes, 2 versions | `ActiveIsUsable`, `ShapesFlagIsTrue`, `OnlyActiveIsBulky`, `RecordedIsKept`, `StaysServed`, `SettlesOnPublished` |
| `bus`, the archive | a sound archive with up to 2 of its 6 files replaced by others (empty, repeated, blank, invalid, oversized, dangling or circular rows) | `ImportsExactlyTheBuses`, `AcceptanceIsExact` |
| `bus`, the response | up to 2 entities of 7 trips, 4 lists of calls, 3 vehicles | `OnlyBusesPass`, `PredictionsCountOnce` |
| `bus`, the process | both refreshes and all workers, with and without an active version | `ConnectionsOutliveTasks`, `StopsWhenAsked`, `BoardEventuallyFilled` |
| `api`, billing and cache | 2 processes, 2 workers, 2 readers, 3 events at 2 instants, life 2, read 1 | `NewestRecordedWins`, `AcceptedIsRecorded`, `ServedRoleIsRecent` |
| `api`, the keys | 2 keys, 2 verifications, a set's life 3, least interval 2, fetch 1 | `RefusedWasAbsent`, `AcceptedWasListed` |
| `api`, the quota | 2 requests of a user (limits 1, 2 and none) or of his checkouts (limit 1), 4 a day | `QuotaIsExact` |
| `keys_retry` | the keys as above, with the time since the last fetch | violation of `FetchesAreSpaced`: a fetch that failed is repeated at once |
| `entitlement_unlinked` | billing and cache as above, the final event carries no `external_id` | violation: an acknowledged newer event is forgotten |
| `rail`, the write path | a snapshot, a board or a journey, each of 2 rows with 2 states | `JourneysRememberWhatIsStored`, `OnlyFailuresLose`, `JourneysCatchUp` |
| `rail`, the stations | 2 stations, 2 identifiers, one station on two lists | `StationsCatchUp` |
| `rail`, the history | 2 stations, 4 hours in half hours, 2 events of 5 kinds | `HistoryIsComplete` |
| `rail_loss` | the board alone | violation: a changed row is answered and never stored |

**Why these bounds are enough to be interesting.** Two versions let one come
back after the other; two collectors let one act between the steps of another;
two predictions, of which one carries no delay, are the least that can go back
and forth; windows of 1 and 2 units let a row expire from the board, from the
samples, or from neither, between any two steps; three events at two instants
include a repeat, an inversion and a tie. The two parts of `board` keep its
liveness check small: the proofs of its invariants have clean-ups, switches and
any number of keys and predictions at once, `BoardCatchesUp` is checked for
either alone. One trip and stop suffice in `board`
because no statement relates the predictions of two stops, and a trip without
predictions (`bare` in `Receive`) is included; the second row of a board matters
in `rail`, since an error in one row aborts the other. In `storage` a state
comes back after another, a trip starts between two polls, a batch of 2 ids
ends inside the copy, and a poll falls into the gap of each tool; the third
response lets a vehicle leave in an overlapping transaction and the next one
clear it. In `api` a set's life is longer than the least interval, which is
longer than a fetch, so that a set can be too young to be fetched, too old to be
used, or neither; four requests are two more than the largest limit. Four hours
are an hour before the refreshed window, the two within it and the current one. The archives and responses of `bus` are not random: each
field that a guard reads takes each value the guard tells apart, and two
replaced files can contradict each other. What the instances leave open is
closed by the proofs of section 5, but for liveness. Unbounded
quantities (clock, waiting times) are kept as ages up to the largest value any
condition distinguishes (`Horizon`, `Oldest`); where time is absolute, `MaxTime`,
`MaxFetches`, `LastTick`, `MaxEvents` and `MaxTried` end it.
Type invariants are proved; the run `rail` checks the one of `RailCollector` as well.

**Fairness.** Where a part of a run needs fairness, it is the premise of the
property and not a part of the specification, since the parts of one run differ
in it; `board` has it in its specification. `SlotFairness`: time passes and
`schedule_task` never ends, so `Tick`, `Wake` and `Send` are weakly fair;
`Reserve` and `Record` are strongly fair, since both compete with others or with
database errors that do not recur for ever. `TripUpdates`: the tasks are started
for ever by `schedule_task`, and no single step fails on every attempt, although
each may fail any number of times; hence strong fairness of the poll's steps,
and of the end of a clean-up for whose rows a poll waits (`PruneEndsAhead`).
`StaticFairness` asks only that refreshes of each process come to replace the
latest copy again and again. These are assumptions about the environment (NTA,
disk, database), not about the code. `LifeFairness`: every await of the process ends in some way (timeouts of the HTTP
client and the pool; a thread that reads a file ends), hence weak fairness of
each task's own steps, of `run`'s and of `Unwind`; what may fail is strongly
fair, as above. The exception is the wait for the import lock, which has no
limit: no fairness is asked of the other collector, a waiting task stays
cancellable (`StopsWhenAsked` does not need the lock back), and
`BoardEventuallyFilled` has its return as a premise, next to a configured key and
no signal. `RailCollector` and `RailStations` state no fairness; `JourneysCatchUp`
and `StationsCatchUp` have their premises in the formula (polls or steps that
succeed infinitely often, a list that settles, no restarts). `Entitlement`,
`SessionKeys`, `DailyQuota`, `VehicleSnapshot`, `StorageBackfill` and the rest
state safety only.

Deadlock is checked in every run but `bus`: a selection ends with its import or
rejection, and a response with its histogram. `storage` and `rail`, whose clocks
are bounded, still go on failing, stopping or refreshing at their bound.

**Seeded faults.** For each property of a passing run, `PROJECT.json` names a
variant of one operator, written beside it, under which TLC finds the property
violated: the comparison of `next_fetch` dropped, saved states reloaded without
the age condition, a failed poll remembered, the shapes flag of other versions
kept, the timestamp condition of the `UPDATE` dropped, journeys remembering at
the insert, a batch one id short, the window of the summaries not cut at a full
hour, cancelled tasks not waited for, and so on.

## 4. What the code does otherwise than its text says

1. *Request ceiling* (`slot_delay`). The docstring of
   `_reserve_realtime_request` promises that the token "cannot exceed" one
   request in 60 seconds. The slot spaces reservations; a request that leaves
   more than the one-second margin after its reservation can be followed too
   closely by another collector's, or by that of the same one restarted. A
   single collector that keeps running waits a full interval after its poll.
2. *Boards beside the clean-up* (`board_clean_up`). `docs/buses.md` says that
   `bus_stop_live` has the latest prediction of every active trip. When a trip
   is seen again after more than 30 minutes at the moment the clean-up runs, the
   poll can upsert the old row first and the DELETE, which waits for it, delete
   it after the poll's commit, for it checks with the freshness its statement
   began with. The memory has the prediction by then, so the row is missing until
   the prediction changes or the process restarts. In the same way samples and
   freshness of a trip that returns after a week can go with the old ones:
   `expired_bus_trips` is chosen once. `BoardMissesOnlyOvertaken` and
   `SamplesKeepLatestDelay` say that nothing else is lost.
3. *Boards after an outage* (`board_outage`). The clean-up deletes live rows
   of trips not seen for 30 minutes; the running process keeps their hashes,
   and reloads saved states only when the version changes. After an outage of
   TripUpdates longer than that, unchanged predictions are not written back.
   Their rows are absent from `bus_stop_live` until the prediction changes or
   the process restarts.
4. *Replicas* (`board_replicas`). With two collectors on one database, each
   compares with its own last poll. The request slot was built for replicas;
   the memory was not.
5. *Keys that cannot be fetched* (`keys_retry`). `docs/auth-billing.md` and a comment
   of `clerk.rs` say that an unknown key leads to at most one fetch a minute. The
   minute is counted from the last set that was stored: after a fetch that failed
   or whose request was dropped, the next verification, or the next that waits
   for the lock, fetches at once, each with its own timeout, and then takes a
   cached key whatever its age.
6. *Unlinked customers* (`entitlement_unlinked`). A state whose customer is
   not linked and which carries no `external_id` is acknowledged without a
   record. If it is newer than one delivered afterwards, the older one wins.
7. *Rail deduplication* (`rail_loss`). Snapshot, HACON and board polls
   remember before they insert and never take it back, so a failed insert or
   commit hides the changed rows. An insert error aborts the transaction and
   the poll is still recorded as a success. Journeys do it right.

Found with these models, true in the code and contradicted by no text of it:

- An error in one station's row rolls back the whole list, and `fetch_stations`
  still records a success. If Irish Rail lists an identifier under another
  code than before, every refresh fails this way until the old row is removed.
- The filter of delays at the insert takes an expected arrival of 00:00 for a
  missing one and falls back to the departure; the filter of the summary does
  not. `HistoryIsComplete` leaves such rows out.
- If the collector is down for more than two hours, the events stored after its
  last refresh stay out of the hourly history: no refresh looks so far back.
- Two vehicle polls at a time, which takes two collectors and one transaction of
  more than a slot, may leave a mixture of both responses; the next poll that
  none overlaps clears it.
- A station on several lists has the class of the last: suburban before
  mainline before DART.
- Migration 016 asks for the progress of `stop_archive` and `delay_samples` only;
  the refresh of the samples and the live phase are up to the operator. The
  live phase has to be run again for trips a poll saw after it was started, and
  a comparison of current state means something only while the collector
  writes the legacy table.
- Station codes are stored trimmed and in upper case, the lists by class are
  looked up as they are spelled: a code spelled otherwise there stays without
  its class.
- A GTFS time with an hour that no INTEGER of seconds can hold passes every
  check of the archive and fails its import.
- Refused requests are counted: after an upgrade on the same day they have used
  up a part of the larger quota. `X-RateLimit-Reset` is computed after the
  handler, so around midnight it can name the end of the day after the one on
  which the request was counted.

Smaller divergences, not about behaviour over time: `docs/scraper.md` lists
`due_in` among the board fingerprint's fields, the code leaves it out; it says
the trains XML is hashed as one blob, the code hashes code and position; it
calls the journey hash one per journey, the code keeps one per stop; its
intervals of 10 and 15 seconds are 5 in `run`. It says that stations are fetched
once at the start; the code fetches them daily, and the boards read the codes
from the database when they have none.

## 5. Proofs

Each `*Proofs.tla` proves for all values of the constants:

- **`RealtimeSlotProofs`**: `SlotTypeCorrect`; `SlotKeepsCeiling`, that the
  slot implements `RequestBudget` if `MaxDelay <= Safety`. The inductive
  invariant `SlotInv` adds to the types that a reservation's age and the time
  left until `next_fetch` make up at least the least interval
  (`ReservationIsFresh`), that at most one reservation is outstanding, that
  the request it allows is in time, and that `next_fetch` covers the last
  request. `CeilingKept` alone is not inductive: it says nothing of a
  reservation not yet used.
- **`TripUpdatesProofs`**: `TripUpdatesTypeCorrect`; `ArchiveIsComplete`,
  from `ArchiveInv` (whatever the process remembers, reloads, or found
  unchanged is the newest archived row); `BoardIsLatest`, that
  `BoardMissesOnlyOvertaken` holds, from `BoardInv`: the same of live rows of
  trips that are fresh, but for overtaken keys, and that a clean-up threatens no
  row of a fresh trip that is not overtaken (`FreshIsSafe`), since what it finds
  it finds among trips that were not fresh, and a poll that sees one of them
  meanwhile overtakes it; `SamplesAreLatest`, that `SamplesKeepLatestDelay` holds,
  from `SamplesInv`: a live row with a delay has a sample, and trips on the list
  of a clean-up have no delay to keep (`ListedIsGiven`). They assume one
  collector (`SoleCollector`) and, for board and samples, `MaxGap <= LiveWindow`:
  exactly what `board_replicas` and `board_outage` violate.
- **`StaticFeedProofs`**: `StaticTypeCorrect`; `ActiveVersionIsUsable`,
  `FlagsTellShapes` and `OthersAreEmptied`, whose `TablesInv` is the conjunction
  of the three table properties, inductive only together; the action property
  `CollectionStaysServed` from the same invariant; `RecordedZipIsKept`, which needs that a refresh past its link
  finds its ZIP (`LinkedIsKept`).
- **`ApiProofs`**. For billing and cache, `EntitlementTypeCorrect`;
  `NewestStateWins` and `AcceptedStateIsRecorded` from `LedgerInv`, which adds that
  a worker between commit and answer holds a recorded event;
  `ServedRoleIsBounded` from `CacheInv`: the row's role is current, a read role at
  most as old as the read, a cached role at most as old as the entry and a read.
  For the keys, `KeysTypeCorrect`, `RefusedKeysWereAbsent` and
  `AcceptedKeysWereListed`, both from
  `KeysInv`: what a set contains or lacks was so no longer ago than the set is old
  and was on its way (`Reflects`), for the cached set, the reply under way and
  the published one. The properties speak of the last verdict only and are not
  inductive without it. For the limits, `QuotaHolds` from `QuotaInv`: what passed
  under a limit is at most what is counted, and that at most what was tried.
- **`RailCollectorProofs`**: `RailTypeCorrect`; `JourneysLoseNothing`, which
  is inductive with the types; `OnlyFailedPollsLose` from `EarlyInv`: while no
  poll of a task has failed, the rows of the response are either stored, still
  to be looked at, or in the open transaction. Of `DelayHistory`,
  `SettledHoursAreComplete` from `HistoryInv`: no insert into a settled hour is
  open, every summary is a part of the query's answer, and that of a settled hour
  the whole. A closed hour cannot shrink because whatever recomputes it does so
  from all its rows. `FiltersAgree` is the reason why Python's filter and SQL's
  may be taken for one another: they differ only for an expected arrival of 00:00.
- **`VehicleSnapshotProofs`**: `UndisturbedPollOwnsMap` and `MapRowsAreArchived`
  from `VehicleInv`, which adds that no row is dated after the last response and
  that a poll which no other has crossed is alone with its version
  (`UncrossedIsAlone`): nothing has been committed there since its response
  arrived, and the rows it is going to delete are those that are absent now.
- **`StorageBackfillProofs`**: six theorems from one invariant, `BackfillInv`,
  because copy, refresh and live phase rely on one another. Its parts: ids and
  times of the legacy table (`LegacyInv`, of which each trip has at most one row
  per state and per time), polls within the window (`PollInv`), the board, and what
  a read batch holds, against the legacy table (`LiveInv`) and against the
  memory of the collector (`BoardAgreesWithMemory`); the statistics against the
  last delay reported, in the table or in the legacy rows (`SampleInv`); what a
  copy that has come to an id, or a refresh that has come to a bucket, leaves
  behind (`CopyInv`, `ArchiveInv`), and what remains after the legacy table is
  gone (`StatisticsKept`). From it follow `CopiesLoseNothing`,
  `StatisticsHaveNoGap`, `VerificationPasses`, `BoardIsBelieved` and the action
  properties `NoProjectionGoesBack` and `RetiredOnlyWhenArchived`. None of them is
  inductive: that a refresh finds the last delay needs all that the copy has
  seen before. Newest rows and least ids exist by `WFMin` for the natural numbers.
- **`BusDaemonProofs`**. Of the archive, `ImportIsExact` and `ArchivesAreJudged`
  from `SelectionInv`: each file that has been read was sound and gave exactly its
  bus rows, a rejected archive is not sound. Why the loop over parents ends with
  the least closed set is `StopsArePicked`: a picked stop that is not pending has
  its parent picked, and every closed set contains what is picked. Of the
  response, `NothingButBusesPasses` from `FeedInv`, which says what has been
  parsed so far: of each trip the last report, of updates and vehicles all.
  `NoPredictionCountsTwice` adds `CountInv`, that each bin has the number of its
  places; that the bins of a kind add up to the predictions (`SumOfParts`) is
  shown by a bijection and not by induction over the sum. Of the process,
  `LifeTypeCorrect`; `PoolClosesLast` from `LifeInv`, which adds where `run` can be
  while tasks live: only between the start of the tasks and the end of `gather`,
  and during `gather` they only unwind. Without that conjunct nothing says why
  the pool is open under a task.

Assumptions are those named in the modules and the two stated in the theorems
above. The named ones give the types of the constants: the markers of absence
are no values, files are sets of rows, of which agency files are finite,
responses are sequences of entities whose ids repeat only if missing, histories
are sequences of polls, windows and bounds are natural numbers, batches are not
empty, and no routes of the static feed's trips lie outside its routes.
TLC evaluates each of them in the runs.

**Only model-checked**: the liveness properties (`BothFeedsGetSlots`,
`BoardCatchesUp`, `SettlesOnPublished`, `JourneysCatchUp`, `StationsCatchUp`,
`StopsWhenAsked`, `BoardEventuallyFilled`); the prover has no ENABLED and no
fairness. `RailStations` therefore has no theorem. No proof is about a composition:
modules checked in one run share no state.

## 6. Not modelled, and the plan

Left out of the modelled components: the marker that keeps a poll's histogram
from being added twice, the route of a delay sample, the trip relationship in
the archive; the decoding of protobuf and CSV; the fetch history other than the
newest realtime row; the hashes the vehicle upsert remembers, which only feed a
count; checkout and portal sessions, the first sign-in, which links or creates a
user (`link_or_create_clerk_user`), signatures and claims of tokens, the headers
of limited answers; the train types, names and coordinates of
the rail collector; compression and VACUUM; a collector killed without a signal
in `DaemonLife` (the other modules have crashes). A commit whose acknowledgement
is lost counts as a failed transaction that was rolled back.

Not modelled at all: the import of published performance (one transaction keyed
by a content hash), the read-only queries of the API, the chat, the dashboard, deployment, offline analysis, backups.

Order of further work:

1. `BusCollector`: composition of slot, pipeline and static refresh in one
   process; that the composition implements the pipeline's specification with
   its environment assumption (`MaxGap`) derived from the slot's alternation.
   Ambiguous commits for `TripUpdates`.
2. `SignIn`: the first sign-in of an account in two requests at once, and
   Polar's state on the link, which may race the webhook.
3. `PollingQuery`: late answers in the dashboard's hooks; `PublishedImport`.
4. An abstract `DeltaArchive` (a log that ends with what was last reported) which
   both `TripUpdates` and the journeys of `RailCollector` implement.
