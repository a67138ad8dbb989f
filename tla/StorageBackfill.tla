---------------------------- MODULE StorageBackfill ----------------------------
(***************************************************************************)
(* The move of the bus history into its new tables: the phases of          *)
(* backfill_bus_storage.py, which copy the legacy table bus_stop_updates   *)
(* in resumable batches while the collector goes on writing,               *)
(* verify_bus_storage.py, which compares old and new, and migration 016,   *)
(* which drops the legacy table.                                           *)
(*                                                                         *)
(* One feed version, and one stop of each trip. The collector is the one   *)
(* of TripUpdates, reduced to what the tools can see: the time of a poll   *)
(* and its transaction. Compression of chunks changes no row and is left   *)
(* out; a failure, a full disk or a batch limit may end a tool anywhere.   *)
(***************************************************************************)
EXTENDS Integers, FiniteSets, FiniteSetsExt

CONSTANTS
  Trip,        \* trip_instance_key
  Hash,        \* update_hash
  StatesOf,    \* bound: the states a trip may be reported in during the move
  DelayOf,     \* the delay of a state on a known route, or None
  None,
  Rank,        \* the order of the trips in a response
  IdStep,      \* more than any rank: ids grow from poll to poll
  Bucket,      \* hashtext(trip_instance_key) & 31
  Buckets,     \* 32
  BatchSize,   \* --batch-size, in ids
  LiveWindow,  \* 30 minutes
  Window,      \* 168 hours
  Histories,   \* what the polls before the move may have reported
  MaxTime      \* bound: the time of the last poll

Delay == {DelayOf[h] : h \in Hash}
Content == {c \in [Trip -> Hash \cup {None}] : \A t \in Trip : c[t] \in StatesOf[t] \cup {None}}

\* The phases of the backfill that are modelled as a job.
Phase == {"archive", "samples", "refresh_samples", "live"}

ASSUME BackfillAssumption ==
  /\ None \notin Hash \cup Phase /\ StatesOf \in [Trip -> SUBSET Hash]
  /\ IdStep \in Nat /\ Rank \in [Trip -> 0 .. (IdStep - 1)]
  /\ Buckets \in Nat /\ Bucket \in [Trip -> 0 .. (Buckets - 1)]
  /\ BatchSize \in Nat \ {0} /\ LiveWindow \in Nat /\ Window \in Nat /\ MaxTime \in Nat
  /\ \A h \in Histories : \E n \in 0 .. MaxTime :
       DOMAIN h = 1 .. n /\ \A k \in 1 .. n : h[k] \in [Trip -> Hash \cup {None}]

VARIABLES
  now,
  writesLegacy,  \* the setting BUS_WRITE_LEGACY_STOP_UPDATES
  legacy,        \* bus_stop_updates
  retired,       \* migration 016 has dropped it
  archive,       \* identities in bus_stop_observations
  tripArchive,   \* identities in bus_trip_observations
  samples,       \* bus_delay_samples
  live,          \* bus_stop_live
  freshness,     \* bus_trip_update_freshness: last_seen_at, 0 without a row
  progress,      \* bus_storage_backfill_progress
  job,           \* the tool that holds the advisory lock
  mem,           \* _previous_update_hashes, or Unloaded
  poll,          \* the poll under way
  lastDelay,     \* history: the latest delay reported of each trip
  tripsCopied    \* history: the copy of the trip presence has been made

projections == <<archive, tripArchive, samples, live, freshness>>
collector == <<mem, poll>>
vars == <<now, writesLegacy, legacy, retired, projections, progress, job, collector,
          lastDelay, tripsCopied>>

-----------------------------------------------------------------------------
Time == 0 .. MaxTime
Nobody == [t \in Trip |-> None]

\* A row that bus_stop_live, bus_delay_samples or a result set holds for a trip.
NoRow == [is |-> None, seen |-> 0]
Row(value, seen) == [is |-> value, seen |-> seen]

LegacyRow == [id : Nat, trip : Trip, hash : Hash, fetched : Time, seen : Time]

\* The primary keys of the two archives.
StopIdentity(r) == <<r.trip, r.hash, r.fetched>>
TripIdentity(t) == <<t, freshness[t]>>

\* The phases that keep a progress row, and the row itself.
Tracked == {"stop_archive", "delay_samples", "delay_refresh"}
Unstarted == [started |-> FALSE, last |-> 0, target |-> 0, asOf |-> 0]
Complete(name) == progress[name].started /\ progress[name].last >= progress[name].target

NoJob == [phase |-> None, at |-> "none", asOf |-> 0, rows |-> [t \in Trip |-> NoRow]]
NoPoll == [at |-> "none", stamp |-> 0, seen |-> {}, content |-> Nobody]
Unloaded == <<>>

TypeOK ==
  /\ now \in Time /\ writesLegacy \in BOOLEAN /\ retired \in BOOLEAN
  /\ legacy \subseteq LegacyRow
  /\ \A r, q \in legacy :
       (r.id = q.id \/ (r.trip = q.trip /\ (r.hash = q.hash \/ r.seen = q.seen))) => r = q
  /\ archive \subseteq Trip \X Hash \X Time
  /\ tripArchive \subseteq Trip \X Time
  /\ samples \in [Trip -> [is : Delay \cup {None}, seen : Time]]
  /\ live \in [Trip -> [is : Hash \cup {None}, seen : Time]]
  /\ freshness \in [Trip -> Time]
  /\ progress \in [Tracked -> [started : BOOLEAN, last : Int, target : Nat, asOf : Time]]
  /\ \A name \in Tracked : progress[name].last <= progress[name].target
  /\ job \in [phase : Phase \cup {None}, at : {"none", "loop", "write"}, asOf : Time,
              rows : [Trip -> [is : Hash \cup Delay \cup {None}, seen : Time]]]
  /\ mem \in [Trip -> Hash \cup {None}] \cup {Unloaded}
  /\ poll \in [at : {"none", "compared"}, stamp : Time, seen : SUBSET Trip, content : Content]
  /\ lastDelay \in [Trip -> Delay \cup {None}]
  /\ tripsCopied \in BOOLEAN

-----------------------------------------------------------------------------
\* The id of the row of trip t inserted by the poll of the given time.
Id(stamp, t) == IdStep * stamp + Rank[t]

\* The polls of a history that wrote state h of trip t, because it was new.
WrittenAt(history, t, h) ==
  {n \in DOMAIN history : history[n][t] = h /\ (n = 1 \/ history[n - 1][t] # h)}

LegacyOf(history) ==
  {[id |-> Id(Min(WrittenAt(history, p[1], p[2])), p[1]), trip |-> p[1], hash |-> p[2],
    fetched |-> Min(WrittenAt(history, p[1], p[2])),
    seen |-> Max(WrittenAt(history, p[1], p[2]))] :
   p \in {q \in Trip \X Hash : WrittenAt(history, q[1], q[2]) # {}}}

\* The greatest of a set of times, 0 for none.
LastOf(times) == IF times = {} THEN 0 ELSE Max(times)

DelayReported(history, t) ==
  LET n == LastOf({m \in DOMAIN history :
                     history[m][t] # None /\ DelayOf[history[m][t]] # None})
  IN  IF n = 0 THEN None ELSE DelayOf[history[n][t]]

\* The new tables have just been created.
Init ==
  \E history \in Histories :
    /\ now = Cardinality(DOMAIN history)
    /\ writesLegacy \in BOOLEAN
    /\ legacy = LegacyOf(history)
    /\ retired = FALSE
    /\ archive = {} /\ tripArchive = {}
    /\ samples = [t \in Trip |-> NoRow]
    /\ live = [t \in Trip |-> NoRow]
    /\ freshness = [t \in Trip |-> LastOf({n \in DOMAIN history : history[n][t] # None})]
    /\ progress = [name \in Tracked |-> Unstarted]
    /\ job = NoJob
    /\ mem = Unloaded /\ poll = NoPoll
    /\ lastDelay = [t \in Trip |-> DelayReported(history, t)]
    /\ tripsCopied = FALSE

-----------------------------------------------------------------------------
(* The collector.                                                          *)

\* The hashes a restarted process takes over from bus_stop_live.
SavedStates ==
  [t \in Trip |-> IF freshness[t] > now - LiveWindow THEN live[t].is ELSE None]

\* A response arrives and is compared with the memory. A trip instance belongs
\* to one service day: it is not seen again after a week's absence.
Fetch ==
  /\ poll = NoPoll /\ now < MaxTime /\ ~retired
  /\ now' = now + 1
  /\ mem' = IF mem = Unloaded THEN SavedStates ELSE mem
  /\ \E seen \in SUBSET {t \in Trip : freshness[t] = 0 \/ now' - freshness[t] < Window} :
     \E content \in Content :
       /\ \A t \in Trip \ seen : content[t] = None
       /\ poll' = [at |-> "compared", stamp |-> now', seen |-> seen, content |-> content]
  /\ UNCHANGED <<writesLegacy, legacy, retired, projections, progress, job, lastDelay, tripsCopied>>

Changed == {t \in Trip : poll.content[t] \notin {None, mem[t]}}

New(t) == [id |-> Id(poll.stamp, t), trip |-> t, hash |-> poll.content[t],
           fetched |-> poll.stamp, seen |-> poll.stamp]

\* Mutant: every change is a row of its own.
LegacyInsert == legacy \cup {New(t) : t \in Changed}

\* ON CONFLICT (feed_version_id, update_hash): a state seen before keeps its
\* id and its fetched_at.
LegacyUpsert ==
  LET Known(t) == {r \in legacy : r.trip = t /\ r.hash = poll.content[t]}
  IN  {r \in legacy : ~(r.trip \in Changed /\ r.hash = poll.content[r.trip])}
      \cup {[r EXCEPT !.seen = poll.stamp] : r \in UNION {Known(t) : t \in Changed}}
      \cup {New(t) : t \in {u \in Changed : Known(u) = {}}}

CarriesDelay(t) == poll.content[t] # None /\ DelayOf[poll.content[t]] # None

\* The transaction of the poll, which fails if it is to write a dropped table.
Commit ==
  /\ poll # NoPoll
  /\ retired => ~writesLegacy
  /\ legacy' = IF writesLegacy THEN LegacyUpsert ELSE legacy
  /\ live' = [t \in Trip |-> IF t \in Changed THEN Row(poll.content[t], poll.stamp) ELSE live[t]]
  /\ samples' = [t \in Trip |->
                   IF t \in Changed /\ CarriesDelay(t)
                   THEN Row(DelayOf[poll.content[t]], poll.stamp) ELSE samples[t]]
  /\ freshness' = [t \in Trip |-> IF t \in poll.seen THEN poll.stamp ELSE freshness[t]]
  /\ archive' = archive \cup {<<t, poll.content[t], poll.stamp>> : t \in Changed}
  /\ tripArchive' = tripArchive \cup {<<t, poll.stamp>> : t \in poll.seen}
  /\ lastDelay' = [t \in Trip |-> IF CarriesDelay(t) THEN DelayOf[poll.content[t]]
                                  ELSE lastDelay[t]]
  /\ mem' = poll.content
  /\ poll' = NoPoll
  /\ UNCHANGED <<now, writesLegacy, retired, progress, job, tripsCopied>>

\* The poll fails; its transaction is rolled back.
PollFails ==
  /\ poll # NoPoll
  /\ poll' = NoPoll
  /\ UNCHANGED <<now, writesLegacy, legacy, retired, projections, progress, job, mem,
                 lastDelay, tripsCopied>>

\* The collector is restarted.
Restart ==
  /\ poll' = NoPoll
  /\ mem' = Unloaded
  /\ UNCHANGED <<now, writesLegacy, legacy, retired, projections, progress, job, lastDelay,
                 tripsCopied>>

-----------------------------------------------------------------------------
(* The tools. An advisory lock admits one at a time.                       *)

\* The first run of a phase fixes the ids it is going to copy.
Begun(name, asOf) ==
  LET ids == {r.id : r \in legacy}
  IN  IF progress[name].started THEN progress
      ELSE [progress EXCEPT ![name] =
              [started |-> TRUE, asOf |-> asOf,
               last |-> IF ids = {} THEN 0 ELSE Min(ids) - 1, target |-> LastOf(ids)]]

Advanced(name, upper) == [progress EXCEPT ![name].last = upper]

\* The end of the batch that follows the last one.
Upper(name) == Min({progress[name].last + BatchSize, progress[name].target})

\* Mutant: the last id of a batch is left to the next one.
ShortBatch(name) == {r \in legacy : progress[name].last < r.id /\ r.id < Upper(name)}

Batch(name) == {r \in legacy : progress[name].last < r.id /\ r.id <= Upper(name)}

\* DISTINCT ON (trip, stop) ... ORDER BY last_seen_at DESC, id DESC.
Newest(rows) ==
  CHOOSE r \in rows : \A q \in rows : q.seen < r.seen \/ (q.seen = r.seen /\ q.id <= r.id)

\* The newest row with a delay of each trip in trips.
DelaysIn(rows, trips) ==
  [t \in Trip |->
     LET mine == {r \in rows : r.trip = t /\ t \in trips /\ DelayOf[r.hash] # None}
     IN  IF mine = {} THEN NoRow ELSE Row(DelayOf[Newest(mine).hash], Newest(mine).seen)]

\* The newest row of each trip in trips.
StatesIn(rows, trips) ==
  [t \in Trip |->
     LET mine == {r \in rows : r.trip = t /\ t \in trips}
     IN  IF mine = {} THEN NoRow ELSE Row(Newest(mine).hash, Newest(mine).seen)]

Begins(phase, asOf) ==
  /\ job = NoJob /\ ~retired
  /\ job' = [NoJob EXCEPT !.phase = phase, !.at = "loop", !.asOf = asOf]

\* A batch whose statement has been answered waits for its rows to be written.
Reads(phase, rows) ==
  /\ job.phase = phase /\ job.at = "loop"
  /\ job' = [job EXCEPT !.at = "write", !.rows = rows]
  /\ UNCHANGED <<now, writesLegacy, legacy, retired, projections, progress, collector,
                 lastDelay, tripsCopied>>

\* The tool is killed, fails, or has done as many batches as it was asked for.
JobStops ==
  /\ job # NoJob
  /\ job' = NoJob
  /\ UNCHANGED <<now, writesLegacy, legacy, retired, projections, progress, collector,
                 lastDelay, tripsCopied>>

StartArchive ==
  /\ Begins("archive", 0)
  /\ progress' = Begun("stop_archive", 0)
  /\ UNCHANGED <<now, writesLegacy, legacy, retired, projections, collector, lastDelay, tripsCopied>>

\* One transaction copies a batch and moves the progress row.
ArchiveBatch ==
  /\ job.phase = "archive" /\ ~Complete("stop_archive")
  /\ archive' = archive \cup {StopIdentity(r) : r \in Batch("stop_archive")}
  /\ progress' = Advanced("stop_archive", Upper("stop_archive"))
  /\ UNCHANGED <<now, writesLegacy, legacy, retired, tripArchive, samples, live, freshness,
                 job, collector, lastDelay, tripsCopied>>

ArchiveEnds ==
  /\ job.phase = "archive" /\ Complete("stop_archive")
  /\ job' = NoJob
  /\ UNCHANGED <<now, writesLegacy, legacy, retired, projections, progress, collector, lastDelay,
                 tripsCopied>>

\* Mutant: only the trips on the board are taken.
FreshLately == {t \in Trip : freshness[t] > now - LiveWindow}

\* The trips with a row in bus_trip_update_freshness.
WithFreshness == {t \in Trip : freshness[t] # 0}

TripArchive ==
  /\ job = NoJob
  /\ tripArchive' = tripArchive \cup {TripIdentity(t) : t \in WithFreshness}
  /\ tripsCopied' = TRUE
  /\ UNCHANGED <<now, writesLegacy, legacy, retired, archive, samples, live, freshness,
                 progress, job, collector, lastDelay>>

-----------------------------------------------------------------------------
\* A first run takes the time for its snapshot; a later one has to name it.
StartSamples ==
  LET asOf == IF progress["delay_samples"].started THEN progress["delay_samples"].asOf ELSE now
  IN  /\ Begins("samples", asOf)
      /\ progress' = Begun("delay_samples", asOf)
      /\ UNCHANGED <<now, writesLegacy, legacy, retired, projections, collector, lastDelay,
                     tripsCopied>>

\* Trips last seen in the week before the snapshot.
InSnapshot == {t \in Trip : freshness[t] > job.asOf - Window /\ freshness[t] <= job.asOf}

SamplesRead ==
  /\ ~Complete("delay_samples")
  /\ Reads("samples", DelaysIn(Batch("delay_samples"), InSnapshot))

\* Mutant: a row is replaced whatever its age.
ReplacesAlways(new, old) == TRUE

\* Mutant: ON CONFLICT DO NOTHING.
ReplacesNothing(new, old) == old = NoRow

\* ON CONFLICT DO UPDATE, where the row on disk is older or another state of
\* the same time.
Replaces(new, old) ==
  old = NoRow \/ old.seen < new.seen \/ (old.seen = new.seen /\ old.is # new.is)

SampleUpsert ==
  [t \in Trip |-> IF job.rows[t] # NoRow /\ Replaces(job.rows[t], samples[t])
                  THEN job.rows[t] ELSE samples[t]]

SamplesWrite(phase, name, upper) ==
  /\ job.phase = phase /\ job.at = "write"
  /\ samples' = SampleUpsert
  /\ progress' = Advanced(name, upper)
  /\ job' = [job EXCEPT !.at = "loop", !.rows = [t \in Trip |-> NoRow]]
  /\ UNCHANGED <<now, writesLegacy, legacy, retired, archive, tripArchive, live, freshness,
                 collector, lastDelay, tripsCopied>>

SamplesEnd ==
  /\ job.phase = "samples" /\ job.at = "loop" /\ Complete("delay_samples")
  /\ job' = NoJob
  /\ UNCHANGED <<now, writesLegacy, legacy, retired, projections, progress, collector, lastDelay,
                 tripsCopied>>

\* The refresh starts over each time, with the snapshot time of the samples.
StartRefresh ==
  /\ Complete("delay_samples")
  /\ Begins("refresh_samples", progress["delay_samples"].asOf)
  /\ progress' = [progress EXCEPT !["delay_refresh"] =
                    [started |-> TRUE, last |-> 0, target |-> Buckets, asOf |-> now]]
  /\ UNCHANGED <<now, writesLegacy, legacy, retired, projections, collector, lastDelay, tripsCopied>>

\* Mutant: the time of the refresh is taken for that of the snapshot.
SeenSinceRefresh ==
  {t \in Trip : /\ freshness[t] > now - Window
                /\ freshness[t] > progress["delay_refresh"].asOf
                /\ Bucket[t] = progress["delay_refresh"].last}

\* Trips of the next bucket that polls have seen since the snapshot.
SeenSince ==
  {t \in Trip : /\ freshness[t] > now - Window /\ freshness[t] > job.asOf
                /\ Bucket[t] = progress["delay_refresh"].last}

RefreshRead ==
  /\ ~Complete("delay_refresh")
  /\ Reads("refresh_samples", DelaysIn(legacy, SeenSince))

RefreshEnds ==
  /\ job.phase = "refresh_samples" /\ job.at = "loop" /\ Complete("delay_refresh")
  /\ job' = NoJob
  /\ UNCHANGED <<now, writesLegacy, legacy, retired, projections, progress, collector, lastDelay,
                 tripsCopied>>

-----------------------------------------------------------------------------
StartLive ==
  /\ Begins("live", now)
  /\ UNCHANGED <<now, writesLegacy, legacy, retired, projections, progress, collector,
                 lastDelay, tripsCopied>>

\* Trips last seen in the half hour before the tool was started.
OnBoard == {t \in Trip : freshness[t] >= job.asOf - LiveWindow /\ freshness[t] <= job.asOf
                         /\ freshness[t] # 0}

LiveRead == Reads("live", StatesIn(legacy, OnBoard))

\* Mutant: the board takes what the tool has read.
LiveOverwrite == [t \in Trip |-> IF job.rows[t] # NoRow THEN job.rows[t] ELSE live[t]]

LiveUpsert ==
  [t \in Trip |-> IF job.rows[t] # NoRow /\ live[t].seen <= job.rows[t].seen
                  THEN job.rows[t] ELSE live[t]]

LiveWrite ==
  /\ job.phase = "live" /\ job.at = "write"
  /\ live' = LiveUpsert
  /\ job' = NoJob
  /\ UNCHANGED <<now, writesLegacy, legacy, retired, archive, tripArchive, samples, freshness,
                 progress, collector, lastDelay, tripsCopied>>

\* Mutant: one copy is as good as two.
MayDropSampled == legacy # {} => Complete("delay_samples")

\* Migration 016 refuses to drop a legacy table whose copies are incomplete.
MayDrop == legacy # {} => Complete("stop_archive") /\ Complete("delay_samples")

\* It drops the table, which waits for the statements that read it; a tool at
\* work fails with its next one. No further poll is modelled: the clean-up of
\* the projections, of which TripUpdates tells, begins.
Retire ==
  /\ ~retired /\ job.at # "write"
  /\ MayDrop
  /\ legacy' = {}
  /\ retired' = TRUE
  /\ job' = NoJob
  /\ UNCHANGED <<now, writesLegacy, projections, progress, collector, lastDelay, tripsCopied>>

-----------------------------------------------------------------------------
Ingestion == Fetch \/ Commit \/ PollFails \/ Restart

Archiving == StartArchive \/ ArchiveBatch \/ ArchiveEnds \/ TripArchive

Sampling ==
  \/ StartSamples \/ SamplesRead \/ SamplesEnd
  \/ SamplesWrite("samples", "delay_samples", Upper("delay_samples"))
  \/ StartRefresh \/ RefreshRead \/ RefreshEnds
  \/ SamplesWrite("refresh_samples", "delay_refresh", progress["delay_refresh"].last + 1)

Next ==
  Ingestion \/ Archiving \/ Sampling \/ StartLive \/ LiveRead \/ LiveWrite \/ JobStops \/ Retire

Spec == Init /\ [][Next]_vars
-----------------------------------------------------------------------------
\* What verify_bus_storage.py counts in one snapshot of the database.
ArchiveMissing == {r \in legacy : StopIdentity(r) \notin archive}
TripArchiveMissing == {t \in Trip : freshness[t] # 0 /\ TripIdentity(t) \notin tripArchive}

InWeek == {t \in Trip : freshness[t] # 0 /\ freshness[t] > now - Window}
StatsMismatches == {t \in InWeek : DelaysIn(legacy, InWeek)[t].is # samples[t].is}

SeenLately == {t \in Trip : freshness[t] # 0 /\ freshness[t] >= now - LiveWindow}
LiveMismatches == {t \in SeenLately : StatesIn(legacy, SeenLately)[t].is # live[t].is}

\* What it wants done before it compares the current state.
Verifiable == \A name \in Tracked : Complete(name)

\* The backfill copies every surviving legacy stop state (docs/buses.md): once
\* its progress row says so, no row is missing from the archive, however often
\* the copy was interrupted and whatever the collector wrote meanwhile.  The
\* same for trip-presence rows: from a finished copy on, the archive has the
\* last sighting of every trip, so the clean-up may one day delete it.
CopiesAreComplete ==
  /\ Complete("stop_archive") => ArchiveMissing = {}
  /\ tripsCopied => TripArchiveMissing = {}

\* Copy and refresh together leave no gap between the snapshot and the polls
\* committed while they ran: the statistics have the latest delay reported of
\* every trip of the week, whether or not the collector writes the legacy table.
StatisticsComplete ==
  Complete("delay_samples") /\ Complete("delay_refresh") =>
    \A t \in InWeek : samples[t].is = lastDelay[t]

\* If the collector writes the legacy table as well, a finished backfill passes
\* the comparison of the statistics at any moment, even though ingestion
\* continues, and that of the board but for rows still missing from it: the
\* live phase has to be run again for trips a poll saw after it was started.
FinishedMoveVerifies ==
  writesLegacy /\ ~retired /\ Verifiable =>
    StatsMismatches = {} /\ \A t \in LiveMismatches : live[t] = NoRow

\* The board is never given another state than the one the collector believes
\* to be on it: the collector would not correct it.
BoardAgreesWithMemory ==
  mem # Unloaded => \A t \in Trip : mem[t] # None => live[t].is = mem[t]

\* Neither a batch that was read before a poll committed, nor one copied again,
\* takes a projection back to an older state.
ProjectionsNeverGoBack ==
  [][\A t \in Trip : samples[t].seen <= samples'[t].seen /\ live[t].seen <= live'[t].seen]_vars

\* The permanent archive owns every state of the legacy table when migration
\* 016 drops it.
ArchivedBeforeRetired == [][~retired /\ retired' => ArchiveMissing = {}]_vars
=============================================================================
