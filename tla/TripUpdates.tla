------------------------------ MODULE TripUpdates ------------------------------
(***************************************************************************)
(* The TripUpdates pipeline of the bus collector (bus_daemon.py): each     *)
(* poll compares the predictions it received with what the process         *)
(* remembers of its previous poll and writes only the changed ones, while  *)
(* the freshness of every trip it saw is renewed. Beside it run the static *)
(* refresh, which switches the active feed version and drops remembered    *)
(* hashes, and the clean-up, which deletes rows of trips not seen lately   *)
(* in a READ COMMITTED transaction of several statements: each finds its   *)
(* rows in a snapshot of its own, and a row that a poll has changed in     *)
(* between is deleted all the same.                                        *)
(*                                                                         *)
(* Predictions are hashes. A time is kept as its age, up to Oldest, where  *)
(* all ages look the same to every query. The request slot is in           *)
(* RealtimeSlot; here a response may arrive at any time.                   *)
(***************************************************************************)
EXTENDS Integers, FiniteSets

CONSTANTS
  Collector,     \* processes that share the database
  Version,       \* static feed versions
  Trip,          \* trip_instance_key
  Key,           \* (trip_instance_key, stop_key)
  TripOf,        \* the trip of a key
  Known,         \* Known[v]: the trips that are bus trips in version v
  Hash,          \* update_hash
  DelayOf,       \* the delay a prediction carries, or None
  None,
  LiveWindow,    \* age beyond which clean-up deletes a live row: 30 minutes
  SampleWindow,  \* age beyond which it deletes samples and freshness: 168 hours
  PruneLimit,    \* trips whose samples one clean-up takes: 5000
  MaxGap         \* longest time a process remembers a trip without a poll of it

Absent == -1     \* the age of a trip without a freshness row
Oldest == SampleWindow + 1
Age == 0 .. Oldest

Prediction == Hash \cup {None}
Delay == {DelayOf[h] : h \in Hash}

ASSUME TripUpdatesAssumption ==
  /\ TripOf \in [Key -> Trip]
  /\ Known \in [Version -> SUBSET Trip]
  /\ None \notin Hash /\ None \notin Version
  /\ LiveWindow \in Nat /\ SampleWindow \in Nat /\ MaxGap \in Nat
  /\ LiveWindow <= SampleWindow
  /\ PruneLimit \in Nat \ {0}

Nothing == [k \in Key |-> None]

\* What a poll holds between its awaits.
Idle == [at |-> "idle", ver |-> None, content |-> Nothing, seen |-> {},
         changed |-> {}, age |-> 0]

Poll == [at : {"idle", "waiting", "received", "compared"}, ver : Version \cup {None},
         content : [Key -> Prediction], seen : SUBSET Trip,
         changed : SUBSET Key, age : Age]

\* What the clean-up holds between its statements: live rows and samples are
\* pairs of a version and a key, trips are pairs of a version and a trip.
NoPrune == [at |-> "idle", doomed |-> {}, old |-> {}, expired |-> {}, lost |-> {}]

CleanUp == [at : {"idle", "deleting", "chosen", "samples", "freshness"},
            doomed : SUBSET (Version \X Key), old : SUBSET (Version \X Trip),
            expired : SUBSET (Version \X Trip), lost : SUBSET (Version \X Key)]

VARIABLES
  source,    \* source[k]: the prediction NTA publishes now
  active,    \* the active feed version
  live,      \* bus_stop_live
  observed,  \* bus_stop_observations: the hash of the newest row of each key
  samples,   \* bus_delay_samples
  lastSeen,  \* bus_trip_update_freshness, as ages
  archived,  \* trips with an observation at their freshness row's last_seen_at
  mem,       \* mem[c]: _previous_update_hashes
  memFeed,   \* memFeed[c]: _previous_update_feed
  poll,      \* poll[c]: the poll c is in
  refreshed, \* refreshed[c]: version of c's import, until it has pruned mem
  prune,     \* prune[c]: the clean-up c is in
  reported,  \* history: version and content of the last committed poll
  lastDelay, \* history: the last delay a poll committed for a key
  overtaken  \* history: keys not written since a clean-up overtook their poll

db == <<live, observed, samples, lastSeen, archived>>
history == <<reported, lastDelay, overtaken>>
vars == <<source, active, db, mem, memFeed, poll, refreshed, prune, history>>

TypeOK ==
  /\ source \in [Key -> Prediction]
  /\ active \in Version
  /\ live \in [Version -> [Key -> Prediction]]
  /\ observed \in [Version -> [Key -> Prediction]]
  /\ samples \in [Version -> [Key -> Delay \cup {None}]]
  /\ lastSeen \in [Version -> [Trip -> Age \cup {Absent}]]
  /\ archived \in [Version -> SUBSET Trip]
  /\ mem \in [Collector -> [Key -> Prediction]]
  /\ memFeed \in [Collector -> Version \cup {None}]
  /\ poll \in [Collector -> Poll]
  /\ \A c \in Collector :
       /\ poll[c].at # "idle" => poll[c].ver \in Version
       /\ poll[c].at # "compared" => poll[c].changed = {}
       /\ \A k \in poll[c].changed : poll[c].content[k] # None
  /\ refreshed \in [Collector -> Version \cup {None}]
  /\ prune \in [Collector -> CleanUp]
  /\ reported \in [ver : Version \cup {None}, content : [Key -> Prediction]]
  /\ lastDelay \in [Version -> [Key -> Delay \cup {None}]]
  /\ overtaken \subseteq Version \X Key

Init ==
  /\ source = Nothing
  /\ active \in Version
  /\ live = [v \in Version |-> Nothing]
  /\ observed = [v \in Version |-> Nothing]
  /\ samples = [v \in Version |-> Nothing]
  /\ lastSeen = [v \in Version |-> [t \in Trip |-> Absent]]
  /\ archived = [v \in Version |-> {}]
  /\ mem = [c \in Collector |-> Nothing]
  /\ memFeed = [c \in Collector |-> None]
  /\ poll = [c \in Collector |-> Idle]
  /\ refreshed = [c \in Collector |-> None]
  /\ prune = [c \in Collector |-> NoPrune]
  /\ reported = [ver |-> None, content |-> Nothing]
  /\ lastDelay = [v \in Version |-> Nothing]
  /\ overtaken = {}

-----------------------------------------------------------------------------
\* NTA changes, adds or withdraws a prediction.
SourceChanges ==
  /\ \E k \in Key, h \in Prediction :
       h # source[k] /\ source' = [source EXCEPT ![k] = h]
  /\ UNCHANGED <<active, db, mem, memFeed, poll, refreshed, prune, history>>

\* A static refresh of c commits: it activates a version or finds it active.
ImportCommits(c) ==
  /\ refreshed[c] = None
  /\ \E v \in Version :
       /\ active' = v
       /\ refreshed' = [refreshed EXCEPT ![c] = v]
  /\ UNCHANGED <<source, db, mem, memFeed, poll, prune, history>>

\* The refresh goes on to drop the hashes of other versions; all remembered
\* hashes are of memFeed.
RefreshPrunesHashes(c) ==
  /\ refreshed[c] # None
  /\ mem' = IF memFeed[c] = refreshed[c] THEN mem ELSE [mem EXCEPT ![c] = Nothing]
  /\ refreshed' = [refreshed EXCEPT ![c] = None]
  /\ UNCHANGED <<source, active, db, memFeed, poll, prune, history>>

\* Archiving the ZIP failed: the refresh ends before it drops anything.
RefreshFails(c) ==
  /\ refreshed[c] # None
  /\ refreshed' = [refreshed EXCEPT ![c] = None]
  /\ UNCHANGED <<source, active, db, mem, memFeed, poll, prune, history>>

-----------------------------------------------------------------------------
\* poll_realtime reads the active version and its bus trips, then waits for
\* the slot and the response.
StartPoll(c) ==
  /\ poll[c].at = "idle"
  /\ poll' = [poll EXCEPT ![c] = [Idle EXCEPT !.at = "waiting", !.ver = active]]
  /\ UNCHANGED <<source, active, db, mem, memFeed, refreshed, prune, history>>

\* filter_bus_realtime_feed keeps the trips that are bus trips in version v.
Filtered(v) == [k \in Key |-> IF TripOf[k] \in Known[v] THEN source[k] ELSE None]

\* The response is stamped, parsed and filtered. Trips without predictions,
\* cancelled ones for instance, are seen too.
Receive(c) ==
  /\ poll[c].at = "waiting"
  /\ \E bare \in SUBSET Known[poll[c].ver] :
       LET content == Filtered(poll[c].ver)
           running == {TripOf[k] : k \in {j \in Key : content[j] # None}}
       IN  poll' = [poll EXCEPT ![c].at = "received", ![c].content = content,
                                ![c].seen = bare \cup running]
  /\ UNCHANGED <<source, active, db, mem, memFeed, refreshed, prune, history>>

\* Mutant: the reload does not ask when the trip was seen.
LiveRows(v) == live[v]

\* The live rows a process takes over from its predecessor.
SavedStates(v) ==
  [k \in Key |->
     IF lastSeen[v][TripOf[k]] \in 0 .. (LiveWindow - 1) THEN live[v][k] ELSE None]

\* Mutant: only a process that remembers nothing reloads.
ReloadsAtStartOnly(c) == memFeed[c] = None

\* The memory is of another version, or the process has just started.
NeedsReload(c) == memFeed[c] # poll[c].ver

\* The predictions the poll received and the process does not remember.
Changed(content, previous) == {k \in Key : content[k] \notin {None, previous[k]}}

\* The saved states are reloaded if need be, and the predictions that differ
\* from the remembered ones are picked out.
Compare(c) ==
  LET ver == poll[c].ver
      previous == IF NeedsReload(c) THEN SavedStates(ver) ELSE mem[c]
  IN  /\ poll[c].at = "received"
      /\ mem' = [mem EXCEPT ![c] = previous]
      /\ memFeed' = [memFeed EXCEPT ![c] = ver]
      /\ poll' = [poll EXCEPT ![c].at = "compared", ![c].changed = Changed(poll[c].content, previous)]
      /\ UNCHANGED <<source, active, db, refreshed, prune, history>>

\* Rows of version v, with the changed predictions of poll p written over them.
WithChanges(rows, p) ==
  [rows EXCEPT ![p.ver] = [k \in Key |-> IF k \in p.changed THEN p.content[k] ELSE @[k]]]

\* Mutant: a prediction without a delay empties the sample.
WithAllDelays(p) ==
  [samples EXCEPT ![p.ver] =
     [k \in Key |-> IF k \in p.changed THEN DelayOf[p.content[k]] ELSE @[k]]]

\* Only a prediction that carries a delay replaces a sample.
WithDelays(p) ==
  [samples EXCEPT ![p.ver] =
     [k \in Key |-> IF k \in p.changed /\ DelayOf[p.content[k]] # None
                    THEN DelayOf[p.content[k]] ELSE @[k]]]

\* Rows an open clean-up has deleted: its statement over them is done, and
\* whoever writes them waits for its end.
DeletedLive(c) == IF prune[c].at \in {"chosen", "samples", "freshness"} THEN prune[c].doomed ELSE {}
DeletedSamples(c) == IF prune[c].at = "freshness" THEN prune[c].lost ELSE {}

\* Keys of the trips poll p saw that an open clean-up is about to delete.
AtRisk(p) ==
  {<<p.ver, k>> : k \in {j \in Key :
     /\ TripOf[j] \in p.seen
     /\ \E c \in Collector : \/ <<p.ver, j>> \in prune[c].doomed \cup prune[c].lost
                             \/ <<p.ver, TripOf[j]>> \in prune[c].expired}}

\* One transaction writes all tables; after it, the process remembers the
\* poll. A poll that saw nothing writes nothing, to the same effect. A trip
\* it saw is no longer old for a clean-up that has not yet made its choice.
Commit(c) ==
  LET p == poll[c]
      written == {<<p.ver, k>> : k \in p.changed}
  IN  /\ p.at = "compared"
      /\ \A d \in Collector : \A k \in p.changed :
           /\ <<p.ver, k>> \notin DeletedLive(d)
           /\ DelayOf[p.content[k]] # None => <<p.ver, k>> \notin DeletedSamples(d)
      /\ live' = WithChanges(live, p)
      /\ observed' = WithChanges(observed, p)
      /\ samples' = WithDelays(p)
      /\ lastSeen' = [lastSeen EXCEPT ![p.ver] =
                        [t \in Trip |-> IF t \in p.seen THEN p.age ELSE @[t]]]
      /\ archived' = [archived EXCEPT ![p.ver] = @ \cup p.seen]
      /\ mem' = [mem EXCEPT ![c] = p.content]
      /\ poll' = [poll EXCEPT ![c] = Idle]
      /\ prune' = [d \in Collector |->
                     [prune[d] EXCEPT !.old = @ \ {<<p.ver, t>> : t \in p.seen}]]
      /\ reported' = [ver |-> p.ver, content |-> p.content]
      /\ overtaken' = (overtaken \ written) \cup AtRisk(p)
      /\ lastDelay' = [lastDelay EXCEPT ![p.ver] =
                         [k \in Key |-> IF <<p.ver, k>> \in overtaken' THEN None
                                        ELSE IF p.content[k] # None /\ DelayOf[p.content[k]] # None
                                        THEN DelayOf[p.content[k]] ELSE @[k]]]
      /\ UNCHANGED <<source, active, memFeed, refreshed>>

\* Mutant: the poll is remembered although its transaction was rolled back.
RemembersFailedPoll(c) ==
  /\ poll[c].at # "idle"
  /\ poll' = [poll EXCEPT ![c] = Idle]
  /\ mem' = IF poll[c].at = "compared" THEN [mem EXCEPT ![c] = poll[c].content] ELSE mem
  /\ UNCHANGED <<source, active, db, memFeed, refreshed, prune, history>>

\* No slot, a failed request, a differential feed, a database error: the poll
\* ends, its transaction is rolled back and the memory stays as it was.
PollEnds(c) ==
  /\ poll[c].at # "idle"
  /\ poll' = [poll EXCEPT ![c] = Idle]
  /\ UNCHANGED <<source, active, db, mem, memFeed, refreshed, prune, history>>

\* The process dies and is restarted with an empty memory.
Crash(c) ==
  /\ mem' = [mem EXCEPT ![c] = Nothing]
  /\ memFeed' = [memFeed EXCEPT ![c] = None]
  /\ poll' = [poll EXCEPT ![c] = Idle]
  /\ refreshed' = [refreshed EXCEPT ![c] = None]
  /\ prune' = [prune EXCEPT ![c] = NoPrune]
  /\ UNCHANGED <<source, active, db, history>>

-----------------------------------------------------------------------------
Stale(v, t) == lastSeen[v][t] \notin 0 .. LiveWindow
Old(v, t) == lastSeen[v][t] > SampleWindow

\* prune_working_tables begins. NOW() stays at this moment, and the first
\* DELETE looks for live rows of trips that are not fresh.
PruneStarts(c) ==
  /\ prune[c].at = "idle"
  /\ prune' = [prune EXCEPT ![c] =
       [NoPrune EXCEPT
          !.at = "deleting",
          !.doomed = {r \in Version \X Key : live[r[1]][r[2]] # None /\ Stale(r[1], TripOf[r[2]])},
          !.old = {r \in Version \X Trip : Old(r[1], r[2])}]]
  /\ UNCHANGED <<source, active, db, mem, memFeed, poll, refreshed, history>>

\* The live rows are deleted, those written meanwhile too, and trips not seen
\* for a week are listed in expired_bus_trips, the oldest of them in the code
\* and any here if they are more than the limit; a trip waits until its last
\* sighting is in the archive.
PruneChooses(c) ==
  /\ prune[c].at = "deleting"
  /\ \A d \in Collector \ {c} : prune[c].doomed \cap DeletedLive(d) = {}
  /\ \E expired \in SUBSET {r \in prune[c].old : r[2] \in archived[r[1]]} :
       /\ Cardinality(expired) <= PruneLimit
       /\ \/ Cardinality(expired) = PruneLimit
          \/ \A r \in prune[c].old : r[2] \in archived[r[1]] => r \in expired
       /\ prune' = [prune EXCEPT ![c].at = "chosen", ![c].old = {}, ![c].expired = expired]
  /\ UNCHANGED <<source, active, db, mem, memFeed, poll, refreshed, history>>

\* The next DELETE looks for the samples of the listed trips.
PruneFindsSamples(c) ==
  /\ prune[c].at = "chosen"
  /\ prune' = [prune EXCEPT ![c].at = "samples",
       ![c].lost = {r \in Version \X Key : /\ samples[r[1]][r[2]] # None
                                           /\ <<r[1], TripOf[r[2]]>> \in prune[c].expired}]
  /\ UNCHANGED <<source, active, db, mem, memFeed, poll, refreshed, history>>

\* The samples are deleted, and the last DELETE looks for the freshness rows
\* of the listed trips, without asking again when they were seen.
PruneFindsFreshness(c) ==
  /\ prune[c].at = "samples"
  /\ \A d \in Collector \ {c} : prune[c].lost \cap DeletedSamples(d) = {}
  /\ prune' = [prune EXCEPT ![c].at = "freshness",
       ![c].expired = {r \in @ : lastSeen[r[1]][r[2]] # Absent}]
  /\ UNCHANGED <<source, active, db, mem, memFeed, poll, refreshed, history>>

\* Rows that are gone are none of an open clean-up's any more.
Without(q, p) ==
  [q EXCEPT !.doomed = @ \ p.doomed, !.lost = @ \ p.lost,
            !.expired = IF q.at = "freshness" THEN @ \ p.expired ELSE @]

\* The transaction commits: what its statements found is gone.
PruneCommits(c) ==
  LET p == prune[c]
  IN  /\ p.at = "freshness"
      /\ live' = [v \in Version |-> [k \in Key |->
                    IF <<v, k>> \in p.doomed THEN None ELSE live[v][k]]]
      /\ samples' = [v \in Version |-> [k \in Key |->
                       IF <<v, k>> \in p.lost THEN None ELSE samples[v][k]]]
      /\ lastSeen' = [v \in Version |-> [t \in Trip |->
                        IF <<v, t>> \in p.expired THEN Absent ELSE lastSeen[v][t]]]
      /\ archived' = [v \in Version |-> {t \in archived[v] : <<v, t>> \notin p.expired}]
      /\ prune' = [d \in Collector |-> IF d = c THEN NoPrune ELSE Without(prune[d], p)]
      /\ UNCHANGED <<source, active, observed, mem, memFeed, poll, refreshed, history>>

\* An error or a deadlock: the clean-up is rolled back.
PruneFails(c) ==
  /\ prune[c].at # "idle"
  /\ prune' = [prune EXCEPT ![c] = NoPrune]
  /\ UNCHANGED <<source, active, db, mem, memFeed, poll, refreshed, history>>

PruneStep(c) ==
  \/ PruneStarts(c) \/ PruneChooses(c) \/ PruneFindsSamples(c)
  \/ PruneFindsFreshness(c) \/ PruneCommits(c) \/ PruneFails(c)

Older(a) == IF a \in 0 .. SampleWindow THEN a + 1 ELSE a

\* The trips a process counts on: those it remembers, and those of the poll it
\* is in that it found unchanged.
Trusted(c) ==
  {<<memFeed[c], TripOf[k]>> : k \in {j \in Key : mem[c][j] # None}} \cup
  {<<poll[c].ver, TripOf[k]>> :
     k \in {j \in Key \ poll[c].changed :
              poll[c].at = "compared" /\ poll[c].content[j] # None}}

\* Time passes. TripUpdates polls succeed so often that no process counts on a
\* trip that was last seen more than MaxGap ago.
Tick ==
  /\ \A c \in Collector :
       /\ \A vt \in Trusted(c) : lastSeen[vt[1]][vt[2]] < MaxGap
       /\ poll[c].at \in {"received", "compared"} => poll[c].age < MaxGap
  /\ lastSeen' = [v \in Version |-> [t \in Trip |-> Older(lastSeen[v][t])]]
  /\ poll' = [c \in Collector |->
                IF poll[c].at \in {"received", "compared"}
                THEN [poll[c] EXCEPT !.age = Older(@)] ELSE poll[c]]
  /\ lastDelay' = [v \in Version |-> [k \in Key |->
                     IF lastSeen'[v][TripOf[k]] > SampleWindow THEN None ELSE lastDelay[v][k]]]
  /\ UNCHANGED <<source, active, live, observed, samples, archived, mem, memFeed,
                 refreshed, prune, reported, overtaken>>

CollectorStep(c) ==
  \/ ImportCommits(c) \/ RefreshPrunesHashes(c) \/ RefreshFails(c)
  \/ StartPoll(c) \/ Receive(c) \/ Compare(c) \/ Commit(c) \/ PollEnds(c)
  \/ Crash(c)

Next == SourceChanges \/ (\E c \in Collector : CollectorStep(c) \/ PruneStep(c)) \/ Tick

Spec == Init /\ [][Next]_vars

\* A clean-up comes to its end while the poll of its process waits for rows.
PruneEndsAhead(c) == poll[c].at = "compared" /\ (PruneCommits(c) \/ PruneFails(c))

\* Polls are scheduled for ever, and neither failures nor crashes always hit
\* the same place, the wait for the rows of a clean-up among them.
Fairness ==
  \A c \in Collector :
    /\ WF_vars(StartPoll(c)) /\ SF_vars(Receive(c)) /\ SF_vars(Compare(c)) /\ SF_vars(Commit(c))
    /\ SF_vars(PruneEndsAhead(c))

FairSpec == Spec /\ Fairness

-----------------------------------------------------------------------------
Fresh(v, k) == lastSeen[v][TripOf[k]] \in 0 .. LiveWindow

\* bus_stop_live holds the latest prediction per active trip and stop
\* (docs/buses.md): whatever the last committed poll contained is on the board
\* for as long as its trip counts as live. It does not hold of the code.
BoardShowsLatest ==
  \A k \in Key : \A v \in Version :
    reported.ver = v /\ reported.content[k] # None /\ Fresh(v, k)
      => live[v][k] = reported.content[k]

\* What does hold: across restarts, failed polls, version switches and
\* clean-ups, although only changes are written, the board misses no
\* prediction but one whose trip a poll saw while an open clean-up was
\* deleting it, until that prediction is written again.
BoardMissesOnlyOvertaken ==
  \A k \in Key : \A v \in Version :
    /\ reported.ver = v /\ reported.content[k] # None /\ Fresh(v, k)
    /\ <<v, k>> \notin overtaken
    => live[v][k] = reported.content[k]

\* The archive of changes loses nothing: the newest row of a key is what the
\* last committed poll said of it, so a prediction that is not archived again
\* really is the archived one.
HistoryEndsWithLatest ==
  \A k \in Key : \A v \in Version :
    reported.ver = v /\ reported.content[k] # None
      => observed[v][k] = reported.content[k]

\* The statistics keep the last delay a key was given for the whole sample
\* window, also when its later predictions carry none or it is no longer
\* predicted, unless a clean-up overtook the poll.
SamplesKeepLatestDelay ==
  \A v \in Version : \A k \in Key :
    lastDelay[v][k] # None => samples[v][k] = lastDelay[v][k]

\* Once NTA and the static feed settle, the board catches up again and again
\* with every key that no clean-up has left overtaken: the memory never hides
\* any other prediction from it for good.
BoardCatchesUp ==
  <>[][UNCHANGED <<source, active>>]_<<source, active>> =>
    []<>(\A k \in Key : Filtered(active)[k] # None /\ <<active, k>> \notin overtaken
                          => live[active][k] = source[k])
=============================================================================
