------------------------- MODULE StorageBackfillProofs -------------------------
(***************************************************************************)
(* Of StorageBackfill: the copies are complete and the statistics exact    *)
(* once their progress rows say so, the board is what the collector        *)
(* believes it to be, and no projection goes back, for any trips, states,  *)
(* batches, windows and histories.                                         *)
(***************************************************************************)
EXTENDS StorageBackfill, FiniteSetTheorems, WellFoundedInduction, TLAPS

Rows(values) == [Trip -> [is : values \cup {None}, seen : Nat]]

AnyPoll == [at : {"compared"}, stamp : Nat, seen : SUBSET Trip,
            content : [Trip -> Hash \cup {None}]]

BackfillTypes ==
  /\ now \in Nat /\ writesLegacy \in BOOLEAN /\ retired \in BOOLEAN
  /\ legacy \subseteq [id : Nat, trip : Trip, hash : Hash, fetched : Nat, seen : Nat]
  /\ samples \in Rows(Delay) /\ live \in Rows(Hash) /\ freshness \in [Trip -> Nat]
  /\ progress \in [Tracked -> [started : BOOLEAN, last : Int, target : Nat, asOf : Nat]]
  /\ job \in [phase : Phase \cup {None}, at : {"none", "loop", "write"}, asOf : Nat,
              rows : Rows(Hash \cup Delay)]
  /\ mem \in [Trip -> Hash \cup {None}] \cup {Unloaded}
  /\ poll \in AnyPoll \cup {NoPoll}
  /\ lastDelay \in [Trip -> Delay \cup {None}]

-----------------------------------------------------------------------------
\* What a committed poll may have written: a poll under way is later.
Settled(time) == time <= now /\ (poll # NoPoll => time < now)

\* The ids have a bound, a row of the legacy table is one state of a trip, and
\* no two of a trip were seen last by the same poll.
LegacyInv ==
  /\ \E bound \in Nat : \A r \in legacy : r.id <= bound
  /\ \A r \in legacy : 1 <= r.seen /\ r.seen <= freshness[r.trip]
  /\ \A r, q \in legacy : r.trip = q.trip /\ (r.hash = q.hash \/ r.seen = q.seen) => r = q
  /\ retired => legacy = {} /\ job = NoJob

\* Trips that no poll will ever see again.
Gone(t) == freshness[t] # 0 /\ freshness[t] <= now - Window

PollInv ==
  /\ \A t \in Trip : Settled(freshness[t]) /\ Settled(live[t].seen) /\ Settled(samples[t].seen)
  /\ poll # NoPoll => /\ poll.stamp = now /\ mem \in [Trip -> Hash \cup {None}]
                      /\ \A t \in Trip \ poll.seen : poll.content[t] = None
                      /\ \A t \in poll.seen : freshness[t] = 0 \/ now - freshness[t] < Window

\* A row of the legacy table is older than the row on the board, or is it.
Older(r, row) == r.seen < row.seen \/ (r.seen = row.seen /\ r.hash = row.is)

\* The same for a row that carries a delay and one of the statistics.
Covers(row, r) == r.seen < row.seen \/ (r.seen = row.seen /\ DelayOf[r.hash] = row.is)

DelayRows(t) == {r \in legacy : r.trip = t /\ DelayOf[r.hash] # None}

NewestDelay(r, t) == r \in DelayRows(t) /\ \A q \in DelayRows(t) : q.seen <= r.seen

LiveInv ==
  /\ \A r \in legacy : live[r.trip] # NoRow => Older(r, live[r.trip])
  /\ \A t \in Trip :
       /\ live[t] # NoRow /\ DelayOf[live[t].is] # None => lastDelay[t] = DelayOf[live[t].is]
       /\ live[t] = NoRow =>
            \A r \in legacy : NewestDelay(r, t) => lastDelay[t] = DelayOf[r.hash]
       /\ writesLegacy /\ ~retired /\ live[t] # NoRow =>
            \E r \in legacy : r.trip = t /\ r.hash = live[t].is /\ r.seen = live[t].seen
  /\ job.phase = "live" /\ job.at = "write" =>
       \A t \in Trip : job.rows[t] # NoRow =>
         IF live[t] # NoRow
         THEN job.rows[t] = live[t] \/ job.rows[t].seen < live[t].seen
         ELSE /\ \E r \in legacy : r.trip = t /\ Row(r.hash, r.seen) = job.rows[t]
              /\ \A r \in legacy : r.trip = t => Older(r, job.rows[t])

\* The latest delay of a trip is in the statistics, or in the newest row of
\* the legacy table.
DelayTold(t) ==
  /\ ~retired /\ (\A r \in DelayRows(t) : Covers(samples[t], r)) => samples[t].is = lastDelay[t]
  /\ \A r \in legacy :
       NewestDelay(r, t) /\ samples[t].seen <= r.seen => lastDelay[t] = DelayOf[r.hash]
  /\ writesLegacy /\ ~retired =>
       /\ \A r \in legacy : NewestDelay(r, t) => lastDelay[t] = DelayOf[r.hash]
       /\ DelayRows(t) = {} => lastDelay[t] = None

\* What a tool has read of a trip is still there, or older than the statistics.
ReadIsThere(t) ==
  job.rows[t] # NoRow =>
    \/ job.rows[t].seen < samples[t].seen
    \/ \E r \in DelayRows(t) : Row(DelayOf[r.hash], r.seen) = job.rows[t]

SampleInv ==
  /\ \A t \in Trip : DelayTold(t)
  /\ job.phase \in {"samples", "refresh_samples"} /\ job.at = "write" =>
       \A t \in Trip : ReadIsThere(t)

\* Trips whose latest delay the refresh is going to find, or that no longer
\* count.
Passed(t) == freshness[t] > progress["delay_samples"].asOf \/ Gone(t)

Held(t, r) == Covers(samples[t], r) \/ Covers(job.rows[t], r)

CopyInv ==
  /\ progress["delay_samples"].last <= progress["delay_samples"].target
  /\ progress["delay_samples"].started =>
       /\ progress["delay_samples"].asOf <= now
       /\ \A t \in Trip : Passed(t) \/
            \A r \in DelayRows(t) :
              \/ Covers(samples[t], r)
              \/ r.id > progress["delay_samples"].last /\ r.id <= progress["delay_samples"].target
  /\ job.phase = "samples" =>
       /\ progress["delay_samples"].started
       /\ job.asOf = progress["delay_samples"].asOf
       /\ job.at = "write" =>
            \A t \in Trip : Passed(t) \/
              \A r \in DelayRows(t) :
                progress["delay_samples"].last < r.id /\ r.id <= Upper("delay_samples") => Held(t, r)
  /\ progress["delay_refresh"].started =>
       /\ Complete("delay_samples") /\ progress["delay_refresh"].target = Buckets
       /\ \A t \in Trip : Bucket[t] < progress["delay_refresh"].last =>
            Gone(t) \/ \A r \in DelayRows(t) : Covers(samples[t], r)
  /\ job.phase = "refresh_samples" =>
       /\ progress["delay_refresh"].started
       /\ job.asOf = progress["delay_samples"].asOf
       /\ job.at = "write" =>
            \A t \in Trip : Bucket[t] = progress["delay_refresh"].last =>
              Gone(t) \/ \A r \in DelayRows(t) : Held(t, r)

\* After the legacy table has gone nothing copies any more.
StatisticsKept ==
  retired /\ Complete("delay_samples") /\ Complete("delay_refresh") =>
    \A t \in Trip : Gone(t) \/ samples[t].is = lastDelay[t]

ArchiveInv ==
  /\ progress["stop_archive"].started =>
       \A r \in legacy :
         \/ StopIdentity(r) \in archive
         \/ r.id > progress["stop_archive"].last /\ r.id <= progress["stop_archive"].target
  /\ tripsCopied => TripArchiveMissing = {}

BackfillInv ==
  /\ BackfillTypes /\ LegacyInv /\ PollInv /\ LiveInv /\ BoardAgreesWithMemory
  /\ SampleInv /\ CopyInv /\ StatisticsKept /\ ArchiveInv

-----------------------------------------------------------------------------
(* Least and greatest elements.                                            *)

LEMMA LeastOfNats ==
  ASSUME NEW S, S \subseteq Nat, S # {}
  PROVE  \E x \in S : \A y \in S : x <= y
<1> DEFINE R == {p \in Nat \X Nat : p[1] < p[2]}
<1>1. IsWellFoundedOn(R, Nat)
  BY NatLessThanWellFounded DEF OpToRel
<1> HIDE DEF R
<1>2. PICK x \in S : \A y \in S : ~(<<y, x>> \in R)
  BY <1>1, WFMin
<1>3. \A y \in S : ~(y < x)
  BY <1>2 DEF R
<1> QED
  BY <1>3

LEMMA MinOfNats ==
  ASSUME NEW S, S \subseteq Nat, S # {}
  PROVE  Min(S) \in S /\ \A y \in S : Min(S) <= y
BY LeastOfNats DEF Min

LEMMA GreatestOfNats ==
  ASSUME NEW S, S \subseteq Nat, S # {}, NEW bound \in Nat, \A y \in S : y <= bound
  PROVE  \E x \in S : \A y \in S : y <= x
<1> DEFINE B == {b \in Nat : \A y \in S : y <= b}
<1>1. PICK b \in B : \A c \in B : b <= c
  <2>1. bound \in B
    OBVIOUS
  <2> QED
    BY <2>1, LeastOfNats
<1>2. CASE b \in S
  BY <1>1, <1>2
<1>3. CASE b \notin S
  <2>1. \A y \in S : y <= b - 1 /\ y \in Nat
    <3> TAKE y \in S
    <3>1. y \in Nat /\ y <= b /\ y # b /\ b \in Nat
      BY <1>1, <1>3
    <3> QED
      BY <3>1
  <2>2. b - 1 \in Nat
    <3>1. PICK y \in S : TRUE
      OBVIOUS
    <3>2. y \in Nat /\ y <= b - 1 /\ b \in Nat
      BY <2>1, <1>1
    <3> QED
      BY <3>2
  <2>3. b - 1 \in B
    BY <2>1, <2>2
  <2> QED
    BY <1>1, <2>3
<1> QED
  BY <1>2, <1>3

LEMMA MaxOfNats ==
  ASSUME NEW S, S \subseteq Nat, S # {}, NEW bound \in Nat, \A y \in S : y <= bound
  PROVE  Max(S) \in S /\ \A y \in S : y <= Max(S)
<1>1. \E x \in S : \A y \in S : x >= y
  BY GreatestOfNats
<1> QED
  BY <1>1 DEF Max

LEMMA MinOfTwo ==
  ASSUME NEW a \in Int, NEW b \in Int
  PROVE  Min({a, b}) = IF a <= b THEN a ELSE b
BY DEF Min

\* DISTINCT ON finds the row seen last: there is one, since no two rows of a
\* trip were seen last at the same time.
LEMMA NewestRow ==
  ASSUME BackfillTypes, LegacyInv, PollInv, NEW t \in Trip,
         NEW mine, mine \subseteq {r \in legacy : r.trip = t}, mine # {}
  PROVE  Newest(mine) \in mine /\ \A q \in mine : q.seen <= Newest(mine).seen
<1>1. \A r \in mine : r \in legacy /\ r.trip = t /\ r.seen \in Nat /\ r.id \in Nat
  BY DEF BackfillTypes
<1>2. now \in Nat /\ freshness[t] \in Nat /\ freshness[t] <= now
  BY DEF BackfillTypes, PollInv, Settled
<1>3. \A r \in mine : r.seen <= now
  BY <1>1, <1>2 DEF LegacyInv
<1>4. PICK x \in {r.seen : r \in mine} : \A y \in {r.seen : r \in mine} : y <= x
  BY <1>1, <1>2, <1>3, GreatestOfNats
<1>5. PICK r \in mine : r.seen = x
  BY <1>4
<1>6. \A q \in mine : q.seen < r.seen \/ (q.seen = r.seen /\ q = r)
  <2> TAKE q \in mine
  <2>1. q.seen <= r.seen /\ q.seen \in Nat /\ r.seen \in Nat
    BY <1>1, <1>4, <1>5
  <2>2. q.seen = r.seen => q = r
    BY <1>1 DEF LegacyInv
  <2> QED
    BY <2>1, <2>2
<1>7. \A q \in mine : q.seen < r.seen \/ (q.seen = r.seen /\ q.id <= r.id)
  BY <1>1, <1>6
<1>8. Newest(mine) \in mine /\ \A q \in mine : q.seen < Newest(mine).seen
                                 \/ (q.seen = Newest(mine).seen /\ q.id <= Newest(mine).id)
  BY <1>7 DEF Newest
<1> QED
  BY <1>1, <1>8

-----------------------------------------------------------------------------
(* What the statements of the tools find.                                  *)

LEMMA DelaysFound ==
  ASSUME BackfillTypes, LegacyInv, PollInv,
         NEW rows, rows \subseteq legacy, NEW trips, NEW t \in Trip
  PROVE  /\ DelaysIn(rows, trips)[t] \in [is : Delay \cup {None}, seen : Nat]
         /\ DelaysIn(rows, trips)[t] # NoRow =>
              \E r \in DelayRows(t) : Row(DelayOf[r.hash], r.seen) = DelaysIn(rows, trips)[t]
         /\ t \in trips => \A r \in DelayRows(t) : r \in rows => Covers(DelaysIn(rows, trips)[t], r)
<1> DEFINE mine == {r \in rows : r.trip = t /\ t \in trips /\ DelayOf[r.hash] # None}
<1>1. DelaysIn(rows, trips)[t] =
        IF mine = {} THEN NoRow ELSE Row(DelayOf[Newest(mine).hash], Newest(mine).seen)
  BY DEF DelaysIn
<1>2. t \in trips => \A r \in DelayRows(t) : r \in rows => r \in mine
  BY DEF DelayRows
<1>3. CASE mine = {}
  BY <1>1, <1>2, <1>3 DEF NoRow
<1>4. CASE mine # {}
  <2>1. mine \subseteq {r \in legacy : r.trip = t}
    OBVIOUS
  <2>2. Newest(mine) \in mine /\ \A q \in mine : q.seen <= Newest(mine).seen
    BY <1>4, <2>1, NewestRow
  <2>3. PICK n \in legacy : n = Newest(mine) /\ n.trip = t /\ DelayOf[n.hash] # None
    BY <2>1, <2>2
  <2>4. n \in DelayRows(t) /\ n.hash \in Hash /\ n.seen \in Nat
    BY <2>3 DEF DelayRows, BackfillTypes
  <2>5. DelaysIn(rows, trips)[t] = Row(DelayOf[n.hash], n.seen)
    BY <1>1, <1>4, <2>3
  <2>6. DelayOf[n.hash] \in Delay
    BY <2>4 DEF Delay
  <2>7. ASSUME NEW r \in mine PROVE Covers(Row(DelayOf[n.hash], n.seen), r)
    <3>1. r \in legacy /\ r.seen \in Nat /\ r.seen <= n.seen /\ r.trip = t
      BY <2>1, <2>2, <2>3, <2>7 DEF BackfillTypes
    <3>2. r.seen = n.seen => r = n
      BY <2>3, <3>1 DEF LegacyInv
    <3> QED
      BY <2>4, <3>1, <3>2 DEF Covers, Row
  <2>8. Row(DelayOf[n.hash], n.seen) \in [is : Delay \cup {None}, seen : Nat]
    BY <2>4, <2>6 DEF Row
  <2> HIDE DEF mine
  <2> QED
    BY <1>2, <2>4, <2>5, <2>7, <2>8
<1> QED
  BY <1>3, <1>4

LEMMA StatesFound ==
  ASSUME BackfillTypes, LegacyInv, PollInv, NEW trips, NEW t \in Trip
  PROVE  /\ StatesIn(legacy, trips)[t] \in [is : Hash \cup {None}, seen : Nat]
         /\ StatesIn(legacy, trips)[t] # NoRow =>
              /\ \E r \in legacy : r.trip = t /\ Row(r.hash, r.seen) = StatesIn(legacy, trips)[t]
              /\ \A r \in legacy : r.trip = t => Older(r, StatesIn(legacy, trips)[t])
         /\ t \in trips /\ (\E r \in legacy : r.trip = t) => StatesIn(legacy, trips)[t] # NoRow
<1> DEFINE mine == {r \in legacy : r.trip = t /\ t \in trips}
<1>1. StatesIn(legacy, trips)[t] =
        IF mine = {} THEN NoRow ELSE Row(Newest(mine).hash, Newest(mine).seen)
  BY DEF StatesIn
<1>2. CASE mine = {}
  BY <1>1, <1>2 DEF NoRow
<1>3. CASE mine # {}
  <2>1. mine \subseteq {r \in legacy : r.trip = t}
    OBVIOUS
  <2>2. Newest(mine) \in mine /\ \A q \in mine : q.seen <= Newest(mine).seen
    BY <1>3, <2>1, NewestRow
  <2>3. PICK n \in legacy : n = Newest(mine) /\ n.trip = t
    BY <2>1, <2>2
  <2>4. n.hash \in Hash /\ n.seen \in Nat /\ n.seen >= 1
    BY <2>3 DEF BackfillTypes, LegacyInv
  <2>5. StatesIn(legacy, trips)[t] = Row(n.hash, n.seen)
    BY <1>1, <1>3, <2>3
  <2>6. ASSUME NEW r \in legacy, r.trip = t PROVE Older(r, Row(n.hash, n.seen))
    <3>1. r \in mine
      BY <1>3, <2>6
    <3>2. r.seen \in Nat /\ r.seen <= n.seen
      BY <2>2, <2>3, <3>1 DEF BackfillTypes
    <3>3. r.seen = n.seen => r = n
      BY <2>3, <2>6 DEF LegacyInv
    <3> QED
      BY <2>4, <3>2, <3>3 DEF Older, Row
  <2>7. Row(n.hash, n.seen) # NoRow /\ Row(n.hash, n.seen) \in [is : Hash \cup {None}, seen : Nat]
    BY <2>4 DEF Row, NoRow
  <2> HIDE DEF mine
  <2> QED
    BY <2>3, <2>5, <2>6, <2>7
<1> QED
  BY <1>2, <1>3

-----------------------------------------------------------------------------
(* What a commit does to the legacy table.                                 *)

\* Row r is the one that the poll under way upserts.
Touched(r) == r.trip \in Changed /\ r.hash = poll.content[r.trip]

LEMMA IdBound ==
  ASSUME NEW n \in Nat, NEW t \in Trip
  PROVE  Id(n, t) \in Nat /\ Id(n, t) <= IdStep * n + IdStep /\ IdStep * n \in Nat
<1>1. IdStep \in Nat /\ Rank[t] \in Nat /\ Rank[t] <= IdStep
  BY BackfillAssumption
<1>2. IdStep * n \in Nat
  BY <1>1
<1> QED
  BY <1>1, <1>2 DEF Id

LEMMA Loaded == mem \in [Trip -> Hash \cup {None}] => \A t \in Trip : mem # Unloaded
<1> SUFFICES ASSUME NEW t \in Trip, mem \in [Trip -> Hash \cup {None}], mem = <<>> PROVE FALSE
  BY DEF Unloaded
<1>1. DOMAIN mem = Trip /\ DOMAIN << >> = {}
  OBVIOUS
<1> QED
  BY <1>1

LEMMA PollKnown ==
  ASSUME BackfillTypes, PollInv, poll # NoPoll
  PROVE  /\ poll.content \in [Trip -> Hash \cup {None}] /\ poll.seen \subseteq Trip
         /\ poll.stamp = now /\ now \in Nat
         /\ mem \in [Trip -> Hash \cup {None}]
         /\ \A t \in Changed : t \in Trip /\ t \in poll.seen /\ poll.content[t] \in Hash
                               /\ poll.content[t] # None
<1>1. poll \in AnyPoll /\ poll.stamp = now /\ now \in Nat
  BY DEF BackfillTypes, PollInv
<1>2. mem \in [Trip -> Hash \cup {None}]
  BY DEF PollInv
<1>3. poll.content \in [Trip -> Hash \cup {None}] /\ poll.seen \subseteq Trip
  BY <1>1 DEF AnyPoll
<1> QED
  BY <1>1, <1>2, <1>3 DEF Changed, PollInv

LEMMA CommitRows ==
  ASSUME BackfillTypes, LegacyInv, PollInv, Commit
  PROVE  /\ \A r \in legacy' :
              \/ r \in legacy /\ (writesLegacy => ~Touched(r))
              \/ /\ Touched(r) /\ r.seen = poll.stamp /\ writesLegacy
                 /\ \/ r = New(r.trip) /\ ~\E q \in legacy : q.trip = r.trip /\ q.hash = r.hash
                    \/ \E q \in legacy : r = [q EXCEPT !.seen = poll.stamp]
         /\ \A r \in legacy : (writesLegacy /\ Touched(r)) \/ r \in legacy'
         /\ writesLegacy => \A t \in Changed : \E r \in legacy' : r.trip = t /\ Touched(r)
<1>1. poll # NoPoll /\ legacy' = IF writesLegacy THEN LegacyUpsert ELSE legacy
  BY DEF Commit
<1>2. CASE ~writesLegacy
  BY <1>1, <1>2
<1>3. CASE writesLegacy
  <2> DEFINE Known(t) == {r \in legacy : r.trip = t /\ r.hash = poll.content[t]}
             moved == {[r EXCEPT !.seen = poll.stamp] : r \in UNION {Known(t) : t \in Changed}}
             new == {New(t) : t \in {u \in Changed : Known(u) = {}}}
  <2>1. legacy' = {r \in legacy : ~Touched(r)} \cup moved \cup new
    BY <1>1, <1>3 DEF LegacyUpsert, Touched
  <2>2. ASSUME NEW r \in moved
        PROVE  Touched(r) /\ r.seen = poll.stamp /\ \E q \in legacy : r = [q EXCEPT !.seen = poll.stamp]
    <3>1. PICK q \in UNION {Known(t) : t \in Changed} : r = [q EXCEPT !.seen = poll.stamp]
      BY <2>2
    <3>2. PICK t \in Changed : q \in legacy /\ q.trip = t /\ q.hash = poll.content[t]
      BY <3>1
    <3>3. q \in [id : Nat, trip : Trip, hash : Hash, fetched : Nat, seen : Nat]
      BY <3>2 DEF BackfillTypes
    <3>4. r.trip = t /\ r.hash = poll.content[t] /\ r.seen = poll.stamp
      BY <3>1, <3>2, <3>3
    <3> QED
      BY <3>1, <3>2, <3>4 DEF Touched
  <2>3. ASSUME NEW r \in new
        PROVE  /\ Touched(r) /\ r.seen = poll.stamp /\ r = New(r.trip)
               /\ ~\E q \in legacy : q.trip = r.trip /\ q.hash = r.hash
    <3>1. PICK t \in Changed : Known(t) = {} /\ r = New(t)
      BY <2>3
    <3>2. r.trip = t /\ r.hash = poll.content[t] /\ r.seen = poll.stamp
      BY <3>1 DEF New
    <3> QED
      BY <3>1, <3>2 DEF Touched
  <2>4. ASSUME NEW t \in Changed PROVE \E r \in legacy' : r.trip = t /\ Touched(r)
    <3>1. CASE Known(t) = {}
      <4>1. New(t) \in new /\ New(t).trip = t
        BY <3>1 DEF New
      <4> QED
        BY <2>1, <2>3, <4>1
    <3>2. CASE Known(t) # {}
      <4>1. PICK q \in legacy : q.trip = t /\ q.hash = poll.content[t]
        BY <3>2
      <4>2. q \in [id : Nat, trip : Trip, hash : Hash, fetched : Nat, seen : Nat]
        BY <4>1 DEF BackfillTypes
      <4>3. [q EXCEPT !.seen = poll.stamp].trip = t
        BY <4>1, <4>2
      <4>4. [q EXCEPT !.seen = poll.stamp] \in moved
        BY <4>1
      <4> QED
        BY <2>1, <2>2, <4>3, <4>4
    <3> QED
      BY <3>1, <3>2
  <2> HIDE DEF moved, new
  <2> QED
    BY <1>3, <2>1, <2>2, <2>3, <2>4
<1> QED
  BY <1>2, <1>3

LEMMA CommitDelays ==
  ASSUME BackfillTypes, LegacyInv, PollInv, Commit, NEW t \in Trip
  PROVE  IF t \in Changed /\ CarriesDelay(t)
         THEN /\ samples'[t] = Row(DelayOf[poll.content[t]], poll.stamp)
              /\ lastDelay'[t] = DelayOf[poll.content[t]]
              /\ \A r \in DelayRows(t)' : r.seen \in Nat
                   /\ (r.seen < now \/ (r.seen = now /\ r.hash = poll.content[t]))
              /\ IF writesLegacy
                 THEN \E r \in DelayRows(t)' : r.seen = now /\ r.hash = poll.content[t]
                 ELSE \A r \in DelayRows(t)' : r.seen < now
         ELSE samples'[t] = samples[t] /\ DelayRows(t)' = DelayRows(t)
<1>1. poll # NoPoll /\ poll.stamp = now /\ now \in Nat
  BY PollKnown DEF Commit
<1>2. \A r \in legacy : r.seen \in Nat /\ r.seen < now
  <2> TAKE r \in legacy
  <2>1. r.trip \in Trip /\ r.seen \in Nat /\ freshness[r.trip] \in Nat
    BY DEF BackfillTypes
  <2> QED
    BY <1>1, <2>1 DEF LegacyInv, PollInv, Settled
<1>3. samples'[t] = IF t \in Changed /\ CarriesDelay(t)
                    THEN Row(DelayOf[poll.content[t]], poll.stamp) ELSE samples[t]
  BY DEF Commit
<1>4. CASE t \in Changed /\ CarriesDelay(t)
  <2>1. lastDelay'[t] = DelayOf[poll.content[t]]
    BY <1>4 DEF Commit
  <2>2. ASSUME NEW r \in DelayRows(t)'
        PROVE  \/ r.seen \in Nat /\ r.seen < now
               \/ r.seen = now /\ r.hash = poll.content[t] /\ writesLegacy
    <3>1. r \in legacy' /\ r.trip = t
      BY DEF DelayRows
    <3> QED
      BY <1>1, <1>2, <3>1, CommitRows DEF Touched
  <2>3. writesLegacy => \E r \in DelayRows(t)' : r.seen = now /\ r.hash = poll.content[t]
    <3> SUFFICES ASSUME writesLegacy
                 PROVE  \E r \in DelayRows(t)' : r.seen = now /\ r.hash = poll.content[t]
      OBVIOUS
    <3>1. PICK r \in legacy' : r.trip = t /\ Touched(r)
      BY <1>4, CommitRows
    <3>2. r.seen = now /\ r.hash = poll.content[t]
      BY <1>1, <3>1, CommitRows DEF Touched
    <3>3. DelayOf[r.hash] # None
      BY <1>4, <3>2 DEF CarriesDelay
    <3> QED
      BY <3>1, <3>2, <3>3 DEF DelayRows
  <2>4. ~writesLegacy => \A r \in DelayRows(t)' : r.seen < now
    BY <1>2 DEF DelayRows, Commit
  <2> QED
    BY <1>1, <1>3, <1>4, <2>1, <2>2, <2>3, <2>4
<1>5. CASE ~(t \in Changed /\ CarriesDelay(t))
  <2>1. \A r : Touched(r) /\ r.trip = t => DelayOf[r.hash] = None
    BY <1>5, PollKnown, <1>1 DEF Touched, CarriesDelay
  <2>2. ASSUME NEW r \in DelayRows(t)' PROVE r \in DelayRows(t)
    <3>1. r \in legacy' /\ r.trip = t /\ DelayOf[r.hash] # None
      BY DEF DelayRows
    <3>2. r \in legacy
      BY <2>1, <3>1, CommitRows
    <3> QED
      BY <3>1, <3>2 DEF DelayRows
  <2>3. ASSUME NEW r \in DelayRows(t) PROVE r \in DelayRows(t)'
    <3>1. r \in legacy /\ r.trip = t /\ DelayOf[r.hash] # None
      BY DEF DelayRows
    <3>2. r \in legacy'
      BY <2>1, <3>1, CommitRows
    <3> QED
      BY <3>1, <3>2 DEF DelayRows
  <2>4. DelayRows(t)' = DelayRows(t)
    BY <2>2, <2>3
  <2>5. samples'[t] = samples[t]
    BY <1>3, <1>5
  <2> QED
    BY <1>5, <2>4, <2>5
<1> QED
  BY <1>4, <1>5

LEMMA CommitTypes == BackfillInv /\ Commit => BackfillTypes'
<1> SUFFICES ASSUME BackfillInv, Commit PROVE BackfillTypes'
  OBVIOUS
<1> USE BackfillAssumption
<1>1. BackfillTypes /\ LegacyInv /\ PollInv
  BY DEF BackfillInv
<1>2. /\ poll # NoPoll /\ poll.content \in [Trip -> Hash \cup {None}] /\ poll.stamp = now
      /\ now \in Nat /\ \A t \in Changed : t \in Trip /\ poll.content[t] \in Hash
  BY <1>1, PollKnown DEF Commit
<1>3. legacy' \subseteq [id : Nat, trip : Trip, hash : Hash, fetched : Nat, seen : Nat]
  <2> SUFFICES ASSUME NEW r \in legacy'
               PROVE  r \in [id : Nat, trip : Trip, hash : Hash, fetched : Nat, seen : Nat]
    OBVIOUS
  <2>1. CASE r \in legacy
    BY <1>1, <2>1 DEF BackfillTypes
  <2>2. CASE \E q \in legacy : r = [q EXCEPT !.seen = poll.stamp]
    <3>1. PICK q \in legacy : r = [q EXCEPT !.seen = poll.stamp]
      BY <2>2
    <3>2. q \in [id : Nat, trip : Trip, hash : Hash, fetched : Nat, seen : Nat]
      BY <1>1 DEF BackfillTypes
    <3> QED
      BY <1>2, <3>1, <3>2
  <2>3. CASE Touched(r) /\ r = New(r.trip)
    <3> DEFINE t == r.trip
    <3>1. t \in Trip /\ poll.content[t] \in Hash
      BY <1>2, <2>3 DEF Touched
    <3>2. Id(poll.stamp, t) \in Nat
      BY <1>2, <3>1, IdBound
    <3>3. New(t) \in [id : Nat, trip : Trip, hash : Hash, fetched : Nat, seen : Nat]
      BY <1>2, <3>1, <3>2 DEF New
    <3> QED
      BY <2>3, <3>3
  <2> QED
    BY <1>1, <2>1, <2>2, <2>3, CommitRows
<1>4. live' \in Rows(Hash)
  <2>1. \A t \in Changed : Row(poll.content[t], poll.stamp) \in [is : Hash \cup {None}, seen : Nat]
    BY <1>2 DEF Row
  <2> QED
    BY <1>1, <2>1 DEF Commit, BackfillTypes, Rows
<1>5. samples' \in Rows(Delay)
  <2>1. \A t \in Changed : Row(DelayOf[poll.content[t]], poll.stamp) \in [is : Delay \cup {None}, seen : Nat]
    BY <1>2 DEF Row, Delay
  <2> QED
    BY <1>1, <2>1 DEF Commit, BackfillTypes, Rows
<1>6. freshness' \in [Trip -> Nat]
  BY <1>1, <1>2 DEF Commit, BackfillTypes
<1>7. lastDelay' \in [Trip -> Delay \cup {None}]
  <2>1. \A t \in Trip : CarriesDelay(t) => DelayOf[poll.content[t]] \in Delay
    BY <1>2 DEF CarriesDelay, Delay
  <2> QED
    BY <1>1, <2>1 DEF Commit, BackfillTypes
<1>8. mem' \in [Trip -> Hash \cup {None}] /\ poll' = NoPoll
  BY <1>2 DEF Commit
<1>9. UNCHANGED <<now, writesLegacy, retired, progress, job>>
  BY DEF Commit
<1> QED
  BY <1>1, <1>3, <1>4, <1>5, <1>6, <1>7, <1>8, <1>9 DEF BackfillTypes

\* Everything committed is older than the poll under way.
LEMMA OlderThanPoll ==
  ASSUME BackfillTypes, LegacyInv, PollInv, poll # NoPoll
  PROVE  /\ now \in Nat /\ poll.stamp = now
         /\ \A r \in legacy : r.trip \in Trip /\ r.seen \in Nat /\ 1 <= r.seen /\ r.seen < now
         /\ \A t \in Trip : /\ freshness[t] \in Nat /\ freshness[t] < now
                            /\ live[t].seen \in Nat /\ live[t].seen < now
                            /\ samples[t].seen \in Nat /\ samples[t].seen < now
<1>1. now \in Nat /\ poll.stamp = now
  BY DEF BackfillTypes, PollInv
<1>2. \A t \in Trip : /\ freshness[t] \in Nat /\ freshness[t] < now
                      /\ live[t].seen \in Nat /\ live[t].seen < now
                      /\ samples[t].seen \in Nat /\ samples[t].seen < now
  BY DEF BackfillTypes, PollInv, Settled, Rows
<1>3. ASSUME NEW r \in legacy
      PROVE r.trip \in Trip /\ r.seen \in Nat /\ 1 <= r.seen /\ r.seen < now
  <2>1. r.trip \in Trip /\ r.seen \in Nat
    BY DEF BackfillTypes
  <2>2. 1 <= r.seen /\ r.seen <= freshness[r.trip]
    BY DEF LegacyInv
  <2> QED
    BY <1>1, <1>2, <2>1, <2>2
<1> QED
  BY <1>1, <1>2, <1>3

LEMMA CommitLegacy == BackfillInv /\ Commit => LegacyInv'
<1> SUFFICES ASSUME BackfillInv, Commit PROVE LegacyInv'
  OBVIOUS
<1>1. BackfillTypes /\ LegacyInv /\ PollInv /\ poll # NoPoll
  BY DEF BackfillInv, Commit
<1>2. \E bound \in Nat : \A r \in legacy' : r.id <= bound
  <2>1. PICK bound \in Nat : \A r \in legacy : r.id <= bound
    BY <1>1 DEF LegacyInv
  <2>2. IdStep \in Nat /\ IdStep * now \in Nat
    BY <1>1, OlderThanPoll, BackfillAssumption
  <2>3. \A r \in legacy' : r.id <= bound + IdStep * now + IdStep
    <3> SUFFICES ASSUME NEW r \in legacy' PROVE r.id <= bound + IdStep * now + IdStep
      OBVIOUS
    <3>1. CASE r \in legacy
      <4>1. r.id \in Nat /\ r.id <= bound
        BY <1>1, <2>1, <3>1 DEF BackfillTypes
      <4> QED
        BY <2>2, <4>1
    <3>2. CASE \E q \in legacy : r = [q EXCEPT !.seen = poll.stamp]
      <4>1. PICK q \in legacy : r = [q EXCEPT !.seen = poll.stamp]
        BY <3>2
      <4>2. q.id \in Nat /\ q.id <= bound /\ r.id = q.id
        BY <1>1, <2>1, <4>1 DEF BackfillTypes
      <4> QED
        BY <2>2, <4>2
    <3>3. CASE Touched(r) /\ r = New(r.trip)
      <4>1. r.trip \in Trip
        BY <1>1, <3>3, PollKnown DEF Touched
      <4>2. r.id = Id(now, r.trip)
        BY <1>1, <3>3, OlderThanPoll DEF New
      <4>3. Id(now, r.trip) \in Nat /\ Id(now, r.trip) <= IdStep * now + IdStep
        BY <1>1, <4>1, IdBound, OlderThanPoll
      <4> QED
        BY <2>2, <4>2, <4>3
    <3> QED
      BY <1>1, <3>1, <3>2, <3>3, CommitRows
  <2> QED
    BY <2>2, <2>3
<1>3. \A r \in legacy' : 1 <= r.seen /\ r.seen <= freshness'[r.trip]
  <2> SUFFICES ASSUME NEW r \in legacy' PROVE 1 <= r.seen /\ r.seen <= freshness'[r.trip]
    OBVIOUS
  <2>1. \A t \in Trip : freshness'[t] = IF t \in poll.seen THEN now ELSE freshness[t]
    BY <1>1, OlderThanPoll DEF Commit
  <2>2. CASE r \in legacy
    BY <1>1, <2>1, <2>2, OlderThanPoll DEF LegacyInv
  <2>3. CASE Touched(r) /\ r.seen = poll.stamp
    <3>1. r.trip \in Trip /\ r.trip \in poll.seen
      BY <1>1, <2>3, PollKnown DEF Touched
    <3>2. now \in Nat /\ freshness[r.trip] \in Nat /\ freshness[r.trip] < now /\ r.seen = now
      BY <1>1, <2>3, <3>1, OlderThanPoll
    <3> QED
      BY <2>1, <3>1, <3>2
  <2> QED
    BY <1>1, <2>2, <2>3, CommitRows
<1>4. ASSUME NEW r \in legacy', NEW q \in legacy', r.trip = q.trip, r.hash = q.hash \/ r.seen = q.seen
      PROVE  r = q
  <2>1. CASE r \in legacy /\ q \in legacy
    BY <1>1, <1>4, <2>1 DEF LegacyInv
  <2>2. ASSUME NEW x \in legacy', NEW y \in legacy', x.trip = y.trip,
               x \in legacy, writesLegacy => ~Touched(x),
               Touched(y), y.seen = poll.stamp, writesLegacy
        PROVE  x.hash # y.hash /\ x.seen # y.seen
    <3>1. x.seen < now /\ x.seen \in Nat /\ y.seen = now /\ now \in Nat
      BY <1>1, <2>2, OlderThanPoll
    <3> QED
      BY <2>2, <3>1 DEF Touched
  <2>3. ASSUME Touched(r), Touched(q),
               \/ r = New(r.trip) /\ ~\E x \in legacy : x.trip = r.trip /\ x.hash = r.hash
               \/ \E x \in legacy : r = [x EXCEPT !.seen = poll.stamp],
               \/ q = New(q.trip) /\ ~\E x \in legacy : x.trip = q.trip /\ x.hash = q.hash
               \/ \E x \in legacy : q = [x EXCEPT !.seen = poll.stamp]
        PROVE  r = q
    <3>1. r.hash = q.hash
      BY <1>4, <2>3 DEF Touched
    <3>2. \A x \in legacy : LET y == [x EXCEPT !.seen = poll.stamp]
                            IN  y.trip = x.trip /\ y.hash = x.hash
      BY <1>1 DEF BackfillTypes
    <3>3. CASE \E x \in legacy : r = [x EXCEPT !.seen = poll.stamp]
      <4>1. PICK x \in legacy : r = [x EXCEPT !.seen = poll.stamp]
        BY <3>3
      <4>2. x.trip = r.trip /\ x.hash = r.hash
        BY <3>2, <4>1
      <4>3. PICK y \in legacy : q = [y EXCEPT !.seen = poll.stamp]
        BY <1>4, <2>3, <3>1, <4>2
      <4>4. y.trip = q.trip /\ y.hash = q.hash
        BY <3>2, <4>3
      <4>5. x = y
        BY <1>1, <1>4, <3>1, <4>2, <4>4 DEF LegacyInv
      <4> QED
        BY <4>1, <4>3, <4>5
    <3>4. CASE ~\E x \in legacy : r = [x EXCEPT !.seen = poll.stamp]
      <4>1. r = New(r.trip) /\ ~\E x \in legacy : x.trip = r.trip /\ x.hash = r.hash
        BY <2>3, <3>4
      <4>2. ~\E y \in legacy : q = [y EXCEPT !.seen = poll.stamp]
        BY <1>4, <3>1, <3>2, <4>1
      <4> QED
        BY <1>4, <2>3, <4>1, <4>2
    <3> QED
      BY <3>3, <3>4
  <2> QED
    BY <1>1, <1>4, <2>1, <2>2, <2>3, CommitRows
<1>5. retired' => legacy' = {} /\ job' = NoJob
  BY <1>1 DEF LegacyInv, Commit
<1> QED
  BY <1>2, <1>3, <1>4, <1>5 DEF LegacyInv

LEMMA CommitPoll == BackfillInv /\ Commit => PollInv' /\ BoardAgreesWithMemory'
<1> SUFFICES ASSUME BackfillInv, Commit PROVE PollInv' /\ BoardAgreesWithMemory'
  OBVIOUS
<1>1. BackfillTypes /\ LegacyInv /\ PollInv /\ poll # NoPoll /\ BoardAgreesWithMemory
  BY DEF BackfillInv, Commit
<1>2. poll' = NoPoll /\ now' = now /\ mem' = poll.content
  BY DEF Commit
<1>3. ASSUME NEW t \in Trip
      PROVE  Settled(freshness[t])' /\ Settled(live[t].seen)' /\ Settled(samples[t].seen)'
  <2>1. /\ freshness'[t] \in {now, freshness[t]}
        /\ live'[t].seen \in {now, live[t].seen}
        /\ samples'[t].seen \in {now, samples[t].seen}
    BY <1>1, OlderThanPoll DEF Commit, Row
  <2> QED
    BY <1>1, <1>2, <2>1, OlderThanPoll DEF Settled
<1>4. ASSUME NEW t \in Trip, mem'[t] # None PROVE live'[t].is = mem'[t]
  <2>1. CASE t \in Changed
    BY <1>2, <2>1 DEF Commit, Row
  <2>2. CASE t \notin Changed
    <3>1. poll.content[t] = mem[t] /\ mem[t] # None /\ mem # Unloaded
      BY <1>1, <1>2, <1>4, <2>2, Loaded DEF Changed, PollInv
    <3> QED
      BY <1>1, <1>2, <2>2, <3>1 DEF Commit, BoardAgreesWithMemory
  <2> QED
    BY <2>1, <2>2
<1> QED
  BY <1>2, <1>3, <1>4 DEF PollInv, BoardAgreesWithMemory

\* A delay is new only in a state that is: one that the collector remembers is
\* on the board, with the delay reported last.
LEMMA DelayKept ==
  ASSUME BackfillInv, Commit, NEW t \in Trip, ~(t \in Changed /\ CarriesDelay(t))
  PROVE  lastDelay'[t] = lastDelay[t]
<1>1. lastDelay'[t] = IF CarriesDelay(t) THEN DelayOf[poll.content[t]] ELSE lastDelay[t]
  BY DEF Commit
<1>2. CASE CarriesDelay(t)
  <2>1. poll.content[t] = mem[t] /\ mem[t] # None /\ mem # Unloaded /\ DelayOf[mem[t]] # None
    BY <1>2, Loaded DEF Changed, CarriesDelay, BackfillInv, PollInv, Commit
  <2>2. live[t].is = mem[t] /\ live[t] # NoRow
    BY <2>1 DEF BackfillInv, BoardAgreesWithMemory, NoRow
  <2>3. lastDelay[t] = DelayOf[mem[t]]
    BY <2>1, <2>2 DEF BackfillInv, LiveInv
  <2> QED
    BY <1>1, <1>2, <2>1, <2>3
<1> QED
  BY <1>1, <1>2

LEMMA CommitLive == BackfillInv /\ Commit => LiveInv'
<1> SUFFICES ASSUME BackfillInv, Commit PROVE LiveInv'
  OBVIOUS
<1>1. BackfillTypes /\ LegacyInv /\ PollInv /\ poll # NoPoll /\ LiveInv /\ BoardAgreesWithMemory
  BY DEF BackfillInv, Commit
<1>2. /\ \A t \in Trip : live'[t] = IF t \in Changed THEN Row(poll.content[t], now) ELSE live[t]
      /\ UNCHANGED <<writesLegacy, retired, job>>
  BY <1>1, OlderThanPoll DEF Commit
<1>3. \A t \in Changed : t \in Trip /\ poll.content[t] # None /\ live'[t] # NoRow
                         /\ live'[t].is = poll.content[t] /\ live'[t].seen = now
  <2> TAKE t \in Changed
  <2>1. t \in Trip /\ poll.content[t] # None
    BY <1>1, PollKnown
  <2>2. live'[t] = Row(poll.content[t], now)
    BY <1>2, <2>1
  <2>3. live'[t].is = poll.content[t] /\ live'[t].seen = now /\ NoRow.is = None
    BY <2>2 DEF Row, NoRow
  <2> QED
    BY <2>1, <2>3
<1>4. \A t \in Trip \ Changed : \A r : r.trip = t => (r \in legacy' <=> r \in legacy)
  BY <1>1, CommitRows DEF Touched
<1>5. ASSUME NEW r \in legacy', live'[r.trip] # NoRow PROVE Older(r, live'[r.trip])
  <2>1. CASE r.trip \in Changed
    <3>1. r.seen < now \/ (r.seen = now /\ r.hash = poll.content[r.trip])
      BY <1>1, CommitRows, OlderThanPoll DEF Touched
    <3> QED
      BY <1>3, <2>1, <3>1 DEF Older
  <2>2. CASE r.trip \notin Changed
    <3>1. r \in legacy /\ r.trip \in Trip
      BY <1>1, <2>2, CommitRows, OlderThanPoll DEF Touched
    <3> QED
      BY <1>1, <1>2, <1>5, <2>2, <3>1 DEF LiveInv, Older
  <2> QED
    BY <2>1, <2>2
<1>6. ASSUME NEW t \in Trip, live'[t] # NoRow, DelayOf[live'[t].is] # None
      PROVE  lastDelay'[t] = DelayOf[live'[t].is]
  <2>1. CASE t \in Changed
    <3>1. CarriesDelay(t)
      BY <1>3, <1>6, <2>1 DEF CarriesDelay
    <3> QED
      BY <1>1, <1>3, <2>1, <3>1, CommitDelays
  <2>2. CASE t \notin Changed
    BY <1>1, <1>2, <1>6, <2>2, DelayKept DEF LiveInv
  <2> QED
    BY <2>1, <2>2
<1>7. ASSUME NEW t \in Trip, live'[t] = NoRow, NEW r \in legacy', NewestDelay(r, t)'
      PROVE  lastDelay'[t] = DelayOf[r.hash]
  <2>1. t \notin Changed /\ live[t] = NoRow
    BY <1>2, <1>3, <1>7
  <2>2. lastDelay'[t] = lastDelay[t] /\ DelayRows(t)' = DelayRows(t)
    BY <1>1, <2>1, DelayKept, CommitDelays
  <2>3. r \in legacy /\ NewestDelay(r, t)
    BY <1>7, <2>2 DEF NewestDelay, DelayRows
  <2> QED
    BY <1>1, <2>1, <2>2, <2>3 DEF LiveInv
<1>8. ASSUME NEW t \in Trip, writesLegacy', ~retired', live'[t] # NoRow
      PROVE  \E r \in legacy' : r.trip = t /\ r.hash = live'[t].is /\ r.seen = live'[t].seen
  <2>1. CASE t \in Changed
    <3>1. PICK r \in legacy' : r.trip = t /\ Touched(r)
      BY <1>1, <1>2, <1>8, <2>1, CommitRows
    <3>2. r.hash = poll.content[t] /\ r.seen = now
      BY <1>1, <3>1, <1>2, <1>8, CommitRows, OlderThanPoll DEF Touched
    <3> QED
      BY <1>3, <2>1, <3>1, <3>2
  <2>2. CASE t \notin Changed
    <3>1. PICK r \in legacy : r.trip = t /\ r.hash = live[t].is /\ r.seen = live[t].seen
      BY <1>1, <1>2, <1>8, <2>2 DEF LiveInv
    <3> QED
      BY <1>2, <1>4, <2>2, <3>1
  <2> QED
    BY <2>1, <2>2
<1>9. ASSUME job'.phase = "live", job'.at = "write", NEW t \in Trip, job'.rows[t] # NoRow
      PROVE  IF live'[t] # NoRow
             THEN job'.rows[t] = live'[t] \/ job'.rows[t].seen < live'[t].seen
             ELSE /\ \E r \in legacy' : r.trip = t /\ Row(r.hash, r.seen) = job'.rows[t]
                  /\ \A r \in legacy' : r.trip = t => Older(r, job'.rows[t])
  <2>1. IF live[t] # NoRow
        THEN job.rows[t] = live[t] \/ job.rows[t].seen < live[t].seen
        ELSE /\ \E r \in legacy : r.trip = t /\ Row(r.hash, r.seen) = job.rows[t]
             /\ \A r \in legacy : r.trip = t => Older(r, job.rows[t])
    BY <1>1, <1>2, <1>9 DEF LiveInv
  <2>2. CASE t \in Changed
    <3>1. job.rows[t].seen \in Nat
      BY <1>1 DEF BackfillTypes, Rows
    <3>2. job.rows[t].seen < now
      <4>1. CASE live[t] # NoRow
        BY <1>1, <2>1, <3>1, <4>1, OlderThanPoll
      <4>2. CASE live[t] = NoRow
        <5>1. PICK r \in legacy : Row(r.hash, r.seen) = job.rows[t]
          BY <2>1, <4>2
        <5> QED
          BY <1>1, <5>1, OlderThanPoll DEF Row
      <4> QED
        BY <4>1, <4>2
    <3> QED
      BY <1>2, <1>3, <2>2, <3>2
  <2>3. CASE t \notin Changed
    <3>1. live'[t] = live[t] /\ job' = job
      BY <1>2, <2>3
    <3>2. \A r : r.trip = t => (r \in legacy' <=> r \in legacy)
      BY <1>4, <2>3
    <3>3. CASE live[t] # NoRow
      BY <2>1, <3>1, <3>3
    <3>4. CASE live[t] = NoRow
      <4>1. PICK r \in legacy : r.trip = t /\ Row(r.hash, r.seen) = job.rows[t]
        BY <2>1, <3>4
      <4>2. \A q \in legacy' : q.trip = t => Older(q, job.rows[t])
        BY <2>1, <3>2, <3>4
      <4> QED
        BY <3>1, <3>2, <3>4, <4>1, <4>2
    <3> QED
      BY <3>3, <3>4
  <2> QED
    BY <2>2, <2>3
<1>10. (\A r \in legacy : live[r.trip] # NoRow => Older(r, live[r.trip]))'
  BY <1>5 DEF Older
<1>11. (job.phase = "live" /\ job.at = "write" =>
         \A t \in Trip : job.rows[t] # NoRow =>
           IF live[t] # NoRow
           THEN job.rows[t] = live[t] \/ job.rows[t].seen < live[t].seen
           ELSE /\ \E r \in legacy : r.trip = t /\ Row(r.hash, r.seen) = job.rows[t]
                /\ \A r \in legacy : r.trip = t => Older(r, job.rows[t]))'
  BY <1>9 DEF Older, Row, NoRow
<1> QED
  BY <1>6, <1>7, <1>8, <1>10, <1>11 DEF LiveInv, NoRow, Row

LEMMA CommitSample == BackfillInv /\ Commit => SampleInv'
<1> SUFFICES ASSUME BackfillInv, Commit PROVE SampleInv'
  OBVIOUS
<1>1. BackfillTypes /\ LegacyInv /\ PollInv /\ poll # NoPoll /\ SampleInv
  BY DEF BackfillInv, Commit
<1>2. UNCHANGED <<writesLegacy, retired, job>> /\ now \in Nat /\ poll.stamp = now
  BY <1>1, OlderThanPoll DEF Commit
<1> DEFINE Carried(t) == t \in Changed /\ CarriesDelay(t)
<1>3. ASSUME NEW t \in Trip, Carried(t)
      PROVE  /\ samples'[t].is = lastDelay'[t] /\ samples'[t].seen = now
             /\ \A r \in DelayRows(t)' : now <= r.seen => lastDelay'[t] = DelayOf[r.hash]
             /\ writesLegacy => \E r \in DelayRows(t)' : r.seen = now
  <2>1. /\ samples'[t] = Row(DelayOf[poll.content[t]], poll.stamp)
        /\ lastDelay'[t] = DelayOf[poll.content[t]]
        /\ \A r \in DelayRows(t)' : r.seen \in Nat
             /\ (r.seen < now \/ (r.seen = now /\ r.hash = poll.content[t]))
        /\ writesLegacy => \E r \in DelayRows(t)' : r.seen = now
    BY <1>1, <1>3, CommitDelays
  <2>2. samples'[t].is = lastDelay'[t] /\ samples'[t].seen = now
    BY <1>2, <2>1 DEF Row
  <2>3. \A r \in DelayRows(t)' : now <= r.seen => lastDelay'[t] = DelayOf[r.hash]
    BY <1>2, <2>1
  <2> QED
    BY <2>1, <2>2, <2>3
<1>4. ASSUME NEW t \in Trip, ~Carried(t)
      PROVE  UNCHANGED <<samples[t], lastDelay[t], DelayRows(t)>>
  BY <1>1, <1>4, CommitDelays, DelayKept
<1> HIDE DEF Carried
<1>5. ASSUME NEW t \in Trip, ~retired', \A r \in DelayRows(t)' : Covers(samples'[t], r)
      PROVE  samples'[t].is = lastDelay'[t]
  <2>1. CASE Carried(t)
    BY <1>3, <2>1
  <2>2. CASE ~Carried(t)
    BY <1>1, <1>2, <1>4, <1>5, <2>2 DEF SampleInv, DelayTold
  <2> QED
    BY <2>1, <2>2
<1>6. ASSUME NEW t \in Trip, NEW r \in legacy', NewestDelay(r, t)',
             samples'[t].seen <= r.seen \/ (writesLegacy' /\ ~retired')
      PROVE  lastDelay'[t] = DelayOf[r.hash]
  <2>1. CASE Carried(t)
    <3>1. r \in DelayRows(t)'
      BY <1>6 DEF NewestDelay
    <3>2. now <= r.seen
      BY <1>2, <1>3, <1>6, <2>1 DEF NewestDelay
    <3> QED
      BY <1>3, <2>1, <3>1, <3>2
  <2>2. CASE ~Carried(t)
    <3>1. UNCHANGED <<samples[t], lastDelay[t], DelayRows(t)>>
      BY <1>4, <2>2
    <3>2. r \in legacy /\ NewestDelay(r, t)
      BY <1>6, <3>1 DEF NewestDelay, DelayRows
    <3> QED
      BY <1>1, <1>2, <1>6, <3>1, <3>2 DEF SampleInv, DelayTold
  <2> QED
    BY <2>1, <2>2
<1>7. ASSUME NEW t \in Trip, writesLegacy', ~retired', DelayRows(t)' = {}
      PROVE  lastDelay'[t] = None
  <2>1. ~Carried(t)
    BY <1>2, <1>3, <1>7
  <2> QED
    BY <1>1, <1>2, <1>4, <1>7, <2>1 DEF SampleInv, DelayTold
<1>8. ASSUME job'.phase \in {"samples", "refresh_samples"}, job'.at = "write",
             NEW t \in Trip, job'.rows[t] # NoRow
      PROVE  \/ job'.rows[t].seen < samples'[t].seen
             \/ \E r \in DelayRows(t)' : Row(DelayOf[r.hash], r.seen) = job'.rows[t]
  <2>1. \/ job.rows[t].seen < samples[t].seen
        \/ \E r \in DelayRows(t) : Row(DelayOf[r.hash], r.seen) = job.rows[t]
    BY <1>1, <1>2, <1>8 DEF SampleInv, ReadIsThere
  <2>2. CASE Carried(t)
    <3>1. job.rows[t].seen \in Nat
      BY <1>1 DEF BackfillTypes, Rows
    <3>2. CASE job.rows[t].seen < samples[t].seen
      BY <1>1, <1>2, <1>3, <2>2, <3>1, <3>2, OlderThanPoll
    <3>3. CASE \E r \in DelayRows(t) : Row(DelayOf[r.hash], r.seen) = job.rows[t]
      <4>1. PICK r \in legacy : Row(DelayOf[r.hash], r.seen) = job.rows[t]
        BY <3>3 DEF DelayRows
      <4>2. job.rows[t].seen < now
        BY <1>1, <4>1, OlderThanPoll DEF Row
      <4> QED
        BY <1>2, <1>3, <2>2, <4>2
    <3> QED
      BY <2>1, <3>2, <3>3
  <2>3. CASE ~Carried(t)
    BY <1>2, <1>4, <2>1, <2>3
  <2> QED
    BY <2>2, <2>3
<1>9. ASSUME NEW t \in Trip PROVE DelayTold(t)'
  <2>1. (~retired /\ (\A r \in DelayRows(t) : Covers(samples[t], r)) => samples[t].is = lastDelay[t])'
    BY <1>5 DEF Covers
  <2>2. (\A r \in legacy :
          NewestDelay(r, t) /\ samples[t].seen <= r.seen => lastDelay[t] = DelayOf[r.hash])'
    <3> SUFFICES ASSUME NEW r \in legacy', NewestDelay(r, t)', samples'[t].seen <= r.seen
                 PROVE  lastDelay'[t] = DelayOf[r.hash]
      OBVIOUS
    <3> QED
      BY <1>6
  <2>3. (writesLegacy /\ ~retired =>
          /\ \A r \in legacy : NewestDelay(r, t) => lastDelay[t] = DelayOf[r.hash]
          /\ DelayRows(t) = {} => lastDelay[t] = None)'
    BY <1>6, <1>7
  <2> QED
    BY <2>1, <2>2, <2>3 DEF DelayTold
<1>10. (\A t \in Trip : ReadIsThere(t))' \/ ~(job'.phase \in {"samples", "refresh_samples"} /\ job'.at = "write")
  BY <1>8 DEF ReadIsThere, NoRow, Row
<1> QED
  BY <1>9, <1>10 DEF SampleInv

\* A trip that is gone is in no response any more.
LEMMA CommitPasses ==
  ASSUME BackfillInv, Commit, NEW t \in Trip
  PROVE  (Gone(t) => Gone(t)') /\ (Passed(t) => Passed(t)')
<1>1. BackfillTypes /\ LegacyInv /\ PollInv /\ poll # NoPoll
  BY DEF BackfillInv, Commit
<1>2. /\ freshness[t] \in Nat /\ now \in Nat /\ freshness[t] < now /\ Window \in Nat
      /\ freshness'[t] = IF t \in poll.seen THEN now ELSE freshness[t]
  BY <1>1, OlderThanPoll, BackfillAssumption DEF Commit
<1>3. t \in poll.seen => freshness[t] = 0 \/ now - freshness[t] < Window
  BY <1>1 DEF PollInv
<1>4. UNCHANGED <<now, progress>> /\ progress["delay_samples"].asOf \in Nat
  BY <1>1 DEF Commit, BackfillTypes, Tracked
<1>5. Gone(t) => Gone(t)'
  BY <1>2, <1>3, <1>4 DEF Gone
<1>6. freshness[t] > progress["delay_samples"].asOf => freshness'[t] > progress'["delay_samples"].asOf
  BY <1>2, <1>4
<1> QED
  BY <1>5, <1>6 DEF Passed

\* A row of the legacy table with a delay is one the statistics have, or was
\* there before.
LEMMA CommitCovers ==
  ASSUME BackfillInv, Commit, NEW t \in Trip, NEW r \in DelayRows(t)'
  PROVE  Covers(samples'[t], r) \/ (r \in DelayRows(t) /\ samples'[t] = samples[t])
<1>1. BackfillTypes /\ LegacyInv /\ PollInv /\ poll # NoPoll
  BY DEF BackfillInv, Commit
<1>2. CASE t \in Changed /\ CarriesDelay(t)
  <2>1. samples'[t] = Row(DelayOf[poll.content[t]], now)
        /\ (r.seen < now \/ (r.seen = now /\ r.hash = poll.content[t]))
    BY <1>1, <1>2, CommitDelays, OlderThanPoll
  <2> QED
    BY <2>1 DEF Covers, Row
<1>3. CASE ~(t \in Changed /\ CarriesDelay(t))
  BY <1>1, <1>3, CommitDelays
<1> QED
  BY <1>2, <1>3

LEMMA CommitCopy == BackfillInv /\ Commit => CopyInv' /\ StatisticsKept'
<1> SUFFICES ASSUME BackfillInv, Commit PROVE CopyInv' /\ StatisticsKept'
  OBVIOUS
<1>1. CopyInv /\ StatisticsKept /\ BackfillTypes /\ LegacyInv /\ PollInv
  BY DEF BackfillInv
<1>2. UNCHANGED <<now, progress, job, retired>>
  BY DEF Commit
<1>3. Complete("delay_samples")' = Complete("delay_samples")
      /\ Complete("delay_refresh")' = Complete("delay_refresh")
      /\ Upper("delay_samples")' = Upper("delay_samples")
  BY <1>2 DEF Complete, Upper
<1>4. ASSUME progress'["delay_samples"].started, NEW t \in Trip, ~Passed(t)', NEW r \in DelayRows(t)',
             ~(r.id > progress'["delay_samples"].last /\ r.id <= progress'["delay_samples"].target)
      PROVE  Covers(samples'[t], r)
  BY <1>1, <1>2, <1>4, CommitPasses, CommitCovers DEF CopyInv
<1>5. ASSUME job'.phase = "samples", job'.at = "write", NEW t \in Trip, ~Passed(t)',
             NEW r \in DelayRows(t)', progress'["delay_samples"].last < r.id,
             r.id <= Upper("delay_samples")'
      PROVE  Covers(samples'[t], r) \/ Covers(job'.rows[t], r)
  BY <1>1, <1>2, <1>3, <1>5, CommitPasses, CommitCovers DEF CopyInv, Held
<1>6. ASSUME progress'["delay_refresh"].started, NEW t \in Trip,
             Bucket[t] < progress'["delay_refresh"].last, ~Gone(t)', NEW r \in DelayRows(t)'
      PROVE  Covers(samples'[t], r)
  BY <1>1, <1>2, <1>6, CommitPasses, CommitCovers DEF CopyInv
<1>7. ASSUME job'.phase = "refresh_samples", job'.at = "write", NEW t \in Trip,
             Bucket[t] = progress'["delay_refresh"].last, ~Gone(t)', NEW r \in DelayRows(t)'
      PROVE  Covers(samples'[t], r) \/ Covers(job'.rows[t], r)
  BY <1>1, <1>2, <1>7, CommitPasses, CommitCovers DEF CopyInv, Held
<1>8. CopyInv'
  <2>1. progress["delay_samples"].started => \A t \in Trip : Passed(t)' \/
          \A r \in DelayRows(t)' :
            \/ Covers(samples'[t], r)
            \/ r.id > progress["delay_samples"].last /\ r.id <= progress["delay_samples"].target
    BY <1>2, <1>4
  <2>2. job.phase = "samples" /\ job.at = "write" => \A t \in Trip : Passed(t)' \/
          \A r \in DelayRows(t)' :
            progress["delay_samples"].last < r.id /\ r.id <= Upper("delay_samples")' =>
              Covers(samples'[t], r) \/ Covers(job.rows[t], r)
    BY <1>2, <1>5
  <2>3. progress["delay_refresh"].started => \A t \in Trip : Bucket[t] < progress["delay_refresh"].last =>
          Gone(t)' \/ \A r \in DelayRows(t)' : Covers(samples'[t], r)
    BY <1>2, <1>6
  <2>4. job.phase = "refresh_samples" /\ job.at = "write" =>
          \A t \in Trip : Bucket[t] = progress["delay_refresh"].last =>
            Gone(t)' \/ \A r \in DelayRows(t)' : Covers(samples'[t], r) \/ Covers(job.rows[t], r)
    BY <1>2, <1>7
  <2> QED
    BY <1>1, <1>2, <1>3, <2>1, <2>2, <2>3, <2>4 DEF CopyInv, Held, Covers
<1>9. StatisticsKept'
  <2> SUFFICES ASSUME retired, Complete("delay_samples"), Complete("delay_refresh"), NEW t \in Trip
               PROVE  Gone(t)' \/ samples'[t].is = lastDelay'[t]
    BY <1>2, <1>3 DEF StatisticsKept
  <2>1. Gone(t) \/ samples[t].is = lastDelay[t]
    BY <1>1 DEF StatisticsKept
  <2>2. CASE t \in Changed /\ CarriesDelay(t)
    <3>1. samples'[t] = Row(DelayOf[poll.content[t]], poll.stamp)
          /\ lastDelay'[t] = DelayOf[poll.content[t]]
      BY <1>1, <2>2, CommitDelays
    <3> QED
      BY <3>1 DEF Row
  <2>3. CASE ~(t \in Changed /\ CarriesDelay(t))
    BY <1>1, <2>1, <2>3, CommitDelays, CommitPasses, DelayKept
  <2> QED
    BY <2>2, <2>3
<1> QED
  BY <1>8, <1>9

LEMMA CommitArchive == BackfillInv /\ Commit => ArchiveInv'
<1> SUFFICES ASSUME BackfillInv, Commit PROVE ArchiveInv'
  OBVIOUS
<1>1. ArchiveInv /\ BackfillTypes /\ LegacyInv /\ PollInv /\ poll # NoPoll
  BY DEF BackfillInv, Commit
<1>2. UNCHANGED <<progress, tripsCopied>>
      /\ archive' = archive \cup {<<t, poll.content[t], poll.stamp>> : t \in Changed}
      /\ tripArchive' = tripArchive \cup {<<t, poll.stamp>> : t \in poll.seen}
      /\ freshness' = [t \in Trip |-> IF t \in poll.seen THEN poll.stamp ELSE freshness[t]]
  BY DEF Commit
<1>3. ASSUME progress["stop_archive"].started, NEW r \in legacy'
      PROVE  \/ StopIdentity(r) \in archive'
             \/ r.id > progress["stop_archive"].last /\ r.id <= progress["stop_archive"].target
  <2>1. CASE r \in legacy
    BY <1>1, <1>2, <1>3, <2>1 DEF ArchiveInv
  <2>2. CASE \E q \in legacy : r = [q EXCEPT !.seen = poll.stamp]
    <3>1. PICK q \in legacy : r = [q EXCEPT !.seen = poll.stamp]
      BY <2>2
    <3>2. r.id = q.id /\ StopIdentity(r) = StopIdentity(q)
      BY <1>1, <3>1 DEF BackfillTypes, StopIdentity
    <3> QED
      BY <1>1, <1>2, <1>3, <3>1, <3>2 DEF ArchiveInv
  <2>3. CASE Touched(r) /\ r = New(r.trip)
    <3>1. StopIdentity(r) = <<r.trip, poll.content[r.trip], poll.stamp>> /\ r.trip \in Changed
      BY <2>3 DEF StopIdentity, New, Touched
    <3> QED
      BY <1>2, <3>1
  <2> QED
    BY <1>1, <2>1, <2>2, <2>3, CommitRows
<1>4. ASSUME tripsCopied, NEW t \in Trip, freshness'[t] # 0
      PROVE  <<t, freshness'[t]>> \in tripArchive'
  <2>1. CASE t \in poll.seen
    BY <1>2, <2>1
  <2>2. CASE t \notin poll.seen
    BY <1>1, <1>2, <1>4, <2>2 DEF ArchiveInv, TripArchiveMissing, TripIdentity
  <2> QED
    BY <2>1, <2>2
<1>5. (tripsCopied => TripArchiveMissing = {})'
  BY <1>2, <1>4 DEF TripArchiveMissing, TripIdentity
<1> QED
  BY <1>2, <1>3, <1>5 DEF ArchiveInv, StopIdentity

-----------------------------------------------------------------------------
(* What a step leaves alone that leaves the variables alone.               *)

LEMMA LegacyFrame ==
  ASSUME LegacyInv, UNCHANGED <<legacy, freshness, retired>>, retired => job' = job
  PROVE  LegacyInv'
BY DEF LegacyInv, NoJob, NoRow

LEMMA LiveFrame ==
  ASSUME LiveInv, UNCHANGED <<legacy, live, lastDelay, writesLegacy, retired>>,
         job' = job \/ job'.phase # "live" \/ job'.at # "write"
  PROVE  LiveInv'
BY DEF LiveInv, Older, NewestDelay, DelayRows, Row, NoRow

LEMMA SampleFrame ==
  ASSUME SampleInv, UNCHANGED <<legacy, samples, lastDelay, writesLegacy, retired>>,
         job' = job \/ job'.phase \notin {"samples", "refresh_samples"} \/ job'.at # "write"
  PROVE  SampleInv'
<1>1. \A t \in Trip : DelayTold(t)'
  BY DEF SampleInv, DelayTold, Covers, NewestDelay, DelayRows
<1>2. job' = job => \A t \in Trip : ReadIsThere(t)' <=> ReadIsThere(t)
  BY DEF ReadIsThere, DelayRows, Row, NoRow
<1> QED
  BY <1>1, <1>2 DEF SampleInv

LEMMA GoneFrame ==
  ASSUME BackfillTypes, now' \in Nat, now <= now', UNCHANGED freshness, NEW t \in Trip
  PROVE  Gone(t) => Gone(t)'
BY BackfillAssumption DEF Gone, BackfillTypes

LEMMA CopyFrame ==
  ASSUME BackfillTypes, CopyInv, now' \in Nat, now <= now', UNCHANGED <<legacy, samples, freshness>>,
         UNCHANGED <<progress["delay_samples"], progress["delay_refresh"]>>,
         job' = job \/ job'.phase \notin {"samples", "refresh_samples"}
  PROVE  CopyInv'
<1>1. \A t \in Trip : (Gone(t) => Gone(t)') /\ (Passed(t) => Passed(t)')
  BY GoneFrame DEF Passed
<1>2. Complete("delay_samples")' = Complete("delay_samples")
      /\ Upper("delay_samples")' = Upper("delay_samples")
  BY DEF Complete, Upper
<1>3. \A t \in Trip : DelayRows(t)' = DelayRows(t)
  BY DEF DelayRows
<1>4. job' = job => \A t \in Trip : \A r \in DelayRows(t) : Held(t, r)' <=> Held(t, r)
  BY DEF Held, Covers
<1>5. progress["delay_samples"].started => progress["delay_samples"].asOf <= now'
  BY DEF CopyInv, BackfillTypes, Tracked
<1>6. progress["delay_samples"].started => \A t \in Trip : Passed(t)' \/
         \A r \in DelayRows(t)' :
           \/ Covers(samples'[t], r)
           \/ r.id > progress["delay_samples"].last /\ r.id <= progress["delay_samples"].target
  BY <1>1, <1>3 DEF CopyInv
<1>7. job'.phase = "samples" =>
       /\ progress["delay_samples"].started
       /\ job'.asOf = progress["delay_samples"].asOf
       /\ job'.at = "write" =>
            \A t \in Trip : Passed(t)' \/
              \A r \in DelayRows(t)' :
                progress["delay_samples"].last < r.id /\ r.id <= Upper("delay_samples") => Held(t, r)'
  BY <1>1, <1>3, <1>4 DEF CopyInv
<1>8. progress["delay_refresh"].started =>
       /\ Complete("delay_samples") /\ progress["delay_refresh"].target = Buckets
       /\ \A t \in Trip : Bucket[t] < progress["delay_refresh"].last =>
            Gone(t)' \/ \A r \in DelayRows(t)' : Covers(samples'[t], r)
  BY <1>1, <1>3 DEF CopyInv
<1>9. job'.phase = "refresh_samples" =>
       /\ progress["delay_refresh"].started
       /\ job'.asOf = progress["delay_samples"].asOf
       /\ job'.at = "write" =>
            \A t \in Trip : Bucket[t] = progress["delay_refresh"].last =>
              Gone(t)' \/ \A r \in DelayRows(t)' : Held(t, r)'
  BY <1>1, <1>3, <1>4 DEF CopyInv
<1>10. progress["delay_samples"].last <= progress["delay_samples"].target
  BY DEF CopyInv
<1> QED
  BY <1>2, <1>5, <1>6, <1>7, <1>8, <1>9, <1>10 DEF CopyInv, Covers

LEMMA StatisticsFrame ==
  ASSUME BackfillTypes, StatisticsKept, now' \in Nat, now <= now', UNCHANGED <<samples, freshness, lastDelay, retired>>,
         UNCHANGED <<progress["delay_samples"], progress["delay_refresh"]>>
  PROVE  StatisticsKept'
BY GoneFrame DEF StatisticsKept, Complete

LEMMA ArchiveFrame ==
  ASSUME ArchiveInv, UNCHANGED <<legacy, freshness, tripsCopied, progress["stop_archive"]>>,
         archive \subseteq archive', tripArchive \subseteq tripArchive'
  PROVE  ArchiveInv'
<1>1. \A r \in legacy : StopIdentity(r)' = StopIdentity(r)
  BY DEF StopIdentity
<1>2. \A t \in Trip : TripIdentity(t)' = TripIdentity(t)
  BY DEF TripIdentity
<1> QED
  BY <1>1, <1>2 DEF ArchiveInv, TripArchiveMissing

LEMMA FetchKeeps == BackfillInv /\ Fetch => BackfillInv'
<1> SUFFICES ASSUME BackfillInv, Fetch PROVE BackfillInv'
  OBVIOUS
<1>1. /\ BackfillTypes /\ LegacyInv /\ PollInv /\ LiveInv /\ BoardAgreesWithMemory
      /\ SampleInv /\ CopyInv /\ StatisticsKept /\ ArchiveInv
  BY DEF BackfillInv
<1>2. /\ poll = NoPoll /\ now' = now + 1 /\ now \in Nat /\ now' \in Nat /\ now <= now'
      /\ UNCHANGED <<writesLegacy, legacy, retired, projections, progress, job, lastDelay, tripsCopied>>
  BY <1>1 DEF Fetch, BackfillTypes
<1>3. PICK seen \in SUBSET {t \in Trip : freshness[t] = 0 \/ now' - freshness[t] < Window},
           content \in Content :
        /\ \A t \in Trip \ seen : content[t] = None
        /\ poll' = [at |-> "compared", stamp |-> now', seen |-> seen, content |-> content]
  BY DEF Fetch
<1>4. SavedStates \in [Trip -> Hash \cup {None}]
  BY <1>1 DEF SavedStates, BackfillTypes, Rows
<1>5. mem' \in [Trip -> Hash \cup {None}]
  BY <1>1, <1>4 DEF Fetch, BackfillTypes
<1>6. poll' \in AnyPoll
  BY <1>2, <1>3 DEF AnyPoll, Content
<1>7. BackfillTypes'
  BY <1>1, <1>2, <1>5, <1>6 DEF BackfillTypes, projections
<1>8. PollInv'
  <2>1. ASSUME NEW t \in Trip
        PROVE  /\ Settled(freshness[t])' /\ Settled(live[t].seen)' /\ Settled(samples[t].seen)'
    <3>1. /\ freshness[t] \in Nat /\ live[t].seen \in Nat /\ samples[t].seen \in Nat
          /\ freshness[t] <= now /\ live[t].seen <= now /\ samples[t].seen <= now
      BY <1>1 DEF BackfillTypes, Rows, PollInv, Settled
    <3> QED
      BY <1>2, <3>1 DEF Settled, projections
  <2>2. poll'.stamp = now' /\ poll'.content = content /\ poll'.seen = seen
    BY <1>3
  <2>3. \A t \in seen : freshness'[t] = 0 \/ now' - freshness'[t] < Window
    BY <1>2, <1>3 DEF projections
  <2> QED
    BY <1>3, <1>5, <2>1, <2>2, <2>3 DEF PollInv
<1>9. BoardAgreesWithMemory'
  <2>1. CASE mem = Unloaded
    <3>1. mem' = SavedStates /\ live' = live
      BY <1>2, <2>1 DEF Fetch, projections
    <3> QED
      BY <3>1 DEF SavedStates, BoardAgreesWithMemory
  <2>2. CASE mem # Unloaded
    BY <1>1, <1>2, <2>2 DEF Fetch, BoardAgreesWithMemory, projections
  <2> QED
    BY <2>1, <2>2
<1>10. LegacyInv' /\ LiveInv' /\ SampleInv' /\ CopyInv' /\ StatisticsKept' /\ ArchiveInv'
  <2>1. UNCHANGED <<legacy, freshness, retired, job, live, lastDelay, writesLegacy, samples, progress,
                    archive, tripArchive, tripsCopied>>
    BY <1>2 DEF projections
  <2> QED
    BY <1>1, <1>2, <2>1, LegacyFrame, LiveFrame, SampleFrame, CopyFrame, StatisticsFrame, ArchiveFrame
<1> QED
  BY <1>7, <1>8, <1>9, <1>10 DEF BackfillInv

\* A poll fails, or the collector is restarted.
LEMMA PollLost == BackfillInv /\ (PollFails \/ Restart) => BackfillInv'
<1> SUFFICES ASSUME BackfillInv, PollFails \/ Restart PROVE BackfillInv'
  OBVIOUS
<1>1. /\ BackfillTypes /\ LegacyInv /\ PollInv /\ LiveInv /\ BoardAgreesWithMemory
      /\ SampleInv /\ CopyInv /\ StatisticsKept /\ ArchiveInv
  BY DEF BackfillInv
<1>2. /\ poll' = NoPoll /\ mem' \in {mem, Unloaded} /\ now \in Nat
      /\ UNCHANGED <<now, writesLegacy, legacy, retired, archive, tripArchive, samples, live, freshness,
                     progress, job, lastDelay, tripsCopied>>
  BY <1>1 DEF PollFails, Restart, BackfillTypes, projections
<1>3. BackfillTypes'
  BY <1>1, <1>2 DEF BackfillTypes
<1>4. PollInv'
  BY <1>1, <1>2 DEF PollInv, Settled
<1>5. BoardAgreesWithMemory'
  BY <1>1, <1>2 DEF BoardAgreesWithMemory
<1>6. LegacyInv' /\ LiveInv' /\ SampleInv' /\ CopyInv' /\ StatisticsKept' /\ ArchiveInv'
  BY <1>1, <1>2, LegacyFrame, LiveFrame, SampleFrame, CopyFrame, StatisticsFrame, ArchiveFrame
<1> QED
  BY <1>3, <1>4, <1>5, <1>6 DEF BackfillInv

\* A step of the tools that touches neither the memory nor the polls.
LEMMA ToolFrame ==
  ASSUME PollInv, BoardAgreesWithMemory,
         UNCHANGED <<now, collector, live, freshness, samples>>
  PROVE  PollInv' /\ BoardAgreesWithMemory'
BY DEF collector, PollInv, BoardAgreesWithMemory, Settled

\* A job ends, by itself or not.
LEMMA JobEnds ==
  ASSUME BackfillInv, job' = NoJob,
         UNCHANGED <<now, writesLegacy, legacy, retired, projections, progress, collector, lastDelay,
                     tripsCopied>>
  PROVE  BackfillInv'
<1>1. /\ BackfillTypes /\ LegacyInv /\ PollInv /\ LiveInv /\ BoardAgreesWithMemory
      /\ SampleInv /\ CopyInv /\ StatisticsKept /\ ArchiveInv
  BY DEF BackfillInv
<1>2. UNCHANGED <<archive, tripArchive, samples, live, freshness, mem, poll>> /\ now \in Nat
  BY <1>1 DEF projections, collector, BackfillTypes
<1>3. job'.phase = None /\ job'.phase \notin Phase /\ job'.at = "none"
  BY BackfillAssumption DEF NoJob
<1>4. BackfillTypes'
  BY <1>1, <1>2 DEF BackfillTypes, NoJob, NoRow, Rows
<1>5. LegacyInv'
  BY <1>1, <1>2, LegacyFrame DEF LegacyInv
<1>6. LiveInv' /\ SampleInv' /\ CopyInv' /\ StatisticsKept' /\ ArchiveInv' /\ PollInv'
      /\ BoardAgreesWithMemory'
  BY <1>1, <1>2, <1>3, LiveFrame, SampleFrame, CopyFrame, StatisticsFrame, ArchiveFrame, ToolFrame
     DEF Phase
<1> QED
  BY <1>1, <1>4, <1>5, <1>6 DEF BackfillInv

\* The first run of a phase takes all ids that there are.
LEMMA BegunTakesAll ==
  ASSUME BackfillTypes, LegacyInv, NEW name \in Tracked, NEW asOf \in Nat
  PROVE  /\ Begun(name, asOf) \in [Tracked -> [started : BOOLEAN, last : Int, target : Nat, asOf : Nat]]
         /\ \A other \in Tracked \ {name} : Begun(name, asOf)[other] = progress[other]
         /\ IF progress[name].started
            THEN Begun(name, asOf) = progress
            ELSE /\ Begun(name, asOf)[name].started /\ Begun(name, asOf)[name].asOf = asOf
                 /\ Begun(name, asOf)[name].last <= Begun(name, asOf)[name].target
                 /\ \A r \in legacy : /\ Begun(name, asOf)[name].last < r.id
                                      /\ r.id <= Begun(name, asOf)[name].target
<1> DEFINE ids == {r.id : r \in legacy}
           row == [started |-> TRUE, asOf |-> asOf,
                   last |-> IF ids = {} THEN 0 ELSE Min(ids) - 1, target |-> LastOf(ids)]
<1>1. Begun(name, asOf) = IF progress[name].started THEN progress
                          ELSE [progress EXCEPT ![name] = row]
  BY DEF Begun
<1>2. \A r \in legacy : r.id \in ids /\ r.id \in Nat
  BY DEF BackfillTypes
<1>3. /\ row.last \in Int /\ row.target \in Nat /\ row.last <= row.target
      /\ \A i \in ids : row.last < i /\ i <= row.target
  <2>1. CASE ids = {}
    <3>1. row.last = 0 /\ row.target = 0
      BY <2>1 DEF LastOf
    <3> QED
      BY <2>1, <3>1
  <2>2. CASE ids # {}
    <3>1. PICK bound \in Nat : \A r \in legacy : r.id <= bound
      BY DEF LegacyInv
    <3>2. ids \subseteq Nat /\ \A i \in ids : i <= bound
      BY <1>2, <3>1
    <3>3. Min(ids) \in ids /\ \A i \in ids : Min(ids) <= i
      BY <2>2, <3>2, MinOfNats
    <3>4. Max(ids) \in ids /\ \A i \in ids : i <= Max(ids)
      BY <2>2, <3>2, MaxOfNats
    <3>5. row.last = Min(ids) - 1 /\ row.target = Max(ids)
      BY <2>2 DEF LastOf
    <3> HIDE DEF ids, row
    <3>6. Min(ids) \in Nat /\ Max(ids) \in Nat
      BY <3>2, <3>3, <3>4
    <3>7. \A i \in ids : i \in Nat /\ Min(ids) <= i /\ i <= Max(ids)
      BY <3>2, <3>3, <3>4
    <3> QED
      BY <3>3, <3>5, <3>6, <3>7
  <2> QED
    BY <2>1, <2>2
<1>4. row \in [started : BOOLEAN, last : Int, target : Nat, asOf : Nat]
      /\ row.started /\ row.asOf = asOf
  BY <1>3
<1>5. progress \in [Tracked -> [started : BOOLEAN, last : Int, target : Nat, asOf : Nat]]
  BY DEF BackfillTypes
<1> HIDE DEF row, ids
<1>6. CASE progress[name].started
  BY <1>1, <1>5, <1>6
<1>7. CASE ~progress[name].started
  <2>1. Begun(name, asOf) = [progress EXCEPT ![name] = row]
    BY <1>1, <1>7
  <2>2. Begun(name, asOf)[name] = row
    BY <1>5, <2>1
  <2>3. \A other \in Tracked \ {name} : Begun(name, asOf)[other] = progress[other]
    BY <1>5, <2>1
  <2>4. Begun(name, asOf) \in [Tracked -> [started : BOOLEAN, last : Int, target : Nat, asOf : Nat]]
    BY <1>4, <1>5, <2>1
  <2> QED
    BY <1>2, <1>3, <1>4, <1>7, <2>2, <2>3, <2>4
<1> QED
  BY <1>6, <1>7

\* What the batches of a phase do not need.
LEMMA UpperBound ==
  ASSUME BackfillTypes, NEW name \in Tracked
  PROVE  /\ Upper(name) \in Int /\ Upper(name) <= progress[name].target
         /\ progress[name].last <= progress[name].target => progress[name].last <= Upper(name)
<1>1. /\ progress[name].last \in Int /\ progress[name].target \in Nat /\ BatchSize \in Nat
  BY BackfillAssumption DEF BackfillTypes
<1>2. Upper(name) = IF progress[name].last + BatchSize <= progress[name].target
                    THEN progress[name].last + BatchSize ELSE progress[name].target
  BY <1>1, MinOfTwo DEF Upper
<1> QED
  BY <1>1, <1>2

-----------------------------------------------------------------------------
(* The archives.                                                           *)

LEMMA StartArchiveKeeps == BackfillInv /\ StartArchive => BackfillInv'
<1> SUFFICES ASSUME BackfillInv, StartArchive PROVE BackfillInv'
  OBVIOUS
<1>1. /\ BackfillTypes /\ LegacyInv /\ PollInv /\ LiveInv /\ BoardAgreesWithMemory
      /\ SampleInv /\ CopyInv /\ StatisticsKept /\ ArchiveInv
  BY DEF BackfillInv
<1>2. /\ UNCHANGED <<now, writesLegacy, legacy, retired, archive, tripArchive, samples, live, freshness,
                     mem, poll, collector, lastDelay, tripsCopied>>
      /\ now \in Nat /\ progress' = Begun("stop_archive", 0)
      /\ job' = [NoJob EXCEPT !.phase = "archive", !.at = "loop", !.asOf = 0] /\ ~retired
  BY <1>1 DEF StartArchive, Begins, projections, collector, BackfillTypes
<1>3. /\ progress' \in [Tracked -> [started : BOOLEAN, last : Int, target : Nat, asOf : Nat]]
      /\ UNCHANGED <<progress["delay_samples"], progress["delay_refresh"]>>
  BY <1>1, <1>2, BegunTakesAll DEF Tracked
<1>4. job'.phase = "archive" /\ job'.at = "loop"
  BY <1>2 DEF NoJob
<1>5. BackfillTypes'
  BY <1>1, <1>2, <1>3 DEF BackfillTypes, NoJob, NoRow, Rows, Phase
<1>6. ArchiveInv'
  <2>1. CASE progress["stop_archive"].started
    <3>1. progress' = progress
      BY <1>1, <1>2, <2>1, BegunTakesAll DEF Tracked
    <3> QED
      BY <1>1, <1>2, <3>1, ArchiveFrame
  <2>2. CASE ~progress["stop_archive"].started
    <3>1. \A r \in legacy : progress'["stop_archive"].last < r.id
                            /\ r.id <= progress'["stop_archive"].target
      BY <1>1, <1>2, <2>2, BegunTakesAll DEF Tracked
    <3>2. \A r \in legacy : r.id \in Int
      BY <1>1 DEF BackfillTypes
    <3>3. \A r \in legacy' : r.id > progress'["stop_archive"].last
                             /\ r.id <= progress'["stop_archive"].target
      BY <1>2, <1>3, <3>1, <3>2 DEF Tracked
    <3>4. (tripsCopied => TripArchiveMissing = {})'
      BY <1>1, <1>2 DEF ArchiveInv, TripArchiveMissing, TripIdentity
    <3> QED
      BY <3>3, <3>4 DEF ArchiveInv
  <2> QED
    BY <2>1, <2>2
<1>7. LegacyInv' /\ LiveInv' /\ SampleInv' /\ CopyInv' /\ StatisticsKept' /\ PollInv'
      /\ BoardAgreesWithMemory'
  BY <1>1, <1>2, <1>3, <1>4, LegacyFrame, LiveFrame, SampleFrame, CopyFrame, StatisticsFrame, ToolFrame
<1> QED
  BY <1>5, <1>6, <1>7 DEF BackfillInv

LEMMA ArchiveBatchKeeps == BackfillInv /\ ArchiveBatch => BackfillInv'
<1> SUFFICES ASSUME BackfillInv, ArchiveBatch PROVE BackfillInv'
  OBVIOUS
<1>1. /\ BackfillTypes /\ LegacyInv /\ PollInv /\ LiveInv /\ BoardAgreesWithMemory
      /\ SampleInv /\ CopyInv /\ StatisticsKept /\ ArchiveInv
  BY DEF BackfillInv
<1>2. /\ UNCHANGED <<now, writesLegacy, legacy, retired, tripArchive, samples, live, freshness,
                     job, mem, poll, collector, lastDelay, tripsCopied>>
      /\ now \in Nat /\ progress' = Advanced("stop_archive", Upper("stop_archive"))
      /\ archive' = archive \cup {StopIdentity(r) : r \in Batch("stop_archive")}
  BY <1>1 DEF ArchiveBatch, projections, collector, BackfillTypes
<1>3. Upper("stop_archive") \in Int
  BY <1>1, UpperBound DEF Tracked
<1>4. /\ progress' \in [Tracked -> [started : BOOLEAN, last : Int, target : Nat, asOf : Nat]]
      /\ UNCHANGED <<progress["delay_samples"], progress["delay_refresh"]>>
      /\ UNCHANGED <<progress["stop_archive"].started, progress["stop_archive"].target>>
      /\ progress'["stop_archive"].last = Upper("stop_archive")
      /\ progress["stop_archive"].last \in Int
  BY <1>1, <1>2, <1>3 DEF BackfillTypes, Advanced, Tracked
<1>5. BackfillTypes'
  BY <1>1, <1>2, <1>4 DEF BackfillTypes
<1>6. ArchiveInv'
  <2>1. ASSUME progress'["stop_archive"].started, NEW r \in legacy'
        PROVE  \/ StopIdentity(r) \in archive'
               \/ r.id > progress'["stop_archive"].last /\ r.id <= progress'["stop_archive"].target
    <3>1. r \in legacy /\ r.id \in Int
      BY <1>1, <1>2 DEF BackfillTypes
    <3>2. CASE StopIdentity(r) \in archive
      BY <1>2, <3>2
    <3>3. CASE r.id > progress["stop_archive"].last /\ r.id <= progress["stop_archive"].target
      <4>1. CASE r.id <= Upper("stop_archive")
        <5>1. r \in Batch("stop_archive")
          BY <1>4, <3>1, <3>3, <4>1 DEF Batch
        <5> QED
          BY <1>2, <5>1
      <4>2. CASE ~(r.id <= Upper("stop_archive"))
        BY <1>3, <1>4, <3>1, <3>3, <4>2
      <4> QED
        BY <4>1, <4>2
    <3> QED
      BY <1>1, <1>4, <2>1, <3>1, <3>2, <3>3 DEF ArchiveInv
  <2>2. (tripsCopied => TripArchiveMissing = {})'
    BY <1>1, <1>2 DEF ArchiveInv, TripArchiveMissing, TripIdentity
  <2> QED
    BY <2>1, <2>2 DEF ArchiveInv, StopIdentity
<1>7. LegacyInv' /\ LiveInv' /\ SampleInv' /\ CopyInv' /\ StatisticsKept' /\ PollInv'
      /\ BoardAgreesWithMemory'
  BY <1>1, <1>2, <1>4, LegacyFrame, LiveFrame, SampleFrame, CopyFrame, StatisticsFrame, ToolFrame
<1> QED
  BY <1>5, <1>6, <1>7 DEF BackfillInv

LEMMA TripArchiveKeeps == BackfillInv /\ TripArchive => BackfillInv'
<1> SUFFICES ASSUME BackfillInv, TripArchive PROVE BackfillInv'
  OBVIOUS
<1>1. /\ BackfillTypes /\ LegacyInv /\ PollInv /\ LiveInv /\ BoardAgreesWithMemory
      /\ SampleInv /\ CopyInv /\ StatisticsKept /\ ArchiveInv
  BY DEF BackfillInv
<1>2. /\ UNCHANGED <<now, writesLegacy, legacy, retired, archive, samples, live, freshness,
                     progress, job, mem, poll, collector, lastDelay>>
      /\ now \in Nat /\ tripArchive' = tripArchive \cup {TripIdentity(t) : t \in WithFreshness}
  BY <1>1 DEF TripArchive, projections, collector, BackfillTypes
<1>3. BackfillTypes'
  BY <1>1, <1>2 DEF BackfillTypes
<1>4. ArchiveInv'
  <2>1. TripArchiveMissing' = {}
    BY <1>2 DEF TripArchiveMissing, TripIdentity, WithFreshness
  <2> QED
    BY <1>1, <1>2, <2>1 DEF ArchiveInv, StopIdentity
<1>5. LegacyInv' /\ LiveInv' /\ SampleInv' /\ CopyInv' /\ StatisticsKept' /\ PollInv'
      /\ BoardAgreesWithMemory'
  BY <1>1, <1>2, LegacyFrame, LiveFrame, SampleFrame, CopyFrame, StatisticsFrame, ToolFrame
<1> QED
  BY <1>3, <1>4, <1>5 DEF BackfillInv

-----------------------------------------------------------------------------
(* The board.                                                              *)

LEMMA StartLiveKeeps == BackfillInv /\ StartLive => BackfillInv'
<1> SUFFICES ASSUME BackfillInv, StartLive PROVE BackfillInv'
  OBVIOUS
<1>1. /\ BackfillTypes /\ LegacyInv /\ PollInv /\ LiveInv /\ BoardAgreesWithMemory
      /\ SampleInv /\ CopyInv /\ StatisticsKept /\ ArchiveInv
  BY DEF BackfillInv
<1>2. /\ UNCHANGED <<now, writesLegacy, legacy, retired, archive, tripArchive, samples, live, freshness,
                     progress, mem, poll, collector, lastDelay, tripsCopied>>
      /\ now \in Nat /\ job' = [NoJob EXCEPT !.phase = "live", !.at = "loop", !.asOf = now] /\ ~retired
  BY <1>1 DEF StartLive, Begins, projections, collector, BackfillTypes
<1>3. job'.phase = "live" /\ job'.at = "loop"
  BY <1>2 DEF NoJob
<1>4. BackfillTypes'
  BY <1>1, <1>2 DEF BackfillTypes, NoJob, NoRow, Rows, Phase
<1>5. LegacyInv' /\ LiveInv' /\ SampleInv' /\ CopyInv' /\ StatisticsKept' /\ ArchiveInv' /\ PollInv'
      /\ BoardAgreesWithMemory'
  BY <1>1, <1>2, <1>3, LegacyFrame, LiveFrame, SampleFrame, CopyFrame, StatisticsFrame, ArchiveFrame,
     ToolFrame
<1> QED
  BY <1>4, <1>5 DEF BackfillInv

LEMMA LiveReadKeeps == BackfillInv /\ LiveRead => BackfillInv'
<1> SUFFICES ASSUME BackfillInv, LiveRead PROVE BackfillInv'
  OBVIOUS
<1>1. /\ BackfillTypes /\ LegacyInv /\ PollInv /\ LiveInv /\ BoardAgreesWithMemory
      /\ SampleInv /\ CopyInv /\ StatisticsKept /\ ArchiveInv
  BY DEF BackfillInv
<1> DEFINE found == StatesIn(legacy, OnBoard)
<1>2. /\ UNCHANGED <<now, writesLegacy, legacy, retired, archive, tripArchive, samples, live, freshness,
                     progress, mem, poll, collector, lastDelay, tripsCopied>>
      /\ now \in Nat /\ job.phase = "live" /\ job.at = "loop"
      /\ job' = [job EXCEPT !.at = "write", !.rows = found]
  BY <1>1 DEF LiveRead, Reads, projections, collector, BackfillTypes
<1>3. found \in Rows(Hash \cup Delay)
  <2>1. \A t \in Trip : found[t] \in [is : Hash \cup {None}, seen : Nat]
    BY <1>1, StatesFound
  <2> QED
    BY <2>1 DEF StatesIn, Rows
<1>4. job'.phase = "live" /\ job'.rows = found
  BY <1>1, <1>2 DEF BackfillTypes
<1>5. BackfillTypes'
  <2>1. job' \in [phase : Phase \cup {None}, at : {"none", "loop", "write"}, asOf : Nat,
                  rows : Rows(Hash \cup Delay)]
    BY <1>1, <1>2, <1>3 DEF BackfillTypes
  <2> QED
    BY <1>1, <1>2, <2>1 DEF BackfillTypes
<1>6. ~retired
  BY <1>1, <1>2 DEF LegacyInv, NoJob
<1> HIDE DEF found
<1>7. ASSUME NEW t \in Trip, found[t] # NoRow
      PROVE  IF live[t] # NoRow
             THEN found[t] = live[t] \/ found[t].seen < live[t].seen
             ELSE /\ \E r \in legacy : r.trip = t /\ Row(r.hash, r.seen) = found[t]
                  /\ \A r \in legacy : r.trip = t => Older(r, found[t])
  <2>1. /\ \E r \in legacy : r.trip = t /\ Row(r.hash, r.seen) = found[t]
        /\ \A r \in legacy : r.trip = t => Older(r, found[t])
    BY <1>1, <1>7, StatesFound DEF found
  <2>2. PICK r \in legacy : r.trip = t /\ Row(r.hash, r.seen) = found[t]
    BY <2>1
  <2>3. live[t] # NoRow => Older(r, live[t])
    BY <1>1, <2>2 DEF LiveInv
  <2>4. live[t] \in [is : Hash \cup {None}, seen : Nat]
    BY <1>1 DEF BackfillTypes, Rows
  <2>5. Older(r, live[t]) => found[t] = live[t] \/ found[t].seen < live[t].seen
    BY <2>2, <2>4 DEF Older, Row
  <2> QED
    BY <2>1, <2>3, <2>5
<1>8. LiveInv'
  <2>1. \A r \in legacy : live[r.trip] # NoRow => Older(r, live[r.trip])
    BY <1>1 DEF LiveInv
  <2>2. \A t \in Trip : \A r : NewestDelay(r, t)' <=> NewestDelay(r, t)
    BY <1>2 DEF NewestDelay, DelayRows
  <2>3. (job.phase = "live" /\ job.at = "write" =>
          \A t \in Trip : job.rows[t] # NoRow =>
            IF live[t] # NoRow
            THEN job.rows[t] = live[t] \/ job.rows[t].seen < live[t].seen
            ELSE /\ \E r \in legacy : r.trip = t /\ Row(r.hash, r.seen) = job.rows[t]
                 /\ \A r \in legacy : r.trip = t => Older(r, job.rows[t]))'
    BY <1>2, <1>4, <1>7 DEF Older, Row, NoRow
  <2>4. (\A t \in Trip :
          /\ live[t] # NoRow /\ DelayOf[live[t].is] # None => lastDelay[t] = DelayOf[live[t].is]
          /\ live[t] = NoRow =>
               \A r \in legacy : NewestDelay(r, t) => lastDelay[t] = DelayOf[r.hash]
          /\ writesLegacy /\ ~retired /\ live[t] # NoRow =>
               \E r \in legacy : r.trip = t /\ r.hash = live[t].is /\ r.seen = live[t].seen)'
    BY <1>1, <1>2, <2>2 DEF LiveInv, NoRow
  <2> QED
    BY <1>2, <2>1, <2>3, <2>4 DEF LiveInv, Older, NoRow
<1>9. LegacyInv' /\ SampleInv' /\ CopyInv' /\ StatisticsKept' /\ ArchiveInv' /\ PollInv'
      /\ BoardAgreesWithMemory'
  BY <1>1, <1>2, <1>4, <1>6, LegacyFrame, SampleFrame, CopyFrame, StatisticsFrame, ArchiveFrame, ToolFrame
<1> QED
  BY <1>5, <1>8, <1>9 DEF BackfillInv

LEMMA LiveWriteKeeps == BackfillInv /\ LiveWrite => BackfillInv'
<1> SUFFICES ASSUME BackfillInv, LiveWrite PROVE BackfillInv'
  OBVIOUS
<1>1. /\ BackfillTypes /\ LegacyInv /\ PollInv /\ LiveInv /\ BoardAgreesWithMemory
      /\ SampleInv /\ CopyInv /\ StatisticsKept /\ ArchiveInv
  BY DEF BackfillInv
<1>2. /\ UNCHANGED <<now, writesLegacy, legacy, retired, archive, tripArchive, samples, freshness,
                     progress, mem, poll, lastDelay, tripsCopied>>
      /\ now \in Nat /\ job.phase = "live" /\ job.at = "write"
      /\ live' = LiveUpsert /\ job' = NoJob
  BY <1>1 DEF LiveWrite, collector, BackfillTypes
<1>3. job'.phase \notin Phase /\ job'.at = "none"
  BY <1>2, BackfillAssumption DEF NoJob
<1>4. ~retired
  BY <1>1, <1>2 DEF LegacyInv, NoJob
\* A row is written only where there was none.
<1>5. ASSUME NEW t \in Trip
      PROVE  \/ live'[t] = live[t]
             \/ /\ live[t] = NoRow /\ live'[t] = job.rows[t]
                /\ \E r \in legacy : r.trip = t /\ Row(r.hash, r.seen) = job.rows[t]
                /\ \A r \in legacy : r.trip = t => Older(r, job.rows[t])
  <2>1. live'[t] = IF job.rows[t] # NoRow /\ live[t].seen <= job.rows[t].seen
                   THEN job.rows[t] ELSE live[t]
    BY <1>2 DEF LiveUpsert
  <2>2. live[t].seen \in Nat /\ job.rows[t].seen \in Nat
    BY <1>1 DEF BackfillTypes, Rows
  <2>3. job.rows[t] # NoRow =>
          IF live[t] # NoRow
          THEN job.rows[t] = live[t] \/ job.rows[t].seen < live[t].seen
          ELSE /\ \E r \in legacy : r.trip = t /\ Row(r.hash, r.seen) = job.rows[t]
               /\ \A r \in legacy : r.trip = t => Older(r, job.rows[t])
    BY <1>1, <1>2 DEF LiveInv
  <2> QED
    BY <2>1, <2>2, <2>3
<1>6. ASSUME NEW t \in Trip, live'[t] # live[t]
      PROVE  \E r \in legacy : /\ r.trip = t /\ live'[t].is = r.hash /\ live'[t].seen = r.seen
                               /\ \A q \in legacy : q.trip = t => q.seen < r.seen \/ q = r
  <2>1. PICK r \in legacy : r.trip = t /\ Row(r.hash, r.seen) = live'[t]
    BY <1>5, <1>6
  <2>2. live'[t].is = r.hash /\ live'[t].seen = r.seen
    BY <2>1 DEF Row
  <2>3. \A q \in legacy : q.trip = t => q.seen < r.seen \/ q = r
    BY <1>1, <1>5, <1>6, <2>1, <2>2 DEF Older, LegacyInv
  <2> QED
    BY <2>1, <2>2, <2>3
<1>7. ASSUME NEW t \in Trip PROVE live'[t] \in [is : Hash \cup {None}, seen : Nat] /\ Settled(live'[t].seen)
  <2>1. CASE live'[t] = live[t]
    BY <1>1, <2>1 DEF BackfillTypes, Rows, PollInv
  <2>2. CASE live'[t] # live[t]
    <3>1. PICK r \in legacy : r.trip = t /\ Row(r.hash, r.seen) = live'[t]
      BY <1>5, <2>2
    <3>2. r.hash \in Hash /\ r.seen \in Nat /\ r.seen <= freshness[t] /\ freshness[t] \in Nat /\ now \in Nat
      BY <1>1, <3>1 DEF BackfillTypes, LegacyInv
    <3>3. Settled(freshness[t])
      BY <1>1 DEF PollInv
    <3> QED
      BY <3>1, <3>2, <3>3 DEF Row, Settled
  <2> QED
    BY <2>1, <2>2
<1>8. BackfillTypes'
  <2>1. live' \in Rows(Hash)
    BY <1>2, <1>7 DEF LiveUpsert, Rows
  <2> QED
    BY <1>1, <1>2, <2>1 DEF BackfillTypes, NoJob, NoRow, Rows
<1>9. PollInv'
  BY <1>1, <1>2, <1>7 DEF PollInv, Settled
<1>10. BoardAgreesWithMemory'
  <2> SUFFICES ASSUME mem # Unloaded, NEW t \in Trip, mem[t] # None PROVE live'[t].is = mem[t]
    BY <1>2 DEF BoardAgreesWithMemory
  <2>1. live[t].is = mem[t] /\ live[t] # NoRow
    BY <1>1 DEF BoardAgreesWithMemory, NoRow
  <2> QED
    BY <1>5, <2>1
<1>11. LiveInv'
  <2>1. ASSUME NEW r \in legacy, live'[r.trip] # NoRow PROVE Older(r, live'[r.trip])
    <3>1. r.trip \in Trip
      BY <1>1 DEF BackfillTypes
    <3> QED
      BY <1>1, <1>5, <2>1, <3>1 DEF LiveInv
  <2>2. ASSUME NEW t \in Trip, live'[t] # NoRow, DelayOf[live'[t].is] # None
        PROVE  lastDelay[t] = DelayOf[live'[t].is]
    <3>1. CASE live'[t] = live[t]
      BY <1>1, <2>2, <3>1 DEF LiveInv
    <3>2. CASE live'[t] # live[t]
      <4>1. PICK r \in legacy : /\ r.trip = t /\ live'[t].is = r.hash /\ live'[t].seen = r.seen
                                /\ \A q \in legacy : q.trip = t => q.seen < r.seen \/ q = r
        BY <1>6, <3>2
      <4>2. \A q \in DelayRows(t) : q.seen \in Nat
        BY <1>1 DEF DelayRows, BackfillTypes
      <4>3. NewestDelay(r, t)
        BY <2>2, <4>1, <4>2 DEF NewestDelay, DelayRows
      <4> QED
        BY <1>1, <1>5, <3>2, <4>1, <4>3 DEF LiveInv
    <3> QED
      BY <3>1, <3>2
  <2>3. ASSUME NEW t \in Trip, live'[t] = NoRow, NEW r \in legacy, NewestDelay(r, t)
        PROVE  lastDelay[t] = DelayOf[r.hash]
    <3>1. live[t] = NoRow
      BY <1>5, <2>3
    <3> QED
      BY <1>1, <2>3, <3>1 DEF LiveInv
  <2>4. ASSUME NEW t \in Trip, writesLegacy, live'[t] # NoRow
        PROVE  \E r \in legacy : r.trip = t /\ r.hash = live'[t].is /\ r.seen = live'[t].seen
    <3>1. CASE live'[t] = live[t]
      BY <1>1, <1>4, <2>4, <3>1 DEF LiveInv
    <3>2. CASE live'[t] # live[t]
      BY <1>6, <3>2
    <3> QED
      BY <3>1, <3>2
  <2>5. \A t \in Trip : \A r : NewestDelay(r, t)' <=> NewestDelay(r, t)
    BY <1>2 DEF NewestDelay, DelayRows
  <2>6. (\A r \in legacy : live[r.trip] # NoRow => Older(r, live[r.trip]))'
    BY <1>2, <2>1 DEF Older, NoRow
  <2>7. (\A t \in Trip :
          /\ live[t] # NoRow /\ DelayOf[live[t].is] # None => lastDelay[t] = DelayOf[live[t].is]
          /\ live[t] = NoRow =>
               \A r \in legacy : NewestDelay(r, t) => lastDelay[t] = DelayOf[r.hash]
          /\ writesLegacy /\ ~retired /\ live[t] # NoRow =>
               \E r \in legacy : r.trip = t /\ r.hash = live[t].is /\ r.seen = live[t].seen)'
    BY <1>2, <2>2, <2>3, <2>4, <2>5 DEF NoRow
  <2> QED
    BY <1>3, <2>6, <2>7 DEF LiveInv
<1>12. LegacyInv' /\ SampleInv' /\ CopyInv' /\ StatisticsKept' /\ ArchiveInv'
  BY <1>1, <1>2, <1>3, LegacyFrame, SampleFrame, CopyFrame, StatisticsFrame, ArchiveFrame
     DEF LegacyInv, Phase
<1> QED
  BY <1>8, <1>9, <1>10, <1>11, <1>12 DEF BackfillInv

-----------------------------------------------------------------------------
(* The statistics.                                                         *)

\* A trip that the snapshot of the samples does not have has been seen since,
\* or is gone; so for the refresh.
LEMMA NotInSnapshot ==
  ASSUME BackfillTypes, LegacyInv, NEW t \in Trip, NEW asOf \in Nat, asOf <= now,
         freshness[t] <= asOf - Window
  PROVE  Gone(t) \/ DelayRows(t) = {}
<1>1. freshness[t] \in Nat /\ now \in Nat /\ Window \in Nat
  BY BackfillAssumption DEF BackfillTypes
<1>2. CASE freshness[t] = 0
  <2>1. \A r \in legacy : r.trip = t => FALSE
    BY <1>2 DEF LegacyInv, BackfillTypes
  <2> QED
    BY <2>1 DEF DelayRows
<1>3. CASE freshness[t] # 0
  BY <1>1, <1>3 DEF Gone
<1> QED
  BY <1>2, <1>3

LEMMA StartSamplesKeeps == BackfillInv /\ StartSamples => BackfillInv'
<1> SUFFICES ASSUME BackfillInv, StartSamples PROVE BackfillInv'
  OBVIOUS
<1>1. /\ BackfillTypes /\ LegacyInv /\ PollInv /\ LiveInv /\ BoardAgreesWithMemory
      /\ SampleInv /\ CopyInv /\ StatisticsKept /\ ArchiveInv
  BY DEF BackfillInv
<1> DEFINE asOf == IF progress["delay_samples"].started THEN progress["delay_samples"].asOf ELSE now
<1>2. /\ UNCHANGED <<now, writesLegacy, legacy, retired, archive, tripArchive, samples, live, freshness,
                     mem, poll, collector, lastDelay, tripsCopied>>
      /\ now \in Nat /\ progress' = Begun("delay_samples", asOf)
      /\ job' = [NoJob EXCEPT !.phase = "samples", !.at = "loop", !.asOf = asOf] /\ ~retired
  BY <1>1 DEF StartSamples, Begins, projections, collector, BackfillTypes
<1>3. asOf \in Nat /\ asOf <= now
  BY <1>1, <1>2 DEF BackfillTypes, CopyInv, Tracked
<1> HIDE DEF asOf
<1>4. /\ progress' \in [Tracked -> [started : BOOLEAN, last : Int, target : Nat, asOf : Nat]]
      /\ UNCHANGED <<progress["stop_archive"], progress["delay_refresh"]>>
  BY <1>1, <1>2, <1>3, BegunTakesAll DEF Tracked
<1>5. job'.phase = "samples" /\ job'.at = "loop" /\ job'.asOf = asOf
  BY <1>2 DEF NoJob
<1>6. BackfillTypes'
  BY <1>1, <1>2, <1>3, <1>4 DEF BackfillTypes, NoJob, NoRow, Rows, Phase
<1>7. \A t \in Trip : DelayRows(t)' = DelayRows(t)
  BY <1>2 DEF DelayRows
<1>8. CopyInv'
  <2>1. CASE progress["delay_samples"].started
    <3>1. progress' = progress /\ asOf = progress["delay_samples"].asOf
      BY <1>1, <1>2, <1>3, <2>1, BegunTakesAll DEF Tracked, asOf
    <3>2. \A t \in Trip : Passed(t)' = Passed(t) /\ Gone(t)' = Gone(t)
      BY <1>2, <3>1 DEF Passed, Gone
    <3>3. Complete("delay_samples")' = Complete("delay_samples")
      BY <3>1 DEF Complete
    <3> QED
      BY <1>1, <1>2, <1>5, <1>7, <2>1, <3>1, <3>2, <3>3 DEF CopyInv, Covers
  <2>2. CASE ~progress["delay_samples"].started
    <3>1. /\ progress'["delay_samples"].started /\ progress'["delay_samples"].asOf = asOf
          /\ progress'["delay_samples"].last <= progress'["delay_samples"].target
          /\ \A r \in legacy : /\ progress'["delay_samples"].last < r.id
                               /\ r.id <= progress'["delay_samples"].target
      BY <1>1, <1>2, <1>3, <2>2, BegunTakesAll DEF Tracked
    <3>2. ~progress'["delay_refresh"].started
      BY <1>1, <1>4, <2>2 DEF CopyInv, Complete
    <3>3. \A r \in legacy : r.id \in Int
      BY <1>1 DEF BackfillTypes
    <3>4. \A t \in Trip : \A r \in DelayRows(t)' : r.id > progress'["delay_samples"].last
                                                   /\ r.id <= progress'["delay_samples"].target
      BY <1>4, <1>7, <3>1, <3>3 DEF DelayRows, Tracked
    <3> QED
      BY <1>2, <1>3, <1>5, <3>1, <3>2, <3>4 DEF CopyInv
  <2> QED
    BY <2>1, <2>2
<1>9. LegacyInv' /\ LiveInv' /\ SampleInv' /\ StatisticsKept' /\ ArchiveInv' /\ PollInv'
      /\ BoardAgreesWithMemory'
  BY <1>1, <1>2, <1>4, <1>5, LegacyFrame, LiveFrame, SampleFrame, ArchiveFrame, ToolFrame
     DEF StatisticsKept
<1> QED
  BY <1>6, <1>8, <1>9 DEF BackfillInv

\* A batch that has been read waits for its rows to be written.
LEMMA ReadKeeps ==
  ASSUME BackfillInv, NEW phase \in {"samples", "refresh_samples"}, NEW rows, rows \subseteq legacy,
         NEW trips, Reads(phase, DelaysIn(rows, trips))
  PROVE  /\ BackfillTypes' /\ LegacyInv' /\ PollInv' /\ LiveInv' /\ BoardAgreesWithMemory'
         /\ SampleInv' /\ StatisticsKept' /\ ArchiveInv'
         /\ UNCHANGED <<now, legacy, samples, freshness, progress>>
         /\ job.phase = phase /\ job'.phase = phase /\ job'.asOf = job.asOf
         /\ job'.rows = DelaysIn(rows, trips)
<1> DEFINE found == DelaysIn(rows, trips)
<1>1. /\ BackfillTypes /\ LegacyInv /\ PollInv /\ LiveInv /\ BoardAgreesWithMemory
      /\ SampleInv /\ CopyInv /\ StatisticsKept /\ ArchiveInv
  BY DEF BackfillInv
<1>2. /\ UNCHANGED <<now, writesLegacy, legacy, retired, archive, tripArchive, samples, live, freshness,
                     progress, mem, poll, collector, lastDelay, tripsCopied>>
      /\ now \in Nat /\ job.phase = phase /\ job.at = "loop"
      /\ job' = [job EXCEPT !.at = "write", !.rows = found]
  BY <1>1 DEF Reads, projections, collector, BackfillTypes
<1>3. \A t \in Trip : found[t] \in [is : Delay \cup {None}, seen : Nat]
  BY <1>1, DelaysFound
<1>4. found \in Rows(Hash \cup Delay)
  BY <1>3 DEF DelaysIn, Rows
<1>5. job' \in [phase : Phase \cup {None}, at : {"none", "loop", "write"}, asOf : Nat,
                rows : Rows(Hash \cup Delay)]
      /\ job'.phase = phase /\ job'.rows = found /\ job'.asOf = job.asOf
  BY <1>1, <1>2, <1>4 DEF BackfillTypes
<1>6. BackfillTypes'
  BY <1>1, <1>2, <1>5 DEF BackfillTypes
<1>7. ~retired
  BY <1>1, <1>2 DEF LegacyInv, NoJob
<1>8. \A t \in Trip : found[t] # NoRow =>
        \E r \in DelayRows(t) : Row(DelayOf[r.hash], r.seen) = found[t]
  BY <1>1, DelaysFound
<1> HIDE DEF found
<1>9. SampleInv'
  <2>1. \A t \in Trip : DelayTold(t)'
    BY <1>1, <1>2 DEF SampleInv, DelayTold, Covers, NewestDelay, DelayRows
  <2>2. \A t \in Trip : ReadIsThere(t)'
    BY <1>2, <1>5, <1>8 DEF ReadIsThere, DelayRows, Row, NoRow
  <2> QED
    BY <2>1, <2>2 DEF SampleInv
<1>10. LegacyInv' /\ LiveInv' /\ StatisticsKept' /\ ArchiveInv' /\ PollInv' /\ BoardAgreesWithMemory'
  BY <1>1, <1>2, <1>5, <1>7, LegacyFrame, LiveFrame, StatisticsFrame, ArchiveFrame, ToolFrame
<1> QED
  BY <1>2, <1>5, <1>6, <1>9, <1>10 DEF found

LEMMA SamplesReadKeeps == BackfillInv /\ SamplesRead => BackfillInv'
<1> SUFFICES ASSUME BackfillInv, SamplesRead PROVE BackfillInv'
  OBVIOUS
<1> DEFINE rows == Batch("delay_samples")
           found == DelaysIn(rows, InSnapshot)
<1>1. BackfillTypes /\ LegacyInv /\ PollInv /\ CopyInv
  BY DEF BackfillInv
<1>2. rows \subseteq legacy /\ Reads("samples", found)
  BY DEF SamplesRead, Batch
<1>3. /\ BackfillTypes' /\ LegacyInv' /\ PollInv' /\ LiveInv' /\ BoardAgreesWithMemory'
      /\ SampleInv' /\ StatisticsKept' /\ ArchiveInv'
      /\ UNCHANGED <<now, legacy, samples, freshness, progress>>
      /\ job.phase = "samples" /\ job'.phase = "samples" /\ job'.asOf = job.asOf
      /\ job'.rows = found
  BY <1>2, ReadKeeps
<1>4. /\ progress["delay_samples"].started /\ job.asOf = progress["delay_samples"].asOf
      /\ job.asOf <= now /\ job.asOf \in Nat
  BY <1>1, <1>3 DEF CopyInv, BackfillTypes, Tracked
<1>5. ASSUME NEW t \in Trip, NEW r \in DelayRows(t), ~Passed(t),
             progress["delay_samples"].last < r.id, r.id <= Upper("delay_samples")
      PROVE  Covers(found[t], r)
  <2>1. r \in rows
    BY <1>5 DEF Batch, DelayRows
  <2>2. CASE t \in InSnapshot
    BY <1>1, <1>2, <2>1, <2>2, DelaysFound
  <2>3. CASE t \notin InSnapshot
    <3>1. freshness[t] \in Nat /\ Window \in Nat
      BY <1>1, BackfillAssumption DEF BackfillTypes
    <3>2. freshness[t] > job.asOf \/ freshness[t] <= job.asOf - Window
      BY <1>4, <2>3, <3>1 DEF InSnapshot
    <3> QED
      BY <1>1, <1>4, <1>5, <3>2, NotInSnapshot DEF Passed
  <2> QED
    BY <2>2, <2>3
<1> HIDE DEF rows, found
<1>6. CopyInv'
  <2>1. \A t \in Trip : Passed(t)' = Passed(t) /\ Gone(t)' = Gone(t) /\ DelayRows(t)' = DelayRows(t)
    BY <1>3 DEF Passed, Gone, DelayRows
  <2>2. Complete("delay_samples")' = Complete("delay_samples")
        /\ Upper("delay_samples")' = Upper("delay_samples")
    BY <1>3 DEF Complete, Upper
  <2>3. \A t \in Trip : Passed(t) \/ \A r \in DelayRows(t) :
          progress["delay_samples"].last < r.id /\ r.id <= Upper("delay_samples") => Held(t, r)'
    BY <1>3, <1>5 DEF Held, Covers
  <2> QED
    BY <1>1, <1>3, <1>4, <2>1, <2>2, <2>3 DEF CopyInv, Covers
<1> QED
  BY <1>3, <1>6 DEF BackfillInv

LEMMA StartRefreshKeeps == BackfillInv /\ StartRefresh => BackfillInv'
<1> SUFFICES ASSUME BackfillInv, StartRefresh PROVE BackfillInv'
  OBVIOUS
<1>1. /\ BackfillTypes /\ LegacyInv /\ PollInv /\ LiveInv /\ BoardAgreesWithMemory
      /\ SampleInv /\ CopyInv /\ StatisticsKept /\ ArchiveInv
  BY DEF BackfillInv
<1> DEFINE row == [started |-> TRUE, last |-> 0, target |-> Buckets, asOf |-> now]
<1>2. /\ UNCHANGED <<now, writesLegacy, legacy, retired, archive, tripArchive, samples, live, freshness,
                     mem, poll, collector, lastDelay, tripsCopied>>
      /\ now \in Nat /\ progress' = [progress EXCEPT !["delay_refresh"] = row]
      /\ Complete("delay_samples") /\ ~retired
      /\ job' = [NoJob EXCEPT !.phase = "refresh_samples", !.at = "loop",
                              !.asOf = progress["delay_samples"].asOf]
  BY <1>1 DEF StartRefresh, Begins, projections, collector, BackfillTypes
<1>3. row \in [started : BOOLEAN, last : Int, target : Nat, asOf : Nat]
  BY <1>2, BackfillAssumption
<1>4. /\ progress' \in [Tracked -> [started : BOOLEAN, last : Int, target : Nat, asOf : Nat]]
      /\ UNCHANGED <<progress["stop_archive"], progress["delay_samples"]>>
      /\ progress'["delay_refresh"] = row /\ progress["delay_samples"].asOf \in Nat
  BY <1>1, <1>2, <1>3 DEF BackfillTypes, Tracked
<1>5. job'.phase = "refresh_samples" /\ job'.at = "loop" /\ job'.asOf = progress["delay_samples"].asOf
  BY <1>2 DEF NoJob
<1>6. BackfillTypes'
  BY <1>1, <1>2, <1>4 DEF BackfillTypes, NoJob, NoRow, Rows, Phase
<1>7. CopyInv'
  <2>1. \A t \in Trip : Passed(t)' = Passed(t) /\ DelayRows(t)' = DelayRows(t)
    BY <1>2, <1>4 DEF Passed, Gone, DelayRows
  <2>2. Complete("delay_samples")'
    BY <1>2, <1>4 DEF Complete
  <2>3. row.started /\ row.target = Buckets /\ \A t \in Trip : ~(Bucket[t] < row.last)
    BY BackfillAssumption
  <2> HIDE DEF row
  <2> QED
    BY <1>1, <1>2, <1>4, <1>5, <2>1, <2>2, <2>3 DEF CopyInv, Covers
<1>8. LegacyInv' /\ LiveInv' /\ SampleInv' /\ ArchiveInv' /\ PollInv' /\ BoardAgreesWithMemory'
  BY <1>1, <1>2, <1>4, <1>5, LegacyFrame, LiveFrame, SampleFrame, ArchiveFrame, ToolFrame
<1>9. StatisticsKept'
  BY <1>2 DEF StatisticsKept
<1> QED
  BY <1>6, <1>7, <1>8, <1>9 DEF BackfillInv

LEMMA RefreshReadKeeps == BackfillInv /\ RefreshRead => BackfillInv'
<1> SUFFICES ASSUME BackfillInv, RefreshRead PROVE BackfillInv'
  OBVIOUS
<1> DEFINE found == DelaysIn(legacy, SeenSince)
<1>1. BackfillTypes /\ LegacyInv /\ PollInv /\ CopyInv
  BY DEF BackfillInv
<1>2. Reads("refresh_samples", found)
  BY DEF RefreshRead
<1>3. /\ BackfillTypes' /\ LegacyInv' /\ PollInv' /\ LiveInv' /\ BoardAgreesWithMemory'
      /\ SampleInv' /\ StatisticsKept' /\ ArchiveInv'
      /\ UNCHANGED <<now, legacy, samples, freshness, progress>>
      /\ job.phase = "refresh_samples" /\ job'.phase = "refresh_samples" /\ job'.asOf = job.asOf
      /\ job'.rows = found
  BY <1>2, ReadKeeps
<1>4. /\ progress["delay_refresh"].started /\ job.asOf = progress["delay_samples"].asOf
      /\ Complete("delay_samples") /\ now \in Nat /\ job.asOf \in Nat
  BY <1>1, <1>3 DEF CopyInv, BackfillTypes, Tracked
\* What the refresh does not look at the copy has.
<1>5. ASSUME NEW t \in Trip, Bucket[t] = progress["delay_refresh"].last, ~Gone(t), NEW r \in DelayRows(t)
      PROVE  Covers(samples[t], r) \/ Covers(found[t], r)
  <2>1. CASE t \in SeenSince
    BY <1>1, <2>1, DelaysFound DEF DelayRows
  <2>2. CASE t \notin SeenSince
    <3>1. freshness[t] \in Nat /\ Window \in Nat
      BY <1>1, BackfillAssumption DEF BackfillTypes
    <3>2. freshness[t] <= now - Window \/ freshness[t] <= job.asOf
      BY <1>4, <1>5, <2>2, <3>1 DEF SeenSince
    <3>3. CASE freshness[t] <= now - Window
      BY <1>1, <1>4, <1>5, <3>3, NotInSnapshot
    <3>4. CASE freshness[t] <= job.asOf
      <4>1. ~Passed(t)
        BY <1>4, <1>5, <3>1, <3>4 DEF Passed
      <4>2. \/ Covers(samples[t], r)
            \/ r.id > progress["delay_samples"].last /\ r.id <= progress["delay_samples"].target
        BY <1>1, <1>4, <4>1 DEF CopyInv, Complete
      <4>3. r.id \in Int /\ progress["delay_samples"].last \in Int
            /\ progress["delay_samples"].target \in Int
            /\ progress["delay_samples"].last >= progress["delay_samples"].target
        BY <1>1, <1>4 DEF BackfillTypes, DelayRows, Complete, Tracked
      <4> QED
        BY <4>2, <4>3
    <3> QED
      BY <3>2, <3>3, <3>4
  <2> QED
    BY <2>1, <2>2
<1> HIDE DEF found
<1>6. CopyInv'
  <2>1. \A t \in Trip : Passed(t)' = Passed(t) /\ Gone(t)' = Gone(t) /\ DelayRows(t)' = DelayRows(t)
    BY <1>3 DEF Passed, Gone, DelayRows
  <2>2. Complete("delay_samples")' = Complete("delay_samples")
    BY <1>3 DEF Complete
  <2>3. \A t \in Trip : Bucket[t] = progress["delay_refresh"].last =>
          Gone(t) \/ \A r \in DelayRows(t) : Held(t, r)'
    BY <1>3, <1>5 DEF Held, Covers
  <2> QED
    BY <1>1, <1>3, <1>4, <2>1, <2>2, <2>3 DEF CopyInv, Covers
<1> QED
  BY <1>3, <1>6 DEF BackfillInv

\* ON CONFLICT keeps a row of the statistics, or takes the newer one that has
\* been read, which is still in the legacy table.
LEMMA SampleUpserted ==
  ASSUME BackfillInv, job.phase \in {"samples", "refresh_samples"}, job.at = "write",
         samples' = SampleUpsert, NEW t \in Trip
  PROVE  \/ /\ samples'[t] = samples[t]
            /\ \A r \in legacy : Covers(job.rows[t], r) => Covers(samples[t], r)
         \/ /\ samples'[t] = job.rows[t] /\ samples[t].seen <= job.rows[t].seen
            /\ \E r \in DelayRows(t) : Row(DelayOf[r.hash], r.seen) = job.rows[t]
<1> DEFINE new == job.rows[t]
           old == samples[t]
<1>1. BackfillTypes /\ LegacyInv /\ SampleInv
  BY DEF BackfillInv
<1>2. samples'[t] = IF new # NoRow /\ Replaces(new, old) THEN new ELSE old
  BY DEF SampleUpsert
<1>3. old.seen \in Nat /\ new.seen \in Nat /\ \A r \in legacy : r.seen \in Nat /\ 1 <= r.seen
  BY <1>1 DEF BackfillTypes, Rows, LegacyInv
<1>4. CASE new # NoRow /\ Replaces(new, old)
  <2>1. old.seen <= new.seen
    BY <1>3, <1>4 DEF Replaces, NoRow
  <2>2. \E r \in DelayRows(t) : Row(DelayOf[r.hash], r.seen) = new
    BY <1>1, <1>3, <1>4, <2>1 DEF SampleInv, ReadIsThere
  <2> QED
    BY <1>2, <1>4, <2>1, <2>2
<1>5. CASE ~(new # NoRow /\ Replaces(new, old))
  <2>1. ASSUME NEW r \in legacy, Covers(new, r) PROVE Covers(old, r)
    <3>1. new # NoRow
      BY <1>3, <2>1 DEF Covers, NoRow
    <3>2. new.seen < old.seen \/ (new.seen = old.seen /\ new.is = old.is)
      BY <1>3, <1>5, <3>1 DEF Replaces
    <3> QED
      BY <1>3, <2>1, <3>2 DEF Covers
  <2> QED
    BY <1>2, <1>5, <2>1
<1> QED
  BY <1>4, <1>5

\* The statistics of no trip get worse.
LEMMA UpsertCovers ==
  ASSUME BackfillInv, job.phase \in {"samples", "refresh_samples"}, job.at = "write",
         samples' = SampleUpsert, NEW t \in Trip
  PROVE  /\ samples'[t] \in [is : Delay \cup {None}, seen : Nat]
         /\ samples[t].seen <= samples'[t].seen /\ Settled(samples'[t].seen)
         /\ \A r \in DelayRows(t) : Held(t, r) => Covers(samples'[t], r)
         /\ ~retired /\ (\A r \in DelayRows(t) : Covers(samples'[t], r)) =>
              samples'[t].is = lastDelay[t]
<1>1. BackfillTypes /\ LegacyInv /\ SampleInv /\ PollInv
  BY DEF BackfillInv
<1>2. samples[t] \in [is : Delay \cup {None}, seen : Nat] /\ Settled(samples[t].seen)
  BY <1>1 DEF BackfillTypes, Rows, PollInv
<1>3. CASE /\ samples'[t] = samples[t]
           /\ \A r \in legacy : Covers(job.rows[t], r) => Covers(samples[t], r)
  <2>1. samples[t].seen \in Nat
    BY <1>2
  <2>2. \A r \in DelayRows(t) : Held(t, r) => Covers(samples'[t], r)
    BY <1>3 DEF Held, DelayRows
  <2>3. ~retired /\ (\A r \in DelayRows(t) : Covers(samples'[t], r)) => samples'[t].is = lastDelay[t]
    BY <1>1, <1>3 DEF SampleInv, DelayTold
  <2> QED
    BY <1>2, <1>3, <2>1, <2>2, <2>3
<1>4. CASE /\ samples'[t] = job.rows[t] /\ samples[t].seen <= job.rows[t].seen
           /\ \E r \in DelayRows(t) : Row(DelayOf[r.hash], r.seen) = job.rows[t]
  <2>1. PICK n \in DelayRows(t) : Row(DelayOf[n.hash], n.seen) = job.rows[t]
    BY <1>4
  <2>2. n \in legacy /\ n.trip = t /\ n.hash \in Hash /\ n.seen \in Nat /\ n.seen <= freshness[t]
        /\ freshness[t] \in Nat /\ now \in Nat
    BY <1>1, <2>1 DEF DelayRows, BackfillTypes, LegacyInv
  <2>3. samples'[t].is = DelayOf[n.hash] /\ samples'[t].seen = n.seen
    BY <1>4, <2>1 DEF Row
  <2>4. samples'[t] \in [is : Delay \cup {None}, seen : Nat]
    BY <1>4, <2>1, <2>2 DEF Row, Delay
  <2>5. Settled(samples'[t].seen)
    BY <1>1, <2>2, <2>3 DEF PollInv, Settled
  <2>6. ASSUME NEW r \in DelayRows(t), Held(t, r) PROVE Covers(samples'[t], r)
    <3>1. r \in legacy /\ r.trip = t /\ r.seen \in Nat
      BY <1>1 DEF DelayRows, BackfillTypes
    <3>2. CASE Covers(job.rows[t], r)
      BY <1>4, <3>2
    <3>3. CASE Covers(samples[t], r)
      <4>1. r.seen < n.seen \/ r.seen = n.seen
        BY <1>2, <1>4, <2>2, <2>3, <3>1, <3>3 DEF Covers
      <4>2. r.seen = n.seen => r = n
        BY <1>1, <2>2, <3>1 DEF LegacyInv
      <4> QED
        BY <2>3, <4>1, <4>2 DEF Covers
    <3> QED
      BY <2>6, <3>2, <3>3 DEF Held
  <2>7. ASSUME ~retired, \A r \in DelayRows(t) : Covers(samples'[t], r)
        PROVE  samples'[t].is = lastDelay[t]
    <3>1. \A r \in DelayRows(t) : r.seen \in Nat /\ r.seen <= n.seen
      BY <1>1, <2>2, <2>3, <2>7 DEF Covers, DelayRows, BackfillTypes
    <3>2. NewestDelay(n, t) /\ samples[t].seen <= n.seen
      BY <1>4, <2>1, <2>3, <3>1 DEF NewestDelay
    <3>3. lastDelay[t] = DelayOf[n.hash]
      BY <1>1, <2>2, <3>2 DEF SampleInv, DelayTold
    <3> QED
      BY <2>3, <3>3
  <2> QED
    BY <1>4, <2>4, <2>5, <2>6, <2>7
<1> QED
  BY <1>3, <1>4, SampleUpserted

\* A batch is written; what depends on the phase follows.
LEMMA WriteKeeps ==
  ASSUME BackfillInv, NEW phase \in {"samples", "refresh_samples"}, NEW name \in Tracked,
         name # "stop_archive", NEW upper \in Int, SamplesWrite(phase, name, upper)
  PROVE  /\ BackfillTypes' /\ LegacyInv' /\ PollInv' /\ LiveInv' /\ BoardAgreesWithMemory'
         /\ SampleInv' /\ StatisticsKept' /\ ArchiveInv'
         /\ UNCHANGED <<now, legacy, freshness>> /\ samples' = SampleUpsert
         /\ job.phase = phase /\ job.at = "write" /\ job'.phase = phase /\ job'.at = "loop"
         /\ job'.asOf = job.asOf
         /\ \A other \in Tracked \ {name} : progress'[other] = progress[other]
         /\ UNCHANGED <<progress[name].started, progress[name].target, progress[name].asOf>>
         /\ progress'[name].last = upper
<1>1. /\ BackfillTypes /\ LegacyInv /\ PollInv /\ LiveInv /\ BoardAgreesWithMemory
      /\ SampleInv /\ CopyInv /\ StatisticsKept /\ ArchiveInv
  BY DEF BackfillInv
<1>2. /\ UNCHANGED <<now, writesLegacy, legacy, retired, archive, tripArchive, live, freshness,
                     mem, poll, lastDelay, tripsCopied>>
      /\ now \in Nat /\ job.phase = phase /\ job.at = "write"
      /\ job' = [job EXCEPT !.at = "loop", !.rows = [t \in Trip |-> NoRow]]
      /\ samples' = SampleUpsert /\ progress' = [progress EXCEPT ![name].last = upper]
  BY <1>1 DEF SamplesWrite, Advanced, collector, BackfillTypes
<1>3. [t \in Trip |-> NoRow] \in Rows(Hash \cup Delay)
  BY DEF Rows, NoRow
<1>4. /\ job' \in [phase : Phase \cup {None}, at : {"none", "loop", "write"}, asOf : Nat,
                   rows : Rows(Hash \cup Delay)]
      /\ job'.phase = phase /\ job'.at = "loop" /\ job'.asOf = job.asOf
  BY <1>1, <1>2, <1>3 DEF BackfillTypes
<1>5. /\ progress' \in [Tracked -> [started : BOOLEAN, last : Int, target : Nat, asOf : Nat]]
      /\ \A other \in Tracked \ {name} : progress'[other] = progress[other]
      /\ UNCHANGED <<progress[name].started, progress[name].target, progress[name].asOf>>
      /\ progress'[name].last = upper
  BY <1>1, <1>2 DEF BackfillTypes
<1>6. ~retired
  BY <1>1, <1>2 DEF LegacyInv, NoJob
<1>7. \A t \in Trip : /\ samples'[t] \in [is : Delay \cup {None}, seen : Nat]
                      /\ samples[t].seen <= samples'[t].seen /\ Settled(samples'[t].seen)
                      /\ (\A r \in DelayRows(t) : Covers(samples'[t], r)) =>
                           samples'[t].is = lastDelay[t]
  BY <1>2, <1>6, UpsertCovers
<1>8. samples' \in Rows(Delay)
  BY <1>2, <1>7 DEF SampleUpsert, Rows
<1>9. BackfillTypes'
  BY <1>1, <1>2, <1>4, <1>5, <1>8 DEF BackfillTypes
<1>10. PollInv' /\ BoardAgreesWithMemory'
  BY <1>1, <1>2, <1>7 DEF PollInv, BoardAgreesWithMemory, Settled
<1>11. SampleInv'
  <2>1. ASSUME NEW t \in Trip PROVE DelayTold(t)'
    <3>1. DelayRows(t)' = DelayRows(t) /\ \A r : NewestDelay(r, t)' <=> NewestDelay(r, t)
      BY <1>2 DEF DelayRows, NewestDelay
    <3>2. DelayTold(t)
      BY <1>1 DEF SampleInv
    <3>3. \A r \in legacy : samples'[t].seen <= r.seen => samples[t].seen <= r.seen
      BY <1>1, <1>7 DEF BackfillTypes, Rows
    <3> QED
      BY <1>2, <1>7, <3>1, <3>2, <3>3 DEF DelayTold, Covers
  <2> QED
    BY <1>4, <2>1 DEF SampleInv
<1>12. LegacyInv' /\ LiveInv' /\ StatisticsKept' /\ ArchiveInv'
  BY <1>1, <1>2, <1>4, <1>5, <1>6, LegacyFrame, LiveFrame, ArchiveFrame DEF StatisticsKept, Tracked
<1> QED
  BY <1>2, <1>4, <1>5, <1>9, <1>10, <1>11, <1>12

LEMMA SamplesWriteKeeps ==
  BackfillInv /\ SamplesWrite("samples", "delay_samples", Upper("delay_samples")) => BackfillInv'
<1> DEFINE name == "delay_samples"
<1> SUFFICES ASSUME BackfillInv, SamplesWrite("samples", name, Upper(name)) PROVE BackfillInv'
  OBVIOUS
<1>1. BackfillTypes /\ LegacyInv /\ CopyInv
  BY DEF BackfillInv
<1>2. /\ progress[name].last \in Int /\ progress[name].target \in Int
      /\ Upper(name) \in Int /\ Upper(name) <= progress[name].target
      /\ progress[name].last <= Upper(name)
  BY <1>1, UpperBound DEF Tracked, BackfillTypes, CopyInv
<1>3. /\ BackfillTypes' /\ LegacyInv' /\ PollInv' /\ LiveInv' /\ BoardAgreesWithMemory'
      /\ SampleInv' /\ StatisticsKept' /\ ArchiveInv'
      /\ UNCHANGED <<now, legacy, freshness>> /\ samples' = SampleUpsert
      /\ job.phase = "samples" /\ job.at = "write" /\ job'.phase = "samples" /\ job'.at = "loop"
      /\ job'.asOf = job.asOf
      /\ UNCHANGED <<progress["delay_refresh"]>>
      /\ UNCHANGED <<progress[name].started, progress[name].target, progress[name].asOf>>
      /\ progress'[name].last = Upper(name)
  BY <1>2, WriteKeeps DEF Tracked
<1>4. \A t \in Trip : /\ Passed(t)' = Passed(t) /\ Gone(t)' = Gone(t)
                      /\ DelayRows(t)' = DelayRows(t)
  BY <1>3 DEF Passed, Gone, DelayRows
<1>5. \A t \in Trip : \A r \in DelayRows(t) : Held(t, r) => Covers(samples'[t], r)
  BY <1>3, UpsertCovers
<1>6. ASSUME NEW t \in Trip, ~Passed(t), NEW r \in DelayRows(t), ~Covers(samples'[t], r)
      PROVE  r.id > Upper(name) /\ r.id <= progress[name].target
  <2>1. ~Held(t, r) /\ r.id \in Int
    BY <1>1, <1>5, <1>6 DEF DelayRows, BackfillTypes
  <2>2. r.id > progress[name].last /\ r.id <= progress[name].target
    BY <1>1, <1>3, <1>6, <2>1 DEF CopyInv, Held
  <2>3. ~(progress[name].last < r.id /\ r.id <= Upper(name))
    BY <1>1, <1>3, <1>6, <2>1 DEF CopyInv
  <2> QED
    BY <1>2, <2>1, <2>2, <2>3
<1>7. Complete(name) => Complete(name)'
  BY <1>2, <1>3 DEF Complete
<1>8. \A t \in Trip : \A r \in DelayRows(t) : Covers(samples[t], r) => Covers(samples'[t], r)
  BY <1>5 DEF Held
<1>9. CopyInv'
  BY <1>1, <1>2, <1>3, <1>4, <1>6, <1>7, <1>8 DEF CopyInv, Covers
<1> QED
  BY <1>3, <1>9 DEF BackfillInv

LEMMA RefreshWriteKeeps ==
  BackfillInv /\ SamplesWrite("refresh_samples", "delay_refresh", progress["delay_refresh"].last + 1)
    => BackfillInv'
<1> DEFINE name == "delay_refresh"
           next == progress[name].last + 1
<1> SUFFICES ASSUME BackfillInv, SamplesWrite("refresh_samples", name, next) PROVE BackfillInv'
  OBVIOUS
<1>1. BackfillTypes /\ LegacyInv /\ CopyInv
  BY DEF BackfillInv
<1>2. progress[name].last \in Int /\ next \in Int
  BY <1>1 DEF Tracked, BackfillTypes
<1>3. /\ BackfillTypes' /\ LegacyInv' /\ PollInv' /\ LiveInv' /\ BoardAgreesWithMemory'
      /\ SampleInv' /\ StatisticsKept' /\ ArchiveInv'
      /\ UNCHANGED <<now, legacy, freshness>> /\ samples' = SampleUpsert
      /\ job.phase = "refresh_samples" /\ job.at = "write" /\ job'.phase = "refresh_samples"
      /\ job'.at = "loop" /\ job'.asOf = job.asOf
      /\ UNCHANGED <<progress["delay_samples"]>>
      /\ UNCHANGED <<progress[name].started, progress[name].target, progress[name].asOf>>
      /\ progress'[name].last = next
  BY <1>2, WriteKeeps DEF Tracked
<1>4. \A t \in Trip : /\ Passed(t)' = Passed(t) /\ Gone(t)' = Gone(t)
                      /\ DelayRows(t)' = DelayRows(t)
  BY <1>3 DEF Passed, Gone, DelayRows
<1>5. \A t \in Trip : \A r \in DelayRows(t) : Held(t, r) => Covers(samples'[t], r)
  BY <1>3, UpsertCovers
<1>6. \A t \in Trip : \A r \in DelayRows(t) : Covers(samples[t], r) => Covers(samples'[t], r)
  BY <1>5 DEF Held
<1>7. ASSUME NEW t \in Trip, Bucket[t] < next, ~Gone(t), NEW r \in DelayRows(t)
      PROVE  Covers(samples'[t], r)
  <2>1. Bucket[t] < progress[name].last \/ Bucket[t] = progress[name].last
    BY <1>2, <1>7, BackfillAssumption
  <2>2. CASE Bucket[t] < progress[name].last
    BY <1>1, <1>3, <1>6, <1>7, <2>2 DEF CopyInv
  <2>3. CASE Bucket[t] = progress[name].last
    BY <1>1, <1>3, <1>5, <1>7, <2>3 DEF CopyInv
  <2> QED
    BY <2>1, <2>2, <2>3
<1>8. Complete("delay_samples")' = Complete("delay_samples")
  BY <1>3 DEF Complete
<1> HIDE DEF next
<1>9. CopyInv'
  BY <1>1, <1>3, <1>4, <1>6, <1>7, <1>8 DEF CopyInv, Covers
<1> QED
  BY <1>3, <1>9 DEF BackfillInv

\* Once copy and refresh are done, every trip of the week has its latest delay.
LEMMA StatisticsHold ==
  ASSUME BackfillInv, Complete("delay_samples"), Complete("delay_refresh"), NEW t \in Trip
  PROVE  Gone(t) \/ samples[t].is = lastDelay[t]
<1>1. CASE retired
  BY <1>1 DEF BackfillInv, StatisticsKept
<1>2. CASE ~retired
  <2>1. /\ progress["delay_refresh"].started /\ progress["delay_refresh"].target = Buckets
        /\ progress["delay_refresh"].last \in Int
        /\ progress["delay_refresh"].last >= progress["delay_refresh"].target
    BY DEF BackfillInv, CopyInv, Complete, BackfillTypes, Tracked
  <2>2. Bucket[t] < progress["delay_refresh"].last
    BY <2>1, BackfillAssumption
  <2>3. Gone(t) \/ \A r \in DelayRows(t) : Covers(samples[t], r)
    BY <2>1, <2>2 DEF BackfillInv, CopyInv
  <2> QED
    BY <1>2, <2>3 DEF BackfillInv, SampleInv, DelayTold
<1> QED
  BY <1>1, <1>2

LEMMA RetireKeeps == BackfillInv /\ Retire => BackfillInv'
<1> SUFFICES ASSUME BackfillInv, Retire PROVE BackfillInv'
  OBVIOUS
<1>1. /\ BackfillTypes /\ LegacyInv /\ PollInv /\ LiveInv /\ BoardAgreesWithMemory
      /\ SampleInv /\ CopyInv /\ StatisticsKept /\ ArchiveInv
  BY DEF BackfillInv
<1>2. /\ UNCHANGED <<now, writesLegacy, archive, tripArchive, samples, live, freshness,
                     progress, mem, poll, collector, lastDelay, tripsCopied>>
      /\ now \in Nat /\ legacy' = {} /\ retired' /\ ~retired /\ job' = NoJob
  BY <1>1 DEF Retire, projections, collector, BackfillTypes
<1>3. job'.phase \notin Phase
  BY <1>2, BackfillAssumption DEF NoJob
<1>4. BackfillTypes'
  <2>1. retired' \in BOOLEAN
    BY DEF Retire
  <2> QED
    BY <1>1, <1>2, <2>1 DEF BackfillTypes, NoJob, NoRow, Rows
<1>5. \A t \in Trip : DelayRows(t)' = {} /\ Gone(t)' = Gone(t) /\ Passed(t)' = Passed(t)
  BY <1>2 DEF DelayRows, Gone, Passed
<1>6. LegacyInv'
  BY <1>2 DEF LegacyInv, NoJob, NoRow
<1>7. LiveInv'
  BY <1>1, <1>2, <1>3 DEF LiveInv, Phase, NoRow
<1>8. SampleInv'
  BY <1>2, <1>3 DEF SampleInv, DelayTold, Phase
<1>9. CopyInv'
  <2>1. Complete("delay_samples")' = Complete("delay_samples")
    BY <1>2 DEF Complete
  <2> QED
    BY <1>1, <1>2, <1>3, <1>5, <2>1 DEF CopyInv, Phase
<1>10. StatisticsKept'
  <2>1. Complete("delay_samples")' = Complete("delay_samples")
        /\ Complete("delay_refresh")' = Complete("delay_refresh")
    BY <1>2 DEF Complete
  <2> QED
    BY <1>2, <1>5, <2>1, StatisticsHold DEF StatisticsKept
<1>11. ArchiveInv'
  BY <1>1, <1>2 DEF ArchiveInv, TripArchiveMissing, TripIdentity
<1>12. PollInv' /\ BoardAgreesWithMemory'
  BY <1>1, <1>2, ToolFrame
<1> QED
  BY <1>4, <1>6, <1>7, <1>8, <1>9, <1>10, <1>11, <1>12 DEF BackfillInv

LEMMA CommitKeeps == BackfillInv /\ Commit => BackfillInv'
BY CommitTypes, CommitLegacy, CommitPoll, CommitLive, CommitSample, CommitCopy, CommitArchive
   DEF BackfillInv

LEMMA NextKeeps == BackfillInv /\ [Next]_vars => BackfillInv'
<1> SUFFICES ASSUME BackfillInv, [Next]_vars PROVE BackfillInv'
  OBVIOUS
<1>1. CASE Ingestion
  BY <1>1, FetchKeeps, CommitKeeps, PollLost DEF Ingestion
<1>2. CASE Archiving
  <2>1. CASE ArchiveEnds
    BY <2>1, JobEnds DEF ArchiveEnds
  <2> QED
    BY <1>2, <2>1, StartArchiveKeeps, ArchiveBatchKeeps, TripArchiveKeeps DEF Archiving
<1>3. CASE Sampling
  <2>1. CASE SamplesEnd
    BY <2>1, JobEnds DEF SamplesEnd
  <2>2. CASE RefreshEnds
    BY <2>2, JobEnds DEF RefreshEnds
  <2> QED
    BY <1>3, <2>1, <2>2, StartSamplesKeeps, SamplesReadKeeps, SamplesWriteKeeps, StartRefreshKeeps,
       RefreshReadKeeps, RefreshWriteKeeps DEF Sampling
<1>4. CASE JobStops
  BY <1>4, JobEnds DEF JobStops
<1>5. CASE UNCHANGED vars
  <2>1. /\ BackfillTypes /\ LegacyInv /\ PollInv /\ LiveInv /\ BoardAgreesWithMemory
        /\ SampleInv /\ CopyInv /\ StatisticsKept /\ ArchiveInv
    BY DEF BackfillInv
  <2>2. /\ UNCHANGED <<now, writesLegacy, legacy, retired, archive, tripArchive, samples, live, freshness,
                       progress, job, mem, poll, collector, lastDelay, tripsCopied>>
        /\ now \in Nat
    BY <1>5, <2>1 DEF vars, projections, collector, BackfillTypes
  <2>3. BackfillTypes'
    BY <2>1, <2>2 DEF BackfillTypes
  <2>4. LegacyInv' /\ LiveInv' /\ SampleInv' /\ CopyInv' /\ StatisticsKept' /\ ArchiveInv' /\ PollInv'
        /\ BoardAgreesWithMemory'
    BY <2>1, <2>2, LegacyFrame, LiveFrame, SampleFrame, CopyFrame, StatisticsFrame, ArchiveFrame,
       ToolFrame
  <2> QED
    BY <2>3, <2>4 DEF BackfillInv
<1> QED
  BY <1>1, <1>2, <1>3, <1>4, <1>5, StartLiveKeeps, LiveReadKeeps, LiveWriteKeeps, RetireKeeps DEF Next

-----------------------------------------------------------------------------
(* What the polls before the move have left.                               *)

\* A history of n polls.
Reports(history, n) ==
  /\ n \in Nat /\ n <= MaxTime /\ DOMAIN history = 1 .. n
  /\ \A k \in 1 .. n : history[k] \in [Trip -> Hash \cup {None}]

LEMMA ProductGrows ==
  ASSUME NEW c \in Nat, NEW a \in Nat, NEW b \in Nat, a <= b
  PROVE  c * a <= c * b
OBVIOUS

LEMMA HistoryRow ==
  ASSUME NEW history, NEW n, Reports(history, n), NEW r \in LegacyOf(history)
  PROVE  /\ r \in [id : Nat, trip : Trip, hash : Hash, fetched : Nat, seen : Nat]
         /\ r.id <= IdStep * n + IdStep
         /\ 1 <= r.seen /\ r.seen <= n /\ history[r.seen][r.trip] = r.hash
         /\ \A m \in WrittenAt(history, r.trip, r.hash) : m <= r.seen
         /\ \A q \in LegacyOf(history) : q.trip = r.trip /\ q.hash = r.hash => q = r
<1> DEFINE W(t, h) == WrittenAt(history, t, h)
           RowOf(p) == [id |-> Id(Min(W(p[1], p[2])), p[1]), trip |-> p[1], hash |-> p[2],
                        fetched |-> Min(W(p[1], p[2])), seen |-> Max(W(p[1], p[2]))]
<1>1. LegacyOf(history) = {RowOf(p) : p \in {q \in Trip \X Hash : W(q[1], q[2]) # {}}}
  BY DEF LegacyOf
<1>2. PICK t \in Trip, h \in Hash : W(t, h) # {} /\ r = RowOf(<<t, h>>)
  BY <1>1
<1>3. n \in Nat /\ DOMAIN history = 1 .. n
  BY DEF Reports
<1>4. W(t, h) \subseteq 1 .. n /\ \A m \in W(t, h) : history[m][t] = h
  BY <1>3 DEF WrittenAt
<1>5. W(t, h) \subseteq Nat /\ \A m \in W(t, h) : 1 <= m /\ m <= n
  BY <1>3, <1>4
<1> HIDE DEF W
<1>6. Min(W(t, h)) \in W(t, h)
  BY <1>2, <1>5, MinOfNats
<1>7. Max(W(t, h)) \in W(t, h) /\ \A m \in W(t, h) : m <= Max(W(t, h))
  BY <1>2, <1>3, <1>5, MaxOfNats
<1>8. /\ r.trip = t /\ r.hash = h /\ r.fetched = Min(W(t, h)) /\ r.seen = Max(W(t, h))
      /\ r.id = Id(Min(W(t, h)), t)
  BY <1>2
<1>9. r.fetched \in Nat /\ r.seen \in Nat /\ r.fetched <= n /\ 1 <= r.seen /\ r.seen <= n
  BY <1>5, <1>6, <1>7, <1>8
<1>10. r.id \in Nat /\ r.id <= IdStep * n + IdStep
  <2>1. r.id \in Nat /\ r.id <= IdStep * r.fetched + IdStep /\ IdStep * r.fetched \in Nat
    BY <1>8, <1>9, IdBound
  <2>2. IdStep \in Nat /\ IdStep * r.fetched <= IdStep * n /\ IdStep * n \in Nat
    BY <1>3, <1>9, ProductGrows, BackfillAssumption
  <2> QED
    BY <2>1, <2>2
<1>11. r \in [id : Nat, trip : Trip, hash : Hash, fetched : Nat, seen : Nat]
  BY <1>2, <1>8, <1>9, <1>10
<1>12. ASSUME NEW q \in LegacyOf(history), q.trip = r.trip, q.hash = r.hash PROVE q = r
  <2>1. PICK u \in Trip, g \in Hash : q = RowOf(<<u, g>>)
    BY <1>1
  <2>2. q.trip = u /\ q.hash = g
    BY <2>1
  <2> QED
    BY <1>2, <1>8, <1>12, <2>1, <2>2
<1>13. history[r.seen][r.trip] = r.hash /\ \A m \in WrittenAt(history, r.trip, r.hash) : m <= r.seen
  BY <1>4, <1>7, <1>8 DEF W
<1> QED
  BY <1>9, <1>10, <1>11, <1>12, <1>13

LEMMA HistoryHasRow ==
  ASSUME NEW history, NEW n, Reports(history, n), NEW t \in Trip, NEW h \in Hash,
         NEW m \in WrittenAt(history, t, h)
  PROVE  \E r \in LegacyOf(history) : r.trip = t /\ r.hash = h
<1> DEFINE r == [id |-> Id(Min(WrittenAt(history, t, h)), t), trip |-> t, hash |-> h,
                 fetched |-> Min(WrittenAt(history, t, h)),
                 seen |-> Max(WrittenAt(history, t, h))]
<1>1. <<t, h>> \in {q \in Trip \X Hash : WrittenAt(history, q[1], q[2]) # {}}
  OBVIOUS
<1>2. r \in LegacyOf(history)
  BY <1>1 DEF LegacyOf
<1> QED
  BY <1>2

\* The newest row with a delay tells the latest delay reported: the state of
\* the last poll with one was written when it began, and no other since.
LEMMA HistoryDelay ==
  ASSUME NEW history, NEW n, Reports(history, n), NEW t \in Trip
  PROVE  LET rows == {r \in LegacyOf(history) : r.trip = t /\ DelayOf[r.hash] # None}
         IN  /\ DelayReported(history, t) \in Delay \cup {None}
             /\ rows = {} => DelayReported(history, t) = None
             /\ \A r \in rows : (\A q \in rows : q.seen <= r.seen) =>
                  DelayReported(history, t) = DelayOf[r.hash]
<1> DEFINE D == {m \in DOMAIN history : history[m][t] # None /\ DelayOf[history[m][t]] # None}
           rows == {r \in LegacyOf(history) : r.trip = t /\ DelayOf[r.hash] # None}
<1>1. n \in Nat /\ DOMAIN history = 1 .. n
      /\ \A k \in 1 .. n : history[k] \in [Trip -> Hash \cup {None}]
  BY DEF Reports
<1>2. DelayReported(history, t) =
        IF LastOf(D) = 0 THEN None ELSE DelayOf[history[LastOf(D)][t]]
  BY DEF DelayReported
<1>3. D \subseteq Nat /\ \A m \in D : 1 <= m /\ m <= n
  BY <1>1
<1>4. \A r \in rows : /\ r \in LegacyOf(history) /\ r.trip = t /\ r.hash \in Hash /\ r.seen \in Nat
                      /\ 1 <= r.seen /\ r.seen <= n /\ history[r.seen][t] = r.hash
                      /\ \A m \in WrittenAt(history, t, r.hash) : m <= r.seen
                      /\ DelayOf[r.hash] # None
  BY HistoryRow
<1>5. \A r \in rows : r.seen \in D
  BY <1>1, <1>4, BackfillAssumption
<1>6. CASE D = {}
  <2>1. LastOf(D) = 0
    BY <1>6 DEF LastOf
  <2>2. rows = {}
    BY <1>5, <1>6
  <2> QED
    BY <1>2, <2>1, <2>2
<1>7. CASE D # {}
  <2> DEFINE k == Max(D)
             h == history[k][t]
             Run == {m \in 1 .. k : \A j \in m .. k : history[j][t] = h}
  <2>1. k \in D /\ \A m \in D : m <= k
    BY <1>1, <1>3, <1>7, MaxOfNats
  <2>2. k \in Nat /\ 1 <= k /\ k <= n /\ LastOf(D) = k
    BY <1>3, <1>7, <2>1 DEF LastOf
  <2>3. h \in Hash /\ DelayOf[h] # None /\ DelayOf[h] \in Delay
    BY <1>1, <2>1, <2>2 DEF Delay
  <2>4. DelayReported(history, t) = DelayOf[h]
    BY <1>2, <2>2
  <2> HIDE DEF D, rows, k, h
  <2>5. k \in Run /\ Run \subseteq Nat
    BY <2>2 DEF h
  <2>6. PICK first \in Run : \A m \in Run : first <= m
    BY <2>5, LeastOfNats
  <2>7. first \in Nat /\ 1 <= first /\ first <= k /\ \A j \in first .. k : history[j][t] = h
    BY <2>2, <2>6
  <2>8. first = 1 \/ history[first - 1][t] # h
    <3> SUFFICES ASSUME first # 1, history[first - 1][t] = h PROVE FALSE
      OBVIOUS
    <3>1. first - 1 \in 1 .. k
      BY <2>2, <2>7
    <3>2. \A j \in (first - 1) .. k : j = first - 1 \/ j \in first .. k
      BY <2>2, <2>7
    <3>3. first - 1 \in Run
      BY <2>7, <3>1, <3>2
    <3> QED
      BY <2>6, <2>7, <3>3
  <2>9. first \in WrittenAt(history, t, h)
    <3>1. first \in DOMAIN history /\ history[first][t] = h
      BY <1>1, <2>2, <2>7
    <3> QED
      BY <2>8, <3>1 DEF WrittenAt
  <2>10. PICK x \in LegacyOf(history) : x.trip = t /\ x.hash = h
    BY <2>3, <2>9, HistoryHasRow
  <2>11. x \in rows
    BY <2>3, <2>10 DEF rows
  <2>12. first <= x.seen
    BY <1>4, <2>9, <2>10, <2>11
  <2>13. ASSUME NEW r \in rows, \A q \in rows : q.seen <= r.seen PROVE r.hash = h
    <3>1. r.seen \in Nat /\ first <= r.seen /\ r.seen <= k
      BY <1>4, <1>5, <2>1, <2>7, <2>11, <2>12, <2>13
    <3>2. r.seen \in first .. k
      BY <2>2, <2>7, <3>1
    <3> QED
      BY <1>4, <2>7, <3>2
  <2>14. /\ DelayReported(history, t) \in Delay \cup {None} /\ rows # {}
         /\ \A r \in rows : (\A q \in rows : q.seen <= r.seen) =>
              DelayReported(history, t) = DelayOf[r.hash]
    BY <2>3, <2>4, <2>11, <2>13
  <2> QED
    BY <2>14 DEF rows
<1> QED
  BY <1>6, <1>7

LEMMA InitEstablishes == Init => BackfillInv
<1> SUFFICES ASSUME Init PROVE BackfillInv
  OBVIOUS
<1>1. PICK history \in Histories :
        /\ now = Cardinality(DOMAIN history)
        /\ legacy = LegacyOf(history)
        /\ freshness = [t \in Trip |-> LastOf({m \in DOMAIN history : history[m][t] # None})]
        /\ lastDelay = [t \in Trip |-> DelayReported(history, t)]
  BY DEF Init
<1>2. /\ writesLegacy \in BOOLEAN /\ retired = FALSE /\ archive = {} /\ tripArchive = {}
      /\ samples = [t \in Trip |-> NoRow] /\ live = [t \in Trip |-> NoRow]
      /\ progress = [name \in Tracked |-> Unstarted]
      /\ job = NoJob /\ mem = Unloaded /\ poll = NoPoll /\ tripsCopied = FALSE
  BY DEF Init
<1>3. PICK n \in 0 .. MaxTime : DOMAIN history = 1 .. n
                                /\ \A k \in 1 .. n : history[k] \in [Trip -> Hash \cup {None}]
  BY BackfillAssumption
<1>4. n \in Nat /\ Reports(history, n)
  BY <1>3, BackfillAssumption DEF Reports
<1>5. now = n
  <2>1. Cardinality(1 .. n) = IF 1 > n THEN 0 ELSE n - 1 + 1
    BY <1>4, FS_Interval
  <2> QED
    BY <1>1, <1>3, <1>4, <2>1
<1>6. \A r \in legacy :
        /\ r \in [id : Nat, trip : Trip, hash : Hash, fetched : Nat, seen : Nat]
        /\ r.id <= IdStep * n + IdStep
        /\ 1 <= r.seen /\ r.seen <= n /\ history[r.seen][r.trip] = r.hash
        /\ \A q \in legacy : q.trip = r.trip /\ q.hash = r.hash => q = r
  BY <1>1, <1>4, HistoryRow
<1>7. ASSUME NEW t \in Trip
      PROVE  /\ freshness[t] \in Nat /\ freshness[t] <= n
             /\ \A r \in legacy : r.trip = t => r.seen <= freshness[t]
  <2> DEFINE times == {m \in DOMAIN history : history[m][t] # None}
  <2>1. freshness[t] = LastOf(times) /\ times \subseteq Nat /\ \A m \in times : m <= n
    BY <1>1, <1>3, <1>4
  <2>2. \A r \in legacy : r.trip = t => r.seen \in times
    BY <1>3, <1>4, <1>6, BackfillAssumption
  <2> HIDE DEF times
  <2>3. CASE times = {}
    BY <1>4, <2>1, <2>2, <2>3 DEF LastOf
  <2>4. CASE times # {}
    BY <1>4, <2>1, <2>2, <2>4, MaxOfNats DEF LastOf
  <2> QED
    BY <2>3, <2>4
<1>8. ASSUME NEW t \in Trip
      PROVE  /\ lastDelay[t] \in Delay \cup {None}
             /\ DelayRows(t) = {} => lastDelay[t] = None
             /\ \A r \in DelayRows(t) : NewestDelay(r, t) => lastDelay[t] = DelayOf[r.hash]
  BY <1>1, <1>4, HistoryDelay DEF DelayRows, NewestDelay
<1>9. BackfillTypes
  <2>1. legacy \subseteq [id : Nat, trip : Trip, hash : Hash, fetched : Nat, seen : Nat]
    BY <1>6
  <2>2. freshness \in [Trip -> Nat] /\ lastDelay \in [Trip -> Delay \cup {None}]
    BY <1>1, <1>7, <1>8
  <2>3. samples \in Rows(Delay) /\ live \in Rows(Hash)
    BY <1>2 DEF Rows, NoRow
  <2>4. progress \in [Tracked -> [started : BOOLEAN, last : Int, target : Nat, asOf : Nat]]
    BY <1>2 DEF Unstarted
  <2>5. job \in [phase : Phase \cup {None}, at : {"none", "loop", "write"}, asOf : Nat,
                 rows : Rows(Hash \cup Delay)]
    <3>1. [t \in Trip |-> NoRow] \in Rows(Hash \cup Delay)
      BY DEF Rows, NoRow
    <3> QED
      BY <1>2, <3>1 DEF NoJob
  <2>6. now \in Nat /\ retired \in BOOLEAN
    BY <1>2, <1>4, <1>5
  <2>7. mem \in [Trip -> Hash \cup {None}] \cup {Unloaded} /\ poll \in AnyPoll \cup {NoPoll}
    BY <1>2
  <2> QED
    BY <1>2, <2>1, <2>2, <2>3, <2>4, <2>5, <2>6, <2>7 DEF BackfillTypes
<1>10. LegacyInv
  <2>1. IdStep * n + IdStep \in Nat
    BY <1>4, BackfillAssumption
  <2>2. \E bound \in Nat : \A r \in legacy : r.id <= bound
    BY <1>6, <2>1
  <2>3. \A r \in legacy : 1 <= r.seen /\ r.seen <= freshness[r.trip]
    BY <1>6, <1>7
  <2>4. ASSUME NEW r \in legacy, NEW q \in legacy, r.trip = q.trip, r.hash = q.hash \/ r.seen = q.seen
        PROVE  r = q
    BY <1>6, <2>4
  <2> QED
    BY <1>2, <2>2, <2>3, <2>4 DEF LegacyInv
<1>11. PollInv
  BY <1>2, <1>4, <1>5, <1>7 DEF PollInv, Settled, NoRow
<1>12. LiveInv
  <2>1. \A t \in Trip : live[t] = NoRow
    BY <1>2
  <2>2. \A r \in legacy : r.trip \in Trip
    BY <1>6
  <2>3. ~(job.phase = "live")
    BY <1>2, BackfillAssumption DEF NoJob, Phase
  <2>4. \A t \in Trip, r \in legacy : NewestDelay(r, t) => lastDelay[t] = DelayOf[r.hash]
    BY <1>8 DEF NewestDelay
  <2> QED
    BY <2>1, <2>2, <2>3, <2>4 DEF LiveInv
<1>13. SampleInv
  <2>1. ASSUME NEW t \in Trip PROVE DelayTold(t)
    <3>1. \A r \in DelayRows(t) : ~Covers(NoRow, r)
      BY <1>6 DEF DelayRows, Covers, NoRow
    <3>2. samples[t] = NoRow /\ NoRow.is = None
      BY <1>2 DEF NoRow
    <3> QED
      BY <1>8, <3>1, <3>2 DEF DelayTold, NewestDelay
  <2> QED
    BY <1>2, <2>1, BackfillAssumption DEF SampleInv, NoJob, Phase
<1>14. CopyInv
  BY <1>2, BackfillAssumption DEF CopyInv, Unstarted, Tracked, NoJob, Phase
<1>15. StatisticsKept /\ ArchiveInv /\ BoardAgreesWithMemory
  BY <1>2 DEF StatisticsKept, ArchiveInv, BoardAgreesWithMemory, Unstarted, Tracked
<1> QED
  BY <1>9, <1>10, <1>11, <1>12, <1>13, <1>14, <1>15 DEF BackfillInv

-----------------------------------------------------------------------------
(* The properties.                                                         *)

LEMMA BackfillInvariant == Spec => []BackfillInv
BY InitEstablishes, NextKeeps, PTL DEF Spec

\* The board never holds another state than the one the collector remembers,
\* whatever the live phase of the backfill writes and whenever.
THEOREM BoardIsBelieved == Spec => []BoardAgreesWithMemory
<1>1. BackfillInv => BoardAgreesWithMemory
  BY DEF BackfillInv
<1> QED
  BY <1>1, BackfillInvariant, PTL

\* The copies of bus_stop_updates and of the trip presence lose no row, however
\* the batches are cut, interrupted and interleaved with polls.
THEOREM CopiesLoseNothing == Spec => []CopiesAreComplete
<1>1. BackfillInv => CopiesAreComplete
  <2> SUFFICES ASSUME BackfillInv PROVE CopiesAreComplete
    OBVIOUS
  <2>1. ASSUME Complete("stop_archive"), NEW r \in legacy PROVE StopIdentity(r) \in archive
    <3>1. r.id \in Int /\ progress["stop_archive"].last \in Int /\ progress["stop_archive"].target \in Int
      BY DEF BackfillInv, BackfillTypes, Tracked
    <3> QED
      BY <2>1, <3>1 DEF BackfillInv, ArchiveInv, Complete
  <2> QED
    BY <2>1 DEF CopiesAreComplete, ArchiveMissing, BackfillInv, ArchiveInv
<1> QED
  BY <1>1, BackfillInvariant, PTL

\* Copy and refresh leave no gap: the delays of all trips of the week are the
\* latest that were reported, with and without the legacy table.
THEOREM StatisticsHaveNoGap == Spec => []StatisticsComplete
<1>1. BackfillInv => StatisticsComplete
  <2> SUFFICES ASSUME BackfillInv, Complete("delay_samples"), Complete("delay_refresh"), NEW t \in InWeek
               PROVE  samples[t].is = lastDelay[t]
    BY DEF StatisticsComplete
  <2>1. t \in Trip /\ freshness[t] > now - Window
    BY DEF InWeek
  <2>2. freshness[t] \in Nat /\ now \in Nat /\ Window \in Nat
    BY <2>1, BackfillAssumption DEF BackfillInv, BackfillTypes
  <2>3. ~Gone(t)
    BY <2>1, <2>2 DEF Gone
  <2> QED
    BY <2>1, <2>3, StatisticsHold
<1> QED
  BY <1>1, BackfillInvariant, PTL

\* verify_bus_storage.py finds the statistics equal and the board equal, but
\* for rows that are missing from it, at any moment after the backfill.
THEOREM VerificationPasses == Spec => []FinishedMoveVerifies
<1>1. BackfillInv => FinishedMoveVerifies
  <2> SUFFICES ASSUME BackfillInv, writesLegacy, ~retired, Verifiable
               PROVE  StatsMismatches = {} /\ \A t \in LiveMismatches : live[t] = NoRow
    BY DEF FinishedMoveVerifies
  <2>1. /\ BackfillTypes /\ LegacyInv /\ PollInv /\ LiveInv /\ SampleInv
        /\ Complete("delay_samples") /\ Complete("delay_refresh")
    BY DEF BackfillInv, Verifiable, Tracked
  <2>2. ASSUME NEW t \in InWeek PROVE DelaysIn(legacy, InWeek)[t].is = samples[t].is
    <3> DEFINE found == DelaysIn(legacy, InWeek)[t]
    <3>1. t \in Trip /\ freshness[t] > now - Window
      BY DEF InWeek
    <3>2. freshness[t] \in Nat /\ now \in Nat /\ Window \in Nat
      BY <2>1, <3>1, BackfillAssumption DEF BackfillTypes
    <3>3. samples[t].is = lastDelay[t]
      BY <2>1, <3>1, <3>2, StatisticsHold DEF Gone
    <3>4. /\ found # NoRow => \E r \in DelayRows(t) : Row(DelayOf[r.hash], r.seen) = found
          /\ \A r \in DelayRows(t) : Covers(found, r)
      BY <2>1, <3>1, DelaysFound DEF DelayRows
    <3>5. \A r \in DelayRows(t) : r.seen \in Nat /\ 1 <= r.seen /\ r \in legacy
      BY <2>1 DEF BackfillTypes, LegacyInv, DelayRows
    <3>6. DelayTold(t)
      BY <2>1, <3>1 DEF SampleInv
    <3> HIDE DEF found
    <3>7. CASE found = NoRow
      <4>1. DelayRows(t) = {}
        BY <3>4, <3>5, <3>7 DEF Covers, NoRow
      <4>2. lastDelay[t] = None
        BY <3>6, <4>1 DEF DelayTold
      <4> QED
        BY <3>3, <3>7, <4>2 DEF found, NoRow
    <3>8. CASE found # NoRow
      <4>1. PICK r \in DelayRows(t) : Row(DelayOf[r.hash], r.seen) = found
        BY <3>4, <3>8
      <4>2. found.is = DelayOf[r.hash] /\ found.seen = r.seen
        BY <4>1 DEF Row
      <4>3. NewestDelay(r, t)
        BY <3>4, <3>5, <4>2 DEF NewestDelay, Covers
      <4>4. lastDelay[t] = DelayOf[r.hash]
        BY <3>5, <3>6, <4>3 DEF DelayTold
      <4> QED
        BY <3>3, <4>2, <4>4 DEF found
    <3> QED
      BY <3>7, <3>8
  <2>3. ASSUME NEW t \in LiveMismatches, live[t] # NoRow PROVE FALSE
    <3> DEFINE found == StatesIn(legacy, SeenLately)[t]
    <3>1. t \in Trip /\ t \in SeenLately /\ found.is # live[t].is
      BY DEF LiveMismatches, SeenLately
    <3>2. PICK r \in legacy : r.trip = t /\ r.hash = live[t].is /\ r.seen = live[t].seen
      BY <2>1, <2>3, <3>1 DEF LiveInv
    <3>3. found # NoRow
      BY <2>1, <3>1, <3>2, StatesFound
    <3>4. PICK x \in legacy : x.trip = t /\ Row(x.hash, x.seen) = found
      BY <2>1, <3>1, <3>3, StatesFound
    <3>5. Older(r, found) /\ Older(x, live[t])
      BY <2>1, <2>3, <3>1, <3>2, <3>3, <3>4, StatesFound DEF LiveInv
    <3>6. found.is = x.hash /\ found.seen = x.seen
      BY <3>4 DEF Row
    <3>7. r.seen \in Nat /\ x.seen \in Nat
      BY <2>1, <3>2, <3>4 DEF BackfillTypes
    <3> HIDE DEF found
    <3>8. r.seen = x.seen
      BY <3>2, <3>5, <3>6, <3>7 DEF Older
    <3>9. r = x
      BY <2>1, <3>2, <3>4, <3>8 DEF LegacyInv
    <3> QED
      BY <3>1, <3>2, <3>6, <3>9
  <2> QED
    BY <2>2, <2>3 DEF StatsMismatches
<1> QED
  BY <1>1, BackfillInvariant, PTL

\* No write takes a row of the statistics or of the board back in time: neither
\* a poll, nor a batch that was read before it, nor one that is written twice.
THEOREM NoProjectionGoesBack == Spec => ProjectionsNeverGoBack
<1>1. ASSUME BackfillInv, [Next]_vars, NEW t \in Trip
      PROVE  samples[t].seen <= samples'[t].seen /\ live[t].seen <= live'[t].seen
  <2>1. BackfillTypes /\ LegacyInv /\ PollInv
    BY <1>1 DEF BackfillInv
  <2>2. samples[t].seen \in Nat /\ live[t].seen \in Nat
    BY <2>1 DEF BackfillTypes, Rows
  <2>3. CASE UNCHANGED <<samples, live>>
    BY <2>2, <2>3
  <2>4. CASE Commit
    <3>1. samples'[t].seen \in {samples[t].seen, now} /\ live'[t].seen \in {live[t].seen, now}
      BY <2>1, <2>4, OlderThanPoll DEF Commit, Row
    <3> QED
      BY <2>1, <2>2, <2>4, <3>1, OlderThanPoll DEF Commit
  <2>5. CASE \E name, upper : SamplesWrite("samples", name, upper)
                              \/ SamplesWrite("refresh_samples", name, upper)
    <3>1. /\ job.phase \in {"samples", "refresh_samples"} /\ job.at = "write"
          /\ samples' = SampleUpsert /\ live' = live
      BY <2>5 DEF SamplesWrite
    <3> QED
      BY <1>1, <2>2, <3>1, UpsertCovers
  <2>6. CASE LiveWrite
    <3>1. live'[t] = IF job.rows[t] # NoRow /\ live[t].seen <= job.rows[t].seen
                     THEN job.rows[t] ELSE live[t]
      BY <2>6 DEF LiveWrite, LiveUpsert
    <3>2. samples' = samples
      BY <2>6 DEF LiveWrite
    <3> QED
      BY <2>2, <3>1, <3>2
  <2>7. \/ UNCHANGED <<samples, live>> \/ Commit \/ LiveWrite
        \/ \E name, upper : SamplesWrite("samples", name, upper)
                            \/ SamplesWrite("refresh_samples", name, upper)
    <3>1. CASE Ingestion
      BY <3>1 DEF Ingestion, Fetch, PollFails, Restart, projections
    <3>2. CASE Archiving
      BY <3>2 DEF Archiving, StartArchive, ArchiveBatch, ArchiveEnds, TripArchive, projections
    <3>3. CASE Sampling
      BY <3>3 DEF Sampling, StartSamples, SamplesRead, SamplesEnd, StartRefresh, RefreshRead,
                  RefreshEnds, Reads, projections
    <3>4. CASE StartLive \/ LiveRead \/ LiveWrite \/ JobStops \/ Retire
      BY <3>4 DEF StartLive, LiveRead, JobStops, Retire, Reads, projections
    <3>5. CASE UNCHANGED vars
      BY <3>5 DEF vars, projections
    <3> QED
      BY <1>1, <3>1, <3>2, <3>3, <3>4, <3>5 DEF Next
  <2> QED
    BY <2>3, <2>4, <2>5, <2>6, <2>7
<1>2. BackfillInv /\ [Next]_vars =>
        [\A t \in Trip : samples[t].seen <= samples'[t].seen /\ live[t].seen <= live'[t].seen]_vars
  BY <1>1
<1> QED
  BY <1>2, BackfillInvariant, PTL DEF Spec, ProjectionsNeverGoBack

\* When migration 016 drops bus_stop_updates, the archive has all of it.
THEOREM RetiredOnlyWhenArchived == Spec => ArchivedBeforeRetired
<1>1. ASSUME BackfillInv, [Next]_vars, ~retired, retired' PROVE ArchiveMissing = {}
  <2>1. Retire
    <3>1. ~UNCHANGED retired
      BY <1>1
    <3>2. ~Ingestion
      BY <3>1 DEF Ingestion, Fetch, Commit, PollFails, Restart
    <3>3. ~Archiving
      BY <3>1 DEF Archiving, StartArchive, ArchiveBatch, ArchiveEnds, TripArchive
    <3>4. ~Sampling
      BY <3>1 DEF Sampling, StartSamples, SamplesRead, SamplesEnd, StartRefresh, RefreshRead,
                  RefreshEnds, Reads, SamplesWrite
    <3>5. ~(StartLive \/ LiveRead \/ LiveWrite \/ JobStops)
      BY <3>1 DEF StartLive, LiveRead, LiveWrite, JobStops, Reads
    <3>6. ~UNCHANGED vars
      BY <3>1 DEF vars
    <3> QED
      BY <1>1, <3>2, <3>3, <3>4, <3>5, <3>6 DEF Next
  <2>2. ASSUME NEW r \in legacy PROVE StopIdentity(r) \in archive
    <3>1. Complete("stop_archive")
      BY <2>1, <2>2 DEF Retire, MayDrop
    <3>2. r.id \in Int /\ progress["stop_archive"].last \in Int /\ progress["stop_archive"].target \in Int
      BY <1>1 DEF BackfillInv, BackfillTypes, Tracked
    <3> QED
      BY <1>1, <3>1, <3>2 DEF BackfillInv, ArchiveInv, Complete
  <2> QED
    BY <2>2 DEF ArchiveMissing
<1>2. BackfillInv /\ [Next]_vars => [~retired /\ retired' => ArchiveMissing = {}]_vars
  BY <1>1
<1> QED
  BY <1>2, BackfillInvariant, PTL DEF Spec, ArchivedBeforeRetired
===============================================================================
