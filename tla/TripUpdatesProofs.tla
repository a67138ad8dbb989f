--------------------------- MODULE TripUpdatesProofs ---------------------------
(***************************************************************************)
(* For any versions, trips, keys and predictions: a sole collector's       *)
(* archive never misses a change, and if it never goes without a poll for  *)
(* longer than a live row lasts, the board shows its last poll but for the *)
(* predictions that an open clean-up has overtaken.                        *)
(***************************************************************************)
EXTENDS TripUpdates, TLAPS

-----------------------------------------------------------------------------
LEMMA TypeInit == Init => TypeOK
  BY TripUpdatesAssumption
  DEF Init, TypeOK, Idle, Nothing, Poll, Prediction, Age, Oldest, NoPrune, CleanUp

LEMMA IdleIsPoll == Idle \in Poll
  BY TripUpdatesAssumption DEF Idle, Poll, Nothing, Prediction, Age, Oldest

LEMMA NoPruneIsCleanUp == NoPrune \in CleanUp
  BY DEF NoPrune, CleanUp

LEMMA OlderIsAge == \A a \in Age \cup {Absent} : Older(a) \in Age \cup {Absent}
  BY TripUpdatesAssumption DEF Older, Age, Oldest, Absent

LEMMA OlderAge == \A a \in Age : Older(a) \in Age
  BY TripUpdatesAssumption DEF Older, Age, Oldest

LEMMA TypeStep == TypeOK /\ [Next]_vars => TypeOK'
<1> SUFFICES ASSUME TypeOK, [Next]_vars PROVE TypeOK'
  OBVIOUS
<1> USE TripUpdatesAssumption
<1>1. CASE SourceChanges
  BY <1>1 DEF TypeOK, SourceChanges, db, history, Prediction
<1>2. ASSUME NEW c \in Collector, ImportCommits(c) PROVE TypeOK'
  BY <1>2 DEF TypeOK, ImportCommits, db, history
<1>3. ASSUME NEW c \in Collector, RefreshPrunesHashes(c) PROVE TypeOK'
  BY <1>3 DEF TypeOK, RefreshPrunesHashes, db, history, Nothing, Prediction
<1>4. ASSUME NEW c \in Collector, RefreshFails(c) PROVE TypeOK'
  BY <1>4 DEF TypeOK, RefreshFails, db, history
<1>5. ASSUME NEW c \in Collector, StartPoll(c) PROVE TypeOK'
  BY <1>5, IdleIsPoll DEF TypeOK, StartPoll, db, history, Idle, Poll
<1>6. ASSUME NEW c \in Collector, Receive(c) PROVE TypeOK'
  <2>1. Filtered(poll[c].ver) \in [Key -> Prediction]
    BY DEF TypeOK, Filtered, Prediction
  <2>2. poll[c].ver \in Version /\ poll[c].changed = {} /\ poll[c].at = "waiting"
    BY <1>6 DEF TypeOK, Receive
  <2> DEFINE content == Filtered(poll[c].ver)
             running == {TripOf[k] : k \in {j \in Key : content[j] # None}}
  <2>3. PICK bare \in SUBSET Known[poll[c].ver] :
          poll' = [poll EXCEPT ![c].at = "received", ![c].content = content,
                               ![c].seen = bare \cup running]
    BY <1>6 DEF Receive
  <2>4. bare \cup running \subseteq Trip
    BY <2>2
  <2>5. poll'[c] = [poll[c] EXCEPT !.at = "received", !.content = content,
                                   !.seen = bare \cup running]
    BY <2>3 DEF TypeOK
  <2> DEFINE met == bare \cup running
  <2>5a. content \in [Key -> Prediction] /\ met \in SUBSET Trip
    BY <2>1, <2>4
  <2>5b. poll'[c] = [poll[c] EXCEPT !.at = "received", !.content = content, !.seen = met]
    BY <2>5
  <2>5c. poll[c] \in Poll
    BY DEF TypeOK
  <2> HIDE DEF content, running, met
  <2>6. poll'[c] \in Poll
    BY <2>5a, <2>5b, <2>5c DEF Poll
  <2>7. poll'[c].ver = poll[c].ver /\ poll'[c].changed = {} /\ poll'[c].at = "received"
    BY <2>2, <2>5b, <2>5c DEF Poll
  <2>8. poll' = [poll EXCEPT ![c] = poll'[c]]
    BY <2>3 DEF TypeOK
  <2>9. poll' \in [Collector -> Poll]
    BY <2>6, <2>8 DEF TypeOK
  <2>10. \A d \in Collector : d # c => poll'[d] = poll[d]
    BY <2>8 DEF TypeOK
  <2> QED
    BY <1>6, <2>2, <2>7, <2>9, <2>10 DEF TypeOK, Receive, db, history
<1>7. ASSUME NEW c \in Collector, Compare(c) PROVE TypeOK'
  <2> DEFINE ver == poll[c].ver
             previous == IF NeedsReload(c) THEN SavedStates(ver) ELSE mem[c]
             new == {k \in Key : poll[c].content[k] \notin {None, previous[k]}}
  <2>1. ver \in Version /\ poll[c] \in Poll
    BY <1>7 DEF TypeOK, Compare, Changed
  <2>2. previous \in [Key -> Prediction]
    BY <2>1 DEF TypeOK, SavedStates, Prediction
  <2>3. /\ mem' = [mem EXCEPT ![c] = previous]
        /\ memFeed' = [memFeed EXCEPT ![c] = ver]
        /\ poll' = [poll EXCEPT ![c].at = "compared", ![c].changed = new]
        /\ UNCHANGED <<source, active, db, refreshed, prune, history>>
    BY <1>7 DEF Compare, Changed
  <2>4. new \subseteq Key /\ \A k \in new : poll[c].content[k] # None
    OBVIOUS
  <2>5. poll'[c] = [poll[c] EXCEPT !.at = "compared", !.changed = new]
    BY <2>3 DEF TypeOK
  <2> HIDE DEF previous, new
  <2>6. /\ poll'[c] \in Poll /\ poll'[c].ver = ver /\ poll'[c].at = "compared"
        /\ poll'[c].changed = new /\ poll'[c].content = poll[c].content
    BY <2>1, <2>4, <2>5 DEF Poll
  <2>7. \A d \in Collector : d # c => poll'[d] = poll[d]
    BY <2>3 DEF TypeOK
  <2>8. poll' \in [Collector -> Poll]
    BY <2>3, <2>6, <2>7 DEF TypeOK
  <2> QED
    BY <2>1, <2>2, <2>3, <2>4, <2>6, <2>7, <2>8 DEF TypeOK, db, history
<1>8. ASSUME NEW c \in Collector, Commit(c) PROVE TypeOK'
  <2>1. poll[c] \in Poll /\ poll[c].ver \in Version
        /\ \A k \in poll[c].changed : poll[c].content[k] # None
    BY <1>8 DEF TypeOK, Commit
  <2>2. /\ poll[c].content \in [Key -> Prediction] /\ poll[c].seen \subseteq Trip
        /\ poll[c].changed \subseteq Key /\ poll[c].age \in Age
    BY <2>1 DEF Poll
  <2>3. \A k \in poll[c].changed : DelayOf[poll[c].content[k]] \in Delay
    BY <2>1, <2>2 DEF Prediction, Delay
  <2>4. samples' \in [Version -> [Key -> Delay \cup {None}]]
    BY <1>8, <2>1, <2>2, <2>3 DEF TypeOK, Commit, WithDelays
  <2>5. live' \in [Version -> [Key -> Prediction]] /\ observed' \in [Version -> [Key -> Prediction]]
    BY <1>8, <2>1, <2>2 DEF TypeOK, Commit, WithChanges
  <2>6. lastSeen' \in [Version -> [Trip -> Age \cup {Absent}]] /\ archived' \in [Version -> SUBSET Trip]
    BY <1>8, <2>1, <2>2 DEF TypeOK, Commit
  <2>7. /\ mem' \in [Collector -> [Key -> Prediction]]
        /\ poll' = [poll EXCEPT ![c] = Idle]
        /\ reported' \in [ver : Version \cup {None}, content : [Key -> Prediction]]
        /\ UNCHANGED <<source, active, memFeed, refreshed>>
    BY <1>8, <2>1, <2>2 DEF TypeOK, Commit
  <2>8. prune' \in [Collector -> CleanUp]
    <3>1. prune' = [d \in Collector |->
                      [prune[d] EXCEPT !.old = @ \ {<<poll[c].ver, t>> : t \in poll[c].seen}]]
      BY <1>8 DEF Commit
    <3>2. \A d \in Collector : prune[d] \in CleanUp
      BY DEF TypeOK
    <3>3. ASSUME NEW d \in Collector, NEW gone
          PROVE  [prune[d] EXCEPT !.old = @ \ gone] \in CleanUp
      BY <3>2 DEF CleanUp
    <3> QED
      BY <3>1, <3>3
  <2>9. overtaken' \subseteq Version \X Key
    <3>1. AtRisk(poll[c]) \subseteq Version \X Key
      <4> DEFINE Endangered(j) ==
                   /\ TripOf[j] \in poll[c].seen
                   /\ \E d \in Collector : \/ <<poll[c].ver, j>> \in prune[d].doomed \cup prune[d].lost
                                           \/ <<poll[c].ver, TripOf[j]>> \in prune[d].expired
      <4>1. AtRisk(poll[c]) = {<<poll[c].ver, k>> : k \in {j \in Key : Endangered(j)}}
        BY DEF AtRisk
      <4> HIDE DEF Endangered
      <4> QED
        BY <2>1, <4>1
    <3>2. overtaken' \subseteq overtaken \cup AtRisk(poll[c])
      BY <1>8 DEF Commit
    <3> QED
      BY <3>1, <3>2 DEF TypeOK
  <2>10. lastDelay' \in [Version -> [Key -> Delay \cup {None}]]
    <3>1. \A k \in Key : poll[c].content[k] # None => DelayOf[poll[c].content[k]] \in Delay
      BY <2>2 DEF Prediction, Delay
    <3> QED
      BY <1>8, <2>1, <3>1 DEF TypeOK, Commit
  <2> QED
    BY <2>4, <2>5, <2>6, <2>7, <2>8, <2>9, <2>10, IdleIsPoll DEF TypeOK, Idle
<1>9. ASSUME NEW c \in Collector, PollEnds(c) PROVE TypeOK'
  BY <1>9, IdleIsPoll DEF TypeOK, PollEnds, db, history, Idle
<1>10. ASSUME NEW c \in Collector, Crash(c) PROVE TypeOK'
  BY <1>10, IdleIsPoll, NoPruneIsCleanUp
  DEF TypeOK, Crash, db, history, Idle, Nothing, Prediction
<1>11. ASSUME NEW c \in Collector, PruneStep(c) PROVE TypeOK'
  <2>1. prune[c] \in CleanUp
    BY DEF TypeOK
  <2>2. CASE PruneStarts(c)
    BY <2>2, NoPruneIsCleanUp DEF TypeOK, PruneStarts, db, history, CleanUp
  <2>3. CASE PruneChooses(c)
    <3>1. PICK expired \in SUBSET {r \in prune[c].old : r[2] \in archived[r[1]]} :
            prune' = [prune EXCEPT ![c].at = "chosen", ![c].old = {}, ![c].expired = expired]
      BY <2>3 DEF PruneChooses
    <3>2. expired \subseteq Version \X Trip
      BY <2>1 DEF CleanUp
    <3>3. prune'[c] = [prune[c] EXCEPT !.at = "chosen", !.old = {}, !.expired = expired]
          /\ \A d \in Collector : d # c => prune'[d] = prune[d]
      BY <3>1 DEF TypeOK
    <3>4. prune'[c] \in CleanUp
      BY <2>1, <3>2, <3>3 DEF CleanUp
    <3>5. prune' \in [Collector -> CleanUp]
      BY <3>1, <3>3, <3>4 DEF TypeOK
    <3> QED
      BY <2>3, <3>5 DEF TypeOK, PruneChooses, db, history
  <2>4. CASE PruneFindsSamples(c)
    <3>1. prune' = [prune EXCEPT ![c] = [prune[c] EXCEPT !.at = "samples", !.lost =
                      {r \in Version \X Key : /\ samples[r[1]][r[2]] # None
                                              /\ <<r[1], TripOf[r[2]]>> \in prune[c].expired}]]
      BY <2>4 DEF TypeOK, PruneFindsSamples
    <3>2. prune' \in [Collector -> CleanUp]
      BY <2>1, <3>1 DEF TypeOK, CleanUp
    <3> QED
      BY <2>4, <3>2 DEF TypeOK, PruneFindsSamples, db, history
  <2>5. CASE PruneFindsFreshness(c)
    <3>1. prune' = [prune EXCEPT ![c] = [prune[c] EXCEPT !.at = "freshness", !.expired =
                      {r \in prune[c].expired : lastSeen[r[1]][r[2]] # Absent}]]
      BY <2>5 DEF TypeOK, PruneFindsFreshness
    <3>2. prune' \in [Collector -> CleanUp]
      BY <2>1, <3>1 DEF TypeOK, CleanUp
    <3> QED
      BY <2>5, <3>2 DEF TypeOK, PruneFindsFreshness, db, history
  <2>6. CASE PruneCommits(c)
    <3>1. ASSUME NEW d \in Collector PROVE Without(prune[d], prune[c]) \in CleanUp
      <4>1. prune[d] \in CleanUp
        BY DEF TypeOK
      <4> QED
        BY <4>1 DEF Without, CleanUp
    <3>2. prune' \in [Collector -> CleanUp]
      BY <2>6, <3>1, NoPruneIsCleanUp DEF PruneCommits
    <3>3. /\ live' \in [Version -> [Key -> Prediction]]
          /\ samples' \in [Version -> [Key -> Delay \cup {None}]]
          /\ lastSeen' \in [Version -> [Trip -> Age \cup {Absent}]]
          /\ archived' \in [Version -> SUBSET Trip]
      BY <2>6 DEF TypeOK, PruneCommits, Prediction
    <3> QED
      BY <2>6, <3>2, <3>3 DEF TypeOK, PruneCommits, history
  <2>7. CASE PruneFails(c)
    BY <2>7, NoPruneIsCleanUp DEF TypeOK, PruneFails, db, history
  <2> QED
    BY <1>11, <2>2, <2>3, <2>4, <2>5, <2>6, <2>7 DEF PruneStep
<1>12. CASE Tick
  <2>1. lastSeen' \in [Version -> [Trip -> Age \cup {Absent}]]
    BY <1>12, OlderIsAge DEF TypeOK, Tick
  <2>2. ASSUME NEW c \in Collector
        PROVE  /\ poll'[c] \in Poll /\ poll'[c].ver = poll[c].ver
               /\ poll'[c].at = poll[c].at /\ poll'[c].changed = poll[c].changed
               /\ poll'[c].content = poll[c].content
    <3>1. poll[c] \in Poll
      BY DEF TypeOK
    <3>2. poll'[c] = poll[c] \/ poll'[c] = [poll[c] EXCEPT !.age = Older(poll[c].age)]
      BY <1>12 DEF Tick
    <3>3. Older(poll[c].age) \in Age
      BY <3>1, OlderAge DEF Poll
    <3> QED
      BY <3>1, <3>2, <3>3 DEF Poll
  <2>3. poll' \in [Collector -> Poll]
    BY <1>12, <2>2 DEF Tick
  <2>4. lastDelay' \in [Version -> [Key -> Delay \cup {None}]]
    BY <1>12 DEF TypeOK, Tick
  <2> QED
    BY <1>12, <2>1, <2>2, <2>3, <2>4 DEF TypeOK, Tick
<1>13. CASE UNCHANGED vars
  BY <1>13 DEF TypeOK, vars, db, history
<1> QED
  BY <1>1, <1>2, <1>3, <1>4, <1>5, <1>6, <1>7, <1>8, <1>9, <1>10, <1>11, <1>12, <1>13
  DEF Next, CollectorStep

\* Every table, memory and poll keeps its type, whatever the collectors do.
THEOREM TripUpdatesTypeCorrect == Spec => []TypeOK
  BY TypeInit, TypeStep, PTL DEF Spec

-----------------------------------------------------------------------------
(***************************************************************************)
(* Why nothing is missing from the archive.  Whatever a process remembers, *)
(* or reloads from the live rows, is the newest archived prediction of its *)
(* key, so leaving an unchanged prediction out is right.                   *)
(***************************************************************************)
SoleCollector == \A c, d \in Collector : c = d

MemoryIsArchived ==
  \A c \in Collector : \A k \in Key : mem[c][k] # None =>
    memFeed[c] \in Version /\ observed[memFeed[c]][k] = mem[c][k]

LiveIsArchived ==
  \A v \in Version : \A k \in Key : live[v][k] # None => observed[v][k] = live[v][k]

UnchangedIsArchived ==
  \A c \in Collector : poll[c].at = "compared" =>
    /\ memFeed[c] = poll[c].ver
    /\ \A k \in Key \ poll[c].changed : poll[c].content[k] # None =>
         observed[poll[c].ver][k] = poll[c].content[k]

ArchiveInv ==
  /\ MemoryIsArchived
  /\ LiveIsArchived
  /\ UnchangedIsArchived
  /\ HistoryEndsWithLatest

LEMMA ArchiveInit == Init => ArchiveInv
  BY TripUpdatesAssumption
  DEF Init, Idle, Nothing, ArchiveInv, MemoryIsArchived, LiveIsArchived,
      UnchangedIsArchived, HistoryEndsWithLatest

\* What Compare leaves behind, said without the nesting of its definition.
LEMMA CompareEffect ==
  ASSUME TypeOK, NEW c \in Collector, Compare(c)
  PROVE  LET previous == IF NeedsReload(c) THEN SavedStates(poll[c].ver) ELSE mem[c]
         IN  /\ poll[c].ver \in Version
             /\ mem' = [mem EXCEPT ![c] = previous]
             /\ memFeed' = [memFeed EXCEPT ![c] = poll[c].ver]
             /\ poll'[c].at = "compared" /\ poll'[c].ver = poll[c].ver
             /\ poll'[c].content = poll[c].content
             /\ poll'[c].seen = poll[c].seen /\ poll'[c].age = poll[c].age
             /\ \A k \in Key \ poll'[c].changed : poll[c].content[k] # None =>
                  previous[k] = poll[c].content[k]
             /\ UNCHANGED <<db, prune, history>>
<1> DEFINE previous == IF NeedsReload(c) THEN SavedStates(poll[c].ver) ELSE mem[c]
           new == {k \in Key : poll[c].content[k] \notin {None, previous[k]}}
<1>1. poll[c] \in Poll /\ poll[c].ver \in Version
  BY DEF TypeOK, Compare, Changed
<1>2. /\ mem' = [mem EXCEPT ![c] = previous]
      /\ memFeed' = [memFeed EXCEPT ![c] = poll[c].ver]
      /\ poll' = [poll EXCEPT ![c].at = "compared", ![c].changed = new]
      /\ UNCHANGED <<db, prune, history>>
  BY DEF Compare, Changed
<1>3. poll'[c] = [poll[c] EXCEPT !.at = "compared", !.changed = new]
  BY <1>2 DEF TypeOK
<1>4. \A k \in Key \ new : poll[c].content[k] # None => previous[k] = poll[c].content[k]
  OBVIOUS
<1> HIDE DEF previous, new
<1>5. /\ poll'[c].at = "compared" /\ poll'[c].ver = poll[c].ver
      /\ poll'[c].content = poll[c].content /\ poll'[c].changed = new
      /\ poll'[c].seen = poll[c].seen /\ poll'[c].age = poll[c].age
  BY <1>1, <1>3 DEF Poll
<1> QED
  BY <1>1, <1>2, <1>4, <1>5 DEF previous

\* What Commit writes to the board and the archive, row by row.
LEMMA CommitEffect ==
  ASSUME TypeOK, NEW c \in Collector, Commit(c)
  PROVE  LET p == poll[c]
         IN  /\ p \in Poll /\ p.at = "compared" /\ p.ver \in Version
             /\ \A k \in p.changed : p.content[k] # None
             /\ \A v \in Version : \A k \in Key :
                  IF v = p.ver /\ k \in p.changed
                  THEN live'[v][k] = p.content[k] /\ observed'[v][k] = p.content[k]
                  ELSE live'[v][k] = live[v][k] /\ observed'[v][k] = observed[v][k]
             /\ \A v \in Version : \A t \in Trip :
                  lastSeen'[v][t] = IF v = p.ver /\ t \in p.seen THEN p.age
                                    ELSE lastSeen[v][t]
             /\ mem' = [mem EXCEPT ![c] = p.content]
             /\ memFeed' = memFeed
             /\ poll' = [poll EXCEPT ![c] = Idle]
             /\ reported' = [ver |-> p.ver, content |-> p.content]
<1>1. poll[c] \in Poll /\ poll[c].at = "compared" /\ poll[c].ver \in Version
      /\ \A k \in poll[c].changed : poll[c].content[k] # None
  BY DEF TypeOK, Commit
<1>2. \A v \in Version : \A k \in Key :
        IF v = poll[c].ver /\ k \in poll[c].changed
        THEN live'[v][k] = poll[c].content[k] /\ observed'[v][k] = poll[c].content[k]
        ELSE live'[v][k] = live[v][k] /\ observed'[v][k] = observed[v][k]
  BY <1>1 DEF TypeOK, Commit, WithChanges
<1>3. \A v \in Version : \A t \in Trip :
        lastSeen'[v][t] = IF v = poll[c].ver /\ t \in poll[c].seen THEN poll[c].age
                          ELSE lastSeen[v][t]
  BY <1>1 DEF TypeOK, Commit
<1> QED
  BY <1>1, <1>2, <1>3 DEF Commit

\* Which keys Commit leaves overtaken.
LEMMA CommitMarks ==
  ASSUME TypeOK, NEW c \in Collector, Commit(c), NEW v \in Version, NEW k \in Key
  PROVE  /\ <<v, k>> \in overtaken /\ ~(v = poll[c].ver /\ k \in poll[c].changed)
              => <<v, k>> \in overtaken'
         /\ v = poll[c].ver /\ TripOf[k] \in poll[c].seen /\ <<v, k>> \notin overtaken' =>
              \A d \in Collector : /\ <<v, k>> \notin prune[d].doomed
                                   /\ <<v, k>> \notin prune[d].lost
                                   /\ <<v, TripOf[k]>> \notin prune[d].expired
<1> DEFINE written == {<<poll[c].ver, j>> : j \in poll[c].changed}
<1>1. overtaken' = (overtaken \ written) \cup AtRisk(poll[c])
  BY DEF Commit
<1>2. <<v, k>> \in written => v = poll[c].ver /\ k \in poll[c].changed
  OBVIOUS
<1>3. ASSUME NEW d \in Collector, v = poll[c].ver, TripOf[k] \in poll[c].seen,
             \/ <<v, k>> \in prune[d].doomed \cup prune[d].lost
             \/ <<v, TripOf[k]>> \in prune[d].expired
      PROVE  <<v, k>> \in AtRisk(poll[c])
  BY <1>3 DEF AtRisk
<1> HIDE DEF written
<1> QED
  BY <1>1, <1>2, <1>3

\* What Commit leaves of the delays, reported and sampled.
LEMMA CommitDelays ==
  ASSUME TypeOK, NEW c \in Collector, Commit(c), NEW v \in Version, NEW k \in Key
  PROVE  /\ samples'[v][k] = IF /\ v = poll[c].ver /\ k \in poll[c].changed
                                /\ DelayOf[poll[c].content[k]] # None
                             THEN DelayOf[poll[c].content[k]] ELSE samples[v][k]
         /\ v # poll[c].ver => lastDelay'[v][k] = lastDelay[v][k]
         /\ v = poll[c].ver /\ <<v, k>> \in overtaken' => lastDelay'[v][k] = None
         /\ /\ v = poll[c].ver /\ <<v, k>> \notin overtaken'
            /\ poll[c].content[k] # None /\ DelayOf[poll[c].content[k]] # None
            => lastDelay'[v][k] = DelayOf[poll[c].content[k]]
         /\ v = poll[c].ver /\ (poll[c].content[k] = None \/ DelayOf[poll[c].content[k]] = None)
            => lastDelay'[v][k] \in {None, lastDelay[v][k]}
<1>1. poll[c].ver \in Version
  BY CommitEffect
<1>2. samples'[v][k] = IF /\ v = poll[c].ver /\ k \in poll[c].changed
                          /\ DelayOf[poll[c].content[k]] # None
                       THEN DelayOf[poll[c].content[k]] ELSE samples[v][k]
  BY <1>1 DEF TypeOK, Commit, WithDelays
<1>3. lastDelay' = [lastDelay EXCEPT ![poll[c].ver] =
                      [j \in Key |-> IF <<poll[c].ver, j>> \in overtaken' THEN None
                                     ELSE IF poll[c].content[j] # None
                                             /\ DelayOf[poll[c].content[j]] # None
                                     THEN DelayOf[poll[c].content[j]] ELSE @[j]]]
  BY DEF Commit
<1>4. lastDelay'[v][k] = IF v # poll[c].ver THEN lastDelay[v][k]
                         ELSE IF <<v, k>> \in overtaken' THEN None
                         ELSE IF poll[c].content[k] # None /\ DelayOf[poll[c].content[k]] # None
                         THEN DelayOf[poll[c].content[k]] ELSE lastDelay[v][k]
  BY <1>1, <1>3 DEF TypeOK
<1> QED
  BY <1>2, <1>4

\* Keys of other versions, and keys the poll did not write, keep their samples.
LEMMA CommitKeepsDelays ==
  ASSUME TypeOK, NEW c \in Collector, Commit(c), NEW v \in Version, NEW k \in Key
  PROVE  /\ v # poll[c].ver => lastDelay'[v][k] = lastDelay[v][k]
         /\ v # poll[c].ver \/ k \notin poll[c].changed \/ DelayOf[poll[c].content[k]] = None
              => samples'[v][k] = samples[v][k]
<1>1. v # poll[c].ver => lastDelay'[v][k] = lastDelay[v][k]
  BY CommitDelays
<1>2. v # poll[c].ver \/ k \notin poll[c].changed \/ DelayOf[poll[c].content[k]] = None
        => samples'[v][k] = samples[v][k]
  BY CommitDelays
<1> QED
  BY <1>1, <1>2

\* What Commit leaves of the clean-ups that are open.
LEMMA CommitPrune ==
  ASSUME TypeOK, NEW c \in Collector, Commit(c), NEW d \in Collector
  PROVE  /\ prune'[d].at = prune[d].at
         /\ prune'[d].doomed = prune[d].doomed
         /\ prune'[d].old = prune[d].old \ {<<poll[c].ver, t>> : t \in poll[c].seen}
         /\ prune'[d].expired = prune[d].expired
         /\ prune'[d].lost = prune[d].lost
<1>1. prune[d] \in CleanUp
  BY DEF TypeOK
<1>2. prune'[d] = [prune[d] EXCEPT !.old = @ \ {<<poll[c].ver, t>> : t \in poll[c].seen}]
  BY DEF Commit
<1> QED
  BY <1>1, <1>2 DEF CleanUp

\* A reloaded memory holds live rows of trips seen within the live window.
LEMMA SavedStatesAreLive ==
  ASSUME TypeOK, NEW v \in Version, NEW k \in Key, SavedStates(v)[k] # None
  PROVE  /\ SavedStates(v)[k] = live[v][k]
         /\ lastSeen[v][TripOf[k]] \in 0 .. LiveWindow
  BY TripUpdatesAssumption DEF SavedStates

\* A clean-up touches no archive and no memory, and only its commit deletes.
LEMMA PruneOnlyDeletes ==
  ASSUME TypeOK, NEW c \in Collector, PruneStep(c)
  PROVE  /\ UNCHANGED <<source, active, observed, mem, memFeed, poll, refreshed, history>>
         /\ \A v \in Version : \A k \in Key : live'[v][k] \in {None, live[v][k]}
<1>1. CASE PruneCommits(c)
  BY <1>1 DEF PruneCommits
<1>2. CASE ~PruneCommits(c)
  BY <1>2 DEF PruneStep, PruneStarts, PruneChooses, PruneFindsSamples, PruneFindsFreshness,
              PruneFails, db
<1> QED
  BY <1>1, <1>2

LEMMA ArchiveStep ==
  ASSUME SoleCollector
  PROVE  TypeOK /\ ArchiveInv /\ [Next]_vars => ArchiveInv'
<1> SUFFICES ASSUME TypeOK, ArchiveInv, [Next]_vars PROVE ArchiveInv'
  OBVIOUS
<1> USE TripUpdatesAssumption DEF ArchiveInv
<1>1. CASE SourceChanges
  BY <1>1 DEF SourceChanges, db, history, MemoryIsArchived, LiveIsArchived,
              UnchangedIsArchived, HistoryEndsWithLatest
<1>2. ASSUME NEW c \in Collector, ImportCommits(c) PROVE ArchiveInv'
  BY <1>2 DEF ImportCommits, db, history, MemoryIsArchived, LiveIsArchived,
              UnchangedIsArchived, HistoryEndsWithLatest
<1>3. ASSUME NEW c \in Collector, RefreshPrunesHashes(c) PROVE ArchiveInv'
  BY <1>3 DEF TypeOK, RefreshPrunesHashes, Nothing, db, history, MemoryIsArchived,
              LiveIsArchived, UnchangedIsArchived, HistoryEndsWithLatest
<1>4. ASSUME NEW c \in Collector, RefreshFails(c) PROVE ArchiveInv'
  BY <1>4 DEF RefreshFails, db, history, MemoryIsArchived, LiveIsArchived,
              UnchangedIsArchived, HistoryEndsWithLatest
<1>5. ASSUME NEW c \in Collector, StartPoll(c) PROVE ArchiveInv'
  BY <1>5 DEF TypeOK, StartPoll, Idle, db, history, MemoryIsArchived, LiveIsArchived,
              UnchangedIsArchived, HistoryEndsWithLatest
<1>6. ASSUME NEW c \in Collector, Receive(c) PROVE ArchiveInv'
  BY <1>6 DEF TypeOK, Poll, Receive, db, history, MemoryIsArchived, LiveIsArchived,
              UnchangedIsArchived, HistoryEndsWithLatest
<1>7. ASSUME NEW c \in Collector, Compare(c) PROVE ArchiveInv'
  <2> DEFINE previous == IF NeedsReload(c) THEN SavedStates(poll[c].ver) ELSE mem[c]
  <2>1. /\ poll[c].ver \in Version
        /\ mem'[c] = previous /\ memFeed'[c] = poll[c].ver
        /\ poll'[c].at = "compared" /\ poll'[c].ver = poll[c].ver
        /\ poll'[c].content = poll[c].content
        /\ \A k \in Key \ poll'[c].changed : poll[c].content[k] # None =>
             previous[k] = poll[c].content[k]
        /\ UNCHANGED <<db, prune, history>>
    BY <1>7, CompareEffect DEF TypeOK
  <2>2. \A k \in Key : previous[k] # None => observed[poll[c].ver][k] = previous[k]
    BY <2>1, SavedStatesAreLive DEF NeedsReload, MemoryIsArchived, LiveIsArchived
  <2> HIDE DEF previous
  <2>3. MemoryIsArchived'
    BY <2>1, <2>2 DEF SoleCollector, db, history, MemoryIsArchived
  <2>4. UnchangedIsArchived'
    BY <2>1, <2>2 DEF SoleCollector, db, history, UnchangedIsArchived
  <2>5. LiveIsArchived' /\ HistoryEndsWithLatest'
    BY <2>1 DEF db, history, LiveIsArchived, HistoryEndsWithLatest
  <2> QED
    BY <2>3, <2>4, <2>5
<1>8. ASSUME NEW c \in Collector, Commit(c) PROVE ArchiveInv'
  <2>1. \A k \in Key : poll[c].content[k] # None =>
          observed'[poll[c].ver][k] = poll[c].content[k]
    BY <1>8, CommitEffect DEF UnchangedIsArchived
  <2>2. MemoryIsArchived'
    <3>1. memFeed'[c] = poll[c].ver /\ poll[c].ver \in Version /\ mem'[c] = poll[c].content
      BY <1>8, CommitEffect DEF UnchangedIsArchived, TypeOK
    <3> QED
      BY <2>1, <3>1 DEF SoleCollector, MemoryIsArchived
  <2>3. LiveIsArchived'
    BY <1>8, CommitEffect DEF LiveIsArchived
  <2>4. UnchangedIsArchived'
    BY <1>8, CommitEffect DEF SoleCollector, TypeOK, Idle, UnchangedIsArchived
  <2>5. HistoryEndsWithLatest'
    <3>1. reported'.ver = poll[c].ver /\ reported'.content = poll[c].content
      BY <1>8, CommitEffect
    <3> QED
      BY <2>1, <3>1 DEF HistoryEndsWithLatest
  <2> QED
    BY <2>2, <2>3, <2>4, <2>5
<1>9. ASSUME NEW c \in Collector, PollEnds(c) PROVE ArchiveInv'
  BY <1>9 DEF TypeOK, PollEnds, Idle, db, history, MemoryIsArchived, LiveIsArchived,
              UnchangedIsArchived, HistoryEndsWithLatest
<1>10. ASSUME NEW c \in Collector, Crash(c) PROVE ArchiveInv'
  BY <1>10 DEF TypeOK, Crash, Idle, Nothing, db, history, MemoryIsArchived, LiveIsArchived,
               UnchangedIsArchived, HistoryEndsWithLatest
<1>11. ASSUME NEW c \in Collector, PruneStep(c) PROVE ArchiveInv'
  <2>1. UNCHANGED <<observed, mem, memFeed, poll, reported>>
    BY <1>11, PruneOnlyDeletes DEF history
  <2>2. \A v \in Version : \A k \in Key : live'[v][k] \in {None, live[v][k]}
    BY <1>11, PruneOnlyDeletes
  <2>3. LiveIsArchived'
    BY <2>1, <2>2 DEF LiveIsArchived
  <2> QED
    BY <2>1, <2>3 DEF MemoryIsArchived, UnchangedIsArchived, HistoryEndsWithLatest
<1>12. CASE Tick
  BY <1>12 DEF TypeOK, Poll, Tick, MemoryIsArchived, LiveIsArchived,
               UnchangedIsArchived, HistoryEndsWithLatest
<1>13. CASE UNCHANGED vars
  BY <1>13 DEF vars, db, history, MemoryIsArchived, LiveIsArchived, UnchangedIsArchived,
               HistoryEndsWithLatest
<1> QED
  BY <1>1, <1>2, <1>3, <1>4, <1>5, <1>6, <1>7, <1>8, <1>9, <1>10, <1>11, <1>12, <1>13
  DEF Next, CollectorStep

\* A sole collector's archive of changes ends with its last committed poll,
\* however long polls fail and however often the process or the version changes.
THEOREM ArchiveIsComplete ==
  ASSUME SoleCollector
  PROVE  Spec => []HistoryEndsWithLatest
<1>1. Spec => []ArchiveInv
  BY TypeInit, TypeStep, ArchiveInit, ArchiveStep, PTL DEF Spec
<1>2. ArchiveInv => HistoryEndsWithLatest
  BY DEF ArchiveInv
<1> QED
  BY <1>1, <1>2, PTL

-----------------------------------------------------------------------------
(***************************************************************************)
(* Why the board is right.  While no process counts on a trip for longer   *)
(* than a live row lasts, the rows of everything it remembers are still in *)
(* the live table, so leaving an unchanged prediction out is right there   *)
(* too. A clean-up that has begun may still delete rows of a trip that a   *)
(* poll has renewed since; every such row is overtaken.                    *)
(***************************************************************************)
PollIsRecent ==
  \A c \in Collector :
    /\ poll[c].age \in 0 .. LiveWindow
    /\ poll[c].at \in {"received", "compared"} =>
         \A k \in Key : poll[c].content[k] # None => TripOf[k] \in poll[c].seen

MemoryIsLive ==
  \A c \in Collector : \A k \in Key : mem[c][k] # None =>
    /\ memFeed[c] \in Version
    /\ <<memFeed[c], k>> \notin overtaken =>
         Fresh(memFeed[c], k) /\ live[memFeed[c]][k] = mem[c][k]

UnchangedIsLive ==
  \A c \in Collector : poll[c].at = "compared" =>
    /\ memFeed[c] = poll[c].ver
    /\ \A k \in Key \ poll[c].changed :
         poll[c].content[k] # None /\ <<poll[c].ver, k>> \notin overtaken =>
           Fresh(poll[c].ver, k) /\ live[poll[c].ver][k] = poll[c].content[k]

OldIsStale ==
  \A c \in Collector : \A v \in Version : \A k \in Key :
    <<v, TripOf[k]>> \in prune[c].old => ~Fresh(v, k)

FreshIsSafe ==
  \A c \in Collector : \A v \in Version : \A k \in Key :
    Fresh(v, k) /\ <<v, k>> \notin overtaken =>
      <<v, k>> \notin prune[c].doomed /\ <<v, TripOf[k]>> \notin prune[c].expired

BoardInv ==
  /\ PollIsRecent
  /\ MemoryIsLive
  /\ UnchangedIsLive
  /\ OldIsStale
  /\ FreshIsSafe
  /\ BoardMissesOnlyOvertaken

LEMMA BoardInit == Init => BoardInv
  BY TripUpdatesAssumption
  DEF Init, Idle, Nothing, NoPrune, BoardInv, PollIsRecent, MemoryIsLive, UnchangedIsLive,
      OldIsStale, FreshIsSafe, BoardMissesOnlyOvertaken

\* Growing older never makes a trip fresh.
LEMMA FreshWasFresh ==
  \A a \in Age \cup {Absent} : Older(a) \in 0 .. LiveWindow => a \in 0 .. LiveWindow
  BY TripUpdatesAssumption DEF Age, Older, Absent, Oldest

\* What a clean-up finds, it finds among rows of trips that are not fresh.
LEMMA PruneFindsStale ==
  ASSUME TypeOK, NEW c \in Collector, PruneStep(c), NEW d \in Collector,
         NEW v \in Version, NEW k \in Key
  PROVE  /\ <<v, k>> \in prune'[d].doomed => <<v, k>> \in prune[d].doomed \/ ~Fresh(v, k)
         /\ <<v, TripOf[k]>> \in prune'[d].old =>
              <<v, TripOf[k]>> \in prune[d].old \/ lastSeen[v][TripOf[k]] > SampleWindow
         /\ <<v, TripOf[k]>> \in prune'[d].expired =>
              <<v, TripOf[k]>> \in prune[d].expired \cup prune[d].old
         /\ <<v, k>> \in prune'[d].lost =>
              <<v, k>> \in prune[d].lost \/ <<v, TripOf[k]>> \in prune[d].expired
<1> USE TripUpdatesAssumption
<1>1. prune[d] \in CleanUp /\ prune[c] \in CleanUp
  BY DEF TypeOK
<1>2. CASE PruneStarts(c)
  BY <1>1, <1>2 DEF TypeOK, PruneStarts, NoPrune, Stale, Old, Fresh, CleanUp
<1>3. CASE PruneChooses(c)
  <2>1. PICK expired \in SUBSET {r \in prune[c].old : r[2] \in archived[r[1]]} :
          prune' = [prune EXCEPT ![c].at = "chosen", ![c].old = {}, ![c].expired = expired]
    BY <1>3 DEF PruneChooses
  <2>2. prune'[d] = IF d = c THEN [prune[c] EXCEPT !.at = "chosen", !.old = {}, !.expired = expired]
                    ELSE prune[d]
    BY <2>1 DEF TypeOK
  <2> QED
    BY <1>1, <2>2 DEF CleanUp
<1>4. CASE PruneFindsSamples(c)
  <2>1. prune'[d] = IF d = c
                    THEN [prune[c] EXCEPT !.at = "samples", !.lost =
                            {r \in Version \X Key : /\ samples[r[1]][r[2]] # None
                                                    /\ <<r[1], TripOf[r[2]]>> \in prune[c].expired}]
                    ELSE prune[d]
    BY <1>4 DEF TypeOK, PruneFindsSamples
  <2> QED
    BY <1>1, <2>1 DEF CleanUp
<1>5. CASE PruneFindsFreshness(c)
  <2>1. prune'[d] = IF d = c
                    THEN [prune[c] EXCEPT !.at = "freshness", !.expired =
                            {r \in prune[c].expired : lastSeen[r[1]][r[2]] # Absent}]
                    ELSE prune[d]
    BY <1>5 DEF TypeOK, PruneFindsFreshness
  <2> QED
    BY <1>1, <2>1 DEF CleanUp
<1>6. CASE PruneCommits(c)
  <2>1. prune'[d] = IF d = c THEN NoPrune ELSE Without(prune[d], prune[c])
    BY <1>6 DEF PruneCommits
  <2>2. CASE d = c
    BY <2>1, <2>2 DEF NoPrune
  <2>3. CASE d # c
    <3>1. /\ Without(prune[d], prune[c]).doomed \subseteq prune[d].doomed
          /\ Without(prune[d], prune[c]).old = prune[d].old
          /\ Without(prune[d], prune[c]).expired \subseteq prune[d].expired
          /\ Without(prune[d], prune[c]).lost \subseteq prune[d].lost
      BY <1>1 DEF Without, CleanUp
    <3> QED
      BY <2>1, <2>3, <3>1
  <2> QED
    BY <2>2, <2>3
<1>7. CASE PruneFails(c)
  BY <1>7 DEF TypeOK, PruneFails, NoPrune
<1> QED
  BY <1>2, <1>3, <1>4, <1>5, <1>6, <1>7 DEF PruneStep

\* A clean-up takes no live row of a fresh trip, unless it is overtaken.
LEMMA PruneKeepsFresh ==
  ASSUME TypeOK, FreshIsSafe, NEW c \in Collector, PruneStep(c),
         NEW v \in Version, NEW k \in Key
  PROVE  /\ Fresh(v, k)' => Fresh(v, k)
         /\ Fresh(v, k) /\ <<v, k>> \notin overtaken
              => Fresh(v, k)' /\ live'[v][k] = live[v][k]
<1>1. TripOf[k] \in Trip /\ Absent \notin 0 .. LiveWindow
  BY TripUpdatesAssumption DEF Absent
<1>2. CASE PruneCommits(c)
  <2>1. /\ lastSeen'[v][TripOf[k]] = IF <<v, TripOf[k]>> \in prune[c].expired THEN Absent
                                     ELSE lastSeen[v][TripOf[k]]
        /\ live'[v][k] = IF <<v, k>> \in prune[c].doomed THEN None ELSE live[v][k]
    BY <1>1, <1>2 DEF PruneCommits
  <2> QED
    BY <1>1, <2>1 DEF Fresh, FreshIsSafe
<1>3. CASE ~PruneCommits(c)
  BY <1>3 DEF PruneStep, PruneStarts, PruneChooses, PruneFindsSamples, PruneFindsFreshness,
              PruneFails, db, Fresh
<1> QED
  BY <1>2, <1>3

\* What Receive leaves behind.
LEMMA ReceiveEffect ==
  ASSUME TypeOK, NEW c \in Collector, Receive(c)
  PROVE  /\ poll'[c].at = "received" /\ poll'[c].age = poll[c].age
         /\ \A k \in Key : poll'[c].content[k] # None => TripOf[k] \in poll'[c].seen
<1> DEFINE content == Filtered(poll[c].ver)
           running == {TripOf[k] : k \in {j \in Key : content[j] # None}}
<1>1. PICK bare \in SUBSET Known[poll[c].ver] :
        poll' = [poll EXCEPT ![c].at = "received", ![c].content = content,
                             ![c].seen = bare \cup running]
  BY DEF Receive
<1> DEFINE met == bare \cup running
<1>2. \A k \in Key : content[k] # None => TripOf[k] \in met
  OBVIOUS
<1>3. poll'[c] = [poll[c] EXCEPT !.at = "received", !.content = content, !.seen = met]
  BY <1>1 DEF TypeOK
<1>4. poll[c] \in Poll
  BY DEF TypeOK
<1> HIDE DEF content, running, met
<1>5. /\ poll'[c].at = "received" /\ poll'[c].age = poll[c].age
      /\ poll'[c].content = content /\ poll'[c].seen = met
  BY <1>3, <1>4 DEF Poll
<1> QED
  BY <1>2, <1>5

LEMMA TickEffect ==
  ASSUME TypeOK, Tick, NEW c \in Collector
  PROVE  /\ poll'[c].at = poll[c].at /\ poll'[c].ver = poll[c].ver
         /\ poll'[c].content = poll[c].content /\ poll'[c].seen = poll[c].seen
         /\ poll'[c].changed = poll[c].changed
         /\ poll'[c].age \in Age
         /\ \/ poll'[c].age = poll[c].age
            \/ poll[c].age < MaxGap /\ poll'[c].age = Older(poll[c].age)
<1>1. poll[c] \in Poll
  BY DEF TypeOK
<1>2. \/ poll'[c] = poll[c]
      \/ poll[c].age < MaxGap /\ poll'[c] = [poll[c] EXCEPT !.age = Older(poll[c].age)]
  BY DEF Tick
<1>3. Older(poll[c].age) \in Age
  BY <1>1, OlderAge DEF Poll
<1> QED
  BY <1>1, <1>2, <1>3 DEF Poll

LEMMA BoardStep ==
  ASSUME SoleCollector, MaxGap <= LiveWindow
  PROVE  TypeOK /\ BoardInv /\ [Next]_vars => BoardInv'
<1> SUFFICES ASSUME TypeOK, BoardInv, [Next]_vars PROVE BoardInv'
  OBVIOUS
<1> USE TripUpdatesAssumption DEF BoardInv
<1>1. CASE SourceChanges
  BY <1>1 DEF SourceChanges, db, history, PollIsRecent, MemoryIsLive, UnchangedIsLive,
              OldIsStale, FreshIsSafe, BoardMissesOnlyOvertaken, Fresh
<1>2. ASSUME NEW c \in Collector, ImportCommits(c) PROVE BoardInv'
  BY <1>2 DEF ImportCommits, db, history, PollIsRecent, MemoryIsLive, UnchangedIsLive,
              OldIsStale, FreshIsSafe, BoardMissesOnlyOvertaken, Fresh
<1>3. ASSUME NEW c \in Collector, RefreshPrunesHashes(c) PROVE BoardInv'
  BY <1>3 DEF TypeOK, RefreshPrunesHashes, Nothing, db, history, PollIsRecent, MemoryIsLive,
              UnchangedIsLive, OldIsStale, FreshIsSafe, BoardMissesOnlyOvertaken, Fresh
<1>4. ASSUME NEW c \in Collector, RefreshFails(c) PROVE BoardInv'
  BY <1>4 DEF RefreshFails, db, history, PollIsRecent, MemoryIsLive, UnchangedIsLive,
              OldIsStale, FreshIsSafe, BoardMissesOnlyOvertaken, Fresh
<1>5. ASSUME NEW c \in Collector, StartPoll(c) PROVE BoardInv'
  BY <1>5 DEF TypeOK, StartPoll, Idle, db, history, PollIsRecent, MemoryIsLive,
              UnchangedIsLive, OldIsStale, FreshIsSafe, BoardMissesOnlyOvertaken, Fresh
<1>6. ASSUME NEW c \in Collector, Receive(c) PROVE BoardInv'
  <2>1. \A d \in Collector : d = c
    BY DEF SoleCollector
  <2>2. PollIsRecent'
    BY <1>6, <2>1, ReceiveEffect DEF PollIsRecent
  <2>3. UnchangedIsLive'
    BY <1>6, <2>1, ReceiveEffect DEF UnchangedIsLive
  <2>4. MemoryIsLive' /\ OldIsStale' /\ FreshIsSafe' /\ BoardMissesOnlyOvertaken'
    BY <1>6 DEF Receive, db, history, MemoryIsLive, OldIsStale, FreshIsSafe,
                BoardMissesOnlyOvertaken, Fresh
  <2> QED
    BY <2>2, <2>3, <2>4
<1>7. ASSUME NEW c \in Collector, Compare(c) PROVE BoardInv'
  <2> DEFINE previous == IF NeedsReload(c) THEN SavedStates(poll[c].ver) ELSE mem[c]
  <2>1. /\ poll[c].ver \in Version
        /\ mem'[c] = previous /\ memFeed'[c] = poll[c].ver
        /\ poll'[c].at = "compared" /\ poll'[c].ver = poll[c].ver
        /\ poll'[c].content = poll[c].content
        /\ poll'[c].seen = poll[c].seen /\ poll'[c].age = poll[c].age
        /\ \A k \in Key \ poll'[c].changed : poll[c].content[k] # None =>
             previous[k] = poll[c].content[k]
        /\ UNCHANGED <<db, prune, history>>
    BY <1>7, CompareEffect DEF TypeOK
  <2>2. \A k \in Key : previous[k] # None /\ <<poll[c].ver, k>> \notin overtaken =>
          Fresh(poll[c].ver, k) /\ live[poll[c].ver][k] = previous[k]
    BY <2>1, SavedStatesAreLive DEF NeedsReload, MemoryIsLive, Fresh
  <2>3. poll[c].at = "received"
    BY <1>7 DEF Compare
  <2> HIDE DEF previous
  <2>4. MemoryIsLive'
    BY <2>1, <2>2 DEF SoleCollector, db, history, MemoryIsLive, Fresh
  <2>5. UnchangedIsLive'
    BY <2>1, <2>2 DEF SoleCollector, db, history, UnchangedIsLive, Fresh
  <2>6. PollIsRecent'
    BY <2>1, <2>3 DEF SoleCollector, PollIsRecent
  <2>7. OldIsStale' /\ FreshIsSafe' /\ BoardMissesOnlyOvertaken'
    BY <2>1 DEF db, history, OldIsStale, FreshIsSafe, BoardMissesOnlyOvertaken, Fresh
  <2> QED
    BY <2>4, <2>5, <2>6, <2>7
<1>8. ASSUME NEW c \in Collector, Commit(c) PROVE BoardInv'
  <2> DEFINE p == poll[c]
  <2>1. \A d \in Collector : d = c
    BY DEF SoleCollector
  <2>2. ASSUME NEW k \in Key, p.content[k] # None, <<p.ver, k>> \notin overtaken'
        PROVE  live'[p.ver][k] = p.content[k]
    <3>1. p.ver \in Version /\ p.at = "compared"
      BY <1>8, CommitEffect
    <3>2. CASE k \in p.changed
      BY <1>8, <3>1, <3>2, CommitEffect
    <3>3. CASE k \notin p.changed
      <4>1. <<p.ver, k>> \notin overtaken
        BY <1>8, <2>2, <3>1, <3>3, CommitMarks
      <4>2. live'[p.ver][k] = live[p.ver][k]
        BY <1>8, <3>1, <3>3, CommitEffect
      <4> QED
        BY <2>2, <3>1, <3>3, <4>1, <4>2 DEF UnchangedIsLive
    <3> QED
      BY <3>2, <3>3
  <2>3. \A k \in Key : p.content[k] # None =>
          lastSeen'[p.ver][TripOf[k]] \in 0 .. LiveWindow
    <3>1. \A k \in Key : p.content[k] # None =>
            TripOf[k] \in Trip /\ TripOf[k] \in p.seen /\ p.age \in 0 .. LiveWindow
      BY <1>8, CommitEffect DEF PollIsRecent
    <3>2. p.ver \in Version
          /\ \A t \in Trip : t \in p.seen => lastSeen'[p.ver][t] = p.age
      BY <1>8, CommitEffect
    <3> QED
      BY <3>1, <3>2
  <2>4. /\ memFeed'[c] = p.ver /\ p.ver \in Version /\ mem'[c] = p.content
        /\ poll'[c] = Idle
        /\ reported'.ver = p.ver /\ reported'.content = p.content
    BY <1>8, CommitEffect DEF UnchangedIsLive, TypeOK
  <2> HIDE DEF p
  <2>5. PollIsRecent' /\ UnchangedIsLive'
    <3>1. poll'[c].at = "idle" /\ poll'[c].age = 0
      BY <2>4 DEF Idle
    <3> QED
      BY <2>1, <3>1 DEF PollIsRecent, UnchangedIsLive
  <2>6. MemoryIsLive'
    BY <2>1, <2>2, <2>3, <2>4 DEF MemoryIsLive, Fresh
  <2>7. BoardMissesOnlyOvertaken'
    BY <2>2, <2>4 DEF BoardMissesOnlyOvertaken
  <2>8. ASSUME NEW d \in Collector, NEW v \in Version, NEW k \in Key
        PROVE  /\ <<v, TripOf[k]>> \in prune'[d].old => ~Fresh(v, k)'
               /\ Fresh(v, k)' /\ <<v, k>> \notin overtaken' =>
                    <<v, k>> \notin prune'[d].doomed /\ <<v, TripOf[k]>> \notin prune'[d].expired
    <3>1. TripOf[k] \in Trip
      OBVIOUS
    <3>2. CASE v = poll[c].ver /\ TripOf[k] \in poll[c].seen
      <4>1. <<v, TripOf[k]>> \notin prune'[d].old
        BY <1>8, <3>2, CommitPrune
      <4>2. <<v, k>> \notin overtaken' =>
              <<v, k>> \notin prune'[d].doomed /\ <<v, TripOf[k]>> \notin prune'[d].expired
        BY <1>8, <3>2, CommitMarks, CommitPrune
      <4> QED
        BY <4>1, <4>2
    <3>3. CASE ~(v = poll[c].ver /\ TripOf[k] \in poll[c].seen)
      <4>1. ~(v = poll[c].ver /\ k \in poll[c].changed)
        BY <1>8, <3>3, CommitEffect DEF PollIsRecent
      <4>2. lastSeen'[v][TripOf[k]] = lastSeen[v][TripOf[k]]
        BY <1>8, <3>1, <3>3, CommitEffect
      <4>3. <<v, k>> \in overtaken => <<v, k>> \in overtaken'
        BY <1>8, <4>1, CommitMarks
      <4>4. /\ prune'[d].doomed = prune[d].doomed /\ prune'[d].expired = prune[d].expired
            /\ prune'[d].old \subseteq prune[d].old
        BY <1>8, CommitPrune
      <4> QED
        BY <4>2, <4>3, <4>4 DEF OldIsStale, FreshIsSafe, Fresh
    <3> QED
      BY <3>2, <3>3
  <2>9. OldIsStale' /\ FreshIsSafe'
    BY <2>8 DEF OldIsStale, FreshIsSafe
  <2> QED
    BY <2>5, <2>6, <2>7, <2>9
<1>9. ASSUME NEW c \in Collector, PollEnds(c) PROVE BoardInv'
  BY <1>9 DEF TypeOK, PollEnds, Idle, db, history, PollIsRecent, MemoryIsLive, UnchangedIsLive,
              OldIsStale, FreshIsSafe, BoardMissesOnlyOvertaken, Fresh
<1>10. ASSUME NEW c \in Collector, Crash(c) PROVE BoardInv'
  <2>1. \A d \in Collector : d = c
    BY DEF SoleCollector
  <2>2. /\ mem'[c] = Nothing /\ poll'[c] = Idle /\ prune'[c] = NoPrune
        /\ UNCHANGED <<live, lastSeen, reported, overtaken>>
    BY <1>10 DEF TypeOK, Crash, db, history
  <2>3. PollIsRecent' /\ MemoryIsLive' /\ UnchangedIsLive'
    BY <2>1, <2>2 DEF Idle, Nothing, PollIsRecent, MemoryIsLive, UnchangedIsLive
  <2>4. OldIsStale' /\ FreshIsSafe'
    BY <2>1, <2>2 DEF NoPrune, OldIsStale, FreshIsSafe
  <2>5. BoardMissesOnlyOvertaken'
    BY <2>2 DEF BoardMissesOnlyOvertaken, Fresh
  <2> QED
    BY <2>3, <2>4, <2>5
<1>11. ASSUME NEW c \in Collector, PruneStep(c) PROVE BoardInv'
  <2>1. UNCHANGED <<mem, memFeed, poll, reported, overtaken>>
    BY <1>11, PruneOnlyDeletes DEF history
  <2>2. MemoryIsLive'
    BY <1>11, <2>1, PruneKeepsFresh DEF MemoryIsLive
  <2>3. UnchangedIsLive'
    BY <1>11, <2>1, PruneKeepsFresh DEF TypeOK, UnchangedIsLive
  <2>4. BoardMissesOnlyOvertaken'
    BY <1>11, <2>1, PruneKeepsFresh DEF BoardMissesOnlyOvertaken
  <2>5. PollIsRecent'
    BY <2>1 DEF PollIsRecent
  <2>6. \A v \in Version : \A k \in Key : lastSeen[v][TripOf[k]] > SampleWindow => ~Fresh(v, k)
    BY DEF TypeOK, Fresh
  <2>7. OldIsStale'
    BY <1>11, <2>6, PruneFindsStale, PruneKeepsFresh DEF OldIsStale
  <2>8. FreshIsSafe'
    BY <1>11, <2>1, PruneFindsStale, PruneKeepsFresh DEF OldIsStale, FreshIsSafe
  <2> QED
    BY <2>2, <2>3, <2>4, <2>5, <2>7, <2>8
<1>12. CASE Tick
  <2>1. UNCHANGED <<live, mem, memFeed, prune, reported, overtaken>>
    BY <1>12 DEF Tick
  <2>2. \A v \in Version : \A k \in Key :
          /\ lastSeen[v][TripOf[k]] \in Age \cup {Absent}
          /\ lastSeen'[v][TripOf[k]] = Older(lastSeen[v][TripOf[k]])
    BY <1>12 DEF TypeOK, Tick
  <2>3. \A v \in Version : \A k \in Key : Fresh(v, k)' => Fresh(v, k)
    BY <2>2, FreshWasFresh DEF Fresh
  <2>4. \A v \in Version : \A k \in Key :
          Fresh(v, k) /\ lastSeen[v][TripOf[k]] < MaxGap
            => lastSeen'[v][TripOf[k]] \in 0 .. LiveWindow
    BY <2>2 DEF Fresh, Older, Age
  <2>5. MemoryIsLive'
    <3>1. ASSUME NEW c \in Collector, NEW k \in Key, mem[c][k] # None
          PROVE  lastSeen[memFeed[c]][TripOf[k]] < MaxGap
      <4>1. <<memFeed[c], TripOf[k]>> \in Trusted(c)
        BY <3>1 DEF Trusted
      <4> QED
        BY <1>12, <4>1 DEF Tick
    <3> QED
      BY <2>1, <2>4, <3>1 DEF MemoryIsLive, Fresh
  <2>6. UnchangedIsLive'
    <3>1. ASSUME NEW c \in Collector, poll[c].at = "compared",
                 NEW k \in Key \ poll[c].changed, poll[c].content[k] # None
          PROVE  lastSeen[poll[c].ver][TripOf[k]] < MaxGap
      <4>1. <<poll[c].ver, TripOf[k]>> \in Trusted(c)
        BY <3>1 DEF Trusted
      <4> QED
        BY <1>12, <4>1 DEF Tick
    <3>2. ASSUME NEW c \in Collector, poll'[c].at = "compared"
          PROVE  /\ poll[c].at = "compared" /\ poll[c].ver \in Version
                 /\ poll'[c].ver = poll[c].ver
                 /\ poll'[c].content = poll[c].content
                 /\ poll'[c].changed = poll[c].changed
      BY <1>12, <3>2, TickEffect DEF TypeOK
    <3>3. ASSUME NEW c \in Collector, poll'[c].at = "compared",
                 NEW k \in Key \ poll'[c].changed, poll'[c].content[k] # None,
                 <<poll'[c].ver, k>> \notin overtaken
          PROVE  /\ lastSeen'[poll'[c].ver][TripOf[k]] \in 0 .. LiveWindow
                 /\ live'[poll'[c].ver][k] = poll'[c].content[k]
      <4>1. Fresh(poll[c].ver, k) /\ live[poll[c].ver][k] = poll[c].content[k]
        BY <3>2, <3>3 DEF UnchangedIsLive
      <4>2. lastSeen[poll[c].ver][TripOf[k]] < MaxGap
        BY <3>1, <3>2, <3>3
      <4>3. lastSeen'[poll[c].ver][TripOf[k]] \in 0 .. LiveWindow
        BY <2>4, <3>2, <3>3, <4>1, <4>2
      <4> QED
        BY <2>1, <3>2, <3>3, <4>1, <4>3
    <3> QED
      BY <2>1, <3>2, <3>3 DEF UnchangedIsLive, Fresh
  <2>7. OldIsStale' /\ FreshIsSafe' /\ BoardMissesOnlyOvertaken'
    BY <2>1, <2>3 DEF OldIsStale, FreshIsSafe, BoardMissesOnlyOvertaken
  <2>8. PollIsRecent'
    <3>1. \A c \in Collector : poll[c].age \in 0 .. LiveWindow
      BY DEF PollIsRecent
    <3>2. \A a \in 0 .. LiveWindow : a < MaxGap => Older(a) \in 0 .. LiveWindow
      BY DEF Older
    <3> QED
      BY <1>12, <3>1, <3>2, TickEffect DEF PollIsRecent
  <2> QED
    BY <2>5, <2>6, <2>7, <2>8
<1>13. CASE UNCHANGED vars
  BY <1>13 DEF vars, db, history, PollIsRecent, MemoryIsLive, UnchangedIsLive, OldIsStale,
               FreshIsSafe, BoardMissesOnlyOvertaken, Fresh
<1> QED
  BY <1>1, <1>2, <1>3, <1>4, <1>5, <1>6, <1>7, <1>8, <1>9, <1>10, <1>11, <1>12, <1>13
  DEF Next, CollectorStep

LEMMA BoardAlways ==
  ASSUME SoleCollector, MaxGap <= LiveWindow
  PROVE  Spec => [](TypeOK /\ BoardInv)
  BY TypeInit, TypeStep, BoardInit, BoardStep, PTL DEF Spec

\* If a sole collector never counts on a trip it has not seen for longer than
\* a live row lasts, the board shows its last committed poll, but for what a
\* clean-up was deleting when the poll saw its trip again.
THEOREM BoardIsLatest ==
  ASSUME SoleCollector, MaxGap <= LiveWindow
  PROVE  Spec => []BoardMissesOnlyOvertaken
<1>1. BoardInv => BoardMissesOnlyOvertaken
  BY DEF BoardInv
<1> QED
  BY <1>1, BoardAlways, PTL

-----------------------------------------------------------------------------
(***************************************************************************)
(* Why the samples are right.  A clean-up takes samples only of trips that *)
(* were old when it began, whose live rows it takes as well, so a live row *)
(* that is not overtaken has its sample; and a trip that old has lost its  *)
(* claim to a sample.                                                      *)
(***************************************************************************)
LiveHasSample ==
  \A v \in Version : \A k \in Key :
    /\ live[v][k] # None /\ <<v, k>> \notin overtaken /\ DelayOf[live[v][k]] # None
    => samples[v][k] = DelayOf[live[v][k]]

Listed(c, v, k) ==
  \/ <<v, TripOf[k]>> \in prune[c].old \cup prune[c].expired
  \/ <<v, k>> \in prune[c].lost

ListedIsGiven ==
  \A c \in Collector : \A v \in Version : \A k \in Key : Listed(c, v, k) =>
    /\ live[v][k] # None => <<v, k>> \in prune[c].doomed \cup overtaken
    /\ lastDelay[v][k] = None

DelayIsRecent ==
  \A v \in Version : \A k \in Key :
    lastDelay[v][k] # None => lastSeen[v][TripOf[k]] \in 0 .. SampleWindow

SamplesInv ==
  /\ LiveHasSample
  /\ ListedIsGiven
  /\ DelayIsRecent
  /\ SamplesKeepLatestDelay

LEMMA SamplesInit == Init => SamplesInv
  BY DEF Init, Nothing, NoPrune, SamplesInv, LiveHasSample, Listed, ListedIsGiven,
         DelayIsRecent, SamplesKeepLatestDelay

LEMMA CommitKeepsSamples ==
  ASSUME TypeOK, BoardInv, SamplesInv, NEW c \in Collector, Commit(c)
  PROVE  SamplesInv'
<1> USE TripUpdatesAssumption DEF SamplesInv, BoardInv
<1> DEFINE p == poll[c]
<1>1. \A k \in Key : p.content[k] # None => TripOf[k] \in p.seen
  BY CommitEffect DEF PollIsRecent
<1>2. \A k \in p.changed : p.content[k] # None
  BY CommitEffect
<1>3. p.ver \in Version /\ p.age \in 0 .. SampleWindow
  BY CommitEffect DEF PollIsRecent
<1>4. LiveHasSample'
  <2> SUFFICES ASSUME NEW v \in Version, NEW k \in Key, live'[v][k] # None,
                      <<v, k>> \notin overtaken', DelayOf[live'[v][k]] # None
               PROVE  samples'[v][k] = DelayOf[live'[v][k]]
    BY DEF LiveHasSample
  <2>1. CASE v = p.ver /\ k \in p.changed
    <3>1. live'[v][k] = p.content[k]
      BY <2>1, CommitEffect
    <3> QED
      BY <2>1, <3>1, CommitDelays
  <2>2. CASE ~(v = p.ver /\ k \in p.changed)
    <3>1. live'[v][k] = live[v][k]
      BY <2>2, CommitEffect
    <3>2. samples'[v][k] = samples[v][k]
      BY <2>2, CommitDelays
    <3>3. <<v, k>> \notin overtaken
      BY <2>2, CommitMarks
    <3> QED
      BY <3>1, <3>2, <3>3 DEF LiveHasSample
  <2> QED
    BY <2>1, <2>2
<1>5. ListedIsGiven'
  <2> SUFFICES ASSUME NEW d \in Collector, NEW v \in Version, NEW k \in Key, Listed(d, v, k)'
               PROVE  /\ live'[v][k] # None => <<v, k>> \in prune'[d].doomed \cup overtaken'
                      /\ lastDelay'[v][k] = None
    BY DEF ListedIsGiven
  <2>1. /\ Listed(d, v, k) /\ prune'[d].doomed = prune[d].doomed
        /\ v = p.ver /\ TripOf[k] \in p.seen =>
             <<v, TripOf[k]>> \in prune[d].expired \/ <<v, k>> \in prune[d].lost
    BY CommitPrune DEF Listed
  <2>2. CASE v = p.ver /\ TripOf[k] \in p.seen
    <3>1. <<v, k>> \in overtaken'
      BY <2>1, <2>2, CommitMarks
    <3> QED
      BY <2>2, <3>1, CommitDelays
  <2>3. CASE ~(v = p.ver /\ TripOf[k] \in p.seen)
    <3>1. ~(v = p.ver /\ k \in p.changed) /\ (v = p.ver => p.content[k] = None)
      BY <1>1, <1>2, <2>3
    <3>2. live'[v][k] = live[v][k]
      BY <3>1, CommitEffect
    <3>3. <<v, k>> \in overtaken => <<v, k>> \in overtaken'
      BY <3>1, CommitMarks
    <3>4. lastDelay'[v][k] \in {None, lastDelay[v][k]}
      BY <3>1, CommitDelays
    <3> QED
      BY <2>1, <3>2, <3>3, <3>4 DEF ListedIsGiven
  <2> QED
    BY <2>2, <2>3
<1> DEFINE Given(k) == p.content[k] # None /\ DelayOf[p.content[k]] # None
<1>6. ASSUME NEW v \in Version, NEW k \in Key, lastDelay'[v][k] # None
      PROVE  /\ ~(v = p.ver /\ Given(k)) =>
                  lastDelay'[v][k] = lastDelay[v][k] /\ samples'[v][k] = samples[v][k]
             /\ k \notin p.changed => samples'[v][k] = samples[v][k]
  <2>1. v # p.ver \/ k \notin p.changed \/ DelayOf[p.content[k]] = None
          => samples'[v][k] = samples[v][k]
    BY CommitKeepsDelays
  <2>2. CASE v # p.ver
    BY <2>1, <2>2, CommitKeepsDelays
  <2>3. CASE v = p.ver /\ ~Given(k)
    <3>1. lastDelay'[v][k] \in {None, lastDelay[v][k]}
      BY <2>3, CommitDelays
    <3> QED
      BY <1>2, <1>6, <2>1, <2>3, <3>1
  <2>4. CASE v = p.ver /\ Given(k)
    BY <2>1, <2>4
  <2> QED
    BY <2>2, <2>3, <2>4
<1>7. DelayIsRecent'
  <2> SUFFICES ASSUME NEW v \in Version, NEW k \in Key, lastDelay'[v][k] # None
               PROVE  lastSeen'[v][TripOf[k]] \in 0 .. SampleWindow
    BY DEF DelayIsRecent
  <2>1. lastSeen'[v][TripOf[k]] = IF v = p.ver /\ TripOf[k] \in p.seen THEN p.age
                                  ELSE lastSeen[v][TripOf[k]]
    <3>1. TripOf[k] \in Trip
      OBVIOUS
    <3> QED
      BY <3>1, CommitEffect
  <2>2. lastDelay'[v][k] # lastDelay[v][k] => v = p.ver /\ p.content[k] # None
    BY <1>6
  <2> QED
    BY <1>1, <1>3, <2>1, <2>2 DEF DelayIsRecent
<1>8. SamplesKeepLatestDelay'
  <2> SUFFICES ASSUME NEW v \in Version, NEW k \in Key, lastDelay'[v][k] # None
               PROVE  samples'[v][k] = lastDelay'[v][k]
    BY DEF SamplesKeepLatestDelay
  <2>1. CASE ~(v = p.ver /\ Given(k))
    BY <1>6, <2>1 DEF SamplesKeepLatestDelay
  <2>2. CASE v = p.ver /\ Given(k)
    <3>1. lastDelay'[v][k] = DelayOf[p.content[k]] /\ <<v, k>> \notin overtaken'
      BY <2>2, CommitDelays
    <3>2. CASE k \in p.changed
      BY <2>2, <3>1, <3>2, CommitDelays
    <3>3. CASE k \notin p.changed
      <4>1. samples'[v][k] = samples[v][k]
        BY <1>6, <3>3
      <4>2. <<v, k>> \notin overtaken
        BY <2>2, <3>1, <3>3, CommitMarks
      <4>3. live[v][k] = p.content[k]
        BY <2>2, <3>3, <4>2, CommitEffect DEF UnchangedIsLive
      <4> QED
        BY <2>2, <3>1, <4>1, <4>2, <4>3 DEF LiveHasSample
    <3> QED
      BY <3>2, <3>3
  <2> QED
    BY <2>1, <2>2
<1> QED
  BY <1>4, <1>5, <1>7, <1>8

LEMMA PruneKeepsSamples ==
  ASSUME SoleCollector, TypeOK, SamplesInv, NEW c \in Collector, PruneStep(c)
  PROVE  SamplesInv'
<1> USE TripUpdatesAssumption DEF SamplesInv
<1>1. \A d \in Collector : d = c
  BY DEF SoleCollector
<1>2. prune[c] \in CleanUp /\ UNCHANGED <<lastDelay, overtaken>>
  BY PruneOnlyDeletes DEF TypeOK, history
<1>3. CASE PruneStarts(c)
  <2>1. /\ \A v \in Version : \A k \in Key :
             /\ <<v, TripOf[k]>> \in prune'[c].old => lastSeen[v][TripOf[k]] > SampleWindow
             /\ live[v][k] # None /\ lastSeen[v][TripOf[k]] \notin 0 .. LiveWindow
                  => <<v, k>> \in prune'[c].doomed
        /\ prune'[c].expired = {} /\ prune'[c].lost = {}
    BY <1>3 DEF TypeOK, PruneStarts, NoPrune, Stale, Old
  <2>2. UNCHANGED <<live, samples, lastSeen>>
    BY <1>3 DEF PruneStarts, db
  <2>3. ListedIsGiven'
    <3> SUFFICES ASSUME NEW v \in Version, NEW k \in Key, <<v, TripOf[k]>> \in prune'[c].old
                 PROVE  /\ live[v][k] # None => <<v, k>> \in prune'[c].doomed
                        /\ lastDelay[v][k] = None
      BY <1>1, <1>2, <2>1, <2>2 DEF ListedIsGiven, Listed
    <3>1. lastSeen[v][TripOf[k]] > SampleWindow /\ lastSeen[v][TripOf[k]] \in Age \cup {Absent}
      <4>1. TripOf[k] \in Trip /\ lastSeen \in [Version -> [Trip -> Age \cup {Absent}]]
        BY DEF TypeOK
      <4>2. lastSeen[v][TripOf[k]] > SampleWindow
        BY <2>1
      <4> QED
        BY <4>1, <4>2
    <3>2. lastSeen[v][TripOf[k]] \notin 0 .. LiveWindow /\ lastSeen[v][TripOf[k]] \notin 0 .. SampleWindow
      BY <3>1 DEF Age, Absent, Oldest
    <3> QED
      BY <2>1, <3>2 DEF DelayIsRecent
  <2> QED
    BY <1>2, <2>2, <2>3 DEF LiveHasSample, DelayIsRecent, SamplesKeepLatestDelay
<1>4. CASE PruneChooses(c) \/ PruneFindsSamples(c) \/ PruneFindsFreshness(c)
  <2>1. prune'[c].doomed = prune[c].doomed
    BY <1>2, <1>4 DEF TypeOK, PruneChooses, PruneFindsSamples, PruneFindsFreshness, CleanUp
  <2>2. UNCHANGED <<live, samples, lastSeen>>
    BY <1>4 DEF PruneChooses, PruneFindsSamples, PruneFindsFreshness, db
  <2>3. prune'[c].old \subseteq prune[c].old
    <3>1. CASE PruneChooses(c)
      <4>1. PICK expired \in SUBSET {r \in prune[c].old : r[2] \in archived[r[1]]} :
              prune' = [prune EXCEPT ![c].at = "chosen", ![c].old = {}, ![c].expired = expired]
        BY <3>1 DEF PruneChooses
      <4>2. prune'[c] = [prune[c] EXCEPT !.at = "chosen", !.old = {}, !.expired = expired]
        BY <4>1 DEF TypeOK
      <4> QED
        BY <1>2, <4>2 DEF CleanUp
    <3>2. CASE PruneFindsSamples(c)
      <4>1. prune'[c] = [prune[c] EXCEPT !.at = "samples", !.lost =
                           {r \in Version \X Key : /\ samples[r[1]][r[2]] # None
                                                   /\ <<r[1], TripOf[r[2]]>> \in prune[c].expired}]
        BY <3>2 DEF TypeOK, PruneFindsSamples
      <4> QED
        BY <1>2, <4>1 DEF CleanUp
    <3>3. CASE PruneFindsFreshness(c)
      <4>1. prune'[c] = [prune[c] EXCEPT !.at = "freshness", !.expired =
                           {r \in prune[c].expired : lastSeen[r[1]][r[2]] # Absent}]
        BY <3>3 DEF TypeOK, PruneFindsFreshness
      <4> QED
        BY <1>2, <4>1 DEF CleanUp
    <3> QED
      BY <1>4, <3>1, <3>2, <3>3
  <2>4. \A v \in Version : \A k \in Key : Listed(c, v, k)' => Listed(c, v, k)
    BY <2>3, PruneFindsStale DEF Listed
  <2>5. ListedIsGiven'
    BY <1>1, <1>2, <2>1, <2>2, <2>4 DEF ListedIsGiven
  <2> QED
    BY <1>2, <2>2, <2>5 DEF LiveHasSample, DelayIsRecent, SamplesKeepLatestDelay
<1>5. CASE PruneCommits(c)
  <2>1. /\ prune'[c] = NoPrune
        /\ \A v \in Version : \A k \in Key :
             /\ live'[v][k] = IF <<v, k>> \in prune[c].doomed THEN None ELSE live[v][k]
             /\ samples'[v][k] = IF <<v, k>> \in prune[c].lost THEN None ELSE samples[v][k]
        /\ \A v \in Version : \A t \in Trip :
             lastSeen'[v][t] = IF <<v, t>> \in prune[c].expired THEN Absent ELSE lastSeen[v][t]
    BY <1>5 DEF PruneCommits
  <2>2. ListedIsGiven'
    BY <1>1, <2>1 DEF ListedIsGiven, Listed, NoPrune
  <2>3. ASSUME NEW v \in Version, NEW k \in Key
        PROVE  /\ <<v, k>> \in prune[c].lost \/ <<v, TripOf[k]>> \in prune[c].expired =>
                    /\ live[v][k] # None => <<v, k>> \in prune[c].doomed \cup overtaken
                    /\ lastDelay[v][k] = None
               /\ TripOf[k] \in Trip
    BY DEF ListedIsGiven, Listed
  <2>4. LiveHasSample'
    <3> SUFFICES ASSUME NEW v \in Version, NEW k \in Key, live'[v][k] # None,
                        <<v, k>> \notin overtaken, DelayOf[live'[v][k]] # None
                 PROVE  samples'[v][k] = DelayOf[live'[v][k]]
      BY <1>2 DEF LiveHasSample
    <3>1. live'[v][k] = live[v][k] /\ <<v, k>> \notin prune[c].doomed
      BY <2>1
    <3>2. <<v, k>> \notin prune[c].lost
      BY <2>3, <3>1
    <3> QED
      BY <2>1, <3>1, <3>2 DEF LiveHasSample
  <2>5. DelayIsRecent'
    BY <1>2, <2>1, <2>3 DEF DelayIsRecent
  <2>6. SamplesKeepLatestDelay'
    <3> SUFFICES ASSUME NEW v \in Version, NEW k \in Key, lastDelay[v][k] # None
                 PROVE  samples'[v][k] = lastDelay[v][k]
      BY <1>2 DEF SamplesKeepLatestDelay
    <3>1. <<v, k>> \notin prune[c].lost
      BY <2>3
    <3> QED
      BY <2>1, <3>1 DEF SamplesKeepLatestDelay
  <2> QED
    BY <2>2, <2>4, <2>5, <2>6
<1>6. CASE PruneFails(c)
  <2>1. prune'[c] = NoPrune /\ UNCHANGED <<live, samples, lastSeen>>
    BY <1>6 DEF TypeOK, PruneFails, db
  <2> QED
    BY <1>1, <1>2, <2>1 DEF NoPrune, Listed, LiveHasSample, ListedIsGiven, DelayIsRecent,
                            SamplesKeepLatestDelay
<1> QED
  BY <1>3, <1>4, <1>5, <1>6 DEF PruneStep

LEMMA SamplesStep ==
  ASSUME SoleCollector
  PROVE  TypeOK /\ BoardInv /\ SamplesInv /\ [Next]_vars => SamplesInv'
<1> SUFFICES ASSUME TypeOK, BoardInv, SamplesInv, [Next]_vars PROVE SamplesInv'
  OBVIOUS
<1>1. ASSUME NEW c \in Collector, Commit(c) PROVE SamplesInv'
  BY <1>1, CommitKeepsSamples
<1>2. ASSUME NEW c \in Collector, PruneStep(c) PROVE SamplesInv'
  BY <1>2, PruneKeepsSamples
<1>3. ASSUME NEW c \in Collector, Crash(c) PROVE SamplesInv'
  <2>1. \A d \in Collector : d = c
    BY DEF SoleCollector
  <2>2. prune'[c] = NoPrune /\ UNCHANGED <<live, samples, lastSeen, lastDelay, overtaken>>
    BY <1>3 DEF TypeOK, Crash, db, history
  <2> QED
    BY <2>1, <2>2 DEF SamplesInv, NoPrune, Listed, LiveHasSample, ListedIsGiven,
                      DelayIsRecent, SamplesKeepLatestDelay
<1>4. CASE Tick
  <2>1. UNCHANGED <<live, samples, prune, overtaken>>
    BY <1>4 DEF Tick
  <2>2. ASSUME NEW v \in Version, NEW k \in Key
        PROVE  /\ lastDelay'[v][k] \in {None, lastDelay[v][k]}
               /\ lastDelay'[v][k] # None => lastSeen'[v][TripOf[k]] \in 0 .. SampleWindow
    <3>1. /\ lastSeen'[v][TripOf[k]] = Older(lastSeen[v][TripOf[k]])
          /\ lastDelay'[v][k] = IF lastSeen'[v][TripOf[k]] > SampleWindow THEN None
                                ELSE lastDelay[v][k]
      BY <1>4, TripUpdatesAssumption DEF Tick
    <3>2. lastDelay[v][k] # None => lastSeen[v][TripOf[k]] \in 0 .. SampleWindow
      BY DEF SamplesInv, DelayIsRecent
    <3>3. \A a \in 0 .. SampleWindow : Older(a) > SampleWindow \/ Older(a) \in 0 .. SampleWindow
      BY TripUpdatesAssumption DEF Older
    <3> QED
      BY <3>1, <3>2, <3>3
  <2> QED
    BY <2>1, <2>2 DEF SamplesInv, Listed, LiveHasSample, ListedIsGiven, DelayIsRecent,
                      SamplesKeepLatestDelay
<1>5. ASSUME NEW c \in Collector, CollectorStep(c), ~Commit(c), ~Crash(c)
      PROVE  UNCHANGED <<live, samples, lastSeen, prune, lastDelay, overtaken>>
  BY <1>5 DEF CollectorStep, ImportCommits, RefreshPrunesHashes, RefreshFails, StartPoll,
              Receive, Compare, PollEnds, db, history
<1>6. SourceChanges \/ UNCHANGED vars
        => UNCHANGED <<live, samples, lastSeen, prune, lastDelay, overtaken>>
  BY DEF SourceChanges, vars, db, history
<1>7. UNCHANGED <<live, samples, lastSeen, prune, lastDelay, overtaken>> => SamplesInv'
  BY DEF SamplesInv, Listed, LiveHasSample, ListedIsGiven, DelayIsRecent,
         SamplesKeepLatestDelay
<1> QED
  BY <1>1, <1>2, <1>3, <1>4, <1>5, <1>6, <1>7 DEF Next

\* Under the same conditions the statistics keep the last reported delay of a
\* key for the whole sample window, but for what a clean-up was deleting when a
\* poll saw its trip again.
THEOREM SamplesAreLatest ==
  ASSUME SoleCollector, MaxGap <= LiveWindow
  PROVE  Spec => []SamplesKeepLatestDelay
<1>1. Spec => []SamplesInv
  BY BoardAlways, SamplesInit, SamplesStep, PTL DEF Spec
<1>2. SamplesInv => SamplesKeepLatestDelay
  BY DEF SamplesInv
<1> QED
  BY <1>1, <1>2, PTL
=============================================================================
