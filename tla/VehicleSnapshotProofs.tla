------------------------- MODULE VehicleSnapshotProofs -------------------------
(***************************************************************************)
(* Of VehicleSnapshot: a poll that no other of its version overlaps leaves *)
(* exactly its response on the map, and every row of the map is archived,  *)
(* for any collectors, vehicles and versions.                              *)
(***************************************************************************)
EXTENDS VehicleSnapshot, TLAPS

Response == [vehicles : [Vehicle -> State \cup {Gone}], stamp : Nat]

Poll == [at : {"none", "fetched", "upserted", "deleting"}, version : Version \cup {Gone},
         response : Response, doomed : SUBSET Vehicle, crossed : BOOLEAN]

VehicleTypes ==
  /\ activeVersion \in Version /\ fetches \in Nat
  /\ positions \in [Version -> [Vehicle -> [state : State \cup {Gone}, fetched : Nat, seen : Nat]]]
  /\ track \subseteq Version \X Vehicle \X State \X Nat
  /\ tx \in [Collector -> Poll]
  /\ latest \in [Version -> Response]
  /\ quiet \in [Version -> BOOLEAN]

\* No row is dated after the last response.
DatedByFetches ==
  /\ \A o \in track : o[4] <= fetches
  /\ \A c \in Collector : tx[c].response.stamp <= fetches

\* A poll that no other has crossed is alone with its version: nothing has been
\* committed there since its response arrived, and the rows it is going to
\* delete are those that are there.
UncrossedIsAlone ==
  \A c \in Collector : tx[c].at # "none" /\ ~tx[c].crossed =>
    /\ Rivals(c) = {}
    /\ \A o \in track : o[1] = tx[c].version => o[4] <= tx[c].response.stamp
    /\ tx[c].at = "deleting" => tx[c].doomed = Absent(c)

VehicleInv ==
  /\ VehicleTypes
  /\ \A c \in Collector : tx[c].at # "none" => tx[c].version \in Version
  /\ DatedByFetches
  /\ UncrossedIsAlone
  /\ MapIsOneResponse
  /\ MapIsArchived

LEMMA VehicleInitEstablishes == VehicleInit => VehicleInv
<1> SUFFICES ASSUME VehicleInit PROVE VehicleInv
  OBVIOUS
<1>1. VehicleTypes
  BY DEF VehicleInit, VehicleTypes, NoPosition, NoResponse, NoTx, Response, Poll
<1>2. (\A c \in Collector : tx[c].at # "none" => tx[c].version \in Version) /\ DatedByFetches
      /\ UncrossedIsAlone
  BY DEF VehicleInit, DatedByFetches, UncrossedIsAlone, NoTx, NoResponse
<1>3. MapIsOneResponse /\ MapIsArchived
  BY DEF VehicleInit, MapIsOneResponse, MapIsArchived, Rows, NoPosition, NoResponse
<1> QED
  BY <1>1, <1>2, <1>3 DEF VehicleInv

\* Polls but for the commit leave the map, the archive and their history alone.
LEMMA MapKept ==
  ASSUME VehicleInv, UNCHANGED <<positions, track, latest, quiet>>
  PROVE  MapIsOneResponse' /\ MapIsArchived'
BY DEF VehicleInv, MapIsOneResponse, MapIsArchived, Rows

LEMMA FetchKeeps == ASSUME VehicleInv, NEW c \in Collector, FetchVehicles(c) PROVE VehicleInv'
<1> DEFINE others == {d \in Collector \ {c} : tx[d].at # "none" /\ tx[d].version = activeVersion}
<1>1. PICK vehicles \in [Vehicle -> State \cup {Gone}] :
        tx' = [d \in Collector |->
                 IF d = c
                 THEN [NoTx EXCEPT !.at = "fetched", !.version = activeVersion,
                                   !.response = [vehicles |-> vehicles, stamp |-> fetches'],
                                   !.crossed = others # {}]
                 ELSE IF d \in others THEN [tx[d] EXCEPT !.crossed = TRUE] ELSE tx[d]]
  BY DEF FetchVehicles
<1>2. fetches' = fetches + 1 /\ fetches \in Nat
      /\ UNCHANGED <<activeVersion, positions, track, latest, quiet>>
  BY DEF FetchVehicles, VehicleInv, VehicleTypes
<1>3. /\ tx'[c].at = "fetched" /\ tx'[c].version = activeVersion
      /\ tx'[c].response = [vehicles |-> vehicles, stamp |-> fetches + 1]
      /\ tx'[c].doomed = {} /\ tx'[c].crossed = (others # {})
  BY <1>1, <1>2 DEF NoTx
<1>4. ASSUME NEW d \in Collector, d # c
      PROVE  /\ tx'[d].at = tx[d].at /\ tx'[d].version = tx[d].version
             /\ tx'[d].response = tx[d].response /\ tx'[d].doomed = tx[d].doomed
             /\ tx'[d].crossed = (tx[d].crossed \/ d \in others)
             /\ tx'[d] \in Poll
  BY <1>1, <1>4 DEF VehicleInv, VehicleTypes, Poll
<1>5. VehicleTypes'
  <2>1. tx'[c] = [at |-> "fetched", version |-> activeVersion,
                  response |-> [vehicles |-> vehicles, stamp |-> fetches + 1],
                  doomed |-> {}, crossed |-> others # {}]
    BY <1>1, <1>2 DEF NoTx
  <2>2. activeVersion \in Version /\ (others # {}) \in BOOLEAN
        /\ [vehicles |-> vehicles, stamp |-> fetches + 1] \in Response
    BY <1>2 DEF Response, VehicleInv, VehicleTypes
  <2> HIDE DEF others
  <2>3. tx'[c] \in Poll
    BY <2>1, <2>2 DEF Poll
  <2>4. tx' = [d \in Collector |-> tx'[d]]
    BY <1>1
  <2>5. tx' \in [Collector -> Poll]
    BY <2>3, <2>4, <1>4
  <2> QED
    BY <2>5, <1>2 DEF VehicleInv, VehicleTypes
<1>6. (\A d \in Collector : tx[d].at # "none" => tx[d].version \in Version)'
  BY <1>3, <1>4 DEF VehicleInv, VehicleTypes
<1>7. DatedByFetches'
  <2>1. \A o \in track : o[4] \in Nat
    BY DEF VehicleInv, VehicleTypes
  <2>2. \A d \in Collector : tx[d].response.stamp \in Nat
    BY DEF VehicleInv, VehicleTypes, Poll, Response
  <2> QED
    BY <2>1, <2>2, <1>2, <1>3, <1>4 DEF VehicleInv, DatedByFetches
<1>8. UncrossedIsAlone'
  <2> SUFFICES ASSUME NEW d \in Collector, tx'[d].at # "none", ~tx'[d].crossed
               PROVE  /\ Rivals(d)' = {}
                      /\ \A o \in track : o[1] = tx'[d].version => o[4] <= tx'[d].response.stamp
                      /\ tx'[d].at = "deleting" => tx'[d].doomed = Absent(d)'
    BY <1>2 DEF UncrossedIsAlone
  <2>1. CASE d = c
    <3>1. others = {}
      BY <2>1, <1>3
    <3>2. Rivals(d)' = {}
      BY <2>1, <3>1, <1>3, <1>4 DEF Rivals
    <3>3. \A o \in track : o[4] <= fetches + 1
      BY <1>2 DEF VehicleInv, DatedByFetches, VehicleTypes
    <3> QED
      BY <2>1, <3>2, <3>3, <1>3
  <2>2. CASE d # c
    <3>1. tx[d].at # "none" /\ ~tx[d].crossed /\ d \notin others
      BY <2>2, <1>4
    <3>2. tx[d].version # activeVersion
      BY <2>2, <3>1
    <3>3. Rivals(d) = {}
      BY <3>1 DEF VehicleInv, UncrossedIsAlone
    <3>4. Rivals(d)' = {}
      BY <2>2, <3>2, <3>3, <1>3, <1>4 DEF Rivals
    <3>5. Absent(d)' = Absent(d)
      BY <2>2, <1>2, <1>4 DEF Absent, Present
    <3> QED
      BY <2>2, <3>1, <3>4, <3>5, <1>4 DEF VehicleInv, UncrossedIsAlone
  <2> QED
    BY <2>1, <2>2
<1> QED
  BY <1>2, <1>5, <1>6, <1>7, <1>8, MapKept DEF VehicleInv

\* A poll goes on, and no other is touched.
LEMMA ProgressKeeps ==
  ASSUME VehicleInv, NEW c \in Collector, UpsertVehicles(c) \/ DeleteAbsent(c)
  PROVE  VehicleInv'
<1>1. UNCHANGED <<activeVersion, fetches, positions, track, latest, quiet>>
  BY DEF UpsertVehicles, DeleteAbsent
<1>2. /\ tx[c].at # "none" /\ tx'[c].at \in {"upserted", "deleting"}
      /\ tx'[c].version = tx[c].version /\ tx'[c].response = tx[c].response
      /\ tx'[c].crossed = tx[c].crossed
      /\ tx'[c].at = "deleting" => tx'[c].doomed = Absent(c)
      /\ tx'[c].doomed \in SUBSET Vehicle
      /\ tx' = [tx EXCEPT ![c] = tx'[c]] /\ tx'[c] \in Poll
  <2>1. tx[c] \in Poll /\ tx \in [Collector -> Poll]
    BY DEF VehicleInv, VehicleTypes
  <2>2. CASE UpsertVehicles(c)
    BY <2>1, <2>2 DEF UpsertVehicles, Poll
  <2>3. CASE DeleteAbsent(c)
    <3>1. tx' = [tx EXCEPT ![c] = [tx[c] EXCEPT !.at = "deleting", !.doomed = Absent(c)]]
      BY <2>3 DEF DeleteAbsent
    <3>2. Absent(c) \in SUBSET Vehicle /\ tx[c].at # "none"
      BY <2>3 DEF Absent, DeleteAbsent
    <3> QED
      BY <2>1, <3>1, <3>2 DEF Poll
  <2> QED
    BY <2>2, <2>3
<1>3. \A d \in Collector \ {c} : tx'[d] = tx[d]
  BY <1>2 DEF VehicleInv, VehicleTypes
<1>4. VehicleTypes'
  BY <1>1, <1>2 DEF VehicleInv, VehicleTypes
<1>5. (\A d \in Collector : tx[d].at # "none" => tx[d].version \in Version)' /\ DatedByFetches'
  BY <1>1, <1>2, <1>3 DEF VehicleInv, DatedByFetches
<1>6. UncrossedIsAlone'
  <2> SUFFICES ASSUME NEW d \in Collector, tx'[d].at # "none", ~tx'[d].crossed
               PROVE  /\ Rivals(d)' = {}
                      /\ \A o \in track : o[1] = tx'[d].version => o[4] <= tx'[d].response.stamp
                      /\ tx'[d].at = "deleting" => tx'[d].doomed = Absent(d)'
    BY <1>1 DEF UncrossedIsAlone
  <2>1. tx[d].at # "none" /\ ~tx[d].crossed /\ tx'[d].version = tx[d].version
        /\ tx'[d].response = tx[d].response
    BY <1>2, <1>3
  <2>2. Rivals(d)' = Rivals(d)
    BY <1>2, <1>3, <2>1 DEF Rivals
  <2>3. Absent(d)' = Absent(d)
    BY <1>1, <2>1 DEF Absent, Present
  <2> QED
    BY <1>2, <1>3, <2>1, <2>2, <2>3 DEF VehicleInv, UncrossedIsAlone
<1> QED
  BY <1>1, <1>4, <1>5, <1>6, MapKept DEF VehicleInv

\* Without the transaction of c, the others are as alone as they were.
LEMMA EndKeepsOthers ==
  ASSUME VehicleInv, NEW c \in Collector, tx' = [tx EXCEPT ![c] = NoTx],
         NEW d \in Collector, tx'[d].at # "none", ~tx'[d].crossed
  PROVE  d # c /\ tx'[d] = tx[d] /\ Rivals(d)' = {} /\ Rivals(d) = {}
<1>1. d # c
  BY DEF VehicleInv, VehicleTypes, NoTx
<1>2. tx'[d] = tx[d]
  BY <1>1 DEF VehicleInv, VehicleTypes
<1>3. Rivals(d) = {}
  BY <1>2 DEF VehicleInv, UncrossedIsAlone
<1>4. Rivals(d)' \subseteq Rivals(d)
  BY <1>1, <1>2 DEF Rivals, NoTx, VehicleInv, VehicleTypes
<1> QED
  BY <1>1, <1>2, <1>3, <1>4

LEMMA RollBackKeeps == ASSUME VehicleInv, NEW c \in Collector, RollBackVehicles(c) PROVE VehicleInv'
<1>1. UNCHANGED <<activeVersion, fetches, positions, track, latest, quiet>>
      /\ tx' = [tx EXCEPT ![c] = NoTx]
  BY DEF RollBackVehicles
<1>2. NoTx \in Poll
  BY DEF NoTx, Poll, NoResponse, Response
<1>3. VehicleTypes'
  BY <1>1, <1>2 DEF VehicleInv, VehicleTypes
<1>4. (\A d \in Collector : tx[d].at # "none" => tx[d].version \in Version)' /\ DatedByFetches'
  BY <1>1 DEF VehicleInv, VehicleTypes, DatedByFetches, NoTx, NoResponse
<1>5. UncrossedIsAlone'
  <2> SUFFICES ASSUME NEW d \in Collector, tx'[d].at # "none", ~tx'[d].crossed
               PROVE  /\ Rivals(d)' = {}
                      /\ \A o \in track : o[1] = tx'[d].version => o[4] <= tx'[d].response.stamp
                      /\ tx'[d].at = "deleting" => tx'[d].doomed = Absent(d)'
    BY <1>1 DEF UncrossedIsAlone
  <2>1. tx'[d] = tx[d] /\ Rivals(d)' = {}
    BY <1>1, EndKeepsOthers
  <2>2. Absent(d)' = Absent(d)
    BY <1>1, <2>1 DEF Absent, Present
  <2> QED
    BY <2>1, <2>2 DEF VehicleInv, UncrossedIsAlone
<1> QED
  BY <1>1, <1>3, <1>4, <1>5, MapKept DEF VehicleInv

LEMMA CommitKeeps == ASSUME VehicleInv, NEW c \in Collector, CommitVehicles(c) PROVE VehicleInv'
<1> DEFINE v == tx[c].version
           r == tx[c].response
           doomed == tx[c].doomed
           Replaced(k) == IF k \in Present(r) THEN Position(positions[v][k], r.vehicles[k], r.stamp)
                          ELSE IF k \in doomed THEN NoPosition ELSE positions[v][k]
<1>1. /\ v \in Version /\ r \in Response /\ doomed \subseteq Vehicle /\ tx[c].at = "deleting"
      /\ positions[v] \in [Vehicle -> [state : State \cup {Gone}, fetched : Nat, seen : Nat]]
      /\ \A k \in Vehicle : r.vehicles[k] \in State \cup {Gone}
      /\ r.stamp \in Nat /\ r.stamp <= fetches
  BY DEF CommitVehicles, VehicleInv, VehicleTypes, Poll, Response, DatedByFetches
<1>2. /\ positions' = [positions EXCEPT ![v] = [k \in Vehicle |-> Replaced(k)]]
      /\ track' = track \cup {<<v, k, r.vehicles[k], r.stamp>> : k \in Present(r)}
      /\ latest' = [latest EXCEPT ![v] = r]
      /\ quiet' = [quiet EXCEPT ![v] = ~tx[c].crossed]
      /\ tx' = [tx EXCEPT ![c] = NoTx] /\ UNCHANGED <<activeVersion, fetches>>
  BY DEF CommitVehicles
<1>3. /\ \A k \in Vehicle : positions'[v][k] = Replaced(k)
      /\ \A u \in Version \ {v} : positions'[u] = positions[u]
  BY <1>1, <1>2 DEF VehicleInv, VehicleTypes
<1>4. \A k \in Present(r) : k \in Vehicle /\ r.vehicles[k] \in State /\ r.vehicles[k] # Gone
  BY <1>1 DEF Present
<1> HIDE DEF v, r, doomed
<1>5. VehicleTypes'
  <2>1. \A k \in Vehicle : Replaced(k) \in [state : State \cup {Gone}, fetched : Nat, seen : Nat]
    BY <1>1, <1>4 DEF Position, NoPosition
  <2>2. positions' \in [Version -> [Vehicle -> [state : State \cup {Gone}, fetched : Nat, seen : Nat]]]
    BY <1>1, <1>2, <2>1 DEF VehicleInv, VehicleTypes
  <2>3. track' \subseteq Version \X Vehicle \X State \X Nat
    BY <1>1, <1>2, <1>4 DEF VehicleInv, VehicleTypes
  <2>4. tx' \in [Collector -> Poll]
    BY <1>2 DEF VehicleInv, VehicleTypes, NoTx, Poll, NoResponse, Response
  <2> QED
    BY <1>1, <1>2, <2>2, <2>3, <2>4 DEF VehicleInv, VehicleTypes
<1>6. (\A d \in Collector : tx[d].at # "none" => tx[d].version \in Version)' /\ DatedByFetches'
  BY <1>1, <1>2 DEF VehicleInv, VehicleTypes, DatedByFetches, NoTx, NoResponse
<1>7. UncrossedIsAlone'
  <2> SUFFICES ASSUME NEW d \in Collector, tx'[d].at # "none", ~tx'[d].crossed
               PROVE  /\ Rivals(d)' = {}
                      /\ \A o \in track' : o[1] = tx'[d].version => o[4] <= tx'[d].response.stamp
                      /\ tx'[d].at = "deleting" => tx'[d].doomed = Absent(d)'
    BY DEF UncrossedIsAlone
  <2>1. d # c /\ tx'[d] = tx[d] /\ Rivals(d)' = {} /\ Rivals(d) = {}
    BY <1>2, EndKeepsOthers
  <2>2. tx[d].version # v
    BY <2>1, <1>1 DEF Rivals, v
  <2>3. \A o \in track' : o[1] = tx'[d].version => o \in track
    BY <2>1, <2>2, <1>2
  <2>4. tx[d].version \in Version
    BY <2>1 DEF VehicleInv
  <2>5. Absent(d)' = Absent(d)
    BY <1>3, <2>1, <2>2, <2>4 DEF Absent, Present
  <2> QED
    BY <2>1, <2>3, <2>5 DEF VehicleInv, UncrossedIsAlone
<1>8. MapIsOneResponse'
  <2> SUFFICES ASSUME NEW u \in Version, quiet'[u]
               PROVE  /\ \A k \in Vehicle : positions'[u][k].state = latest'[u].vehicles[k]
                      /\ \A k \in Rows(u)' : positions'[u][k].seen = latest'[u].stamp
                      /\ \A o \in track' : o[1] = u => o[4] <= latest'[u].stamp
    BY DEF MapIsOneResponse
  <2>1. CASE u # v
    <3>1. positions'[u] = positions[u] /\ latest'[u] = latest[u] /\ quiet[u]
      BY <2>1, <1>2, <1>3 DEF VehicleInv, VehicleTypes
    <3>2. \A o \in track' : o[1] = u => o \in track
      BY <2>1, <1>2
    <3> QED
      BY <3>1, <3>2 DEF VehicleInv, MapIsOneResponse, Rows
  <2>2. CASE u = v
    <3>1. ~tx[c].crossed /\ latest'[u] = r
      BY <2>2, <1>1, <1>2 DEF VehicleInv, VehicleTypes
    <3>2. /\ \A o \in track : o[1] = v => o[4] <= r.stamp
          /\ doomed = Absent(c)
      BY <3>1, <1>1 DEF VehicleInv, UncrossedIsAlone, v, r, doomed
    <3>3. \A k \in Vehicle : IF k \in Present(r)
                             THEN /\ positions'[v][k].state = r.vehicles[k]
                                  /\ positions'[v][k].seen = r.stamp
                             ELSE positions'[v][k] = NoPosition /\ r.vehicles[k] = Gone
      <4> TAKE k \in Vehicle
      <4>1. CASE k \in Present(r)
        <5>1. positions'[v][k] = Position(positions[v][k], r.vehicles[k], r.stamp)
          BY <4>1, <1>3
        <5> QED
          BY <4>1, <5>1 DEF Position
      <4>2. CASE k \notin Present(r)
        <5>1. r.vehicles[k] = Gone
          BY <4>2 DEF Present
        <5>2. positions'[v][k] = IF k \in doomed THEN NoPosition ELSE positions[v][k]
          BY <4>2, <1>3
        <5>3. k \notin doomed => positions[v][k] = NoPosition
          BY <3>2, <4>2 DEF Absent, v, r
        <5> QED
          BY <4>2, <5>1, <5>2, <5>3
      <4> QED
        BY <4>1, <4>2
    <3>4. \A o \in track' : o[1] = v => o[4] <= r.stamp
      BY <3>2, <1>1, <1>2
    <3> QED
      BY <2>2, <3>1, <3>3, <3>4 DEF Rows, NoPosition
  <2> QED
    BY <2>1, <2>2
<1>9. MapIsArchived'
  <2> SUFFICES ASSUME NEW u \in Version, NEW k \in Vehicle, positions'[u][k] # NoPosition
               PROVE  /\ <<u, k, positions'[u][k].state, positions'[u][k].seen>> \in track'
                      /\ <<u, k, positions'[u][k].state, positions'[u][k].fetched>> \in track'
    BY DEF MapIsArchived, Rows
  <2>1. ASSUME positions[u][k] # NoPosition
        PROVE  /\ <<u, k, positions[u][k].state, positions[u][k].seen>> \in track'
               /\ <<u, k, positions[u][k].state, positions[u][k].fetched>> \in track'
    BY <2>1, <1>2 DEF VehicleInv, MapIsArchived, Rows
  <2>2. CASE u = v /\ k \in Present(r)
    <3>1. <<v, k, r.vehicles[k], r.stamp>> \in track'
      BY <2>2, <1>2
    <3>2. positions'[v][k] = Position(positions[v][k], r.vehicles[k], r.stamp)
      BY <2>2, <1>3
    <3>3. positions[v][k].state = r.vehicles[k] => positions[v][k] # NoPosition
      BY <2>2, <1>4 DEF NoPosition
    <3> QED
      BY <2>1, <2>2, <3>1, <3>2, <3>3 DEF Position
  <2>3. CASE ~(u = v /\ k \in Present(r))
    <3>1. positions'[u][k] = positions[u][k]
      BY <2>3, <1>3
    <3> QED
      BY <3>1, <2>1
  <2> QED
    BY <2>2, <2>3
<1> QED
  BY <1>5, <1>6, <1>7, <1>8, <1>9 DEF VehicleInv

LEMMA VehicleStepKeeps == VehicleInv /\ [VehicleNext]_vehicleVars => VehicleInv'
<1> SUFFICES ASSUME VehicleInv, [VehicleNext]_vehicleVars PROVE VehicleInv'
  OBVIOUS
<1>1. ASSUME NEW c \in Collector,
             FetchVehicles(c) \/ UpsertVehicles(c) \/ DeleteAbsent(c) \/ CommitVehicles(c)
             \/ RollBackVehicles(c)
      PROVE  VehicleInv'
  BY <1>1, FetchKeeps, ProgressKeeps, CommitKeeps, RollBackKeeps
<1>2. CASE VersionSwitches \/ UNCHANGED vehicleVars
  <2>1. activeVersion' \in Version /\ UNCHANGED <<fetches, positions, track, tx, latest, quiet>>
    BY <1>2 DEF VersionSwitches, vehicleVars, VehicleInv, VehicleTypes
  <2>2. VehicleTypes' /\ (\A d \in Collector : tx[d].at # "none" => tx[d].version \in Version)'
        /\ DatedByFetches'
    BY <2>1 DEF VehicleInv, VehicleTypes, DatedByFetches
  <2>3. UncrossedIsAlone'
    BY <2>1 DEF VehicleInv, UncrossedIsAlone, Rivals, Absent, Present
  <2> QED
    BY <2>1, <2>2, <2>3, MapKept DEF VehicleInv
<1> QED
  BY <1>1, <1>2 DEF VehicleNext

LEMMA VehicleAlwaysInv == VehicleSpec => []VehicleInv
BY VehicleInitEstablishes, VehicleStepKeeps, PTL DEF VehicleSpec

\* The map shows the latest response alone, if no poll overlapped that one's.
THEOREM UndisturbedPollOwnsMap == VehicleSpec => []MapIsOneResponse
<1>1. VehicleInv => MapIsOneResponse
  BY DEF VehicleInv
<1> QED
  BY <1>1, VehicleAlwaysInv, PTL

\* Every row of the map is in the archive, with the date it has carried since.
THEOREM MapRowsAreArchived == VehicleSpec => []MapIsArchived
<1>1. VehicleInv => MapIsArchived
  BY DEF VehicleInv
<1> QED
  BY <1>1, VehicleAlwaysInv, PTL
================================================================================
