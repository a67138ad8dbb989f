---------------------------- MODULE VehicleSnapshot ----------------------------
(***************************************************************************)
(* The map of the buses: each vehicles poll replaces the rows of its feed  *)
(* version in bus_vehicle_positions by what it was told, and archives it   *)
(* (_upsert_vehicle_positions). Several collectors may share the database; *)
(* the shared request slot keeps their requests apart, not their           *)
(* transactions.                                                           *)
(*                                                                         *)
(* A transaction is an upsert, which locks the rows it writes, a DELETE,   *)
(* which finds the rows of other vehicles when it starts and then waits    *)
(* for their locks, and a commit. Filtering is RealtimeFeed's.             *)
(***************************************************************************)
EXTENDS Integers, FiniteSets

CONSTANTS
  Collector,
  Vehicle,    \* vehicle_instance_key
  State,      \* update_hash
  Gone,       \* not in the response, or without a row
  Version,    \* feed_version_id
  MaxFetches  \* bound: responses received

ASSUME VehicleAssumption == Gone \notin State /\ MaxFetches \in Nat

VARIABLES
  activeVersion,
  fetches,    \* responses received; the number of one is its fetched_at
  positions,  \* bus_vehicle_positions
  track,      \* bus_vehicle_observations
  tx,         \* the poll under way of each collector
  latest,     \* history: the response committed last for each version
  quiet       \* history: no other poll of the version was under way with it

vehicleVars == <<activeVersion, fetches, positions, track, tx, latest, quiet>>

NoPosition == [state |-> Gone, fetched |-> 0, seen |-> 0]
NoResponse == [vehicles |-> [k \in Vehicle |-> Gone], stamp |-> 0]
NoTx == [at |-> "none", version |-> Gone, response |-> NoResponse, doomed |-> {},
         crossed |-> FALSE]

VehicleInit ==
  /\ activeVersion \in Version
  /\ fetches = 0
  /\ positions = [v \in Version |-> [k \in Vehicle |-> NoPosition]]
  /\ track = {}
  /\ tx = [c \in Collector |-> NoTx]
  /\ latest = [v \in Version |-> NoResponse]
  /\ quiet = [v \in Version |-> TRUE]

-----------------------------------------------------------------------------
\* The version whose rows a poll replaces, and the other polls at work on it.
Rivals(c) == {d \in Collector \ {c} : tx[d].at # "none" /\ tx[d].version = tx[c].version}

Present(response) == {k \in Vehicle : response.vehicles[k] # Gone}

\* Another transaction has written the row and not ended.
IsLocked(k, c) ==
  \E d \in Rivals(c) : tx[d].at \in {"upserted", "deleting"} /\ k \in Present(tx[d].response)

\* A response to a poll of the active version arrives.
FetchVehicles(c) ==
  /\ tx[c].at = "none" /\ fetches < MaxFetches
  /\ fetches' = fetches + 1
  /\ \E vehicles \in [Vehicle -> State \cup {Gone}] :
       LET others == {d \in Collector \ {c} : tx[d].at # "none" /\ tx[d].version = activeVersion}
           mine == [NoTx EXCEPT !.at = "fetched", !.version = activeVersion,
                                !.response = [vehicles |-> vehicles, stamp |-> fetches'],
                                !.crossed = others # {}]
       IN  tx' = [d \in Collector |->
                    IF d = c THEN mine
                    ELSE IF d \in others THEN [tx[d] EXCEPT !.crossed = TRUE] ELSE tx[d]]
  /\ UNCHANGED <<activeVersion, positions, track, latest, quiet>>

UpsertVehicles(c) ==
  /\ tx[c].at = "fetched"
  /\ \A k \in Present(tx[c].response) : ~IsLocked(k, c)
  /\ tx' = [tx EXCEPT ![c].at = "upserted"]
  /\ UNCHANGED <<activeVersion, fetches, positions, track, latest, quiet>>

\* Mutant: NOT (key = ANY('{}')) is forgotten to hold for an empty response.
AbsentUnlessEmpty(c) ==
  IF Present(tx[c].response) = {} THEN {}
  ELSE {k \in Vehicle : positions[tx[c].version][k] # NoPosition} \ Present(tx[c].response)

\* The committed rows of vehicles that the response does not have.
Absent(c) == {k \in Vehicle : positions[tx[c].version][k] # NoPosition} \ Present(tx[c].response)

DeleteAbsent(c) ==
  /\ tx[c].at = "upserted"
  /\ tx' = [tx EXCEPT ![c].at = "deleting", ![c].doomed = Absent(c)]
  /\ UNCHANGED <<activeVersion, fetches, positions, track, latest, quiet>>

\* Mutant: a new state keeps the fetched_at of the old one as well.
KeptPosition(old, state, stamp) ==
  [state |-> state, fetched |-> IF old # NoPosition THEN old.fetched ELSE stamp, seen |-> stamp]

\* The row of a vehicle: a state that has not changed keeps its fetched_at.
Position(old, state, stamp) ==
  [state |-> state, fetched |-> IF old.state = state THEN old.fetched ELSE stamp, seen |-> stamp]

CommitVehicles(c) ==
  LET v == tx[c].version
      r == tx[c].response
  IN  /\ tx[c].at = "deleting"
      /\ \A k \in tx[c].doomed : ~IsLocked(k, c)
      /\ positions' = [positions EXCEPT ![v] =
           [k \in Vehicle |-> IF k \in Present(r) THEN Position(@[k], r.vehicles[k], r.stamp)
                              ELSE IF k \in tx[c].doomed THEN NoPosition ELSE @[k]]]
      /\ track' = track \cup {<<v, k, r.vehicles[k], r.stamp>> : k \in Present(r)}
      /\ latest' = [latest EXCEPT ![v] = r]
      /\ quiet' = [quiet EXCEPT ![v] = ~tx[c].crossed]
      /\ tx' = [tx EXCEPT ![c] = NoTx]
      /\ UNCHANGED <<activeVersion, fetches>>

\* The poll fails, is cancelled or chosen as the victim of a deadlock.
RollBackVehicles(c) ==
  /\ tx[c].at # "none"
  /\ tx' = [tx EXCEPT ![c] = NoTx]
  /\ UNCHANGED <<activeVersion, fetches, positions, track, latest, quiet>>

\* A static refresh makes another version the active one.
VersionSwitches ==
  /\ \E v \in Version \ {activeVersion} : activeVersion' = v
  /\ UNCHANGED <<fetches, positions, track, tx, latest, quiet>>

VehicleNext ==
  \/ \E c \in Collector : FetchVehicles(c) \/ UpsertVehicles(c) \/ DeleteAbsent(c)
                          \/ CommitVehicles(c) \/ RollBackVehicles(c)
  \/ VersionSwitches

VehicleSpec == VehicleInit /\ [][VehicleNext]_vehicleVars
-----------------------------------------------------------------------------
Rows(v) == {k \in Vehicle : positions[v][k] # NoPosition}

\* The map is "current bus VehiclePositions from the latest successful
\* FULL_DATASET poll" (migration 011) if no other collector's poll was under
\* way with that poll: then it has the vehicles of one response, no older one
\* left and none of a later response. Two polls at a time may leave a mixture;
\* the next undisturbed one clears it.
MapIsOneResponse ==
  \A v \in Version : quiet[v] =>
    /\ \A k \in Vehicle : positions[v][k].state = latest[v].vehicles[k]
    /\ \A k \in Rows(v) : positions[v][k].seen = latest[v].stamp
    /\ \A o \in track : o[1] = v => o[4] <= latest[v].stamp

\* Every row of the map is in the archive as it was last seen, mixture or not,
\* and dated: the vehicle was in the same state at fetched_at.
MapIsArchived ==
  \A v \in Version : \A k \in Rows(v) :
    LET p == positions[v][k]
    IN  {<<v, k, p.state, p.seen>>, <<v, k, p.state, p.fetched>>} \subseteq track
================================================================================
