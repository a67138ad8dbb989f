----------------------------- MODULE MCTripUpdates -----------------------------
EXTENDS TripUpdates
CONSTANTS c1, c2, v1, v2, t1, k1, late, unknown

TripOfKey == [k \in Key |-> t1]
KnownTrips == [v \in Version |-> Trip]

\* One prediction carries a delay, the other none.
Delays == [h \in Hash |-> IF h = unknown THEN None ELSE h]
================================================================================
