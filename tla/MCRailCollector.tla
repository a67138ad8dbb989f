-------------------------- MODULE MCRailCollector --------------------------
EXTENDS RailCollector
CONSTANTS trains, board, trip, k1, k2, here, there

\* Responses of two rows: both change, come and go.
Rows == [t \in Task |-> [k \in Key |-> {here, there}]]

Kind == [t \in Task |-> CASE t = trains -> "snapshot" [] t = board -> "events"
                          [] t = trip -> "journey"]
=============================================================================
