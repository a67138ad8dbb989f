--------------------------- MODULE MCRealtimeSlot ---------------------------
EXTENDS RealtimeSlot
CONSTANTS c1, c2
Intervals == [c \in Collector |-> IF c = c1 THEN 1 ELSE 4]
=============================================================================
