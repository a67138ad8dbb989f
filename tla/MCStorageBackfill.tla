--------------------------- MODULE MCStorageBackfill ---------------------------
EXTENDS StorageBackfill
CONSTANTS t1, t2, early, late, unknown

Delays == [h \in Hash |-> IF h = unknown THEN None ELSE h]
States == [t \in Trip |-> IF t = t1 THEN {late, unknown} ELSE {late}]
Ranks == [t \in Trip |-> IF t = t1 THEN 0 ELSE 1]

Both(first, second) == [t \in Trip |-> IF t = t1 THEN first ELSE second]

\* Before the move, one poll or two: the first trip, late at first, was early,
\* and the second started.
Past == {<<Both(early, None)>>, <<Both(late, None), Both(early, late)>>}
================================================================================
