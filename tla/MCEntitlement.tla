--------------------------- MODULE MCEntitlement ---------------------------
EXTENDS Entitlement
CONSTANTS p1, p2, w1, w2, r1, r2, paid, ended, raised, polar

\* The second process has a reader only: it never sees a webhook.
Hosts == [x \in Worker \cup Reader |-> IF x = r2 THEN p2 ELSE p1]

\* A subscription, its end, and an upgrade at the same instant as the end.
Times == [e \in Event |-> IF e = paid THEN 1 ELSE 2]
Plans == [e \in Event |-> IF e = paid THEN "coffee" ELSE IF e = ended THEN "free" ELSE "pro"]
Customers == [e \in Event |-> polar]
=============================================================================
