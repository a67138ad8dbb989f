--------------------------------- MODULE MCApi ---------------------------------
(***************************************************************************)
(* Three parts of the API that share no state, checked in one run: the     *)
(* variable part says which of them a behaviour is about, and the          *)
(* variables of the others stay at one initial value.  Of the quotas it is *)
(* one subject's.                                                          *)
(***************************************************************************)
EXTENDS MCEntitlement, SessionKeys, DailyQuota
CONSTANTS old, new, v1, v2, user, checkout, q1, q2

\* A user's requests are limited by the plan, or not at all; his checkouts by
\* the same number whatever the plan.
Limits ==
  [s \in Subject |-> [p \in Plan |->
     IF s = checkout THEN 1 ELSE CASE p = "free" -> 1 [] p = "coffee" -> 2 [] p = "pro" -> 0]]

VARIABLE part

EntitlementRests == Init /\ exists
KeysRest == KeysInit /\ published = {}
QuotaRests == QuotaInit /\ \A s \in Subject : plan[s] = "free"

ApiInit ==
  \/ part = "entitlement" /\ Init /\ KeysRest /\ QuotaRests
  \/ part = "keys" /\ KeysInit /\ EntitlementRests /\ QuotaRests
  \/ /\ part \in Subject /\ QuotaInit /\ EntitlementRests /\ KeysRest
     /\ \A s \in Subject \ {part} : plan[s] = "free"

ApiNext ==
  \/ part = "entitlement" /\ Next /\ UNCHANGED <<part, keyVars, quotaVars>>
  \/ part = "keys" /\ KeysNext /\ UNCHANGED <<part, vars, quotaVars>>
  \/ /\ part \in Subject /\ QuotaNext
     /\ \A r \in Post : post'[r] = NoPost \/ post'[r].subject = part
     /\ \A s \in Subject \ {part} : plan'[s] = plan[s]
     /\ UNCHANGED <<part, vars, keyVars>>

ApiSpec == ApiInit /\ [][ApiNext]_<<part, vars, keyVars, quotaVars>>
================================================================================
