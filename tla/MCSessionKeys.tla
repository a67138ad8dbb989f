----------------------------- MODULE MCSessionKeys -----------------------------
(***************************************************************************)
(* SessionKeys with a clock for the time between two fetches, which the    *)
(* code does not keep: it knows only when it last stored a set.            *)
(***************************************************************************)
EXTENDS SessionKeys
CONSTANTS old, new, v1, v2

VARIABLE sinceAsked  \* history: time since a fetch last began, up to MinRefresh

MCInit == KeysInit /\ sinceAsked = MinRefresh

MCNext ==
  \/ \E r \in Verifier : BeginFetch(r) /\ sinceAsked' = 0
  \/ KeysTick /\ sinceAsked' = Older(sinceAsked, MinRefresh)
  \/ /\ \/ \E r \in Verifier : LookUp(r) \/ LookAgain(r) \/ DropVerification(r)
        \/ ClerkReplies \/ StoreKeys \/ FetchFails \/ RotateKeys
     /\ UNCHANGED sinceAsked

MCSpec == MCInit /\ [][MCNext]_<<keyVars, sinceAsked>>

\* The set is "refetched at most once a minute" (docs/auth-billing.md): a
\* fetch begins no sooner than the least interval after the one before. It
\* does not hold of the code: a fetch that failed or whose client went away
\* leaves the age of the set as it was, and whoever waits for the lock, or the
\* next token with an unknown key, fetches again at once.
FetchesAreSpaced ==
  [][holder = Nobody /\ holder' # Nobody => sinceAsked >= MinRefresh]_<<keyVars, sinceAsked>>
=============================================================================
