------------------------------ MODULE SessionKeys ------------------------------
(***************************************************************************)
(* The signing keys that session tokens are verified with (signing_key in  *)
(* api/src/auth/clerk.rs): a set of keys kept for an hour and fetched anew *)
(* when it is older, or when a token names a key that is not in it, behind *)
(* a lock that many readers or one writer may hold.                        *)
(*                                                                         *)
(* A reader's look has no await and is one step; the writer keeps the lock *)
(* while it fetches, so no other verification gets past its first look. A  *)
(* verification is dropped at an await when its client goes away.          *)
(***************************************************************************)
EXTENDS Integers

CONSTANTS
  Kid,         \* key ids
  Verifier,    \* requests whose token is being verified
  KeyTTL,      \* JWKS_TTL
  MinRefresh,  \* JWKS_MIN_REFRESH
  MaxFetch,    \* the client's timeout
  Nobody

ASSUME KeysAssumption ==
  /\ KeyTTL \in Nat /\ MinRefresh \in Nat \ {0} /\ MaxFetch \in Nat
  /\ MinRefresh <= KeyTTL
  /\ Nobody \notin Verifier \cup Kid

VARIABLES
  published,    \* the keys Clerk publishes
  keys,         \* the cached set
  keysFor,      \* time since it was stored, up to KeyTTL
  wants,        \* wants[r]: the key r waits to look for with the lock, or Nobody
  holder,       \* the verification that has the lock, and fetches
  reply,        \* Clerk's reply to it, on its way; {Nobody} while there is none
  fetchingFor,  \* time since it asked
  verdict,      \* what the last step told a verification, if it ended one
  sinceAbsent,  \* history: time since Clerk did not publish a key
  sinceListed   \* history: time since Clerk published it

LongAgo == KeyTTL + MaxFetch
Age == 0 .. LongAgo
NoReply == {Nobody}
NoVerdict == [kid |-> Nobody, is |-> "none"]

histories == <<sinceAbsent, sinceListed>>
keyVars == <<published, keys, keysFor, wants, holder, reply, fetchingFor, verdict, histories>>

KeysTypeOK ==
  /\ published \in SUBSET Kid /\ keys \in SUBSET Kid /\ keysFor \in 0 .. KeyTTL
  /\ wants \in [Verifier -> Kid \cup {Nobody}]
  /\ holder \in Verifier \cup {Nobody}
  /\ reply \in (SUBSET Kid) \cup {NoReply}
  /\ fetchingFor \in 0 .. MaxFetch
  /\ verdict \in [kid : Kid, is : {"accepted", "kept", "refused", "failed"}] \cup {NoVerdict}
  /\ sinceAbsent \in [Kid -> Age] /\ sinceListed \in [Kid -> Age]

\* No set is cached, which is as good as an empty one that is too old.
KeysInit ==
  /\ published \in SUBSET Kid
  /\ keys = {} /\ keysFor = KeyTTL
  /\ wants = [r \in Verifier |-> Nobody]
  /\ holder = Nobody /\ reply = NoReply /\ fetchingFor = 0
  /\ verdict = NoVerdict
  /\ sinceAbsent = [k \in Kid |-> IF k \in published THEN LongAgo ELSE 0]
  /\ sinceListed = [k \in Kid |-> IF k \in published THEN 0 ELSE LongAgo]

-----------------------------------------------------------------------------
Told(k, what) == verdict' = [kid |-> k, is |-> what]

\* A key that is or is not in a set decides the verification.
Judged(k, set) == Told(k, IF k \in set THEN "accepted" ELSE "refused")

\* The first look, with the lock for reading.
LookUp(r) ==
  /\ holder = Nobody /\ wants[r] = Nobody
  /\ \E k \in Kid :
       IF (k \in keys /\ keysFor < KeyTTL) \/ (k \notin keys /\ keysFor < MinRefresh)
       THEN Judged(k, keys) /\ UNCHANGED wants
       ELSE wants' = [wants EXCEPT ![r] = k] /\ verdict' = NoVerdict
  /\ UNCHANGED <<published, keys, keysFor, holder, reply, fetchingFor, histories>>

\* Mutant: the second look trusts the set as long as the first.
NotExpired == keysFor < KeyTTL

\* Another verification has refreshed the set while this one waited.
JustRefreshed == keysFor < MinRefresh

\* The second look, with the lock for writing.
LookAgain(r) ==
  /\ holder = Nobody /\ wants[r] # Nobody /\ JustRefreshed
  /\ Judged(wants[r], keys)
  /\ wants' = [wants EXCEPT ![r] = Nobody]
  /\ UNCHANGED <<published, keys, keysFor, holder, reply, fetchingFor, histories>>

BeginFetch(r) ==
  /\ holder = Nobody /\ wants[r] # Nobody /\ ~JustRefreshed
  /\ holder' = r /\ fetchingFor' = 0 /\ reply' = NoReply
  /\ verdict' = NoVerdict
  /\ UNCHANGED <<published, keys, keysFor, wants, histories>>

\* Clerk replies with what it publishes by then.
ClerkReplies ==
  /\ holder # Nobody /\ reply = NoReply
  /\ reply' = published
  /\ verdict' = NoVerdict
  /\ UNCHANGED <<published, keys, keysFor, wants, holder, fetchingFor, histories>>

EndFetch ==
  /\ wants' = [wants EXCEPT ![holder] = Nobody]
  /\ holder' = Nobody /\ reply' = NoReply /\ fetchingFor' = 0

\* Mutant: keys once known stay.
MergedKeys == keys \cup reply

\* The set that is cached from now on.
NewKeys == reply

StoreKeys ==
  /\ holder # Nobody /\ reply # NoReply
  /\ keys' = NewKeys /\ keysFor' = 0
  /\ Judged(wants[holder], keys')
  /\ EndFetch
  /\ UNCHANGED <<published, histories>>

\* The fetch fails: a key of the old set is taken, whatever its age, and the
\* age stays as it is.
FetchFails ==
  /\ holder # Nobody
  /\ Told(wants[holder], IF wants[holder] \in keys THEN "kept" ELSE "failed")
  /\ EndFetch
  /\ UNCHANGED <<published, keys, keysFor, histories>>

\* The client goes away.
DropVerification(r) ==
  /\ wants[r] # Nobody
  /\ IF holder = r THEN EndFetch
     ELSE wants' = [wants EXCEPT ![r] = Nobody] /\ UNCHANGED <<holder, reply, fetchingFor>>
  /\ verdict' = NoVerdict
  /\ UNCHANGED <<published, keys, keysFor, histories>>

-----------------------------------------------------------------------------
\* Clerk adds a key to its set, or withdraws one.
RotateKeys ==
  /\ \E k \in Kid :
       IF k \in published
       THEN /\ published' = published \ {k}
            /\ sinceAbsent' = [sinceAbsent EXCEPT ![k] = 0] /\ UNCHANGED sinceListed
       ELSE /\ published' = published \cup {k}
            /\ sinceListed' = [sinceListed EXCEPT ![k] = 0] /\ UNCHANGED sinceAbsent
  /\ verdict' = NoVerdict
  /\ UNCHANGED <<keys, keysFor, wants, holder, reply, fetchingFor>>

Older(age, bound) == IF age < bound THEN age + 1 ELSE bound

\* Time passes; a fetch that takes longer than the timeout fails.
KeysTick ==
  /\ holder # Nobody => fetchingFor < MaxFetch
  /\ keysFor' = Older(keysFor, KeyTTL)
  /\ fetchingFor' = IF holder = Nobody THEN 0 ELSE fetchingFor + 1
  /\ sinceAbsent' = [k \in Kid |-> IF k \notin published THEN 0 ELSE Older(sinceAbsent[k], LongAgo)]
  /\ sinceListed' = [k \in Kid |-> IF k \in published THEN 0 ELSE Older(sinceListed[k], LongAgo)]
  /\ verdict' = NoVerdict
  /\ UNCHANGED <<published, keys, wants, holder, reply>>

KeysNext ==
  \/ \E r \in Verifier : LookUp(r) \/ LookAgain(r) \/ BeginFetch(r) \/ DropVerification(r)
  \/ ClerkReplies \/ StoreKeys \/ FetchFails \/ RotateKeys \/ KeysTick

KeysSpec == KeysInit /\ [][KeysNext]_keyVars
-----------------------------------------------------------------------------
\* A token whose key Clerk has published for a minute and the time of a fetch
\* is never told that its key is unknown, although a set is not fetched again
\* within a minute of the last one and may have been on its way for a while.
RefusedWasAbsent ==
  verdict.is = "refused" => sinceAbsent[verdict.kid] < MinRefresh + MaxFetch

\* A key that Clerk has withdrawn for longer than a set is cached and fetched
\* is accepted no more, unless a refresh has just failed.
AcceptedWasListed ==
  verdict.is = "accepted" => sinceListed[verdict.kid] < KeyTTL + MaxFetch
=============================================================================
