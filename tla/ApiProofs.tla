------------------------------- MODULE ApiProofs -------------------------------
(***************************************************************************)
(* Of SessionKeys, DailyQuota and Entitlement, which share no state. A key *)
(* is refused or accepted by what Clerk published lately, for any number   *)
(* of verifications and any times; a quota is exact for any limits; and    *)
(* for any processes, webhook deliveries and requests the newest recorded  *)
(* customer state wins, none that names the user is accepted unrecorded,   *)
(* and a served role is a recent one.                                      *)
(***************************************************************************)
EXTENDS SessionKeys, DailyQuota, Entitlement, TLAPS

(* SessionKeys.                                                            *)

\* What a set contains or lacks was so when Clerk replied, which was no longer
\* ago than the set is old and was on its way.
Reflects(set, age) ==
  /\ \A k \in Kid \ set : sinceAbsent[k] <= age
  /\ \A k \in set : sinceListed[k] <= age

KeysInv ==
  /\ KeysTypeOK
  /\ Reflects(published, 0)
  /\ Reflects(keys, keysFor + MaxFetch)
  /\ reply # NoReply => Reflects(reply, fetchingFor)
  /\ holder # Nobody => wants[holder] # Nobody
  /\ holder = Nobody => reply = NoReply
  /\ RefusedWasAbsent
  /\ AcceptedWasListed

LEMMA KeysInitEstablishes == KeysInit => KeysInv
<1> SUFFICES ASSUME KeysInit PROVE KeysInv
  OBVIOUS
<1>1. KeysTypeOK
  BY KeysAssumption DEF KeysInit, KeysTypeOK, LongAgo, Age, NoVerdict, NoReply
<1>2. Reflects(published, 0)
  BY DEF KeysInit, Reflects
<1>3. Reflects(keys, keysFor + MaxFetch)
  BY <1>1, KeysAssumption DEF KeysInit, KeysTypeOK, Reflects, LongAgo, Age
<1>4. RefusedWasAbsent /\ AcceptedWasListed
  BY DEF KeysInit, RefusedWasAbsent, AcceptedWasListed, NoVerdict
<1> QED
  BY <1>1, <1>2, <1>3, <1>4 DEF KeysInit, KeysInv

\* A verification that a set decides, while the set is fresh enough.
LEMMA JudgedByFresh ==
  ASSUME NEW k \in Kid, NEW set \in SUBSET Kid, NEW age \in Nat, KeysTypeOK,
         Reflects(set, age), UNCHANGED histories, Judged(k, set),
         k \notin set => age < MinRefresh + MaxFetch,
         k \in set => age < KeyTTL + MaxFetch
  PROVE  RefusedWasAbsent' /\ AcceptedWasListed'
<1>1. CASE k \in set
  <2>1. verdict' = [kid |-> k, is |-> "accepted"]
    BY <1>1 DEF Judged, Told
  <2>2. sinceListed[k] < KeyTTL + MaxFetch
    BY <1>1, KeysAssumption DEF Reflects, KeysTypeOK, Age, LongAgo
  <2> QED
    BY <2>1, <2>2 DEF RefusedWasAbsent, AcceptedWasListed, histories
<1>2. CASE k \notin set
  <2>1. verdict' = [kid |-> k, is |-> "refused"]
    BY <1>2 DEF Judged, Told
  <2>2. sinceAbsent[k] < MinRefresh + MaxFetch
    BY <1>2, KeysAssumption DEF Reflects, KeysTypeOK, Age, LongAgo
  <2> QED
    BY <2>1, <2>2 DEF RefusedWasAbsent, AcceptedWasListed, histories
<1> QED
  BY <1>1, <1>2

LEMMA NoVerdictIsFine ==
  ASSUME verdict' = NoVerdict
  PROVE  RefusedWasAbsent' /\ AcceptedWasListed'
BY DEF NoVerdict, RefusedWasAbsent, AcceptedWasListed

LEMMA KeysTypesKept == KeysTypeOK /\ (holder # Nobody => wants[holder] # Nobody)
                       /\ [KeysNext]_keyVars => KeysTypeOK'
<1> SUFFICES ASSUME KeysTypeOK, holder # Nobody => wants[holder] # Nobody, [KeysNext]_keyVars
             PROVE  KeysTypeOK'
  OBVIOUS
<1> USE KeysAssumption
<1>1. ASSUME NEW r \in Verifier, LookUp(r) PROVE KeysTypeOK'
  BY <1>1 DEF LookUp, Judged, Told, KeysTypeOK, NoVerdict, histories
<1>2. ASSUME NEW r \in Verifier, LookAgain(r) PROVE KeysTypeOK'
  BY <1>2 DEF LookAgain, Judged, Told, KeysTypeOK, NoVerdict, histories
<1>3. ASSUME NEW r \in Verifier, BeginFetch(r) PROVE KeysTypeOK'
  BY <1>3 DEF BeginFetch, KeysTypeOK, NoVerdict, NoReply, histories
<1>4. ASSUME NEW r \in Verifier, DropVerification(r) PROVE KeysTypeOK'
  BY <1>4 DEF DropVerification, EndFetch, KeysTypeOK, NoVerdict, NoReply, histories
<1>5. CASE ClerkReplies
  BY <1>5 DEF ClerkReplies, KeysTypeOK, NoVerdict, NoReply, histories
<1>6. CASE StoreKeys
  <2>1. reply \in SUBSET Kid /\ wants[holder] \in Kid
    BY <1>6 DEF StoreKeys, KeysTypeOK, NoReply
  <2> QED
    BY <1>6, <2>1 DEF StoreKeys, NewKeys, EndFetch, Judged, Told, KeysTypeOK, NoVerdict, NoReply,
                      histories
<1>7. CASE FetchFails
  <2>1. wants[holder] \in Kid
    BY <1>7 DEF FetchFails, KeysTypeOK
  <2> QED
    BY <1>7, <2>1 DEF FetchFails, EndFetch, Told, KeysTypeOK, NoVerdict, NoReply, histories
<1>8. CASE RotateKeys
  BY <1>8 DEF RotateKeys, KeysTypeOK, NoVerdict, Age, LongAgo
<1>9. CASE KeysTick
  <2>1. keysFor' \in 0 .. KeyTTL /\ fetchingFor' \in 0 .. MaxFetch
    BY <1>9 DEF KeysTick, KeysTypeOK, Older
  <2>2. sinceAbsent' \in [Kid -> Age] /\ sinceListed' \in [Kid -> Age]
    BY <1>9 DEF KeysTick, KeysTypeOK, Older, Age, LongAgo
  <2> QED
    BY <1>9, <2>1, <2>2 DEF KeysTick, KeysTypeOK, NoVerdict
<1>10. CASE UNCHANGED keyVars
  BY <1>10 DEF keyVars, KeysTypeOK, histories
<1> QED
  BY <1>1, <1>2, <1>3, <1>4, <1>5, <1>6, <1>7, <1>8, <1>9, <1>10 DEF KeysNext

LEMMA KeysStepKeeps == KeysInv /\ [KeysNext]_keyVars => KeysInv'
<1> SUFFICES ASSUME KeysInv, [KeysNext]_keyVars PROVE KeysInv'
  OBVIOUS
<1> USE KeysAssumption
<1>0. KeysTypeOK' /\ KeysTypeOK
  BY KeysTypesKept DEF KeysInv
<1>f. keysFor \in Nat /\ fetchingFor \in 0 .. MaxFetch /\ keysFor <= KeyTTL
  BY <1>0 DEF KeysTypeOK
<1>1. ASSUME NEW r \in Verifier, LookUp(r) PROVE KeysInv'
  <2>1. Reflects(published, 0)' /\ Reflects(keys, keysFor + MaxFetch)'
        /\ (reply # NoReply => Reflects(reply, fetchingFor))'
    BY <1>1 DEF LookUp, KeysInv, Reflects, histories
  <2>2. /\ (holder # Nobody => wants[holder] # Nobody)'
        /\ (holder = Nobody => reply = NoReply)'
    BY <1>1 DEF LookUp, KeysInv
  <2>3. PICK k \in Kid :
          IF (k \in keys /\ keysFor < KeyTTL) \/ (k \notin keys /\ keysFor < MinRefresh)
          THEN Judged(k, keys) /\ UNCHANGED wants
          ELSE wants' = [wants EXCEPT ![r] = k] /\ verdict' = NoVerdict
    BY <1>1 DEF LookUp
  <2>4. RefusedWasAbsent' /\ AcceptedWasListed'
    <3>1. CASE verdict' = NoVerdict
      BY <3>1, NoVerdictIsFine
    <3>2. CASE verdict' # NoVerdict
      <4>1. Judged(k, keys)
        BY <3>2, <2>3
      <4>2. (k \in keys => keysFor < KeyTTL) /\ (k \notin keys => keysFor < MinRefresh)
        BY <3>2, <2>3
      <4>3. keys \in SUBSET Kid /\ Reflects(keys, keysFor + MaxFetch)
        BY <1>0 DEF KeysInv, KeysTypeOK
      <4>4. UNCHANGED histories /\ keysFor + MaxFetch \in Nat
        BY <1>1, <1>f DEF LookUp
      <4>5. /\ k \notin keys => keysFor + MaxFetch < MinRefresh + MaxFetch
            /\ k \in keys => keysFor + MaxFetch < KeyTTL + MaxFetch
        BY <4>2, <1>f
      <4> QED
        BY <4>1, <4>3, <4>4, <4>5, <1>0, JudgedByFresh
    <3> QED
      BY <3>1, <3>2
  <2> QED
    BY <1>0, <2>1, <2>2, <2>4 DEF KeysInv
<1>2. ASSUME NEW r \in Verifier, LookAgain(r) PROVE KeysInv'
  <2>1. Reflects(published, 0)' /\ Reflects(keys, keysFor + MaxFetch)'
        /\ (reply # NoReply => Reflects(reply, fetchingFor))'
    BY <1>2 DEF LookAgain, KeysInv, Reflects, histories
  <2>2. /\ (holder # Nobody => wants[holder] # Nobody)'
        /\ (holder = Nobody => reply = NoReply)'
    BY <1>2 DEF LookAgain, KeysInv
  <2>3. wants[r] \in Kid /\ keysFor + MaxFetch \in Nat /\ keys \in SUBSET Kid
        /\ Reflects(keys, keysFor + MaxFetch)
    BY <1>2, <1>0, <1>f DEF LookAgain, KeysTypeOK, KeysInv
  <2>4. keysFor + MaxFetch < MinRefresh + MaxFetch /\ keysFor + MaxFetch < KeyTTL + MaxFetch
    BY <1>2, <1>f DEF LookAgain, JustRefreshed
  <2>5. UNCHANGED histories /\ Judged(wants[r], keys)
    BY <1>2 DEF LookAgain
  <2>6. RefusedWasAbsent' /\ AcceptedWasListed'
    BY <2>3, <2>4, <2>5, <1>0, JudgedByFresh
  <2> QED
    BY <1>0, <2>1, <2>2, <2>6 DEF KeysInv
<1>3. ASSUME NEW r \in Verifier, BeginFetch(r) PROVE KeysInv'
  <2>1. Reflects(published, 0)' /\ Reflects(keys, keysFor + MaxFetch)' /\ (reply = NoReply)'
        /\ (holder # Nobody => wants[holder] # Nobody)'
    BY <1>3 DEF BeginFetch, KeysInv, Reflects, histories
  <2>2. RefusedWasAbsent' /\ AcceptedWasListed'
    BY <1>3, NoVerdictIsFine DEF BeginFetch
  <2> QED
    BY <1>0, <2>1, <2>2 DEF KeysInv
<1>4. ASSUME NEW r \in Verifier, DropVerification(r) PROVE KeysInv'
  <2>1. Reflects(published, 0)' /\ Reflects(keys, keysFor + MaxFetch)'
    BY <1>4 DEF DropVerification, KeysInv, Reflects, histories
  <2>2. (reply # NoReply => Reflects(reply, fetchingFor))'
    BY <1>4 DEF DropVerification, EndFetch, KeysInv, Reflects, histories
  <2>3. /\ (holder # Nobody => wants[holder] # Nobody)'
        /\ (holder = Nobody => reply = NoReply)'
    BY <1>4, <1>0 DEF DropVerification, EndFetch, KeysInv, KeysTypeOK
  <2>4. RefusedWasAbsent' /\ AcceptedWasListed'
    BY <1>4, NoVerdictIsFine DEF DropVerification
  <2> QED
    BY <1>0, <2>1, <2>2, <2>3, <2>4 DEF KeysInv
<1>5. CASE ClerkReplies
  <2>1. Reflects(published, 0)' /\ Reflects(keys, keysFor + MaxFetch)'
        /\ (holder # Nobody => wants[holder] # Nobody)' /\ (holder = Nobody => reply = NoReply)'
    BY <1>5 DEF ClerkReplies, KeysInv, Reflects, histories
  <2>2. Reflects(reply, fetchingFor)'
    BY <1>5, <1>0 DEF ClerkReplies, KeysInv, Reflects, histories, KeysTypeOK, Age, LongAgo
  <2>3. RefusedWasAbsent' /\ AcceptedWasListed'
    BY <1>5, NoVerdictIsFine DEF ClerkReplies
  <2> QED
    BY <1>0, <2>1, <2>2, <2>3 DEF KeysInv
<1>6. CASE StoreKeys
  <2>1. wants[holder] \in Kid /\ reply \in SUBSET Kid /\ Reflects(reply, fetchingFor)
    BY <1>6, <1>0 DEF StoreKeys, KeysInv, KeysTypeOK
  <2>2. Reflects(published, 0)' /\ (reply = NoReply)' /\ (holder = Nobody)'
    BY <1>6 DEF StoreKeys, EndFetch, KeysInv, Reflects, histories
  <2>3. Reflects(keys, keysFor + MaxFetch)'
    BY <1>6, <2>1, <1>0, <1>f
    DEF StoreKeys, NewKeys, Reflects, histories, KeysTypeOK, Age, LongAgo
  <2>4. Judged(wants[holder], reply) /\ UNCHANGED histories
    BY <1>6 DEF StoreKeys, NewKeys
  <2>5. fetchingFor \in Nat /\ fetchingFor < MinRefresh + MaxFetch
        /\ fetchingFor < KeyTTL + MaxFetch
    BY <1>f
  <2>6. RefusedWasAbsent' /\ AcceptedWasListed'
    BY <2>1, <2>4, <2>5, <1>0, JudgedByFresh
  <2> QED
    BY <1>0, <2>2, <2>3, <2>6 DEF KeysInv
<1>7. CASE FetchFails
  <2>1. Reflects(published, 0)' /\ Reflects(keys, keysFor + MaxFetch)' /\ (reply = NoReply)'
        /\ (holder = Nobody)'
    BY <1>7 DEF FetchFails, EndFetch, KeysInv, Reflects, histories
  <2>2. verdict'.is \in {"kept", "failed"}
    BY <1>7 DEF FetchFails, Told
  <2>3. RefusedWasAbsent' /\ AcceptedWasListed'
    BY <2>2 DEF RefusedWasAbsent, AcceptedWasListed
  <2> QED
    BY <1>0, <2>1, <2>3 DEF KeysInv
<1>8. CASE RotateKeys
  <2>1. PICK k \in Kid :
          IF k \in published
          THEN /\ published' = published \ {k}
               /\ sinceAbsent' = [sinceAbsent EXCEPT ![k] = 0] /\ UNCHANGED sinceListed
          ELSE /\ published' = published \cup {k}
               /\ sinceListed' = [sinceListed EXCEPT ![k] = 0] /\ UNCHANGED sinceAbsent
    BY <1>8 DEF RotateKeys
  <2>2. \A x \in Kid : /\ sinceAbsent'[x] = sinceAbsent[x] \/ sinceAbsent'[x] = 0
                       /\ sinceListed'[x] = sinceListed[x] \/ sinceListed'[x] = 0
    BY <2>1, <1>0 DEF KeysTypeOK
  <2>3. Reflects(published, 0)'
    BY <2>1, <1>0 DEF KeysInv, Reflects, KeysTypeOK
  <2>4. Reflects(keys, keysFor + MaxFetch)'
    BY <2>2, <1>0, <1>f, <1>8 DEF RotateKeys, KeysInv, Reflects, KeysTypeOK
  <2>5. (reply # NoReply => Reflects(reply, fetchingFor))'
    BY <2>2, <1>0, <1>f, <1>8 DEF RotateKeys, KeysInv, Reflects, KeysTypeOK
  <2>6. /\ (holder # Nobody => wants[holder] # Nobody)'
        /\ (holder = Nobody => reply = NoReply)'
    BY <1>8 DEF RotateKeys, KeysInv
  <2>7. RefusedWasAbsent' /\ AcceptedWasListed'
    BY <1>8, NoVerdictIsFine DEF RotateKeys
  <2> QED
    BY <1>0, <2>3, <2>4, <2>5, <2>6, <2>7 DEF KeysInv
<1>9. CASE KeysTick
  <2>1. /\ \A k \in Kid : sinceAbsent'[k] =
             IF k \notin published THEN 0 ELSE Older(sinceAbsent[k], LongAgo)
        /\ \A k \in Kid : sinceListed'[k] =
             IF k \in published THEN 0 ELSE Older(sinceListed[k], LongAgo)
        /\ UNCHANGED <<published, keys, wants, holder, reply>>
    BY <1>9 DEF KeysTick
  <2>2. /\ \A k \in Kid : sinceAbsent[k] \in Nat /\ sinceListed[k] \in Nat
        /\ \A k \in Kid : sinceAbsent'[k] <= LongAgo /\ sinceListed'[k] <= LongAgo
        /\ LongAgo = KeyTTL + MaxFetch
    BY <1>0 DEF KeysTypeOK, Age, LongAgo
  <2>3. \A k \in Kid : /\ sinceAbsent'[k] <= sinceAbsent[k] + 1
                       /\ sinceListed'[k] <= sinceListed[k] + 1
    BY <2>1, <2>2 DEF Older
  <2>4. Reflects(published, 0)'
    BY <2>1, <1>0 DEF Reflects, KeysTypeOK
  <2>a. ASSUME NEW set \in SUBSET Kid, NEW age \in Nat, Reflects(set, age)
        PROVE  /\ \A k \in Kid \ set : sinceAbsent'[k] <= age + 1
               /\ \A k \in set : sinceListed'[k] <= age + 1
    <3>1. ASSUME NEW k \in Kid \ set PROVE sinceAbsent'[k] <= age + 1
      <4>1. sinceAbsent[k] \in Nat /\ sinceAbsent[k] <= age
        BY <2>a, <2>2 DEF Reflects
      <4>2. sinceAbsent'[k] <= sinceAbsent[k] + 1 /\ sinceAbsent'[k] \in Nat
        BY <2>2, <2>3, <1>0 DEF KeysTypeOK, Age, LongAgo
      <4> QED
        BY <4>1, <4>2
    <3>2. ASSUME NEW k \in set PROVE sinceListed'[k] <= age + 1
      <4>1. sinceListed[k] \in Nat /\ sinceListed[k] <= age
        BY <2>a, <2>2 DEF Reflects
      <4>2. sinceListed'[k] <= sinceListed[k] + 1 /\ sinceListed'[k] \in Nat
        BY <2>2, <2>3, <1>0 DEF KeysTypeOK, Age, LongAgo
      <4> QED
        BY <4>1, <4>2
    <3> QED
      BY <3>1, <3>2
  <2>5. Reflects(keys, keysFor + MaxFetch)'
    <3>1. keysFor' = IF keysFor < KeyTTL THEN keysFor + 1 ELSE KeyTTL
      BY <1>9 DEF KeysTick, Older
    <3>2. CASE keysFor < KeyTTL
      <4>1. /\ \A k \in Kid \ keys : sinceAbsent'[k] <= (keysFor + MaxFetch) + 1
            /\ \A k \in keys : sinceListed'[k] <= (keysFor + MaxFetch) + 1
        BY <2>a, <1>0, <1>f DEF KeysInv, KeysTypeOK
      <4>2. keysFor' + MaxFetch = (keysFor + MaxFetch) + 1
        BY <3>1, <3>2, <1>f
      <4> QED
        BY <4>1, <4>2, <2>1 DEF Reflects
    <3>3. CASE ~(keysFor < KeyTTL)
      BY <3>1, <3>3, <2>1, <2>2, <1>0 DEF Reflects, KeysTypeOK
    <3> QED
      BY <3>2, <3>3
  <2>6. (reply # NoReply => Reflects(reply, fetchingFor))'
    <3> SUFFICES ASSUME reply # NoReply PROVE Reflects(reply, fetchingFor)'
      BY <2>1
    <3>1. holder # Nobody /\ Reflects(reply, fetchingFor) /\ reply \in SUBSET Kid
      BY <1>0 DEF KeysInv, KeysTypeOK
    <3>2. fetchingFor' = fetchingFor + 1 /\ fetchingFor \in Nat
      BY <1>9, <1>f, <3>1 DEF KeysTick
    <3>3. /\ \A k \in Kid \ reply : sinceAbsent'[k] <= fetchingFor + 1
          /\ \A k \in reply : sinceListed'[k] <= fetchingFor + 1
      BY <2>a, <3>1, <3>2
    <3> QED
      BY <3>2, <3>3, <2>1 DEF Reflects
  <2>7. RefusedWasAbsent' /\ AcceptedWasListed'
    BY <1>9, NoVerdictIsFine DEF KeysTick
  <2> QED
    BY <1>0, <2>1, <2>4, <2>5, <2>6, <2>7 DEF KeysInv
<1>10. CASE UNCHANGED keyVars
  BY <1>10 DEF keyVars, KeysInv, KeysTypeOK, Reflects, RefusedWasAbsent, AcceptedWasListed, histories
<1> QED
  BY <1>1, <1>2, <1>3, <1>4, <1>5, <1>6, <1>7, <1>8, <1>9, <1>10 DEF KeysNext
\* In every reachable state the cache's invariant holds.
LEMMA KeysAlwaysInv == KeysSpec => []KeysInv
BY KeysInitEstablishes, KeysStepKeeps, PTL DEF KeysSpec

\* Every variable of the key cache keeps its type.
THEOREM KeysTypeCorrect == KeysSpec => []KeysTypeOK
<1>1. KeysInv => KeysTypeOK
  BY DEF KeysInv
<1> QED
  BY <1>1, KeysAlwaysInv, PTL

\* A refused key was one that Clerk had not published for a minute and a fetch.
THEOREM RefusedKeysWereAbsent == KeysSpec => []RefusedWasAbsent
<1>1. KeysInv => RefusedWasAbsent
  BY DEF KeysInv
<1> QED
  BY <1>1, KeysAlwaysInv, PTL

\* An accepted key was published within an hour and a fetch.
THEOREM AcceptedKeysWereListed == KeysSpec => []AcceptedWasListed
<1>1. KeysInv => AcceptedWasListed
  BY DEF KeysInv
<1> QED
  BY <1>1, KeysAlwaysInv, PTL

-----------------------------------------------------------------------------
(* DailyQuota.                                                             *)

QuotaTypes ==
  /\ plan \in [Subject -> Plan]
  /\ count \in [Subject -> Nat] /\ tried \in [Subject -> Nat]
  /\ post \in [Post -> [subject : Subject, plan : Plan] \cup {NoPost}]
  /\ passed \in [Subject -> [Limit -> Nat]]
  /\ refused \in [Subject -> [Limit -> BOOLEAN]]

\* Whatever passes is counted first, and whatever is counted was tried.
QuotaInv ==
  /\ QuotaTypes
  /\ \A s \in Subject : count[s] <= tried[s]
  /\ \A s \in Subject, l \in Limit \ {0} :
       /\ passed[s][l] <= l /\ passed[s][l] <= count[s]
       /\ refused[s][l] => tried[s] > l

LEMMA LimitsAreNumbers == Limit \subseteq Nat
BY QuotaAssumption DEF Limit

LEMMA LimitForIsLimit ==
  ASSUME QuotaTypes, NEW r \in Post, post[r] # NoPost
  PROVE  post[r].subject \in Subject /\ LimitFor(r) \in Limit
<1>1. post[r] \in [subject : Subject, plan : Plan]
  BY DEF QuotaTypes
<1>2. post[r].subject \in Subject /\ post[r].plan \in Plan
  BY <1>1
<1> QED
  BY <1>2 DEF LimitFor, Limit

LEMMA QuotaInitEstablishes == QuotaInit => QuotaInv
BY LimitsAreNumbers DEF QuotaInit, QuotaInv, QuotaTypes

LEMMA QuotaStepKeeps == QuotaInv /\ [QuotaNext]_quotaVars => QuotaInv'
<1> SUFFICES ASSUME QuotaInv, [QuotaNext]_quotaVars PROVE QuotaInv'
  OBVIOUS
<1> USE LimitsAreNumbers
<1>t. QuotaTypes
  BY DEF QuotaInv
<1>1. ASSUME NEW r \in Post, ArrivePost(r) PROVE QuotaInv'
  <2>1. PICK s \in Subject : post' = [post EXCEPT ![r] = [subject |-> s, plan |-> plan[s]]]
    BY <1>1 DEF ArrivePost
  <2>2. QuotaTypes'
    BY <1>1, <1>t, <2>1 DEF ArrivePost, QuotaTypes
  <2> QED
    BY <1>1, <2>2 DEF ArrivePost, QuotaInv
<1>2. ASSUME NEW r \in Post, CountPost(r) PROVE QuotaInv'
  <2> DEFINE s == post[r].subject
             l == LimitFor(r)
  <2>1. s \in Subject /\ l \in Limit /\ l \in Nat
    BY <1>2, <1>t, LimitForIsLimit DEF CountPost
  <2>2. /\ count' = [count EXCEPT ![s] = @ + 1] /\ tried' = [tried EXCEPT ![s] = @ + 1]
        /\ post' = [post EXCEPT ![r] = NoPost] /\ plan' = plan
    BY <1>2 DEF CountPost
  <2>3. \/ /\ l # 0 /\ count'[s] > l
           /\ refused' = [refused EXCEPT ![s][l] = TRUE] /\ passed' = passed
        \/ /\ l = 0 \/ ~(count'[s] > l)
           /\ passed' = [passed EXCEPT ![s][l] = @ + 1] /\ refused' = refused
    BY <1>2 DEF CountPost, Exceeds, Passes
  <2> HIDE DEF s, l
  <2>4. QuotaTypes'
    <3>1. /\ plan' \in [Subject -> Plan]
          /\ count' \in [Subject -> Nat] /\ tried' \in [Subject -> Nat]
          /\ post' \in [Post -> [subject : Subject, plan : Plan] \cup {NoPost}]
      BY <1>t, <2>1, <2>2 DEF QuotaTypes
    <3>2. passed' \in [Subject -> [Limit -> Nat]]
      <4>1. passed \in [Subject -> [Limit -> Nat]]
        BY <1>t DEF QuotaTypes
      <4>2. [passed EXCEPT ![s][l] = @ + 1] \in [Subject -> [Limit -> Nat]]
        BY <4>1, <2>1
      <4> QED
        BY <4>1, <4>2, <2>3
    <3>3. refused' \in [Subject -> [Limit -> BOOLEAN]]
      <4>1. refused \in [Subject -> [Limit -> BOOLEAN]]
        BY <1>t DEF QuotaTypes
      <4>2. [refused EXCEPT ![s][l] = TRUE] \in [Subject -> [Limit -> BOOLEAN]]
        BY <4>1, <2>1
      <4> QED
        BY <4>1, <4>2, <2>3
    <3> QED
      BY <3>1, <3>2, <3>3 DEF QuotaTypes
  <2>5. \A x \in Subject : count'[x] <= tried'[x]
    BY <1>t, <2>1, <2>2 DEF QuotaInv, QuotaTypes
  <2>6. ASSUME NEW x \in Subject, NEW m \in Limit \ {0}
        PROVE  /\ passed'[x][m] <= m /\ passed'[x][m] <= count'[x]
               /\ refused'[x][m] => tried'[x] > m
    <3>1. /\ count[x] \in Nat /\ tried[x] \in Nat /\ passed[x][m] \in Nat /\ m \in Nat
          /\ count[x] <= tried[x] /\ passed[x][m] <= m /\ passed[x][m] <= count[x]
          /\ refused[x][m] => tried[x] > m
      BY <2>6, <1>t DEF QuotaInv, QuotaTypes
    <3>2. /\ count'[x] = IF x = s THEN count[x] + 1 ELSE count[x]
          /\ tried'[x] = IF x = s THEN tried[x] + 1 ELSE tried[x]
      BY <2>6, <2>1, <2>2, <1>t DEF QuotaTypes
    <3>3. CASE x = s /\ m = l
      BY <3>1, <3>2, <3>3, <2>1, <2>3, <1>t, <2>6 DEF QuotaTypes
    <3>4. CASE ~(x = s /\ m = l)
      <4>1. passed'[x][m] = passed[x][m] /\ refused'[x][m] = refused[x][m]
        BY <3>4, <2>1, <2>3, <1>t, <2>6 DEF QuotaTypes
      <4> QED
        BY <4>1, <3>1, <3>2
    <3> QED
      BY <3>3, <3>4
  <2> QED
    BY <2>4, <2>5, <2>6 DEF QuotaInv
<1>3. ASSUME NEW r \in Post, CountFails(r) PROVE QuotaInv'
  <2> DEFINE s == post[r].subject
             l == LimitFor(r)
  <2>1. s \in Subject /\ l \in Limit /\ l \in Nat
    BY <1>3, <1>t, LimitForIsLimit DEF CountFails
  <2>2. PICK n \in {0, 1} : count' = [count EXCEPT ![s] = @ + n]
    BY <1>3 DEF CountFails
  <2>3. /\ tried' = [tried EXCEPT ![s] = @ + 1] /\ refused' = refused
        /\ post' = [post EXCEPT ![r] = NoPost] /\ plan' = plan
    BY <1>3 DEF CountFails
  <2>4. passed' = passed \/ (l = 0 /\ passed' = [passed EXCEPT ![s][l] = @ + 1])
    BY <1>3 DEF CountFails, Passes
  <2> HIDE DEF s, l
  <2>5. QuotaTypes'
    BY <1>t, <2>1, <2>2, <2>3, <2>4 DEF QuotaTypes
  <2>6. \A x \in Subject : count[x] <= count'[x] /\ count'[x] <= tried'[x] /\ tried[x] <= tried'[x]
    BY <1>t, <2>1, <2>2, <2>3 DEF QuotaInv, QuotaTypes
  <2>7. \A x \in Subject, m \in Limit \ {0} : passed'[x][m] = passed[x][m]
    BY <1>t, <2>1, <2>4 DEF QuotaTypes
  <2>8. ASSUME NEW x \in Subject, NEW m \in Limit \ {0}
        PROVE  /\ passed'[x][m] <= m /\ passed'[x][m] <= count'[x]
               /\ refused'[x][m] => tried'[x] > m
    <3>1. /\ count[x] \in Nat /\ tried[x] \in Nat /\ passed[x][m] \in Nat /\ m \in Nat
          /\ count'[x] \in Nat /\ tried'[x] \in Nat
          /\ passed[x][m] <= m /\ passed[x][m] <= count[x]
          /\ refused[x][m] => tried[x] > m
      BY <2>8, <2>5, <1>t DEF QuotaInv, QuotaTypes
    <3> QED
      BY <3>1, <2>3, <2>6, <2>7
  <2> QED
    BY <2>5, <2>6, <2>8 DEF QuotaInv
<1>4. ASSUME NEW r \in Post, DropPost(r) PROVE QuotaInv'
  BY <1>4 DEF DropPost, QuotaInv, QuotaTypes
<1>5. CASE PlanChanges
  BY <1>5 DEF PlanChanges, QuotaInv, QuotaTypes
<1>6. CASE Midnight
  BY <1>6 DEF Midnight, QuotaInv, QuotaTypes
<1>7. CASE UNCHANGED quotaVars
  BY <1>7 DEF quotaVars, QuotaInv, QuotaTypes
<1> QED
  BY <1>1, <1>2, <1>3, <1>4, <1>5, <1>6, <1>7 DEF QuotaNext

\* No more than the limit pass, and none is refused before as many were made.
THEOREM QuotaHolds == QuotaSpec => []QuotaIsExact
<1>1. QuotaInv => QuotaIsExact
  BY DEF QuotaInv, QuotaIsExact
<1> QED
  BY <1>1, QuotaInitEstablishes, QuotaStepKeeps, PTL DEF QuotaSpec

-----------------------------------------------------------------------------
(* Entitlement.                                                            *)

LEMMA EntitlementTypeInit == Init => TypeOK
<1> SUFFICES ASSUME Init PROVE TypeOK
  OBVIOUS
<1>1. sinceRole \in [Role -> 0 .. Oldest]
  BY EntitlementAssumption DEF Init, Oldest
<1>2. cachedFor \in [Process -> 0 .. TTL] /\ readFor \in [Reader -> 0 .. MaxRead]
  BY EntitlementAssumption DEF Init
<1> QED
  BY <1>1, <1>2, EntitlementAssumption DEF Init, TypeOK, Role, PlanRole

LEMMA EntitlementTypeStep == TypeOK /\ [Next]_vars => TypeOK'
<1> SUFFICES ASSUME TypeOK, [Next]_vars PROVE TypeOK'
  OBVIOUS
<1> USE EntitlementAssumption
<1>0. "admin" \in Role /\ \A e \in Event : RoleOf[e] \in Role
  BY DEF Role, PlanRole
<1>1. CASE AccountAppears \/ GrantAdmin
  <2>1. sinceRole' \in [Role -> 0 .. Oldest]
    BY <1>1, <1>0 DEF TypeOK, AccountAppears, GrantAdmin, Oldest
  <2> QED
    BY <1>1, <1>0, <2>1 DEF TypeOK, AccountAppears, GrantAdmin, webhook, lookups
<1>2. CASE Tick
  <2>1. sinceRole' \in [Role -> 0 .. Oldest]
    BY <1>2 DEF TypeOK, Tick, Oldest
  <2>2. readFor' \in [Reader -> 0 .. MaxRead]
    BY <1>2 DEF TypeOK, Tick
  <2>3. cache' \in [Process -> Role \cup {None}] /\ cachedFor' \in [Process -> 0 .. TTL]
    BY <1>2 DEF TypeOK, Tick, Expires
  <2> QED
    BY <1>2, <2>1, <2>2, <2>3 DEF TypeOK, Tick, row, webhook
<1>3. ASSUME NEW w \in Worker, FindUser(w) \/ IgnoreUnlinked(w) PROVE TypeOK'
  BY <1>3 DEF TypeOK, FindUser, IgnoreUnlinked, row, lookups
<1>4. ASSUME NEW w \in Worker, Apply(w) PROVE TypeOK'
  <2> DEFINE e == handling[w]
             granted == IF role = "admin" THEN role ELSE RoleOf[e]
  <2>1. e \in Event /\ granted \in Role
    BY <1>4, <1>0 DEF TypeOK, Apply
  <2>2. /\ role' = granted /\ customer' = CustomerOf[e] /\ stateAt' = OccurredAt[e]
        /\ ledger' = ledger \cup {e}
        /\ applied' = [applied EXCEPT ![w] = TRUE]
        /\ sinceRole' = [sinceRole EXCEPT ![granted] = 0]
        /\ UNCHANGED <<exists, handling, accepted, lookups>>
    BY <1>4 DEF Apply
  <2>3. e # None
    BY <2>1
  <2>4. CustomerOf[e] \in Customer /\ OccurredAt[e] \in Nat
    BY <2>1
  <2>5. sinceRole' \in [Role -> 0 .. Oldest]
    BY <2>1, <2>2 DEF TypeOK, Oldest
  <2> HIDE DEF granted
  <2> QED
    BY <2>1, <2>2, <2>3, <2>4, <2>5 DEF TypeOK, lookups
<1>5. ASSUME NEW w \in Worker,
             Skip(w) \/ MissingUser(w) \/ Invalidate(w) \/ WorkerFails(w)
      PROVE  TypeOK'
  <2>1. handling[w] # None => handling[w] \in Event
    BY DEF TypeOK
  <2>2. applied[w] => handling[w] # None
    BY DEF TypeOK
  <2>3. /\ handling' \in [Worker -> Event \cup {None}]
        /\ applied' \in [Worker -> BOOLEAN]
        /\ \A x \in Worker : applied'[x] => handling'[x] # None
    BY <1>5 DEF TypeOK, Skip, MissingUser, Invalidate, WorkerFails, Finish
  <2>4. /\ cache' \in [Process -> Role \cup {None}] /\ cachedFor' \in [Process -> 0 .. TTL]
        /\ UNCHANGED <<exists, role, customer, stateAt, reading, readFor, sinceRole>>
    BY <1>5 DEF TypeOK, Skip, MissingUser, Invalidate, WorkerFails, row, lookups
  <2>5. ledger' \subseteq Event /\ accepted' \subseteq Event
    BY <1>5, <2>1, <2>2 DEF TypeOK, Skip, MissingUser, Invalidate, WorkerFails, row
  <2> QED
    BY <2>3, <2>4, <2>5 DEF TypeOK
<1>6. ASSUME NEW r \in Reader, ReadRow(r) \/ FillCache(r) \/ ReaderFails(r) PROVE TypeOK'
  <2>1. HostOf[r] \in Process
    OBVIOUS
  <2>2. /\ reading' \in [Reader -> Role \cup {None}] /\ readFor' \in [Reader -> 0 .. MaxRead]
        /\ cache' \in [Process -> Role \cup {None}] /\ cachedFor' \in [Process -> 0 .. TTL]
    BY <1>6, <2>1 DEF TypeOK, ReadRow, FillCache, ReaderFails
  <2>3. UNCHANGED <<row, webhook, sinceRole>>
    BY <1>6 DEF ReadRow, FillCache, ReaderFails
  <2> QED
    BY <2>2, <2>3 DEF TypeOK, row, webhook
<1>7. ASSUME NEW p \in Process, Evict(p) PROVE TypeOK'
  BY <1>7 DEF TypeOK, Evict, row, webhook
<1>8. CASE UNCHANGED vars
  BY <1>8 DEF TypeOK, vars, row, webhook, lookups
<1> QED
  BY <1>1, <1>2, <1>3, <1>4, <1>5, <1>6, <1>7, <1>8 DEF Next

\* Every reachable state of the webhook, the row and the caches is well typed;
\* no worker is past its commit without the event it committed.
THEOREM EntitlementTypeCorrect == Spec => []TypeOK
<1>1. Init => TypeOK
  BY EntitlementTypeInit
<1>2. TypeOK /\ [Next]_vars => TypeOK'
  BY EntitlementTypeStep
<1> QED
  BY <1>1, <1>2, PTL DEF Spec
-----------------------------------------------------------------------------
\* Between its commit and its answer a worker holds an event of the ledger.
CommittedIsRecorded == \A w \in Worker : applied[w] => handling[w] \in ledger

LedgerInv ==
  /\ TypeOK
  /\ CommittedIsRecorded
  /\ AcceptedIsRecorded
  /\ NewestRecordedWins

LEMMA LedgerInit == Init => LedgerInv
  BY EntitlementTypeInit
  DEF Init, LedgerInv, CommittedIsRecorded, AcceptedIsRecorded, NewestRecordedWins

LEMMA LedgerStep == LedgerInv /\ [Next]_vars => LedgerInv'
<1> SUFFICES ASSUME LedgerInv, [Next]_vars PROVE LedgerInv'
  OBVIOUS
<1> USE EntitlementAssumption
<1>1. TypeOK /\ TypeOK'
  BY EntitlementTypeStep DEF LedgerInv
<1>2. CommittedIsRecorded'
  <2>1. ASSUME NEW w \in Worker, Apply(w) PROVE CommittedIsRecorded'
    BY <1>1, <2>1 DEF TypeOK, LedgerInv, CommittedIsRecorded, Apply
  <2>2. ASSUME NEW w \in Worker, FindUser(w) PROVE CommittedIsRecorded'
    BY <1>1, <2>2 DEF TypeOK, LedgerInv, CommittedIsRecorded, FindUser, row
  <2>3. ASSUME NEW w \in Worker,
               Skip(w) \/ MissingUser(w) \/ Invalidate(w) \/ WorkerFails(w)
        PROVE  CommittedIsRecorded'
    BY <1>1, <2>3 DEF TypeOK, LedgerInv, CommittedIsRecorded, Skip, MissingUser, Invalidate,
                      WorkerFails, Finish, row
  <2>4. UNCHANGED <<ledger, handling, applied>> => CommittedIsRecorded'
    BY DEF LedgerInv, CommittedIsRecorded
  <2> QED
    BY <2>1, <2>2, <2>3, <2>4
    DEF Next, AccountAppears, GrantAdmin, Tick, IgnoreUnlinked, ReadRow, FillCache,
        ReaderFails, Evict, vars, row, webhook
<1>3. AcceptedIsRecorded'
  <2>1. ASSUME NEW w \in Worker, Skip(w) PROVE AcceptedIsRecorded'
    BY <2>1 DEF LedgerInv, AcceptedIsRecorded, Skip
  <2>2. ASSUME NEW w \in Worker, Invalidate(w) PROVE AcceptedIsRecorded'
    BY <2>2 DEF LedgerInv, AcceptedIsRecorded, CommittedIsRecorded, Invalidate, row
  <2>3. ASSUME NEW w \in Worker, IgnoreUnlinked(w) PROVE AcceptedIsRecorded'
    BY <2>3 DEF LedgerInv, AcceptedIsRecorded, IgnoreUnlinked, Leads, row
  <2>4. UNCHANGED accepted /\ ledger \subseteq ledger' => AcceptedIsRecorded'
    BY DEF LedgerInv, AcceptedIsRecorded
  <2> QED
    BY <2>1, <2>2, <2>3, <2>4
    DEF Next, AccountAppears, GrantAdmin, Tick, FindUser, Apply, MissingUser, WorkerFails,
        ReadRow, FillCache, ReaderFails, Evict, vars, row, webhook
<1>4. NewestRecordedWins'
  <2>1. ASSUME NEW w \in Worker, Apply(w) PROVE NewestRecordedWins'
    <3> DEFINE e == handling[w]
    <3>1. e \in Event /\ e \in ledger' /\ OccurredAt[e] = stateAt'
          /\ role' \in {RoleOf[e], "admin"}
      BY <1>1, <2>1 DEF TypeOK, Apply
    <3>2. ledger' = ledger \cup {e} /\ stateAt < stateAt'
      BY <2>1 DEF Apply, IsNewer
    <3>3. \A f \in ledger' : OccurredAt[f] <= stateAt'
      BY <1>1, <3>1, <3>2 DEF TypeOK, LedgerInv, NewestRecordedWins
    <3> QED
      BY <3>1, <3>3 DEF NewestRecordedWins
  <2>2. ASSUME NEW w \in Worker, Skip(w) PROVE NewestRecordedWins'
    <3> DEFINE e == handling[w]
    <3>1. e \in Event /\ ledger' = ledger \cup {e} /\ UNCHANGED <<role, stateAt>>
      BY <1>1, <2>2 DEF TypeOK, Skip
    <3>2. OccurredAt[e] <= stateAt
      BY <1>1, <2>2, <3>1 DEF TypeOK, LedgerInv, NewestRecordedWins, Skip, IsNewer
    <3> QED
      BY <3>1, <3>2 DEF LedgerInv, NewestRecordedWins
  <2>3. (role' = role \/ role' = "admin") /\ UNCHANGED <<stateAt, ledger>>
          => NewestRecordedWins'
    BY DEF LedgerInv, NewestRecordedWins
  <2> QED
    BY <2>1, <2>2, <2>3
    DEF Next, AccountAppears, GrantAdmin, Tick, FindUser, IgnoreUnlinked, MissingUser,
        Invalidate, WorkerFails, ReadRow, FillCache, ReaderFails, Evict, vars, row
<1> QED
  BY <1>1, <1>2, <1>3, <1>4 DEF LedgerInv

\* However customer states are repeated, reordered, raced or dropped, the row
\* is as new as the newest one in the ledger and holds its plan.
THEOREM NewestStateWins == Spec => []NewestRecordedWins
<1>1. LedgerInv => NewestRecordedWins
  BY DEF LedgerInv
<1> QED
  BY <1>1, LedgerInit, LedgerStep, PTL DEF Spec

\* Polar is never told to stop sending a state that names the user before the
\* ledger has it.
THEOREM AcceptedStateIsRecorded == Spec => []AcceptedIsRecorded
<1>1. LedgerInv => AcceptedIsRecorded
  BY DEF LedgerInv
<1> QED
  BY <1>1, LedgerInit, LedgerStep, PTL DEF Spec

-----------------------------------------------------------------------------
\* What a reader holds is as old as its read, what a cache holds at most as
\* old as its entry and the read before it.
ReadRoleIsRecent ==
  \A r \in Reader : reading[r] # None => sinceRole[reading[r]] <= readFor[r]

CachedRoleIsRecent ==
  \A p \in Process : cache[p] # None =>
    cachedFor[p] < TTL /\ sinceRole[cache[p]] <= cachedFor[p] + MaxRead

RoleIsCurrent == sinceRole[role] = 0

CacheInv ==
  /\ TypeOK
  /\ RoleIsCurrent
  /\ ReadRoleIsRecent
  /\ CachedRoleIsRecent

LEMMA CacheInit == Init => CacheInv
<1>1. "free" \in Role
  BY DEF Role, PlanRole
<1> QED
  BY <1>1, EntitlementTypeInit
  DEF Init, CacheInv, RoleIsCurrent, ReadRoleIsRecent, CachedRoleIsRecent

\* A change of the role only makes roles more recent.
LEMMA RoleChangeKeepsCacheInv ==
  ASSUME CacheInv, TypeOK', NEW x \in Role, role' = x,
         sinceRole' = [sinceRole EXCEPT ![x] = 0], UNCHANGED lookups
  PROVE  CacheInv'
<1>1. sinceRole'[x] = 0 /\ \A y \in Role : sinceRole'[y] <= sinceRole[y]
  BY DEF CacheInv, TypeOK, Oldest
<1>2. \A y \in Role : sinceRole[y] \in Int /\ sinceRole'[y] \in Int
  BY EntitlementAssumption DEF CacheInv, TypeOK, Oldest
<1>3. \A r \in Reader : reading[r] # None => reading[r] \in Role /\ readFor[r] \in Int
  BY EntitlementAssumption DEF CacheInv, TypeOK
<1>4. \A p \in Process : cache[p] # None => cache[p] \in Role /\ cachedFor[p] \in Int
  BY EntitlementAssumption DEF CacheInv, TypeOK
<1>5. RoleIsCurrent'
  BY <1>1 DEF RoleIsCurrent
<1>6. ReadRoleIsRecent'
  BY <1>1, <1>2, <1>3 DEF CacheInv, ReadRoleIsRecent, lookups
<1>7. CachedRoleIsRecent'
  BY <1>1, <1>2, <1>4, EntitlementAssumption DEF CacheInv, CachedRoleIsRecent, lookups
<1> QED
  BY <1>5, <1>6, <1>7 DEF CacheInv

LEMMA TickKeepsCacheInv == CacheInv /\ TypeOK' /\ Tick => CacheInv'
<1> SUFFICES ASSUME CacheInv, TypeOK', Tick PROVE CacheInv'
  OBVIOUS
<1> USE EntitlementAssumption
<1>1. \A y \in Role : sinceRole[y] \in Nat /\ sinceRole'[y] <= sinceRole[y] + 1
  BY DEF CacheInv, TypeOK, Tick, Oldest
<1>2. role \in Role /\ role' = role /\ reading' = reading
  BY DEF CacheInv, TypeOK, Tick, row
<1>3. RoleIsCurrent'
  BY <1>2 DEF CacheInv, TypeOK, Tick, RoleIsCurrent
<1>4. ASSUME NEW r \in Reader, reading'[r] # None
      PROVE  sinceRole'[reading'[r]] <= readFor'[r]
  <2>1. reading[r] \in Role /\ readFor'[r] = readFor[r] + 1 /\ readFor[r] \in Nat
    BY <1>2, <1>4 DEF CacheInv, TypeOK, Tick
  <2>2. sinceRole[reading[r]] <= readFor[r]
    BY <1>2, <1>4 DEF CacheInv, ReadRoleIsRecent
  <2>3. sinceRole'[reading[r]] \in Int
    BY <2>1 DEF TypeOK, Oldest
  <2> QED
    BY <1>1, <1>2, <2>1, <2>2, <2>3
<1>5. ASSUME NEW p \in Process, cache'[p] # None
      PROVE  cachedFor'[p] < TTL /\ sinceRole'[cache'[p]] <= cachedFor'[p] + MaxRead
  <2>1. /\ ~Expires(p) /\ cache'[p] = cache[p] /\ cache[p] \in Role
        /\ cachedFor'[p] = cachedFor[p] + 1 /\ cachedFor[p] \in Nat
    BY <1>5 DEF CacheInv, TypeOK, Tick
  <2>2. sinceRole[cache[p]] <= cachedFor[p] + MaxRead
    BY <1>5, <2>1 DEF CacheInv, CachedRoleIsRecent
  <2>3. sinceRole'[cache[p]] \in Int
    BY <2>1 DEF TypeOK, Oldest
  <2> QED
    BY <1>1, <2>1, <2>2, <2>3 DEF Expires
<1> QED
  BY <1>3, <1>4, <1>5 DEF CacheInv, ReadRoleIsRecent, CachedRoleIsRecent

LEMMA CacheStep == CacheInv /\ [Next]_vars => CacheInv'
<1> SUFFICES ASSUME CacheInv, [Next]_vars PROVE CacheInv'
  OBVIOUS
<1> USE EntitlementAssumption
<1>0. TypeOK /\ TypeOK'
  BY EntitlementTypeStep DEF CacheInv
<1>1. CASE Tick
  BY <1>0, <1>1, TickKeepsCacheInv
<1>2. CASE GrantAdmin
  <2>1. "admin" \in Role
    BY DEF Role
  <2> QED
    BY <1>0, <1>2, <2>1, RoleChangeKeepsCacheInv DEF GrantAdmin
<1>3. ASSUME NEW w \in Worker, Apply(w) PROVE CacheInv'
  <2> DEFINE granted == IF role = "admin" THEN role ELSE RoleOf[handling[w]]
  <2>1. granted \in Role
    BY <1>0, <1>3 DEF TypeOK, Apply, Role
  <2>2. role' = granted /\ sinceRole' = [sinceRole EXCEPT ![granted] = 0] /\ UNCHANGED lookups
    BY <1>3 DEF Apply
  <2> HIDE DEF granted
  <2> QED
    BY <1>0, <2>1, <2>2, RoleChangeKeepsCacheInv
<1>4. ASSUME NEW r \in Reader, ReadRow(r) PROVE CacheInv'
  <2>1. /\ reading[r] = None /\ reading' = [reading EXCEPT ![r] = role]
        /\ UNCHANGED <<role, cache, cachedFor, readFor, sinceRole>>
    BY <1>4 DEF ReadRow, row
  <2>2. 0 <= readFor[r] /\ sinceRole[role] = 0
    BY DEF CacheInv, TypeOK, RoleIsCurrent
  <2> QED
    BY <1>0, <2>1, <2>2
    DEF TypeOK, CacheInv, RoleIsCurrent, ReadRoleIsRecent, CachedRoleIsRecent
<1>5. ASSUME NEW r \in Reader, FillCache(r) PROVE CacheInv'
  <2> DEFINE h == HostOf[r]
  <2>1. /\ reading[r] # None /\ h \in Process
        /\ cache' = [cache EXCEPT ![h] = reading[r]]
        /\ cachedFor' = [cachedFor EXCEPT ![h] = 0]
        /\ reading' = [reading EXCEPT ![r] = None]
        /\ readFor' = [readFor EXCEPT ![r] = 0]
        /\ UNCHANGED <<role, sinceRole>>
    BY <1>5 DEF FillCache, row
  <2>2. sinceRole[reading[r]] <= MaxRead
    <3>1. sinceRole[reading[r]] <= readFor[r] /\ readFor[r] <= MaxRead
      BY <2>1 DEF CacheInv, TypeOK, ReadRoleIsRecent
    <3>2. sinceRole[reading[r]] \in Int /\ readFor[r] \in Int
      BY <2>1 DEF CacheInv, TypeOK, Oldest
    <3> QED
      BY <3>1, <3>2
  <2>3. ReadRoleIsRecent'
    BY <1>0, <2>1 DEF TypeOK, CacheInv, ReadRoleIsRecent
  <2>4. CachedRoleIsRecent'
    BY <1>0, <2>1, <2>2 DEF TypeOK, CacheInv, CachedRoleIsRecent
  <2> QED
    BY <1>0, <2>1, <2>3, <2>4 DEF CacheInv, RoleIsCurrent
<1>6. ASSUME NEW r \in Reader, ReaderFails(r) PROVE CacheInv'
  BY <1>0, <1>6
  DEF TypeOK, CacheInv, ReaderFails, row, RoleIsCurrent, ReadRoleIsRecent, CachedRoleIsRecent
<1>7. ASSUME NEW p \in Process, Evict(p) PROVE CacheInv'
  BY <1>0, <1>7
  DEF TypeOK, CacheInv, Evict, row, RoleIsCurrent, ReadRoleIsRecent, CachedRoleIsRecent
<1>8. ASSUME NEW w \in Worker, Invalidate(w) PROVE CacheInv'
  BY <1>0, <1>8
  DEF TypeOK, CacheInv, Invalidate, row, RoleIsCurrent, ReadRoleIsRecent, CachedRoleIsRecent
<1>9. UNCHANGED <<role, lookups, sinceRole>> => CacheInv'
  BY <1>0 DEF CacheInv, lookups, RoleIsCurrent, ReadRoleIsRecent, CachedRoleIsRecent
<1> QED
  BY <1>1, <1>2, <1>3, <1>4, <1>5, <1>6, <1>7, <1>8, <1>9
  DEF Next, AccountAppears, FindUser, IgnoreUnlinked, Skip, MissingUser, WorkerFails, vars, row

\* Whatever invalidations miss, no request is served a role that the user lost
\* longer ago than an entry lives and a read of the row takes.
THEOREM ServedRoleIsBounded == Spec => []ServedRoleIsRecent
<1>1. CacheInv => ServedRoleIsRecent
  <2> SUFFICES ASSUME CacheInv, NEW p \in Process, cache[p] # None
               PROVE  sinceRole[cache[p]] < TTL + MaxRead
    BY DEF ServedRoleIsRecent
  <2>1. sinceRole[cache[p]] \in Int /\ cachedFor[p] \in Int
    BY EntitlementAssumption DEF CacheInv, TypeOK, Oldest
  <2> QED
    BY <2>1, EntitlementAssumption DEF CacheInv, CachedRoleIsRecent
<1> QED
  BY <1>1, CacheInit, CacheStep, PTL DEF Spec
================================================================================
