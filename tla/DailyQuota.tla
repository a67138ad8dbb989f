------------------------------- MODULE DailyQuota -------------------------------
(***************************************************************************)
(* The daily limits of the API (api/src/rate_limit.rs, db/usage.rs): every *)
(* POST is counted in api_daily_usage, in the row of its subject and of    *)
(* the database's day, and passes if the count is within the limit of its  *)
(* role, or of its billing action.                                         *)
(*                                                                         *)
(* The upsert locks the row: it is one step. The role is the one that the  *)
(* request was authenticated with, which may have changed since.           *)
(***************************************************************************)
EXTENDS Integers

CONSTANTS
  Post,      \* requests being handled
  Subject,   \* a user, an address, or a user's billing action
  Plan,      \* roles
  LimitOf,   \* LimitOf[s][p]: the limit of a subject in a role, 0 for none
  Unplanned,
  MaxTried   \* bound: requests of a subject and day

ASSUME QuotaAssumption ==
  /\ LimitOf \in [Subject -> [Plan -> Nat]]
  /\ Unplanned \notin Plan /\ MaxTried \in Nat

VARIABLES
  plan,    \* plan[s]: the role of the subject now
  count,   \* request_count of today's row
  post,    \* post[r]: the request, with its role; NoPost if there is none
  tried,   \* history: requests of today, counted or not
  passed,  \* history: passed[s][l]: those of them that passed under limit l
  refused  \* history: refused[s][l]: there was one answered 429 under l

quotaVars == <<plan, count, post, tried, passed, refused>>

Limit == UNION {{LimitOf[s][p] : p \in Plan} : s \in Subject}

NoPost == [subject |-> Unplanned, plan |-> Unplanned]

QuotaInit ==
  /\ plan \in [Subject -> Plan]
  /\ count = [s \in Subject |-> 0]
  /\ post = [r \in Post |-> NoPost]
  /\ tried = [s \in Subject |-> 0]
  /\ passed = [s \in Subject |-> [l \in Limit |-> 0]]
  /\ refused = [s \in Subject |-> [l \in Limit |-> FALSE]]

-----------------------------------------------------------------------------
\* A request is authenticated; its role is that of this moment.
ArrivePost(r) ==
  /\ post[r] = NoPost
  /\ \E s \in Subject : post' = [post EXCEPT ![r] = [subject |-> s, plan |-> plan[s]]]
  /\ UNCHANGED <<plan, count, tried, passed, refused>>

LimitFor(r) == LimitOf[post[r].subject][post[r].plan]

Passes(r) == passed' = [passed EXCEPT ![post[r].subject][LimitFor(r)] = @ + 1]

\* Mutant: the last request within the limit is refused.
ReachesLimit(used, limit) == limit # 0 /\ used >= limit

\* exceeded_plan_limit, request_exceeds_limit.
Exceeds(used, limit) == limit # 0 /\ used > limit

\* record_daily_request, and the answer.
CountPost(r) ==
  LET s == post[r].subject
  IN  /\ post[r] # NoPost /\ tried[s] < MaxTried
      /\ count' = [count EXCEPT ![s] = @ + 1]
      /\ tried' = [tried EXCEPT ![s] = @ + 1]
      /\ IF Exceeds(count'[s], LimitFor(r))
         THEN refused' = [refused EXCEPT ![s][LimitFor(r)] = TRUE] /\ UNCHANGED passed
         ELSE Passes(r) /\ UNCHANGED refused
      /\ post' = [post EXCEPT ![r] = NoPost]
      /\ UNCHANGED plan

\* The statement fails, or its result is lost: the request passes only if
\* nothing limits it.
CountFails(r) ==
  LET s == post[r].subject
  IN  /\ post[r] # NoPost /\ tried[s] < MaxTried
      /\ \E n \in {0, 1} : count' = [count EXCEPT ![s] = @ + n]
      /\ tried' = [tried EXCEPT ![s] = @ + 1]
      /\ IF LimitFor(r) = 0 THEN Passes(r) ELSE UNCHANGED passed
      /\ post' = [post EXCEPT ![r] = NoPost]
      /\ UNCHANGED <<plan, refused>>

DropPost(r) ==
  /\ post[r] # NoPost
  /\ post' = [post EXCEPT ![r] = NoPost]
  /\ UNCHANGED <<plan, count, tried, passed, refused>>

\* A subscription begins or ends.
PlanChanges ==
  /\ \E s \in Subject, p \in Plan : p # plan[s] /\ plan' = [plan EXCEPT ![s] = p]
  /\ UNCHANGED <<count, post, tried, passed, refused>>

\* CURRENT_DATE goes on: there are no rows of the new day. Requests that are
\* not yet counted will be counted on it.
Midnight ==
  /\ count' = [s \in Subject |-> 0]
  /\ tried' = [s \in Subject |-> 0]
  /\ passed' = [s \in Subject |-> [l \in Limit |-> 0]]
  /\ refused' = [s \in Subject |-> [l \in Limit |-> FALSE]]
  /\ UNCHANGED <<plan, post>>

QuotaNext ==
  \/ \E r \in Post : ArrivePost(r) \/ CountPost(r) \/ CountFails(r) \/ DropPost(r)
  \/ PlanChanges \/ Midnight

QuotaSpec == QuotaInit /\ [][QuotaNext]_quotaVars
-----------------------------------------------------------------------------
\* Of a day's requests no more than the limit pass under it, even if the plan
\* changes while some are under way, and none is refused before as many as that
\* were made: a failure neither gives one away nor ends the quota early.
QuotaIsExact ==
  \A s \in Subject, l \in Limit \ {0} :
    passed[s][l] <= l /\ (refused[s][l] => tried[s] > l)
=============================================================================
