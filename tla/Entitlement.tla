------------------------------ MODULE Entitlement ------------------------------
(***************************************************************************)
(* What a paying user is entitled to (api/src/billing, db/users.rs and     *)
(* auth/clerk.rs).  Polar delivers customer states at least once and in    *)
(* any order; the webhook applies them to the user's row and drops the     *)
(* user from the cache of its process, from which requests take the role.  *)
(*                                                                         *)
(* The model follows one user.  Every await is a boundary between steps:   *)
(* workers and readers of all processes interleave there, and a request    *)
(* whose client goes away is dropped there.                                *)
(***************************************************************************)
EXTENDS Integers

CONSTANTS
  Process,      \* API processes, each with a user cache
  Worker,       \* webhook requests being handled
  Reader,       \* requests whose user is being resolved
  HostOf,       \* the process of a worker or reader
  Event,        \* webhook ids of the user's customer states
  OccurredAt,   \* timestamp of an event, positive
  RoleOf,       \* entitlement of the active subscriptions it lists
  CustomerOf,   \* the Polar customer it is about
  Carrying,     \* events whose external_id names the user
  Customer,
  TTL,          \* USER_CACHE_TTL
  MaxRead,      \* longest time from reading the row to filling the cache
  None

PlanRole == {"free", "coffee", "pro"}
Role == PlanRole \cup {"admin"}

ASSUME EntitlementAssumption ==
  /\ HostOf \in [Worker \cup Reader -> Process]
  /\ OccurredAt \in [Event -> Nat \ {0}]
  /\ RoleOf \in [Event -> PlanRole]
  /\ CustomerOf \in [Event -> Customer]
  /\ Carrying \subseteq Event
  /\ TTL \in Nat \ {0} /\ MaxRead \in Nat
  /\ None \notin Customer \cup Event \cup Role

\* An age beyond which nothing needs telling apart.
Oldest == TTL + MaxRead + 1

VARIABLES
  exists,     \* the user's row is in the database
  role,       \* users.role
  customer,   \* users.polar_customer_id
  stateAt,    \* users.polar_state_updated_at, 0 for NULL
  ledger,     \* billing_webhook_events
  handling,   \* handling[w]: the event worker w has found the user of
  applied,    \* applied[w]: w has committed it, the cache is still to be told
  accepted,   \* events answered with 202, which Polar does not send again
  cache,      \* cache[p]: the role p keeps for the user, or None
  cachedFor,  \* cachedFor[p]: age of that entry
  reading,    \* reading[r]: the role reader r has read, or None
  readFor,    \* readFor[r]: time since it did
  sinceRole   \* history: sinceRole[x]: time since the row's role was x

row == <<exists, role, customer, stateAt, ledger>>
webhook == <<handling, applied, accepted>>
lookups == <<cache, cachedFor, reading, readFor>>
vars == <<row, webhook, lookups, sinceRole>>

TypeOK ==
  /\ exists \in BOOLEAN
  /\ role \in Role /\ customer \in Customer \cup {None} /\ stateAt \in Nat
  /\ ledger \subseteq Event /\ accepted \subseteq Event
  /\ handling \in [Worker -> Event \cup {None}]
  /\ applied \in [Worker -> BOOLEAN]
  /\ \A w \in Worker : applied[w] => handling[w] # None
  /\ cache \in [Process -> Role \cup {None}]
  /\ cachedFor \in [Process -> 0 .. TTL]
  /\ reading \in [Reader -> Role \cup {None}]
  /\ readFor \in [Reader -> 0 .. MaxRead]
  /\ sinceRole \in [Role -> 0 .. Oldest]

Init ==
  /\ exists \in BOOLEAN
  /\ role = "free" /\ customer = None /\ stateAt = 0 /\ ledger = {}
  /\ handling = [w \in Worker |-> None]
  /\ applied = [w \in Worker |-> FALSE]
  /\ accepted = {}
  /\ cache = [p \in Process |-> None]
  /\ cachedFor = [p \in Process |-> 0]
  /\ reading = [r \in Reader |-> None]
  /\ readFor = [r \in Reader |-> 0]
  /\ sinceRole = [x \in Role |-> IF x = "free" THEN 0 ELSE Oldest]

-----------------------------------------------------------------------------
\* The row appears: an operator restores the account an event names.
AccountAppears ==
  /\ ~exists /\ exists' = TRUE
  /\ UNCHANGED <<role, customer, stateAt, ledger, webhook, lookups, sinceRole>>

\* An operator makes the user an administrator.
GrantAdmin ==
  /\ exists /\ role # "admin" /\ role' = "admin"
  /\ sinceRole' = [sinceRole EXCEPT !["admin"] = 0]
  /\ UNCHANGED <<exists, customer, stateAt, ledger, webhook, lookups>>

-----------------------------------------------------------------------------
\* The event leads to the user, by the stored customer or the external id.
Leads(e) == (exists /\ customer = CustomerOf[e]) \/ e \in Carrying

\* A verified delivery, new or repeated, whose user is found.
FindUser(w) ==
  /\ handling[w] = None
  /\ \E e \in Event : Leads(e) /\ handling' = [handling EXCEPT ![w] = e]
  /\ UNCHANGED <<row, applied, accepted, lookups, sinceRole>>

\* A state of an unlinked customer is answered and forgotten.
IgnoreUnlinked(w) ==
  /\ handling[w] = None
  /\ \E e \in Event : ~Leads(e) /\ accepted' = accepted \cup {e}
  /\ UNCHANGED <<row, handling, applied, lookups, sinceRole>>

Finish(w) ==
  /\ handling' = [handling EXCEPT ![w] = None]
  /\ applied' = [applied EXCEPT ![w] = FALSE]

\* Mutant: the last delivery wins.
AnyEventIsNewer(e) == TRUE

\* The condition of the UPDATE on polar_state_updated_at.
IsNewer(e) == stateAt < OccurredAt[e]

\* apply_polar_state, one transaction: a new event that is newer than the row.
Apply(w) ==
  LET e == handling[w]
      plan == IF role = "admin" THEN role ELSE RoleOf[e]
  IN  /\ e # None /\ ~applied[w] /\ e \notin ledger
      /\ exists /\ IsNewer(e)
      /\ role' = plan /\ customer' = CustomerOf[e] /\ stateAt' = OccurredAt[e]
      /\ ledger' = ledger \cup {e}
      /\ applied' = [applied EXCEPT ![w] = TRUE]
      /\ sinceRole' = [sinceRole EXCEPT ![plan] = 0]
      /\ UNCHANGED <<exists, handling, accepted, lookups>>

\* The event is a duplicate, or stale: the ledger keeps it, the row stays.
Skip(w) ==
  LET e == handling[w]
  IN  /\ e # None /\ ~applied[w]
      /\ e \in ledger \/ (exists /\ ~IsNewer(e))
      /\ ledger' = ledger \cup {e}
      /\ accepted' = accepted \cup {e}
      /\ Finish(w)
      /\ UNCHANGED <<exists, role, customer, stateAt, lookups, sinceRole>>

\* Mutant: a missing user is no reason for Polar to try again.
AcceptsMissing(w) ==
  LET e == handling[w]
  IN  /\ e # None /\ ~applied[w] /\ e \notin ledger /\ ~exists
      /\ accepted' = accepted \cup {e}
      /\ Finish(w)
      /\ UNCHANGED <<row, lookups, sinceRole>>

\* The user is missing: the transaction is rolled back and Polar gets a 500.
MissingUser(w) ==
  LET e == handling[w]
  IN  /\ e # None /\ ~applied[w] /\ e \notin ledger /\ ~exists
      /\ Finish(w)
      /\ UNCHANGED <<row, accepted, lookups, sinceRole>>

\* After the commit the user leaves the cache of this process, and Polar gets
\* its 202.
Invalidate(w) ==
  /\ applied[w]
  /\ cache' = [cache EXCEPT ![HostOf[w]] = None]
  /\ cachedFor' = [cachedFor EXCEPT ![HostOf[w]] = 0]
  /\ accepted' = accepted \cup {handling[w]}
  /\ Finish(w)
  /\ UNCHANGED <<row, reading, readFor, sinceRole>>

\* A database error, or a request dropped because its client went away.
WorkerFails(w) ==
  /\ handling[w] # None
  /\ Finish(w)
  /\ UNCHANGED <<row, accepted, lookups, sinceRole>>

-----------------------------------------------------------------------------
\* resolve_user misses the cache and reads the row.
ReadRow(r) ==
  /\ reading[r] = None /\ cache[HostOf[r]] = None /\ exists
  /\ reading' = [reading EXCEPT ![r] = role]
  /\ UNCHANGED <<row, webhook, cache, cachedFor, readFor, sinceRole>>

\* It puts what it read into the cache, over whatever is there by now.
FillCache(r) ==
  /\ reading[r] # None
  /\ cache' = [cache EXCEPT ![HostOf[r]] = reading[r]]
  /\ cachedFor' = [cachedFor EXCEPT ![HostOf[r]] = 0]
  /\ reading' = [reading EXCEPT ![r] = None]
  /\ readFor' = [readFor EXCEPT ![r] = 0]
  /\ UNCHANGED <<row, webhook, sinceRole>>

ReaderFails(r) ==
  /\ reading[r] # None
  /\ reading' = [reading EXCEPT ![r] = None]
  /\ readFor' = [readFor EXCEPT ![r] = 0]
  /\ UNCHANGED <<row, webhook, cache, cachedFor, sinceRole>>

\* Mutant: an entry never expires.
NeverExpires(p) == FALSE

\* The cache drops an entry that reaches its time to live.
Expires(p) == cachedFor[p] + 1 >= TTL

\* The cache is full, or the process dies; its requests fail on their own.
Evict(p) ==
  /\ cache[p] # None
  /\ cache' = [cache EXCEPT ![p] = None]
  /\ cachedFor' = [cachedFor EXCEPT ![p] = 0]
  /\ UNCHANGED <<row, webhook, reading, readFor, sinceRole>>

\* Time passes for all.
Tick ==
  /\ \A r \in Reader : reading[r] # None => readFor[r] < MaxRead
  /\ readFor' = [r \in Reader |-> IF reading[r] = None THEN 0 ELSE readFor[r] + 1]
  /\ cache' = [p \in Process |-> IF Expires(p) THEN None ELSE cache[p]]
  /\ cachedFor' = [p \in Process |->
                     IF cache[p] = None \/ Expires(p) THEN 0 ELSE cachedFor[p] + 1]
  /\ sinceRole' = [x \in Role |-> IF x = role THEN 0
                                  ELSE IF sinceRole[x] < Oldest THEN sinceRole[x] + 1
                                  ELSE Oldest]
  /\ UNCHANGED <<row, webhook, reading>>

Next ==
  \/ AccountAppears \/ GrantAdmin \/ Tick
  \/ \E w \in Worker :
       FindUser(w) \/ IgnoreUnlinked(w) \/ Apply(w) \/ Skip(w) \/ MissingUser(w)
         \/ Invalidate(w) \/ WorkerFails(w)
  \/ \E r \in Reader : ReadRow(r) \/ FillCache(r) \/ ReaderFails(r)
  \/ \E p \in Process : Evict(p)

Spec == Init /\ [][Next]_vars

-----------------------------------------------------------------------------
\* Duplicate and older events cannot overwrite newer state
\* (docs/auth-billing.md): the row is as new as the newest event in the ledger
\* and holds the plan of one that new, whatever the order, the repetitions and
\* the failures of the deliveries.
NewestRecordedWins ==
  /\ \A e \in ledger : OccurredAt[e] <= stateAt
  /\ stateAt > 0 =>
       \E e \in ledger : OccurredAt[e] = stateAt /\ role \in {RoleOf[e], "admin"}

\* No paid plan is lost: an event that names the user and got a 202, after
\* which Polar sends it no more, is in the ledger.
AcceptedIsRecorded == accepted \cap Carrying \subseteq ledger

\* The same of everything Polar was told is accepted: event timestamps stop
\* older deliveries from restoring stale access (docs/auth-billing.md).
NewestAcceptedWins ==
  \A e \in accepted : exists /\ stateAt > 0 => OccurredAt[e] <= stateAt

\* The role a request is served was the user's less than an entry's life and a
\* read ago, although an invalidation reaches one process only and a slow
\* reader may put an old role back after it.
ServedRoleIsRecent ==
  \A p \in Process : cache[p] # None => sinceRole[cache[p]] < TTL + MaxRead
=============================================================================
