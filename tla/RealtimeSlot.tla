----------------------------- MODULE RealtimeSlot -----------------------------
(***************************************************************************)
(* The shared request slot of the bus collector (bus_daemon.py).           *)
(*                                                                         *)
(* NTA allows one realtime request per API token every 60 seconds. Every   *)
(* collector process that shares the database reserves a slot in the       *)
(* 'nta_realtime' row of fetch_schedules before it sends a request, and    *)
(* picks the feed to ask for from the newest row of fetch_history, where a *)
(* poll leaves its trace only after the response has been processed.       *)
(*                                                                         *)
(* Time is discrete. A time of the database row is kept as the time left   *)
(* until it, so the state space is finite without a bound on the clock.    *)
(***************************************************************************)
EXTENDS Integers

CONSTANTS
  Collector,     \* processes that share the database and the API token
  Configured,    \* Configured[c]: BUS_REALTIME_INTERVAL_SECONDS of collector c
  MinInterval,   \* MIN_REALTIME_INTERVAL_SECONDS
  Safety,        \* RATE_LIMIT_SAFETY_SECONDS
  MaxDelay,      \* longest time from a reservation's commit to its request
  NoFeed

Feed == {"trip_updates", "vehicles"}

\* Where a poll stands: asleep between polls, about to reserve, holding a
\* reservation whose request is not out yet, and processing the response.
Phase == {"asleep", "due", "reserved", "sent"}

VARIABLES
  phase,       \* phase[c]: what collector c is doing
  wait,        \* wait[c]: time left of schedule_task's sleep
  askedFor,    \* askedFor[c]: the feed reserved by the poll c is in
  delay,       \* delay[c]: time since c's reservation, while it is "reserved"
  enabled,     \* the row's enabled column, switched by an operator
  untilNext,   \* time left until the row's next_fetch; 0 when it is due
  newest,      \* endpoint of the newest realtime row of fetch_history
  sinceSent,   \* history: time since the last request left a collector
  granted      \* history: the feed of the last reservation

slotVars == <<phase, wait, askedFor, delay, enabled, untilNext, newest, sinceSent, granted>>

-----------------------------------------------------------------------------
LargerOf(x, y) == IF x >= y THEN x ELSE y

\* The constructor refuses an interval below fair use.
Interval(c) == LargerOf(MinInterval, Configured[c])

\* What a reservation adds to the clock, and what schedule_task sleeps.
ReservationTime(c) == Interval(c) + Safety

\* A silence longer than the least reservation needs no further counting.
Horizon == MinInterval + Safety

ASSUME SlotAssumption ==
  /\ MinInterval \in Nat \ {0}
  /\ Safety \in Nat
  /\ MaxDelay \in Nat
  /\ Configured \in [Collector -> Nat]
  /\ NoFeed \notin Feed

SlotTypeOK ==
  /\ phase \in [Collector -> Phase]
  /\ wait \in [Collector -> Nat]
  /\ askedFor \in [Collector -> Feed \cup {NoFeed}]
  /\ \A c \in Collector : askedFor[c] = NoFeed <=> phase[c] \in {"asleep", "due"}
  /\ delay \in [Collector -> Nat]
  /\ enabled \in BOOLEAN
  /\ untilNext \in Nat
  /\ newest \in Feed \cup {NoFeed}
  /\ sinceSent \in 0 .. Horizon
  /\ granted \in Feed \cup {NoFeed}

\* The row may be missing or long due, the newest history row may name either
\* feed or none, and every collector starts polling at once.
SlotInit ==
  /\ phase = [c \in Collector |-> "due"]
  /\ wait = [c \in Collector |-> 0]
  /\ askedFor = [c \in Collector |-> NoFeed]
  /\ delay = [c \in Collector |-> 0]
  /\ enabled = TRUE
  /\ untilNext = 0
  /\ newest \in Feed \cup {NoFeed}
  /\ sinceSent = Horizon
  /\ granted = NoFeed

-----------------------------------------------------------------------------
\* schedule_task: the sleep is over, the next poll begins.
Wake(c) ==
  /\ phase[c] = "asleep" /\ wait[c] = 0
  /\ phase' = [phase EXCEPT ![c] = "due"]
  /\ UNCHANGED <<wait, askedFor, delay, enabled, untilNext, newest, sinceSent, granted>>

\* Mutant: the endpoints of the comparison are swapped.
SameFeedAgain == IF newest \in {NoFeed, "vehicles"} THEN "vehicles" ELSE "trip_updates"

\* The alternation rule: trip_updates follows vehicles, vehicles everything else.
NextFeed == IF newest \in {NoFeed, "trip_updates"} THEN "vehicles" ELSE "trip_updates"

\* Mutant: the upsert takes the row without looking at next_fetch.
SlotIsEnabled == enabled

\* The row can be taken: enabled, and next_fetch is not in the future.
SlotIsFree == enabled /\ untilNext = 0

\* The upsert returns a row and the feed is chosen in the same transaction.
Reserve(c) ==
  /\ phase[c] = "due" /\ SlotIsFree
  /\ phase' = [phase EXCEPT ![c] = "reserved"]
  /\ askedFor' = [askedFor EXCEPT ![c] = NextFeed]
  /\ delay' = [delay EXCEPT ![c] = 0]
  /\ untilNext' = ReservationTime(c)
  /\ granted' = NextFeed
  /\ UNCHANGED <<wait, enabled, newest, sinceSent>>

\* Back to schedule_task's sleep, whatever the poll came to.
Sleep(c) ==
  /\ phase' = [phase EXCEPT ![c] = "asleep"]
  /\ wait' = [wait EXCEPT ![c] = ReservationTime(c)]
  /\ askedFor' = [askedFor EXCEPT ![c] = NoFeed]
  /\ delay' = [delay EXCEPT ![c] = 0]

\* The poll ends before a reservation: the slot is not due, or reading the
\* active version failed. The failure is recorded under 'nta_realtime', which
\* the choice of feed does not look at.
NothingReserved(c) ==
  /\ phase[c] = "due"
  /\ Sleep(c)
  /\ UNCHANGED <<enabled, untilNext, newest, sinceSent, granted>>

\* The request leaves the process.
Send(c) ==
  /\ phase[c] = "reserved"
  /\ phase' = [phase EXCEPT ![c] = "sent"]
  /\ delay' = [delay EXCEPT ![c] = 0]
  /\ sinceSent' = 0
  /\ UNCHANGED <<wait, askedFor, enabled, untilNext, newest, granted>>

\* The poll succeeded or failed, after or before its request went out: either
\* way the endpoint is recorded and becomes the newest row.
Record(c) ==
  /\ phase[c] \in {"reserved", "sent"}
  /\ newest' = askedFor[c]
  /\ Sleep(c)
  /\ UNCHANGED <<enabled, untilNext, sinceSent, granted>>

\* record_fetch swallows its own database error.
RecordIsLost(c) ==
  /\ phase[c] \in {"reserved", "sent"}
  /\ Sleep(c)
  /\ UNCHANGED <<enabled, untilNext, newest, sinceSent, granted>>

\* The process dies at any point and is restarted; it polls immediately.
Crash(c) ==
  /\ phase' = [phase EXCEPT ![c] = "due"]
  /\ wait' = [wait EXCEPT ![c] = 0]
  /\ askedFor' = [askedFor EXCEPT ![c] = NoFeed]
  /\ delay' = [delay EXCEPT ![c] = 0]
  /\ UNCHANGED <<enabled, untilNext, newest, sinceSent, granted>>

\* An operator pauses or resumes realtime collection in the database.
Switch ==
  /\ enabled' = ~enabled
  /\ UNCHANGED <<phase, wait, askedFor, delay, untilNext, newest, sinceSent, granted>>

Less(n) == IF n > 0 THEN n - 1 ELSE 0

\* Time passes for everyone at once. A reservation becomes a request within
\* MaxDelay: connection pool, event loop and TCP connect together.
Tick ==
  /\ \A c \in Collector : phase[c] = "reserved" => delay[c] < MaxDelay
  /\ untilNext' = Less(untilNext)
  /\ wait' = [c \in Collector |-> Less(wait[c])]
  /\ delay' = [c \in Collector |->
                 IF phase[c] = "reserved" THEN delay[c] + 1 ELSE delay[c]]
  /\ sinceSent' = IF sinceSent < Horizon THEN sinceSent + 1 ELSE sinceSent
  /\ UNCHANGED <<phase, askedFor, enabled, newest, granted>>

SlotNext ==
  \/ \E c \in Collector :
       \/ Wake(c) \/ Reserve(c) \/ NothingReserved(c)
       \/ Send(c) \/ Record(c) \/ RecordIsLost(c) \/ Crash(c)
  \/ Switch
  \/ Tick

\* schedule_task never stops, so time and every collector go on; the database
\* does not refuse every history row, nor reservation, for ever, and the
\* operator does not keep collection switched off.
SlotFairness ==
  /\ WF_slotVars(Tick)
  /\ \A c \in Collector :
       /\ WF_slotVars(Wake(c)) /\ SF_slotVars(Reserve(c))
       /\ WF_slotVars(Send(c)) /\ SF_slotVars(Record(c))

SlotSpec == SlotInit /\ [][SlotNext]_slotVars

-----------------------------------------------------------------------------
Ceiling == INSTANCE RequestBudget
             WITH Gap <- MinInterval, Horizon <- Horizon, sinceRequest <- sinceSent

\* NTA's ceiling, as the docstring of _reserve_realtime_request states it: all
\* collectors together never send two requests less than 60 seconds apart,
\* across crashes, restarts and lost records.
CeilingKept == Ceiling!Spec

\* Neither feed starves: once collection stays switched on, a slot
\* is reserved for each of the two feeds again and again, although the choice
\* rests on records that may be lost and on polls that may die.
BothFeedsGetSlots ==
  SlotFairness => (<>[]enabled => \A f \in Feed : []<>(granted = f))
=============================================================================
