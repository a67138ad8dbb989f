-------------------------- MODULE RealtimeSlotProofs --------------------------
(***************************************************************************)
(* For any set of collectors and any intervals: if a request leaves within *)
(* the safety margin of its reservation, all collectors together keep      *)
(* NTA's ceiling.                                                          *)
(***************************************************************************)
EXTENDS RealtimeSlot, TLAPS

-----------------------------------------------------------------------------
(***************************************************************************)
(* The inductive invariant.  A collector that still holds an unsent        *)
(* reservation made it so recently that next_fetch is more than a minimum  *)
(* interval away (ReservationIsFresh), so nobody else holds one            *)
(* (OneReservation), and it reserved when the last request was already far *)
(* enough back (ReservedInTime), because next_fetch and the last request   *)
(* are never both near (NextFetchCoversLastRequest).                       *)
(***************************************************************************)
ReservationIsFresh ==
  \A c \in Collector : phase[c] = "reserved" =>
    /\ delay[c] <= MaxDelay
    /\ untilNext + delay[c] >= MinInterval + Safety

OneReservation ==
  \A c, d \in Collector : phase[c] = "reserved" /\ phase[d] = "reserved" => c = d

ReservedInTime ==
  \A c \in Collector : phase[c] = "reserved" => sinceSent >= MinInterval

NextFetchCoversLastRequest == untilNext + sinceSent >= MinInterval

SlotInv ==
  /\ SlotTypeOK
  /\ ReservationIsFresh
  /\ OneReservation
  /\ ReservedInTime
  /\ NextFetchCoversLastRequest

-----------------------------------------------------------------------------
LEMMA SumAtLeast ==
  ASSUME NEW m \in Nat, NEW x \in Nat, NEW y \in Nat, x >= m
  PROVE  x + y >= m
  OBVIOUS

\* A reservation is never shorter than the minimum interval and the margin.
LEMMA ReservationTimeBound ==
  ASSUME NEW c \in Collector
  PROVE  /\ ReservationTime(c) \in Nat
         /\ ReservationTime(c) >= MinInterval + Safety
  BY SlotAssumption DEF ReservationTime, Interval, LargerOf

LEMMA NextFeedIsAFeed == SlotTypeOK => NextFeed \in Feed /\ NextFeed # NoFeed
  BY SlotAssumption DEF SlotTypeOK, NextFeed, Feed

LEMMA SlotTypeInit == SlotInit => SlotTypeOK
  BY SlotAssumption DEF SlotInit, SlotTypeOK, Phase, Horizon

LEMMA SlotTypeStep == SlotTypeOK /\ [SlotNext]_slotVars => SlotTypeOK'
<1> SUFFICES ASSUME SlotTypeOK, [SlotNext]_slotVars PROVE SlotTypeOK'
  OBVIOUS
<1>1. ASSUME NEW c \in Collector, Wake(c) PROVE SlotTypeOK'
  BY <1>1 DEF SlotTypeOK, Wake, Phase
<1>2. ASSUME NEW c \in Collector, Reserve(c) PROVE SlotTypeOK'
  BY <1>2, ReservationTimeBound, NextFeedIsAFeed DEF SlotTypeOK, Reserve, Phase
<1>3. ASSUME NEW c \in Collector, NothingReserved(c) PROVE SlotTypeOK'
  BY <1>3, ReservationTimeBound, SlotAssumption DEF SlotTypeOK, NothingReserved, Sleep, Phase
<1>4. ASSUME NEW c \in Collector, Send(c) PROVE SlotTypeOK'
  BY <1>4, SlotAssumption DEF SlotTypeOK, Send, Phase, Horizon
<1>5. ASSUME NEW c \in Collector, Record(c) PROVE SlotTypeOK'
  BY <1>5, ReservationTimeBound, SlotAssumption DEF SlotTypeOK, Record, Sleep, Phase
<1>6. ASSUME NEW c \in Collector, RecordIsLost(c) PROVE SlotTypeOK'
  BY <1>6, ReservationTimeBound, SlotAssumption DEF SlotTypeOK, RecordIsLost, Sleep, Phase
<1>7. ASSUME NEW c \in Collector, Crash(c) PROVE SlotTypeOK'
  BY <1>7, SlotAssumption DEF SlotTypeOK, Crash, Phase
<1>8. CASE Switch
  BY <1>8 DEF SlotTypeOK, Switch
<1>9. CASE Tick
  BY <1>9, SlotAssumption DEF SlotTypeOK, Tick, Less, Horizon
<1>10. CASE UNCHANGED slotVars
  BY <1>10 DEF SlotTypeOK, slotVars
<1> QED
  BY <1>1, <1>2, <1>3, <1>4, <1>5, <1>6, <1>7, <1>8, <1>9, <1>10 DEF SlotNext

\* Every variable of the slot keeps its type, whatever the collectors do.
THEOREM SlotTypeCorrect == SlotSpec => []SlotTypeOK
  BY SlotTypeInit, SlotTypeStep, PTL DEF SlotSpec
-----------------------------------------------------------------------------
LEMMA SlotInvInit == SlotInit => SlotInv
  BY SlotTypeInit, SlotAssumption
  DEF SlotInit, SlotInv, ReservationIsFresh, OneReservation, ReservedInTime,
      NextFetchCoversLastRequest, Horizon

\* Going back to sleep, or dying, only takes a reservation away.
LEMMA ReleasingKeepsSlotInv ==
  ASSUME SlotInv, SlotTypeOK', NEW c \in Collector, NEW p \in {"asleep", "due"},
         phase' = [phase EXCEPT ![c] = p],
         delay' = [delay EXCEPT ![c] = 0],
         UNCHANGED <<untilNext, sinceSent>>
  PROVE  SlotInv'
  BY DEF SlotInv, SlotTypeOK, ReservationIsFresh, OneReservation, ReservedInTime,
         NextFetchCoversLastRequest

\* As long as requests leave within the safety margin, each step keeps the
\* invariant.
LEMMA SlotInvStep ==
  ASSUME MaxDelay <= Safety
  PROVE  SlotInv /\ [SlotNext]_slotVars => SlotInv'
<1> SUFFICES ASSUME SlotInv, [SlotNext]_slotVars PROVE SlotInv'
  OBVIOUS
<1> SlotTypeOK /\ SlotTypeOK'
  BY SlotTypeStep DEF SlotInv
<1>1. ASSUME NEW c \in Collector, Wake(c) PROVE SlotInv'
  BY <1>1 DEF SlotInv, SlotTypeOK, Wake, ReservationIsFresh, OneReservation,
              ReservedInTime, NextFetchCoversLastRequest
<1>2. ASSUME NEW c \in Collector, Reserve(c) PROVE SlotInv'
  <2>1. untilNext = 0 /\ untilNext' >= MinInterval + Safety /\ untilNext' \in Nat
    BY <1>2, ReservationTimeBound DEF Reserve, SlotIsFree
  <2>2. \A d \in Collector : phase[d] # "reserved"
    BY <2>1, SlotAssumption DEF SlotInv, SlotTypeOK, ReservationIsFresh
  <2>3. phase' = [phase EXCEPT ![c] = "reserved"] /\ delay' = [delay EXCEPT ![c] = 0]
        /\ sinceSent' = sinceSent
    BY <1>2 DEF Reserve
  <2>4. ReservationIsFresh' /\ OneReservation'
    BY <2>1, <2>2, <2>3, SlotAssumption DEF SlotTypeOK, ReservationIsFresh, OneReservation
  <2>5. sinceSent \in Nat /\ sinceSent >= MinInterval
    BY <2>1, SlotAssumption DEF SlotInv, SlotTypeOK, NextFetchCoversLastRequest, Horizon
  <2>6. ReservedInTime'
    BY <2>3, <2>5 DEF ReservedInTime
  <2>7. NextFetchCoversLastRequest'
    <3>1. sinceSent' \in Nat
      BY <2>3, <2>5
    <3>2. untilNext' \in Nat /\ untilNext' >= MinInterval
      BY <2>1, SlotAssumption
    <3> QED
      BY <3>1, <3>2, SumAtLeast, SlotAssumption DEF NextFetchCoversLastRequest
  <2> QED
    BY <2>4, <2>6, <2>7 DEF SlotInv
<1>3. ASSUME NEW c \in Collector, NothingReserved(c) PROVE SlotInv'
  BY <1>3, ReleasingKeepsSlotInv DEF NothingReserved, Sleep
<1>4. ASSUME NEW c \in Collector, Send(c) PROVE SlotInv'
  <2>1. untilNext >= MinInterval
    BY <1>4, SlotAssumption DEF Send, SlotInv, SlotTypeOK, ReservationIsFresh
  <2>2. \A d \in Collector : phase'[d] # "reserved"
    BY <1>4 DEF Send, SlotInv, SlotTypeOK, OneReservation
  <2>3. NextFetchCoversLastRequest'
    BY <1>4, <2>1, SlotAssumption DEF Send, SlotTypeOK, NextFetchCoversLastRequest
  <2> QED
    BY <2>2, <2>3 DEF SlotInv, ReservationIsFresh, OneReservation, ReservedInTime
<1>5. ASSUME NEW c \in Collector, Record(c) PROVE SlotInv'
  BY <1>5, ReleasingKeepsSlotInv DEF Record, Sleep
<1>6. ASSUME NEW c \in Collector, RecordIsLost(c) PROVE SlotInv'
  BY <1>6, ReleasingKeepsSlotInv DEF RecordIsLost, Sleep
<1>7. ASSUME NEW c \in Collector, Crash(c) PROVE SlotInv'
  BY <1>7, ReleasingKeepsSlotInv DEF Crash
<1>8. CASE Switch
  BY <1>8 DEF Switch, SlotInv, ReservationIsFresh, OneReservation, ReservedInTime,
              NextFetchCoversLastRequest
<1>9. CASE Tick
  <2>1. ReservationIsFresh'
    BY <1>9, SlotAssumption DEF Tick, Less, SlotInv, SlotTypeOK, ReservationIsFresh
  <2>2. OneReservation'
    BY <1>9 DEF Tick, SlotInv, OneReservation
  <2>3. ReservedInTime'
    BY <1>9, SlotAssumption DEF Tick, SlotInv, SlotTypeOK, ReservedInTime, Horizon
  <2>4. NextFetchCoversLastRequest'
    BY <1>9, SlotAssumption
    DEF Tick, Less, SlotInv, SlotTypeOK, NextFetchCoversLastRequest, Horizon
  <2> QED
    BY <2>1, <2>2, <2>3, <2>4 DEF SlotInv
<1>10. CASE UNCHANGED slotVars
  BY <1>10 DEF slotVars, SlotInv, ReservationIsFresh, OneReservation, ReservedInTime,
               NextFetchCoversLastRequest
<1> QED
  BY <1>1, <1>2, <1>3, <1>4, <1>5, <1>6, <1>7, <1>8, <1>9, <1>10 DEF SlotNext

\* The refinement: a request of any collector is a request of the budget, time
\* is time, and everything else is invisible to NTA.
LEMMA StepsKeepTheCeiling ==
  SlotInv /\ [SlotNext]_slotVars => [Ceiling!Next]_sinceSent
<1> SUFFICES ASSUME SlotInv, [SlotNext]_slotVars PROVE [Ceiling!Next]_sinceSent
  OBVIOUS
<1>1. ASSUME NEW c \in Collector, Send(c) PROVE Ceiling!Request
  BY <1>1 DEF Send, SlotInv, ReservedInTime, Ceiling!Request
<1>2. CASE Tick
  BY <1>2 DEF Tick, Ceiling!Next, Ceiling!TimePasses
<1>3. ASSUME NEW c \in Collector,
             Wake(c) \/ Reserve(c) \/ NothingReserved(c) \/ Record(c)
               \/ RecordIsLost(c) \/ Crash(c)
      PROVE  sinceSent' = sinceSent
  BY <1>3 DEF Wake, Reserve, NothingReserved, Record, RecordIsLost, Crash
<1>4. CASE Switch
  BY <1>4 DEF Switch
<1>5. CASE UNCHANGED slotVars
  BY <1>5 DEF slotVars
<1> QED
  BY <1>1, <1>2, <1>3, <1>4, <1>5 DEF SlotNext, Ceiling!Next

\* All collectors together keep NTA's ceiling, provided every request leaves
\* within RATE_LIMIT_SAFETY_SECONDS of its reservation.
THEOREM SlotKeepsCeiling ==
  ASSUME MaxDelay <= Safety
  PROVE  SlotSpec => CeilingKept
<1>1. SlotInit => Ceiling!Init
  BY DEF SlotInit, Ceiling!Init
<1>2. SlotSpec => []SlotInv
  BY SlotInvInit, SlotInvStep, PTL DEF SlotSpec
<1> QED
  BY <1>1, <1>2, StepsKeepTheCeiling, PTL DEF SlotSpec, CeilingKept, Ceiling!Spec
=============================================================================
