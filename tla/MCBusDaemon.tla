----------------------------- MODULE MCBusDaemon ------------------------------
(***************************************************************************)
(* Five parts of the bus collector that share no state, checked in one     *)
(* run: the variable part says which of them a behaviour is about, and the *)
(* variables of the others stay at one initial value. The three that act   *)
(* over and over state their fairness in the properties that need it.      *)
(***************************************************************************)
EXTENDS MCRealtimeSlot, StaticFeed, GtfsSelection, RealtimeFeed, DaemonLife, TLC

CONSTANTS r1, r2, t1, t2, a, b, s1, s2, s3, p, e1, e2, rail, train, v1, plate, f1, f2

VARIABLE part

-----------------------------------------------------------------------------
(* Archives: a sound one, of which some of the six files are replaced.     *)

\* The lines of a file.
File(rows) == {rows[n] @@ [line |-> n] : n \in DOMAIN rows}

Agency(id) == [id |-> id, valid |-> TRUE, fits |-> TRUE]
SomeAgencyFiles ==
  {File(f) : f \in
     {<<>>, <<Agency(a)>>, <<Agency(Blank)>>, <<Agency(a), Agency(b)>>, <<Agency(Blank), Agency(b)>>,
      <<Agency(a), Agency(a)>>, <<Agency(a), [Agency(b) EXCEPT !.valid = FALSE]>>,
      <<Agency(a), [Agency(b) EXCEPT !.fits = FALSE]>>}}

Route(id, agency, type) == [id |-> id, agency |-> agency, type |-> type, fits |-> TRUE]
SomeRouteFiles ==
  {File(<<Route(r1, x, "bus")>> \o others) :
     x \in {a, b, Blank},
     others \in {<<>>, <<Route(r2, Blank, "other")>>, <<Route(r2, a, "bus")>>,
                 <<Route(r2, Blank, "invalid")>>, <<Route(Blank, a, "bus")>>, <<Route(r1, a, "bus")>>,
                 <<[Route(r2, a, "bus") EXCEPT !.fits = FALSE]>>}}

TripIn(id, route, shape) ==
  [id |-> id, route |-> route, shape |-> shape, valid |-> TRUE, fits |-> TRUE]
SomeTripFiles ==
  {File(f) : f \in
     {<<TripIn(t1, r1, p)>>, <<TripIn(t1, r1, Blank), TripIn(t2, r2, p)>>, <<TripIn(t2, r2, Blank)>>,
      <<TripIn(t1, r1, p), TripIn(t1, r1, p)>>,
      <<TripIn(t1, r1, p), [TripIn(t2, r2, Blank) EXCEPT !.fits = FALSE]>>,
      <<TripIn(t1, r1, p), [TripIn(t2, r2, Blank) EXCEPT !.valid = FALSE]>>}}

Call(trip, n, stop) ==
  [trip |-> trip, sequence |-> n, stop |-> stop, valid |-> TRUE, fits |-> TRUE]
SomeTimeFiles ==
  {File(f) : f \in
     {<<Call(t1, 0, s1), Call(t2, 0, s2)>>, <<Call(t1, 0, s1), Call(t1, 1, s2)>>,
      <<Call(t1, 0, s1), Call(t1, 0, s2)>>,
      <<Call(t1, 0, s1), [Call(t2, 0, s2) EXCEPT !.fits = FALSE]>>,
      <<Call(t1, 0, s1), [Call(t2, 0, Blank) EXCEPT !.valid = FALSE]>>}}

Point(n) == [shape |-> p, sequence |-> n, valid |-> TRUE, fits |-> TRUE]
SomeShapeFiles ==
  {File(f) : f \in
     {<<>>, <<Point(0), Point(1)>>, <<Point(0), Point(0)>>, <<[Point(0) EXCEPT !.fits = FALSE]>>,
      <<[Point(0) EXCEPT !.valid = FALSE]>>}}

StopIn(parent) == [parent |-> parent, valid |-> TRUE, fits |-> TRUE]
Stops(parents) == [s \in DOMAIN parents |-> StopIn(parents[s])]
SomeStopFiles ==
  {Stops(f) : f \in [{s1, s2, s3} -> {s2, s3, Blank}]}
  \cup {Stops(f) : f \in [{s1, s2} -> {s3, Blank}]}
  \cup {[s \in {s1, s2} |-> [StopIn(Blank) EXCEPT !.valid = (s = s1)]],
        [s \in {s1, s2, s3} |-> [StopIn(Blank) EXCEPT !.fits = (s # s2)]]}

SoundArchive ==
  [agencies |-> File(<<Agency(a)>>), routes |-> File(<<Route(r1, a, "bus")>>),
   trips |-> File(<<TripIn(t1, r1, p)>>), times |-> File(<<Call(t1, 0, s1), Call(t1, 1, s2)>>),
   shapes |-> File(<<Point(0), Point(1)>>), stops |-> Stops([s \in {s1, s2} |-> Blank])]

MaxReplaced == 2
IsNearSound ==
  Cardinality({f \in DOMAIN archive : archive[f] # SoundArchive[f]}) <= MaxReplaced

-----------------------------------------------------------------------------
(* Responses of two entities, with or without ids. The static feed knows   *)
(* trip t1 on route r1, and no other trip of its bus routes r1 and r2.     *)

TripOfEntity(id, route, relationship) ==
  [id |-> id, route |-> route, start |-> None, relationship |-> relationship]
Trips ==
  {TripOfEntity(t1, None, None), TripOfEntity(t1, r2, "3"), TripOfEntity(t2, r2, "ADDED"),
   TripOfEntity(t2, r2, None), TripOfEntity(train, rail, None), TripOfEntity(None, r1, "1"),
   TripOfEntity(None, None, None)}

StopUpdate(sequence, stop, relationship, arrival, departure) ==
  [sequence |-> sequence, stop |-> stop, relationship |-> relationship, arrival |-> arrival,
   departure |-> departure]
Calls ==
  {<<>>, <<StopUpdate(1, s1, None, 60, None)>>,
   <<StopUpdate(1, s1, None, 60, None), StopUpdate(1, s1, None, 60, 90)>>,
   <<StopUpdate(None, s2, "1", 0, 0), StopUpdate(None, None, "0", 0, None)>>}

Entity(kinds, id, trip, vehicle, stops, deleted) ==
  [kinds |-> kinds, id |-> id, trip |-> trip, vehicle |-> vehicle, stops |-> stops,
   deleted |-> deleted]
Vehicles ==
  {[id |-> v1, label |-> None], [id |-> None, label |-> plate], [id |-> None, label |-> None]}
NoVehicle == [id |-> None, label |-> None]
Entities(id) ==
  {Entity({"trip_update"}, id, t, NoVehicle, c, FALSE) : t \in Trips, c \in Calls} \cup
  {Entity({"vehicle"}, id, t, v, <<>>, FALSE) : t \in Trips, v \in Vehicles} \cup
  {Entity({"trip_update", "vehicle"}, id, t, [id |-> v1, label |-> None], <<>>, FALSE) : t \in Trips}
Deleted ==
  Entity({"trip_update"}, e2, TripOfEntity(t1, r1, None), NoVehicle, <<StopUpdate(1, s1, None, 0, None)>>, TRUE)

SomeResponses ==
  {<<e, f>> : e \in Entities(e1), f \in Entities(e2) \cup {Deleted}} \cup
  {<<e, f>> : e \in Entities(None), f \in Entities(None)} \cup {<<>>}
SomeTripRoutes == [t \in {t1} |-> r1]

-----------------------------------------------------------------------------
SelectionAtRest ==
  /\ archive = [agencies |-> {}, routes |-> {}, trips |-> {}, times |-> {}, shapes |-> {},
                stops |-> <<>>]
  /\ stage = "agencies" /\ picked = NothingPicked /\ pending = {} /\ tables = NoRows

FeedAtRest ==
  /\ response = <<>> /\ read = 0 /\ isFiltered = FALSE /\ histogram = None
  /\ feed = [updates |-> <<>>, trips |-> {}, vehicles |-> <<>>]

LifeAtRest ==
  /\ main = "serving" /\ pool = "open" /\ isAsked = FALSE /\ task = NoTask
  /\ threadBusy = FALSE /\ lockIsTaken = FALSE /\ feedActive = TRUE /\ boardFilled = TRUE

SlotAtRest == SlotInit /\ newest = NoFeed

StaticAtRest == StaticInit /\ published = NoVersion /\ active = {}

Init ==
  \/ part = "slot" /\ SlotInit /\ StaticAtRest /\ SelectionAtRest /\ FeedAtRest /\ LifeAtRest
  \/ part = "static" /\ StaticInit /\ SlotAtRest /\ SelectionAtRest /\ FeedAtRest /\ LifeAtRest
  \/ /\ part = "selection" /\ SelectionInit /\ IsNearSound
     /\ SlotAtRest /\ StaticAtRest /\ FeedAtRest /\ LifeAtRest
  \/ part = "feed" /\ FeedInit /\ SlotAtRest /\ StaticAtRest /\ SelectionAtRest /\ LifeAtRest
  \/ part = "life" /\ LifeInit /\ SlotAtRest /\ StaticAtRest /\ SelectionAtRest /\ FeedAtRest

vars == <<part, slotVars, staticVars, selectionVars, feedVars, lifeVars>>

Next ==
  \/ /\ part = "slot" /\ SlotNext
     /\ UNCHANGED <<part, staticVars, selectionVars, feedVars, lifeVars>>
  \/ /\ part = "static" /\ StaticNext
     /\ UNCHANGED <<part, slotVars, selectionVars, feedVars, lifeVars>>
  \/ /\ part = "selection" /\ SelectionNext
     /\ UNCHANGED <<part, slotVars, staticVars, feedVars, lifeVars>>
  \/ /\ part = "feed" /\ FeedNext
     /\ UNCHANGED <<part, slotVars, staticVars, selectionVars, lifeVars>>
  \/ /\ part = "life" /\ LifeNext
     /\ UNCHANGED <<part, slotVars, staticVars, selectionVars, feedVars>>

Spec == Init /\ [][Next]_vars
===============================================================================
