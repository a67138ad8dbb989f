----------------------------- MODULE GtfsSelection -----------------------------
(***************************************************************************)
(* How the bus collector picks, out of a national GTFS archive, the bus    *)
(* routes and all they depend on (_select_static_feed), copies the picked  *)
(* rows into its tables in a second pass (_import_static_feed), and loads  *)
(* the ids by which realtime entities are known (_load_active_bus_ids).    *)
(*                                                                         *)
(* One step per file. A file is a set of rows, each with its line; of what *)
(* a row says, the ids are kept by which rows refer to each other, whether *)
(* the other fields are valid, and whether they fit the columns that they  *)
(* go to: an INTEGER column takes not every number that a file may hold.   *)
(* In stops.txt, whose rows replace each other, the last one counts.       *)
(***************************************************************************)
EXTENDS Integers, FiniteSets

CONSTANTS
  AgencyId, RouteId, TripId, StopId, ShapeId,
  DefaultAgency,  \* DEFAULT_AGENCY_ID
  Blank,          \* an empty field
  AgencyFiles, RouteFiles, TripFiles, TimeFiles, ShapeFiles, StopFiles  \* inputs

AgencyRow == [line : Nat, id : AgencyId \cup {Blank}, valid : BOOLEAN, fits : BOOLEAN]
RouteRow == [line : Nat, id : RouteId \cup {Blank}, agency : AgencyId \cup {Blank},
             type : {"bus", "other", "invalid"}, fits : BOOLEAN]
TripRow == [line : Nat, id : TripId \cup {Blank}, route : RouteId, shape : ShapeId \cup {Blank},
            valid : BOOLEAN, fits : BOOLEAN]
TimeRow == [line : Nat, trip : TripId, sequence : Int, stop : StopId \cup {Blank},
            valid : BOOLEAN, fits : BOOLEAN]
ShapeRow == [line : Nat, shape : ShapeId, sequence : Int, valid : BOOLEAN, fits : BOOLEAN]
StopRow == [parent : StopId \cup {Blank}, valid : BOOLEAN, fits : BOOLEAN]

IsFileOf(Row, file) == file \subseteq Row /\ \A r, s \in file : r.line = s.line => r = s

Archives == [agencies : AgencyFiles, routes : RouteFiles, trips : TripFiles, times : TimeFiles,
             shapes : ShapeFiles, stops : StopFiles]

ASSUME SelectionAssumption ==
  /\ Blank \notin AgencyId \cup RouteId \cup TripId \cup StopId \cup ShapeId
  /\ DefaultAgency \notin AgencyId \cup {Blank}
  /\ \A f \in AgencyFiles : IsFileOf(AgencyRow, f) /\ IsFiniteSet(f)
  /\ \A f \in RouteFiles : IsFileOf(RouteRow, f)
  /\ \A f \in TripFiles : IsFileOf(TripRow, f)
  /\ \A f \in TimeFiles : IsFileOf(TimeRow, f)
  /\ \A f \in ShapeFiles : IsFileOf(ShapeRow, f)
  /\ \A f \in StopFiles : DOMAIN f \subseteq StopId /\ \A s \in DOMAIN f : f[s] \in StopRow

VARIABLES
  archive,  \* the rows of the files
  stage,    \* the file read next, or how the import has ended
  picked,   \* StaticFeedSelection
  pending,  \* pending_stop_ids
  tables    \* bus_agencies, bus_routes, ... of this version

selectionVars == <<archive, stage, picked, pending, tables>>

NothingPicked == [agencies |-> {}, routes |-> {}, trips |-> {}, stops |-> {},
                  timeCount |-> 0, shapeCount |-> 0]
NoRows == [agencies |-> {}, routes |-> {}, trips |-> {}, stops |-> {}, times |-> {}, shapes |-> {}]

SelectionInit ==
  /\ archive \in Archives
  /\ stage = "agencies"
  /\ picked = NothingPicked
  /\ pending = {}
  /\ tables = NoRows

-----------------------------------------------------------------------------
Ids(rows) == {r.id : r \in rows}
Repeats(rows) == Cardinality(Ids(rows)) # Cardinality(rows)

\* A pass goes on to the next file, or the archive is rejected (FeedFormatError).
Passes(file, broken, next) ==
  /\ stage = file
  /\ stage' = IF broken THEN "rejected" ELSE next
  /\ UNCHANGED <<archive, tables>>

ReadAgencies ==
  LET rows == archive.agencies
  IN  /\ Passes("agencies",
                \/ rows = {} \/ Repeats(rows)
                \/ \E a \in rows : ~a.valid \/ (a.id = Blank /\ Cardinality(rows) # 1),
                "routes")
      /\ UNCHANGED <<picked, pending>>

AgencyIdOf(a) == IF a.id = Blank THEN DefaultAgency ELSE a.id
AllAgencies == {AgencyIdOf(a) : a \in archive.agencies}

\* A route that names no agency has the only one of the feed.
AgencyOf(r) ==
  IF r.agency = Blank /\ Cardinality(AllAgencies) = 1 THEN CHOOSE a \in AllAgencies : TRUE
  ELSE r.agency

ReadRoutes ==
  LET buses == {r \in archive.routes : r.type = "bus"}
  IN  /\ Passes("routes",
                \/ buses = {} \/ \E r \in archive.routes : r.type = "invalid"
                \/ \E r \in buses : r.id = Blank \/ AgencyOf(r) \notin AllAgencies,
                "trips")
      /\ picked' = [picked EXCEPT !.agencies = {AgencyOf(r) : r \in buses},
                                  !.routes = {[r EXCEPT !.agency = AgencyOf(r)] : r \in buses}]
      /\ UNCHANGED pending

ReadTrips ==
  LET rows == {t \in archive.trips : t.route \in Ids(picked.routes)}
  IN  /\ Passes("trips", rows = {} \/ \E t \in rows : t.id = Blank \/ ~t.valid, "stop_times")
      /\ picked' = [picked EXCEPT !.trips = rows]
      /\ UNCHANGED pending

\* Mutant: the second pass takes every row of the file.
EveryTime == archive.times

\* _iter_bus_stop_times, which both passes go through.
BusStopTimes == {s \in archive.times : s.trip \in Ids(picked.trips)}

ReadStopTimes ==
  /\ Passes("stop_times",
            BusStopTimes = {} \/ \E s \in BusStopTimes : s.stop = Blank \/ ~s.valid,
            "shapes")
  /\ picked' = [picked EXCEPT !.timeCount = Cardinality(BusStopTimes)]
  /\ UNCHANGED pending

ShapeIds == {t.shape : t \in picked.trips} \ {Blank}

\* _iter_bus_shape_points.
BusShapePoints == {p \in archive.shapes : p.shape \in ShapeIds}

ReadShapes ==
  /\ Passes("shapes",
            (\E p \in BusShapePoints : ~p.valid) \/ ShapeIds # {p.shape : p \in BusShapePoints},
            "stops")
  /\ picked' = [picked EXCEPT !.shapeCount = Cardinality(BusShapePoints)]
  /\ UNCHANGED pending

UsedStops == {s.stop : s \in BusStopTimes}

ReadStops ==
  /\ Passes("stops",
            \/ \E s \in DOMAIN archive.stops : ~archive.stops[s].valid
            \/ ~(UsedStops \subseteq DOMAIN archive.stops),
            "parents")
  /\ picked' = [picked EXCEPT !.stops = UsedStops]
  /\ pending' = UsedStops

\* Mutant: a parent's own parent is forgotten.
NoGrandparents(parent) == {}

\* A parent that is new among the picked stops is followed in its turn.
NewlyPending(parent) == {parent} \ picked.stops

\* The loop over pending_stop_ids.
FollowParent ==
  /\ stage = "parents"
  /\ \E stop \in pending :
       LET parent == archive.stops[stop].parent
       IN  IF parent = Blank
           THEN pending' = pending \ {stop} /\ UNCHANGED <<stage, picked>>
           ELSE IF parent \notin DOMAIN archive.stops
           THEN stage' = "rejected" /\ UNCHANGED <<picked, pending>>
           ELSE /\ picked' = [picked EXCEPT !.stops = @ \cup {parent}]
                /\ pending' = (pending \ {stop}) \cup NewlyPending(parent)
                /\ UNCHANGED stage
  /\ UNCHANGED <<archive, tables>>

SelectionEnds ==
  /\ pending = {}
  /\ Passes("parents", FALSE, "selected")
  /\ UNCHANGED <<picked, pending>>

-----------------------------------------------------------------------------
\* What the transaction inserts for a new version.
Inserted ==
  [agencies |-> picked.agencies, routes |-> picked.routes, trips |-> picked.trips,
   stops |-> picked.stops, times |-> BusStopTimes, shapes |-> BusShapePoints]

PrimaryKeysHold(t) ==
  /\ ~Repeats(t.routes) /\ ~Repeats(t.trips)
  /\ \A r, s \in t.times : r.trip = s.trip /\ r.sequence = s.sequence => r = s
  /\ \A p, q \in t.shapes : p.shape = q.shape /\ p.sequence = q.sequence => p = q

\* Every value fits its column.
RowsFit ==
  /\ \A a \in archive.agencies : AgencyIdOf(a) \in picked.agencies => a.fits
  /\ \A r \in picked.routes : r.fits
  /\ \A r \in picked.trips : r.fits
  /\ \A r \in BusStopTimes : r.fits
  /\ \A r \in BusShapePoints : r.fits
  /\ \A s \in picked.stops : archive.stops[s].fits

\* Deferred to the end of the transaction.
ForeignKeysHold(t) ==
  /\ \A r \in t.routes : r.agency \in t.agencies
  /\ \A r \in t.trips : r.route \in Ids(t.routes)
  /\ \A r \in t.times : r.trip \in Ids(t.trips) /\ r.stop \in t.stops

\* The second pass has found as many rows as the first.
CountsAgree(t) ==
  Cardinality(t.times) = picked.timeCount /\ Cardinality(t.shapes) = picked.shapeCount

ImportRows ==
  /\ stage = "selected"
  /\ IF /\ RowsFit /\ PrimaryKeysHold(Inserted)
        /\ ForeignKeysHold(Inserted) /\ CountsAgree(Inserted)
     THEN stage' = "imported" /\ tables' = Inserted
     ELSE stage' = "failed" /\ UNCHANGED tables
  /\ UNCHANGED <<archive, picked, pending>>

\* _load_active_bus_ids: the routes, and trips with their routes.
ActiveBusIds(t) ==
  LET routes == Ids({r \in t.routes : r.type = "bus"})
  IN  [routes |-> routes,
       tripRoutes |-> {<<u.id, u.route>> : u \in {v \in t.trips : v.route \in routes}}]

SelectionNext ==
  \/ ReadAgencies \/ ReadRoutes \/ ReadTrips \/ ReadStopTimes \/ ReadShapes \/ ReadStops
  \/ FollowParent \/ SelectionEnds \/ ImportRows

SelectionSpec == SelectionInit /\ [][SelectionNext]_selectionVars
-----------------------------------------------------------------------------
\* What a reader of the whole archive would call its bus timetable.
BusRoutes == {r \in archive.routes : r.type = "bus"}
BusTrips == {t \in archive.trips : t.route \in Ids(BusRoutes)}
BusCalls == {c \in archive.times : c.trip \in Ids(BusTrips)}

\* The stops of its calls, with every station that one of the stops is part of.
IsClosed(stops) ==
  /\ {c.stop : c \in BusCalls} \subseteq stops
  /\ \A s \in stops : archive.stops[s].parent \in stops \cup {Blank}

ClosedSets == {stops \in SUBSET DOMAIN archive.stops : IsClosed(stops)}

\* An import takes the bus timetable with everything it depends on and nothing
\* else, not a stop, a call or a shape that only trains use, in whatever order
\* parents are followed; and realtime entities are known by just these trips.
ImportsExactlyTheBuses ==
  stage = "imported" =>
    /\ tables.routes = {[r EXCEPT !.agency = AgencyOf(r)] : r \in BusRoutes}
    /\ tables.agencies = {AgencyOf(r) : r \in BusRoutes}
    /\ tables.trips = BusTrips /\ tables.times = BusCalls
    /\ tables.stops \in ClosedSets /\ \A stops \in ClosedSets : tables.stops \subseteq stops
    /\ tables.shapes = {p \in archive.shapes : p.shape \in {t.shape : t \in BusTrips} \ {Blank}}
    /\ ActiveBusIds(tables).tripRoutes = {<<t.id, t.route>> : t \in BusTrips}

AgenciesAreSound ==
  LET rows == archive.agencies
  IN  /\ rows # {} /\ ~Repeats(rows) /\ \A a \in rows : a.valid
      /\ Cardinality(rows) > 1 => Blank \notin Ids(rows)

RoutesAreSound ==
  /\ \A r \in archive.routes : r.type # "invalid"
  /\ \A r \in BusRoutes : /\ r.id # Blank
                          /\ \/ r.agency \in AllAgencies
                             \/ r.agency = Blank /\ Cardinality(archive.agencies) = 1

TripsAreSound == \A t \in BusTrips : t.id # Blank /\ t.valid

TimesAreSound == BusCalls # {} /\ \A c \in BusCalls : c.valid

ShapesAreSound ==
  \A t \in BusTrips :
    /\ t.shape # Blank => \E p \in archive.shapes : p.shape = t.shape
    /\ \A p \in archive.shapes : p.shape = t.shape => p.valid

StopsAreSound == \A s \in DOMAIN archive.stops : archive.stops[s].valid

\* Nothing is wrong with the bus rows. What is wrong with rows of other modes
\* does not matter, but for agencies, stops and route types nobody can read.
Sound ==
  /\ AgenciesAreSound /\ RoutesAreSound /\ TripsAreSound /\ TimesAreSound /\ ShapesAreSound
  /\ StopsAreSound /\ ClosedSets # {}

\* A sound archive is never turned away, a circle of parents included, and no
\* other is taken. The transaction then fails only on a repeated key or on a
\* value that its column does not take: never on a row that refers to none, nor
\* because the two passes count differently.
AcceptanceIsExact ==
  /\ stage = "rejected" => ~Sound
  /\ stage \in {"selected", "imported", "failed"} => Sound
  /\ stage = "failed" => ~PrimaryKeysHold(Inserted) \/ ~RowsFit
================================================================================
