----------------------------- MODULE RealtimeFeed ------------------------------
(***************************************************************************)
(* How the bus collector reads a realtime response: every entity is parsed *)
(* (parse_realtime_feed), what is not a bus of the active static feed is   *)
(* dropped (filter_bus_realtime_feed), repeated states give way to the     *)
(* last one, and the delays are counted (bus_poll_delay_histogram).        *)
(*                                                                         *)
(* A response is a sequence of entities as the JSON decoder returns them,  *)
(* each with the fields that identities, routes and delays depend on. The  *)
(* hash that names a trip, a vehicle or a state is the value it is         *)
(* computed from. NTA gives no two entities the same id.                   *)
(***************************************************************************)
EXTENDS Integers, Sequences, FiniteSets, FiniteSetsExt

CONSTANTS
  None,       \* a field that is missing, empty or unreadable
  Responses,  \* inputs: sequences of entities
  TripRoutes, \* bus trips of the active feed, with their routes
  RouteIds    \* its bus routes

ASSUME ResponsesAssumption ==
  /\ \A t \in DOMAIN TripRoutes : TripRoutes[t] \in RouteIds
  /\ None \notin RouteIds \cup DOMAIN TripRoutes
  /\ \A r \in Responses :
       /\ Len(r) \in Nat /\ DOMAIN r = 1 .. Len(r)
       /\ \A i, j \in DOMAIN r : r[i].id = r[j].id /\ r[i].id # None => i = j
       /\ \A i \in DOMAIN r : Len(r[i].stops) \in Nat /\ DOMAIN r[i].stops = 1 .. Len(r[i].stops)

VARIABLES
  response,
  read,       \* entities parsed
  feed,       \* ParsedRealtimeFeed
  isFiltered,
  histogram   \* the counts of the poll, None before they are made

feedVars == <<response, read, feed, isFiltered, histogram>>

FeedInit ==
  /\ response \in Responses
  /\ read = 0
  /\ feed = [updates |-> <<>>, trips |-> {}, vehicles |-> <<>>]
  /\ isFiltered = FALSE
  /\ histogram = None

-----------------------------------------------------------------------------
(* Conversions of fields.                                                  *)

\* Codes of the protobuf enumerations; a name stands for itself.
TripCodes == [c \in {"0", "1", "2", "3", "5", "6", "7"} |->
  CASE c = "0" -> "SCHEDULED" [] c = "1" -> "ADDED" [] c = "2" -> "UNSCHEDULED"
    [] c = "3" -> "CANCELED" [] c = "5" -> "REPLACEMENT" [] c = "6" -> "DUPLICATED"
    [] c = "7" -> "DELETED"]
StopCodes == [c \in {"0", "1", "2", "3"} |->
  CASE c = "0" -> "SCHEDULED" [] c = "1" -> "SKIPPED" [] c = "2" -> "NO_DATA"
    [] c = "3" -> "UNSCHEDULED"]

TripRelationship(value) ==
  IF value = None THEN "SCHEDULED"
  ELSE IF value \in DOMAIN TripCodes THEN TripCodes[value] ELSE value

StopRelationship(value) == IF value \in DOMAIN StopCodes THEN StopCodes[value] ELSE value

FirstOf(value, default) == IF value # None THEN value ELSE default

\* _trip_instance_key: an entity id names the trip, else its descriptor, else
\* the vehicle.
TripKey(id, trip, vehicle) ==
  IF id # None THEN <<"entity", id, trip.start>>
  ELSE IF trip.id # None \/ trip.route # None \/ trip.start # None
  THEN <<"trip", trip.id, trip.route, trip.start>>
  ELSE <<"vehicle", vehicle>>

\* _vehicle_instance_key.
VehicleKey(id, vehicle, tripKey) ==
  IF vehicle.id # None THEN <<"vehicle", vehicle.id>>
  ELSE IF vehicle.label # None THEN <<"label", vehicle.label>>
  ELSE IF id # None THEN <<"entity", id>>
  ELSE tripKey

StopKey(u) ==
  IF u.sequence # None THEN <<"sequence", u.sequence>>
  ELSE IF u.stop # None THEN <<"stop_id", u.stop>>
  ELSE <<"unknown">>

StateKey(u) == <<u.key, StopKey(u)>>

DelayOf(u) == FirstOf(u.departure, u.arrival)

-----------------------------------------------------------------------------
(* Parsing.                                                                *)

ParsedTrip(e) ==
  [key |-> TripKey(e.id, e.trip, e.vehicle.id), trip |-> e.trip.id, route |-> e.trip.route,
   relationship |-> TripRelationship(e.trip.relationship)]

\* _parse_trip_update_entity: a stop without a relationship has its trip's.
ParsedUpdates(e) ==
  [i \in DOMAIN e.stops |->
     [key |-> ParsedTrip(e).key, trip |-> e.trip.id, route |-> e.trip.route,
      sequence |-> e.stops[i].sequence, stop |-> e.stops[i].stop,
      relationship |-> FirstOf(StopRelationship(e.stops[i].relationship),
                               ParsedTrip(e).relationship),
      arrival |-> e.stops[i].arrival, departure |-> e.stops[i].departure]]

\* _parse_vehicle_position_entity.
ParsedVehicle(e) ==
  [key |-> VehicleKey(e.id, e.vehicle, ParsedTrip(e).key), trip |-> e.trip.id,
   route |-> e.trip.route, relationship |-> ParsedTrip(e).relationship]

\* trip_freshness is a dict: a trip that comes again replaces the one before.
WithTrip(trips, t) == {u \in trips : u.key # t.key} \cup {t}

\* Whether e carries a "trip_update" or a "vehicle"; it may carry both.
Reports(e, kind) == ~e.deleted /\ kind \in e.kinds

ParseEntity ==
  /\ read < Len(response)
  /\ read' = read + 1
  /\ LET e == response[read']
     IN  feed' = [updates |-> IF Reports(e, "trip_update") THEN feed.updates \o ParsedUpdates(e)
                              ELSE feed.updates,
                  trips |-> IF Reports(e, "trip_update") THEN WithTrip(feed.trips, ParsedTrip(e))
                            ELSE feed.trips,
                  vehicles |-> IF Reports(e, "vehicle") THEN Append(feed.vehicles, ParsedVehicle(e))
                               ELSE feed.vehicles]
  /\ UNCHANGED <<response, isFiltered, histogram>>

-----------------------------------------------------------------------------
(* Buses only.                                                             *)

Dynamic == {"ADDED", "UNSCHEDULED", "CANCELED", "REPLACEMENT", "DUPLICATED", "DELETED"}

\* Mutant: the route that a response names comes before the static feed's.
BelievedRoute(x) ==
  IF x.route \in RouteIds /\ (x.trip \in DOMAIN TripRoutes \/ x.relationship \in Dynamic)
  THEN x.route
  ELSE IF x.trip \in DOMAIN TripRoutes THEN TripRoutes[x.trip] ELSE None

\* _resolve_bus_route.
BusRoute(x) ==
  IF x.trip \in DOMAIN TripRoutes THEN TripRoutes[x.trip]
  ELSE IF x.route \in RouteIds /\ x.relationship \in Dynamic THEN x.route ELSE None

\* The rows that have a route keep their places, with gaps.
OnRoute(rows, route(_)) ==
  [i \in {j \in DOMAIN rows : route(rows[j]) # None} |-> [rows[i] EXCEPT !.route = route(rows[i])]]

\* The trip that a stop update belongs to.
TripOf(u) == CHOOSE t \in feed.trips : t.key = u.key

\* accepted_trip_keys: a stop update takes over the route of its trip.
AcceptedRoute(u) == BusRoute(TripOf(u))

FilterBuses ==
  /\ read = Len(response) /\ ~isFiltered
  /\ isFiltered' = TRUE
  /\ feed' = [updates |-> OnRoute(feed.updates, AcceptedRoute),
              trips |-> {[t EXCEPT !.route = BusRoute(t)] :
                         t \in {u \in feed.trips : BusRoute(u) # None}},
              vehicles |-> OnRoute(feed.vehicles, BusRoute)]
  /\ UNCHANGED <<response, read, histogram>>

\* Mutant: whatever the response repeats counts again.
AllUpdates == DOMAIN feed.updates

\* current: the places of the last states of each stop of a trip.
CurrentUpdates ==
  LET rows == feed.updates
  IN  {i \in DOMAIN rows :
         \A j \in DOMAIN rows : StateKey(rows[j]) = StateKey(rows[i]) => j <= i}

Excluded == {"CANCELED", "CANCELLED", "DELETED"}

Counts(u) ==
  /\ DelayOf(u) # None
  /\ TripOf(u).relationship \notin Excluded
  /\ u.relationship \notin Excluded \cup {"SKIPPED", "NO_DATA"}

Scopes(u) == {<<"network", "">>, <<"route", u.route>>} \cup
             (IF u.stop # None THEN {<<"stop", u.stop>>} ELSE {})

Counted == {i \in CurrentUpdates : Counts(feed.updates[i])}

InBin(bin) ==
  {i \in Counted : bin[1] \in Scopes(feed.updates[i]) /\ bin[2] = DelayOf(feed.updates[i])}

\* bus_poll_delay_histogram: how often each delay occurs in each scope.
CountDelays ==
  /\ isFiltered /\ histogram = None
  /\ LET bins == UNION {{<<scope, DelayOf(feed.updates[i])>> : scope \in Scopes(feed.updates[i])} :
                        i \in Counted}
     IN  histogram' = [bin \in bins |-> Cardinality(InBin(bin))]
  /\ UNCHANGED <<response, read, feed, isFiltered>>

FeedNext == ParseEntity \/ FilterBuses \/ CountDelays

FeedSpec == FeedInit /\ [][FeedNext]_feedVars
-----------------------------------------------------------------------------
\* The entities of the response that report a trip or a vehicle.
Reported(kind) == {i \in DOMAIN response : Reports(response[i], kind)}

\* Whether an entity is about a bus of the active feed: its trip is one, or an
\* extra or changed trip on a bus route. Of reports of the same trip without
\* entity ids the last one decides.
IsBus(i) ==
  LET e == response[i]
  IN  \/ e.trip.id \in DOMAIN TripRoutes
      \/ /\ e.trip.route \in RouteIds
         /\ TripRelationship(e.trip.relationship) \in Dynamic

Deciding(i) ==
  Max({j \in Reported("trip_update") : ParsedTrip(response[j]).key = ParsedTrip(response[i]).key})

BusReports == {i \in Reported("trip_update") : IsBus(Deciding(i))}

TripsPass == {t.key : t \in feed.trips} = {ParsedTrip(response[i]).key : i \in BusReports}

UpdatesPass ==
  {StateKey(feed.updates[i]) : i \in DOMAIN feed.updates} =
  UNION {{StateKey(ParsedUpdates(response[i])[n]) : n \in DOMAIN response[i].stops} :
         i \in BusReports}

VehiclesPass ==
  {feed.vehicles[i].key : i \in DOMAIN feed.vehicles} =
  {ParsedVehicle(response[i]).key : i \in {j \in Reported("vehicle") : IsBus(j)}}

\* A trip that the static feed knows is on the route it has there, whatever
\* the response names; any other is on a bus route that a report of it names.
IsOnItsRoute(row) ==
  IF row.trip \in DOMAIN TripRoutes THEN row.route = TripRoutes[row.trip]
  ELSE /\ row.route \in RouteIds
       /\ \E i \in DOMAIN response :
            response[i].trip.id = row.trip /\ response[i].trip.route = row.route

RoutesAreTheirs ==
  /\ \A t \in feed.trips : IsOnItsRoute(t)
  /\ \A i \in DOMAIN feed.updates : IsOnItsRoute(feed.updates[i])
  /\ \A i \in DOMAIN feed.vehicles : IsOnItsRoute(feed.vehicles[i])

\* The board and the map get the buses of the response and nothing else: no
\* train, no scheduled trip that the static feed does not know, although its
\* route is a bus route, and no prediction without its trip. Each is on its own
\* route, a prediction of a trip that is reported in pieces among them.
OnlyBusesPass ==
  isFiltered => TripsPass /\ UpdatesPass /\ VehiclesPass /\ RoutesAreTheirs

\* All that the bins of one kind count, each of them as often as it counts.
Total(kind) ==
  Cardinality(UNION {{bin} \X (1 .. histogram[bin]) :
                     bin \in {b \in DOMAIN histogram : b[1][1] = kind}})

\* A poll counts each prediction once, by its last report, wherever the response
\* repeats it; never one of a cancelled trip or a skipped stop. Network and
\* routes add up to the same number, and stops to those that name one.
PredictionsCountOnce ==
  histogram # None =>
    LET keys == {StateKey(feed.updates[i]) : i \in DOMAIN feed.updates}
        last == [k \in keys |-> Max({i \in DOMAIN feed.updates : StateKey(feed.updates[i]) = k})]
        counted == {k \in keys : Counts(feed.updates[last[k]])}
    IN  /\ Total("network") = Cardinality(counted)
        /\ Total("route") = Total("network")
        /\ Total("stop") = Cardinality({k \in counted : feed.updates[last[k]].stop # None})
================================================================================
