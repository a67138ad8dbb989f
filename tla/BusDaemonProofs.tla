---------------------------- MODULE BusDaemonProofs ----------------------------
(***************************************************************************)
(* Of three parts of the bus collector that share no state. Of             *)
(* GtfsSelection, for any archive: the import takes the bus timetable and  *)
(* no more, and turns away just the archives that are not sound. Of        *)
(* RealtimeFeed, for any response: only buses pass, and a prediction       *)
(* counts once. Of DaemonLife, with and without a key: its types, and no   *)
(* task works on a closed pool.                                            *)
(***************************************************************************)
EXTENDS GtfsSelection, RealtimeFeed, DaemonLife, FiniteSetTheorems, FunctionTheorems,
        WellFoundedInduction, TLAPS

-----------------------------------------------------------------------------
(* GtfsSelection.                                                          *)

(* The import of a static feed: which files have been read.                *)

Selected == {"selected", "imported", "failed"}
AfterStops == {"parents"} \cup Selected
AfterShapes == {"stops"} \cup AfterStops
AfterTimes == {"shapes"} \cup AfterShapes
AfterTrips == {"stop_times"} \cup AfterTimes
AfterRoutes == {"trips"} \cup AfterTrips
AfterAgencies == {"routes"} \cup AfterRoutes

\* What has been picked from it.
RoutesArePicked ==
  /\ picked.agencies = {AgencyOf(r) : r \in BusRoutes}
  /\ picked.routes = {[r EXCEPT !.agency = AgencyOf(r)] : r \in BusRoutes}
  /\ picked.agencies \subseteq AllAgencies

\* Of the stops picked so far all but the pending ones have their parents, and
\* none is missing from a set of stops that has its parents.
StopsArePicked ==
  /\ pending \subseteq picked.stops /\ picked.stops \subseteq DOMAIN archive.stops
  /\ {c.stop : c \in BusCalls} \subseteq picked.stops
  /\ \A s \in picked.stops \ pending : archive.stops[s].parent \in picked.stops \cup {Blank}
  /\ \A stops \in ClosedSets : picked.stops \subseteq stops

IsSelection ==
  picked = [agencies |-> picked.agencies, routes |-> picked.routes, trips |-> picked.trips,
            stops |-> picked.stops, timeCount |-> picked.timeCount,
            shapeCount |-> picked.shapeCount]

SelectionInv ==
  /\ archive \in Archives /\ IsSelection
  /\ stage \in {"agencies", "rejected"} \cup AfterAgencies
  /\ stage \in AfterAgencies => AgenciesAreSound
  /\ stage \in AfterRoutes => RoutesAreSound /\ RoutesArePicked
  /\ stage \in AfterTrips => TripsAreSound /\ picked.trips = BusTrips
  /\ stage \in AfterTimes => TimesAreSound /\ picked.timeCount = Cardinality(BusCalls)
  /\ stage \in AfterShapes => ShapesAreSound /\ picked.shapeCount = Cardinality(BusShapePoints)
  /\ stage \in AfterStops => StopsAreSound /\ StopsArePicked
  /\ stage \in Selected => pending = {}
  /\ stage = "imported" => tables = Inserted
  /\ stage = "failed" => ~PrimaryKeysHold(Inserted) \/ ~RowsFit
  /\ stage = "rejected" => ~Sound

-----------------------------------------------------------------------------
LEMMA ArchiveTypes ==
  ASSUME archive \in Archives
  PROVE  /\ archive.agencies \subseteq AgencyRow /\ IsFiniteSet(archive.agencies)
         /\ archive.routes \subseteq RouteRow /\ archive.trips \subseteq TripRow
         /\ archive.times \subseteq TimeRow /\ archive.shapes \subseteq ShapeRow
         /\ DOMAIN archive.stops \subseteq StopId
         /\ \A s \in DOMAIN archive.stops : archive.stops[s] \in StopRow
BY SelectionAssumption DEF Archives, IsFileOf

\* A route that names no agency has one exactly if the feed has only one.
LEMMA OnlyAgency ==
  ASSUME archive \in Archives, AgenciesAreSound
  PROVE  /\ Cardinality(AllAgencies) = 1 <=> Cardinality(archive.agencies) = 1
         /\ Cardinality(archive.agencies) = 1 => AllAgencies # {}
         /\ Blank \notin AllAgencies
<1> DEFINE rows == archive.agencies
<1>1. rows # {} /\ ~Repeats(rows) /\ (Cardinality(rows) > 1 => Blank \notin Ids(rows))
  BY DEF AgenciesAreSound
<1>2. IsFiniteSet(rows) /\ Cardinality(rows) \in Nat /\ Cardinality(rows) # 0
  BY <1>1, ArchiveTypes, FS_CardinalityType, FS_EmptySet
<1>3. Blank \notin AllAgencies /\ AllAgencies # {}
  BY <1>1, SelectionAssumption DEF AllAgencies, AgencyIdOf
<1>4. CASE Blank \in Ids(rows)
  <2>1. Cardinality(rows) = 1
    BY <1>1, <1>2, <1>4
  <2>2. PICK a \in rows : a.id = Blank
    BY <1>4 DEF Ids
  <2>3. PICK x : rows = {x}
    BY <1>2, <2>1, FS_Singleton
  <2>4. AllAgencies = {DefaultAgency}
    BY <2>2, <2>3 DEF AllAgencies, AgencyIdOf
  <2> QED
    BY <1>3, <2>1, <2>4, FS_Singleton
<1>5. CASE Blank \notin Ids(rows)
  <2>1. AllAgencies = Ids(rows)
    BY <1>5 DEF AllAgencies, AgencyIdOf, Ids
  <2> QED
    BY <1>1, <1>3, <2>1 DEF Repeats
<1> QED
  BY <1>4, <1>5

\* The agency that a route is given is one of the feed for sound routes only.
LEMMA AgencyIsKnown ==
  ASSUME archive \in Archives, AgenciesAreSound, NEW r
  PROVE  AgencyOf(r) \in AllAgencies <=>
           r.agency \in AllAgencies \/ (r.agency = Blank /\ Cardinality(archive.agencies) = 1)
<1>1. CASE r.agency = Blank /\ Cardinality(AllAgencies) = 1
  <2>1. AgencyOf(r) \in AllAgencies
    BY <1>1, OnlyAgency DEF AgencyOf
  <2> QED
    BY <1>1, <2>1, OnlyAgency
<1>2. CASE ~(r.agency = Blank /\ Cardinality(AllAgencies) = 1)
  BY <1>2, OnlyAgency DEF AgencyOf
<1> QED
  BY <1>1, <1>2

\* The picked rows are those of the buses.
LEMMA PickedRows ==
  ASSUME archive \in Archives, RoutesArePicked
  PROVE  /\ Ids(picked.routes) = Ids(BusRoutes)
         /\ {t \in archive.trips : t.route \in Ids(picked.routes)} = BusTrips
         /\ picked.trips = BusTrips =>
              /\ BusStopTimes = BusCalls
              /\ ShapeIds = {t.shape : t \in BusTrips} \ {Blank}
              /\ UsedStops = {c.stop : c \in BusCalls}
<1>1. \A r \in BusRoutes : [r EXCEPT !.agency = AgencyOf(r)].id = r.id
  BY ArchiveTypes DEF BusRoutes, RouteRow
<1>2. Ids(picked.routes) = Ids(BusRoutes)
  <2>1. \A q \in picked.routes : \E r \in BusRoutes : q = [r EXCEPT !.agency = AgencyOf(r)]
    BY DEF RoutesArePicked
  <2>2. \A r \in BusRoutes : [r EXCEPT !.agency = AgencyOf(r)] \in picked.routes
    BY DEF RoutesArePicked
  <2>3. \A q \in picked.routes : q.id \in Ids(BusRoutes)
    BY <1>1, <2>1 DEF Ids
  <2>4. \A r \in BusRoutes : r.id \in Ids(picked.routes)
    BY <1>1, <2>2 DEF Ids
  <2> QED
    BY <2>3, <2>4 DEF Ids
<1> QED
  BY <1>2 DEF BusTrips, BusStopTimes, BusCalls, ShapeIds, UsedStops

\* Nothing that is read off the archive changes.
LEMMA ArchiveKept ==
  ASSUME archive' = archive
  PROVE  /\ Sound' = Sound /\ ClosedSets' = ClosedSets
         /\ BusRoutes' = BusRoutes /\ BusTrips' = BusTrips /\ BusCalls' = BusCalls
         /\ AllAgencies' = AllAgencies /\ \A r : AgencyOf(r)' = AgencyOf(r)
         /\ AgenciesAreSound' = AgenciesAreSound /\ RoutesAreSound' = RoutesAreSound
         /\ TripsAreSound' = TripsAreSound /\ TimesAreSound' = TimesAreSound
         /\ ShapesAreSound' = ShapesAreSound /\ StopsAreSound' = StopsAreSound
<1>1. AllAgencies' = AllAgencies /\ BusRoutes' = BusRoutes
  BY DEF AllAgencies, BusRoutes
<1>2. \A r : AgencyOf(r)' = AgencyOf(r)
  BY <1>1 DEF AgencyOf
<1>3. BusTrips' = BusTrips
  BY <1>1 DEF BusTrips, Ids
<1>4. BusCalls' = BusCalls
  BY <1>3 DEF BusCalls, Ids
<1>5. ClosedSets' = ClosedSets
  BY <1>4 DEF ClosedSets, IsClosed
<1>6. /\ AgenciesAreSound' = AgenciesAreSound /\ RoutesAreSound' = RoutesAreSound
      /\ TripsAreSound' = TripsAreSound /\ TimesAreSound' = TimesAreSound
      /\ ShapesAreSound' = ShapesAreSound /\ StopsAreSound' = StopsAreSound
  BY <1>1, <1>3, <1>4 DEF AgenciesAreSound, RoutesAreSound, TripsAreSound, TimesAreSound,
     ShapesAreSound, StopsAreSound, Ids, Repeats
<1>7. Sound' = Sound
  BY <1>5, <1>6 DEF Sound
<1> QED
  BY <1>1, <1>2, <1>3, <1>4, <1>5, <1>6, <1>7

-----------------------------------------------------------------------------
(* The steps of the import keep the invariant.                             *)

LEMMA AgenciesKeep == ASSUME SelectionInv, ReadAgencies PROVE SelectionInv'
<1>1. archive' = archive /\ picked' = picked /\ stage = "agencies" /\ archive \in Archives
  BY DEF ReadAgencies, Passes, SelectionInv
<1>2. stage' \in {"routes", "rejected"}
  BY DEF ReadAgencies, Passes
<1>3. stage' = "routes" => AgenciesAreSound'
  <2> SUFFICES ASSUME stage' = "routes" PROVE AgenciesAreSound
    BY <1>1, ArchiveKept
  <2>1. /\ archive.agencies # {} /\ ~Repeats(archive.agencies)
        /\ \A a \in archive.agencies : a.valid /\ (a.id = Blank => Cardinality(archive.agencies) = 1)
    BY DEF ReadAgencies, Passes
  <2>2. Cardinality(archive.agencies) > 1 => Blank \notin Ids(archive.agencies)
    BY <2>1 DEF Ids
  <2> QED
    BY <2>1, <2>2 DEF AgenciesAreSound
<1>4. stage' = "rejected" => ~Sound'
  <2> SUFFICES ASSUME stage' = "rejected", AgenciesAreSound PROVE FALSE
    BY <1>1, ArchiveKept DEF Sound
  <2>1. PICK a \in archive.agencies : a.id = Blank /\ Cardinality(archive.agencies) # 1
    BY DEF ReadAgencies, Passes, AgenciesAreSound
  <2>2. Cardinality(archive.agencies) \in Nat /\ Cardinality(archive.agencies) # 0
    BY <1>1, <2>1, ArchiveTypes, FS_CardinalityType, FS_EmptySet
  <2> QED
    BY <2>1, <2>2 DEF AgenciesAreSound, Ids
<1>5. IsSelection'
  BY <1>1 DEF SelectionInv, IsSelection
<1> QED
  BY <1>1, <1>2, <1>3, <1>4, <1>5
     DEF SelectionInv, AfterAgencies, AfterRoutes, AfterTrips, AfterTimes, AfterShapes, AfterStops,
         Selected

LEMMA RoutesKeep == ASSUME SelectionInv, ReadRoutes PROVE SelectionInv'
<1>1. archive' = archive /\ stage = "routes" /\ archive \in Archives /\ AgenciesAreSound
  BY DEF ReadRoutes, Passes, SelectionInv, AfterAgencies
<1>2. stage' \in {"trips", "rejected"}
  BY DEF ReadRoutes, Passes
<1>3. /\ picked' = [picked EXCEPT !.agencies = {AgencyOf(r) : r \in BusRoutes},
                                  !.routes = {[r EXCEPT !.agency = AgencyOf(r)] : r \in BusRoutes}]
      /\ IsSelection
  BY DEF ReadRoutes, BusRoutes, SelectionInv
<1>4. stage' = IF \/ BusRoutes = {} \/ \E r \in archive.routes : r.type = "invalid"
                  \/ \E r \in BusRoutes : r.id = Blank \/ AgencyOf(r) \notin AllAgencies
               THEN "rejected" ELSE "trips"
  BY DEF ReadRoutes, Passes, BusRoutes
<1>5. \A r : AgencyOf(r) \in AllAgencies <=>
               r.agency \in AllAgencies \/ (r.agency = Blank /\ Cardinality(archive.agencies) = 1)
  BY <1>1, AgencyIsKnown
<1>6. IsSelection'
  BY <1>3 DEF IsSelection
<1>7. stage' = "trips" => RoutesAreSound' /\ RoutesArePicked'
  <2> SUFFICES ASSUME stage' = "trips"
               PROVE  /\ RoutesAreSound
                      /\ picked'.agencies = {AgencyOf(r) : r \in BusRoutes}
                      /\ picked'.routes = {[r EXCEPT !.agency = AgencyOf(r)] : r \in BusRoutes}
                      /\ picked'.agencies \subseteq AllAgencies
    BY <1>1, ArchiveKept DEF RoutesArePicked
  <2>1. /\ \A r \in archive.routes : r.type # "invalid"
        /\ \A r \in BusRoutes : r.id # Blank /\ AgencyOf(r) \in AllAgencies
    BY <1>4
  <2>2. RoutesAreSound
    BY <1>5, <2>1 DEF RoutesAreSound
  <2>3. /\ picked'.agencies = {AgencyOf(r) : r \in BusRoutes}
        /\ picked'.routes = {[r EXCEPT !.agency = AgencyOf(r)] : r \in BusRoutes}
    BY <1>3 DEF IsSelection
  <2> QED
    BY <2>1, <2>2, <2>3
<1>8. stage' = "rejected" => ~Sound'
  <2> SUFFICES ASSUME stage' = "rejected", Sound PROVE FALSE
    BY <1>1, ArchiveKept
  <2>1. BusRoutes # {}
    BY DEF Sound, TimesAreSound, BusCalls, BusTrips, Ids
  <2>2. \A r \in BusRoutes : r.id # Blank /\ AgencyOf(r) \in AllAgencies
    BY <1>5 DEF Sound, RoutesAreSound
  <2> QED
    BY <1>4, <2>1, <2>2 DEF Sound, RoutesAreSound
<1> QED
  BY <1>1, <1>2, <1>6, <1>7, <1>8, ArchiveKept
     DEF SelectionInv, AfterAgencies, AfterRoutes, AfterTrips, AfterTimes, AfterShapes, AfterStops,
         Selected

LEMMA TripsKeep == ASSUME SelectionInv, ReadTrips PROVE SelectionInv'
<1>1. /\ archive' = archive /\ stage = "trips" /\ archive \in Archives /\ IsSelection
      /\ AgenciesAreSound /\ RoutesAreSound /\ RoutesArePicked
  BY DEF ReadTrips, Passes, SelectionInv, AfterAgencies, AfterRoutes
<1>2. {t \in archive.trips : t.route \in Ids(picked.routes)} = BusTrips
  BY <1>1, PickedRows
<1>3. picked' = [picked EXCEPT !.trips = BusTrips]
  BY <1>2 DEF ReadTrips
<1>4. stage' = IF BusTrips = {} \/ \E t \in BusTrips : t.id = Blank \/ ~t.valid
               THEN "rejected" ELSE "stop_times"
  BY <1>2 DEF ReadTrips, Passes
<1>5. IsSelection' /\ picked'.trips = BusTrips
      /\ picked'.agencies = picked.agencies /\ picked'.routes = picked.routes
  BY <1>1, <1>3 DEF IsSelection
<1>6. RoutesArePicked'
  BY <1>1, <1>5, ArchiveKept DEF RoutesArePicked
<1>7. stage' = "stop_times" => TripsAreSound
  BY <1>4 DEF TripsAreSound
<1>8. stage' = "rejected" => ~Sound
  BY <1>4 DEF Sound, TripsAreSound, TimesAreSound, BusCalls, Ids
<1> QED
  BY <1>1, <1>4, <1>5, <1>6, <1>7, <1>8, ArchiveKept
     DEF SelectionInv, AfterAgencies, AfterRoutes, AfterTrips, AfterTimes, AfterShapes, AfterStops,
         Selected

\* A closed set of stops exists only if every call names a stop.
LEMMA SoundCalls ==
  ASSUME archive \in Archives, ClosedSets # {}
  PROVE  /\ {c.stop : c \in BusCalls} \subseteq DOMAIN archive.stops
         /\ \A c \in BusCalls : c.stop # Blank
<1>1. PICK stops \in SUBSET DOMAIN archive.stops : {c.stop : c \in BusCalls} \subseteq stops
  BY DEF ClosedSets, IsClosed
<1>2. Blank \notin DOMAIN archive.stops
  BY ArchiveTypes, SelectionAssumption
<1> QED
  BY <1>1, <1>2

LEMMA TimesKeep == ASSUME SelectionInv, ReadStopTimes PROVE SelectionInv'
<1>1. /\ archive' = archive /\ stage = "stop_times" /\ archive \in Archives /\ IsSelection
      /\ AgenciesAreSound /\ RoutesAreSound /\ RoutesArePicked
      /\ TripsAreSound /\ picked.trips = BusTrips
  BY DEF ReadStopTimes, Passes, SelectionInv, AfterAgencies, AfterRoutes, AfterTrips
<1>2. BusStopTimes = BusCalls
  BY <1>1, PickedRows
<1>3. picked' = [picked EXCEPT !.timeCount = Cardinality(BusCalls)]
  BY <1>2 DEF ReadStopTimes
<1>4. stage' = IF BusCalls = {} \/ \E c \in BusCalls : c.stop = Blank \/ ~c.valid
               THEN "rejected" ELSE "shapes"
  BY <1>2 DEF ReadStopTimes, Passes
<1>5. /\ IsSelection' /\ picked'.timeCount = Cardinality(BusCalls) /\ picked'.trips = picked.trips
      /\ picked'.agencies = picked.agencies /\ picked'.routes = picked.routes
  BY <1>1, <1>3 DEF IsSelection
<1>6. RoutesArePicked'
  BY <1>1, <1>5, ArchiveKept DEF RoutesArePicked
<1>7. stage' = "shapes" => TimesAreSound
  BY <1>4 DEF TimesAreSound
<1>8. stage' = "rejected" => ~Sound
  BY <1>1, <1>4, SoundCalls DEF Sound, TimesAreSound
<1> QED
  BY <1>1, <1>4, <1>5, <1>6, <1>7, <1>8, ArchiveKept
     DEF SelectionInv, AfterAgencies, AfterRoutes, AfterTrips, AfterTimes, AfterShapes, AfterStops,
         Selected

LEMMA ShapesKeep == ASSUME SelectionInv, ReadShapes PROVE SelectionInv'
<1>1. /\ archive' = archive /\ stage = "shapes" /\ archive \in Archives /\ IsSelection
      /\ AgenciesAreSound /\ RoutesAreSound /\ RoutesArePicked
      /\ TripsAreSound /\ picked.trips = BusTrips
      /\ TimesAreSound /\ picked.timeCount = Cardinality(BusCalls)
  BY DEF ReadShapes, Passes, SelectionInv, AfterAgencies, AfterRoutes, AfterTrips, AfterTimes
<1>2. ShapeIds = {t.shape : t \in BusTrips} \ {Blank}
  BY <1>1, PickedRows
<1>3. picked' = [picked EXCEPT !.shapeCount = Cardinality(BusShapePoints)]
  BY DEF ReadShapes
<1>4. stage' = IF (\E p \in BusShapePoints : ~p.valid) \/ ShapeIds # {p.shape : p \in BusShapePoints}
               THEN "rejected" ELSE "stops"
  BY DEF ReadShapes, Passes
<1>5. /\ IsSelection' /\ picked'.timeCount = picked.timeCount /\ picked'.trips = picked.trips
      /\ picked'.agencies = picked.agencies /\ picked'.routes = picked.routes
      /\ picked'.shapeCount = Cardinality(BusShapePoints)
  BY <1>1, <1>3 DEF IsSelection
<1>6. RoutesArePicked' /\ BusShapePoints' = BusShapePoints
  BY <1>1, <1>5, ArchiveKept DEF RoutesArePicked, BusShapePoints, ShapeIds
<1>7. \A p \in archive.shapes : p.shape # Blank
  BY <1>1, ArchiveTypes, SelectionAssumption DEF ShapeRow
<1>8. ShapesAreSound <=> /\ \A p \in BusShapePoints : p.valid
                         /\ ShapeIds = {p.shape : p \in BusShapePoints}
  <2>1. \A p : p \in BusShapePoints <=> p \in archive.shapes /\ \E t \in BusTrips : t.shape = p.shape
    BY <1>2, <1>7 DEF BusShapePoints
  <2>2. (\A p \in BusShapePoints : p.valid)
          <=> \A t \in BusTrips : \A p \in archive.shapes : p.shape = t.shape => p.valid
    BY <2>1
  <2>3. {p.shape : p \in BusShapePoints} \subseteq ShapeIds
    BY DEF BusShapePoints
  <2>4. ShapeIds = {p.shape : p \in BusShapePoints}
          <=> \A t \in BusTrips : t.shape # Blank => \E p \in archive.shapes : p.shape = t.shape
    <3>1. ASSUME ShapeIds = {p.shape : p \in BusShapePoints}, NEW t \in BusTrips, t.shape # Blank
          PROVE  \E p \in archive.shapes : p.shape = t.shape
      BY <1>2, <3>1 DEF BusShapePoints
    <3>2. ASSUME \A t \in BusTrips : t.shape # Blank => \E p \in archive.shapes : p.shape = t.shape,
                 NEW s \in ShapeIds
          PROVE  s \in {p.shape : p \in BusShapePoints}
      <4>1. PICK t \in BusTrips : t.shape = s /\ s # Blank
        BY <1>2, <3>2
      <4>2. PICK p \in archive.shapes : p.shape = s
        BY <3>2, <4>1
      <4>3. p \in BusShapePoints
        BY <2>1, <4>1, <4>2
      <4> QED
        BY <4>2, <4>3
    <3> QED
      BY <2>3, <3>1, <3>2
  <2> QED
    BY <2>2, <2>4 DEF ShapesAreSound
<1> QED
  BY <1>1, <1>4, <1>5, <1>6, <1>8, ArchiveKept
     DEF SelectionInv, AfterAgencies, AfterRoutes, AfterTrips, AfterTimes, AfterShapes, AfterStops,
         Selected, Sound

LEMMA StopsKeep == ASSUME SelectionInv, ReadStops PROVE SelectionInv'
<1>1. /\ archive' = archive /\ stage = "stops" /\ archive \in Archives /\ IsSelection
      /\ AgenciesAreSound /\ RoutesAreSound /\ RoutesArePicked
      /\ TripsAreSound /\ picked.trips = BusTrips
      /\ TimesAreSound /\ picked.timeCount = Cardinality(BusCalls)
      /\ ShapesAreSound /\ picked.shapeCount = Cardinality(BusShapePoints)
  BY DEF ReadStops, Passes, SelectionInv, AfterAgencies, AfterRoutes, AfterTrips, AfterTimes,
         AfterShapes
<1>2. UsedStops = {c.stop : c \in BusCalls}
  BY <1>1, PickedRows
<1>3. picked' = [picked EXCEPT !.stops = UsedStops] /\ pending' = UsedStops
  BY DEF ReadStops
<1>4. stage' = IF \/ \E s \in DOMAIN archive.stops : ~archive.stops[s].valid
                  \/ ~(UsedStops \subseteq DOMAIN archive.stops)
               THEN "rejected" ELSE "parents"
  BY DEF ReadStops, Passes
<1>5. /\ IsSelection' /\ picked'.timeCount = picked.timeCount /\ picked'.trips = picked.trips
      /\ picked'.agencies = picked.agencies /\ picked'.routes = picked.routes
      /\ picked'.shapeCount = picked.shapeCount /\ picked'.stops = UsedStops
  BY <1>1, <1>3 DEF IsSelection
<1>6. RoutesArePicked' /\ BusShapePoints' = BusShapePoints
  BY <1>1, <1>5, ArchiveKept DEF RoutesArePicked, BusShapePoints, ShapeIds
<1>7. stage' = "parents" => StopsAreSound /\ StopsArePicked'
  <2> SUFFICES ASSUME stage' = "parents" PROVE StopsAreSound /\ StopsArePicked'
    OBVIOUS
  <2>1. StopsAreSound /\ UsedStops \subseteq DOMAIN archive.stops
    BY <1>4 DEF StopsAreSound
  <2>2. \A stops \in ClosedSets : UsedStops \subseteq stops
    BY <1>2 DEF ClosedSets, IsClosed
  <2> QED
    BY <1>1, <1>2, <1>3, <1>5, <2>1, <2>2, ArchiveKept DEF StopsArePicked
<1>8. stage' = "rejected" => ~Sound
  BY <1>1, <1>2, <1>4, SoundCalls DEF Sound, StopsAreSound
<1> QED
  BY <1>1, <1>4, <1>5, <1>6, <1>7, <1>8, ArchiveKept
     DEF SelectionInv, AfterAgencies, AfterRoutes, AfterTrips, AfterTimes, AfterShapes, AfterStops,
         Selected

LEMMA ParentKeeps == ASSUME SelectionInv, FollowParent PROVE SelectionInv'
<1>1. /\ archive' = archive /\ stage = "parents" /\ archive \in Archives /\ IsSelection
      /\ AgenciesAreSound /\ RoutesAreSound /\ RoutesArePicked
      /\ TripsAreSound /\ picked.trips = BusTrips
      /\ TimesAreSound /\ picked.timeCount = Cardinality(BusCalls)
      /\ ShapesAreSound /\ picked.shapeCount = Cardinality(BusShapePoints)
      /\ StopsAreSound /\ StopsArePicked
  BY DEF FollowParent, SelectionInv, AfterAgencies, AfterRoutes, AfterTrips, AfterTimes,
         AfterShapes, AfterStops
<1>2. PICK stop \in pending :
        LET parent == archive.stops[stop].parent
        IN  IF parent = Blank
            THEN pending' = pending \ {stop} /\ UNCHANGED <<stage, picked>>
            ELSE IF parent \notin DOMAIN archive.stops
            THEN stage' = "rejected" /\ UNCHANGED <<picked, pending>>
            ELSE /\ picked' = [picked EXCEPT !.stops = @ \cup {parent}]
                 /\ pending' = (pending \ {stop}) \cup NewlyPending(parent)
                 /\ UNCHANGED stage
  BY DEF FollowParent
<1> DEFINE parent == archive.stops[stop].parent
<1>3. stop \in picked.stops /\ \A stops \in ClosedSets : parent \in stops \cup {Blank}
  BY <1>1, <1>2 DEF StopsArePicked, ClosedSets, IsClosed
<1>4. CASE parent = Blank
  <2>1. pending' = pending \ {stop} /\ stage' = stage /\ picked' = picked
    BY <1>2, <1>4
  <2>2. StopsArePicked'
    BY <1>1, <1>4, <2>1, ArchiveKept DEF StopsArePicked
  <2>3. RoutesArePicked' /\ BusShapePoints' = BusShapePoints /\ IsSelection'
    BY <1>1, <2>1, ArchiveKept DEF RoutesArePicked, BusShapePoints, ShapeIds, IsSelection
  <2> QED
    BY <1>1, <2>1, <2>2, <2>3, ArchiveKept
       DEF SelectionInv, AfterAgencies, AfterRoutes, AfterTrips, AfterTimes, AfterShapes,
           AfterStops, Selected
<1>5. CASE parent # Blank /\ parent \notin DOMAIN archive.stops
  <2>1. stage' = "rejected" /\ picked' = picked
    BY <1>2, <1>5
  <2>2. ~Sound
    BY <1>3, <1>5 DEF Sound, ClosedSets
  <2>3. IsSelection'
    BY <1>1, <2>1 DEF IsSelection
  <2> QED
    BY <1>1, <2>1, <2>2, <2>3, ArchiveKept
       DEF SelectionInv, AfterAgencies, AfterRoutes, AfterTrips, AfterTimes, AfterShapes,
           AfterStops, Selected
<1>6. CASE parent # Blank /\ parent \in DOMAIN archive.stops
  <2>1. /\ picked' = [picked EXCEPT !.stops = picked.stops \cup {parent}] /\ stage' = stage
        /\ pending' = (pending \ {stop}) \cup ({parent} \ picked.stops)
    BY <1>2, <1>6 DEF NewlyPending
  <2>2. /\ IsSelection' /\ picked'.timeCount = picked.timeCount /\ picked'.trips = picked.trips
        /\ picked'.agencies = picked.agencies /\ picked'.routes = picked.routes
        /\ picked'.shapeCount = picked.shapeCount /\ picked'.stops = picked.stops \cup {parent}
    BY <1>1, <2>1 DEF IsSelection
  <2>3. StopsArePicked'
    <3>1. pending' \subseteq picked'.stops /\ picked'.stops \subseteq DOMAIN archive.stops
      BY <1>1, <1>6, <2>1, <2>2 DEF StopsArePicked
    <3>2. \A s \in picked'.stops \ pending' : archive.stops[s].parent \in picked'.stops \cup {Blank}
      BY <1>1, <2>1, <2>2 DEF StopsArePicked
    <3>3. \A stops \in ClosedSets : picked'.stops \subseteq stops
      BY <1>1, <1>3, <1>6, <2>2 DEF StopsArePicked
    <3>4. {c.stop : c \in BusCalls} \subseteq picked'.stops
      BY <1>1, <2>2 DEF StopsArePicked
    <3> QED
      BY <1>1, <3>1, <3>2, <3>3, <3>4, ArchiveKept DEF StopsArePicked
  <2>4. RoutesArePicked' /\ BusShapePoints' = BusShapePoints
    BY <1>1, <2>2, ArchiveKept DEF RoutesArePicked, BusShapePoints, ShapeIds
  <2> QED
    BY <1>1, <2>1, <2>2, <2>3, <2>4, ArchiveKept
       DEF SelectionInv, AfterAgencies, AfterRoutes, AfterTrips, AfterTimes, AfterShapes,
           AfterStops, Selected
<1> QED
  BY <1>4, <1>5, <1>6

\* When no parent is pending the picked stops are the least closed set.
LEMMA PickedIsClosed ==
  ASSUME StopsArePicked, pending = {}
  PROVE  picked.stops \in ClosedSets
BY DEF StopsArePicked, ClosedSets, IsClosed

\* The import never breaks a foreign key, nor do its passes count differently.
LEMMA KeysHold ==
  ASSUME SelectionInv, stage = "selected"
  PROVE  ForeignKeysHold(Inserted) /\ CountsAgree(Inserted)
<1>1. /\ archive \in Archives /\ RoutesArePicked /\ picked.trips = BusTrips /\ StopsArePicked
      /\ picked.timeCount = Cardinality(BusCalls)
      /\ picked.shapeCount = Cardinality(BusShapePoints)
  BY DEF SelectionInv, AfterRoutes, AfterTrips, AfterTimes, AfterShapes, AfterStops, Selected
<1>2. BusStopTimes = BusCalls /\ Ids(picked.routes) = Ids(BusRoutes)
  BY <1>1, PickedRows
<1>3. /\ Inserted.agencies = picked.agencies /\ Inserted.routes = picked.routes
      /\ Inserted.trips = BusTrips /\ Inserted.stops = picked.stops
      /\ Inserted.times = BusCalls /\ Inserted.shapes = BusShapePoints
  BY <1>1, <1>2 DEF Inserted
<1>4. \A r \in picked.routes : r.agency \in picked.agencies
  <2>1. \A r \in BusRoutes : [r EXCEPT !.agency = AgencyOf(r)].agency = AgencyOf(r)
    BY <1>1, ArchiveTypes DEF BusRoutes, RouteRow
  <2>2. \A r \in BusRoutes : AgencyOf(r) \in picked.agencies
    BY <1>1 DEF RoutesArePicked
  <2>3. ASSUME NEW q \in picked.routes PROVE q.agency \in picked.agencies
    <3>1. PICK r \in BusRoutes : q = [r EXCEPT !.agency = AgencyOf(r)]
      BY <1>1, <2>3 DEF RoutesArePicked
    <3> QED
      BY <2>1, <2>2, <3>1
  <2> QED
    BY <2>3
<1>5. \A t \in BusTrips : t.route \in Ids(picked.routes)
  BY <1>2 DEF BusTrips
<1>6. \A c \in BusCalls : c.trip \in Ids(BusTrips) /\ c.stop \in picked.stops
  BY <1>1 DEF BusCalls, StopsArePicked
<1> QED
  BY <1>1, <1>3, <1>4, <1>5, <1>6 DEF ForeignKeysHold, CountsAgree

LEMMA EndKeeps == ASSUME SelectionInv, SelectionEnds PROVE SelectionInv'
<1>1. /\ archive' = archive /\ picked' = picked /\ pending = {} /\ pending' = {}
      /\ stage = "parents" /\ stage' = "selected"
  BY DEF SelectionEnds, Passes
<1>2. /\ RoutesArePicked' = RoutesArePicked /\ BusShapePoints' = BusShapePoints
      /\ IsSelection' = IsSelection /\ StopsArePicked' = StopsArePicked
  BY <1>1, ArchiveKept
     DEF RoutesArePicked, BusShapePoints, ShapeIds, IsSelection, StopsArePicked
<1> QED
  BY <1>1, <1>2, ArchiveKept
     DEF SelectionInv, AfterAgencies, AfterRoutes, AfterTrips, AfterTimes, AfterShapes, AfterStops,
         Selected

LEMMA ImportKeeps == ASSUME SelectionInv, ImportRows PROVE SelectionInv'
<1>1. archive' = archive /\ picked' = picked /\ pending' = pending /\ stage = "selected"
  BY DEF ImportRows
<1>2. \/ stage' = "imported" /\ tables' = Inserted
      \/ stage' = "failed" /\ (~PrimaryKeysHold(Inserted) \/ ~RowsFit)
  BY <1>1, KeysHold DEF ImportRows
<1>3. /\ RoutesArePicked' = RoutesArePicked /\ BusShapePoints' = BusShapePoints
      /\ IsSelection' = IsSelection /\ StopsArePicked' = StopsArePicked
  BY <1>1, ArchiveKept
     DEF RoutesArePicked, BusShapePoints, ShapeIds, IsSelection, StopsArePicked
<1>4. Inserted' = Inserted
  BY <1>1, <1>3 DEF Inserted, BusStopTimes
<1>5. PrimaryKeysHold(Inserted)' = PrimaryKeysHold(Inserted)
  BY <1>4 DEF PrimaryKeysHold, Repeats, Ids
<1>6. RowsFit' = RowsFit
  BY <1>1, <1>3 DEF RowsFit, AgencyIdOf, BusStopTimes
<1> QED
  BY <1>1, <1>2, <1>3, <1>4, <1>5, <1>6, ArchiveKept
     DEF SelectionInv, AfterAgencies, AfterRoutes, AfterTrips, AfterTimes, AfterShapes, AfterStops,
         Selected

LEMMA SelectionInvKept == SelectionInv /\ [SelectionNext]_selectionVars => SelectionInv'
<1>1. CASE UNCHANGED selectionVars
  <2>1. archive' = archive /\ picked' = picked /\ pending' = pending /\ stage' = stage /\ tables' = tables
    BY <1>1 DEF selectionVars
  <2>2. /\ RoutesArePicked' = RoutesArePicked /\ BusShapePoints' = BusShapePoints
        /\ IsSelection' = IsSelection /\ StopsArePicked' = StopsArePicked
    BY <2>1, ArchiveKept
       DEF RoutesArePicked, BusShapePoints, ShapeIds, IsSelection, StopsArePicked
  <2>3. Inserted' = Inserted
    BY <2>1, <2>2 DEF Inserted, BusStopTimes
  <2>4. PrimaryKeysHold(Inserted)' = PrimaryKeysHold(Inserted)
    BY <2>3 DEF PrimaryKeysHold, Repeats, Ids
  <2>5. RowsFit' = RowsFit
    BY <2>1, <2>2 DEF RowsFit, AgencyIdOf, BusStopTimes
  <2> QED
    BY <2>1, <2>2, <2>3, <2>4, <2>5, ArchiveKept DEF SelectionInv
<1> QED
  BY <1>1, AgenciesKeep, RoutesKeep, TripsKeep, TimesKeep, ShapesKeep, StopsKeep, ParentKeeps,
     EndKeeps, ImportKeeps DEF SelectionNext

LEMMA SelectionInvHolds == SelectionSpec => []SelectionInv
<1>1. SelectionInit => SelectionInv
  BY DEF SelectionInit, SelectionInv, IsSelection, NothingPicked, AfterAgencies, AfterRoutes,
         AfterTrips, AfterTimes, AfterShapes, AfterStops, Selected
<1> QED
  BY <1>1, SelectionInvKept, PTL DEF SelectionSpec

\* Whatever the archive holds, and in whatever order parents are followed, the
\* import takes the bus timetable with what it depends on and no more.
THEOREM ImportIsExact == SelectionSpec => []ImportsExactlyTheBuses
<1>1. SelectionInv => ImportsExactlyTheBuses
  <2> SUFFICES ASSUME SelectionInv, stage = "imported"
               PROVE  /\ tables.routes = {[r EXCEPT !.agency = AgencyOf(r)] : r \in BusRoutes}
                      /\ tables.agencies = {AgencyOf(r) : r \in BusRoutes}
                      /\ tables.trips = BusTrips /\ tables.times = BusCalls
                      /\ tables.stops \in ClosedSets
                      /\ \A stops \in ClosedSets : tables.stops \subseteq stops
                      /\ tables.shapes = {p \in archive.shapes :
                                            p.shape \in {t.shape : t \in BusTrips} \ {Blank}}
                      /\ ActiveBusIds(tables).tripRoutes = {<<t.id, t.route>> : t \in BusTrips}
    BY DEF ImportsExactlyTheBuses
  <2>1. /\ archive \in Archives /\ RoutesArePicked /\ picked.trips = BusTrips
        /\ ShapesAreSound /\ StopsArePicked /\ pending = {} /\ tables = Inserted
    BY DEF SelectionInv, AfterRoutes, AfterTrips, AfterTimes, AfterShapes, AfterStops, Selected
  <2>2. /\ BusStopTimes = BusCalls /\ Ids(picked.routes) = Ids(BusRoutes)
        /\ ShapeIds = {t.shape : t \in BusTrips} \ {Blank}
    BY <2>1, PickedRows
  <2>3. /\ tables.trips = BusTrips /\ tables.times = BusCalls /\ tables.stops = picked.stops
        /\ tables.shapes = BusShapePoints /\ tables.routes = picked.routes
        /\ tables.agencies = picked.agencies
    BY <2>1, <2>2 DEF Inserted
  <2>4. tables.stops \in ClosedSets /\ \A stops \in ClosedSets : tables.stops \subseteq stops
    BY <2>1, <2>3, PickedIsClosed DEF StopsArePicked
  <2>5. BusShapePoints = {p \in archive.shapes : p.shape \in {t.shape : t \in BusTrips} \ {Blank}}
    BY <2>2 DEF BusShapePoints
  <2>6. ActiveBusIds(tables).tripRoutes = {<<t.id, t.route>> : t \in BusTrips}
    <3>1. \A q \in picked.routes : q.type = "bus"
      <4>1. \A r \in BusRoutes : [r EXCEPT !.agency = AgencyOf(r)].type = "bus"
        BY <2>1, ArchiveTypes DEF BusRoutes, RouteRow
      <4> QED
        BY <2>1, <4>1 DEF RoutesArePicked
    <3>2. Ids({r \in tables.routes : r.type = "bus"}) = Ids(BusRoutes)
      <4>1. {r \in tables.routes : r.type = "bus"} = picked.routes
        BY <2>3, <3>1
      <4> QED
        BY <2>2, <4>1
    <3>3. {v \in tables.trips : v.route \in Ids(BusRoutes)} = BusTrips
      BY <2>3 DEF BusTrips
    <3> QED
      BY <3>2, <3>3 DEF ActiveBusIds
  <2> QED
    BY <2>1, <2>3, <2>4, <2>5, <2>6 DEF RoutesArePicked
<1> QED
  BY <1>1, SelectionInvHolds, PTL

\* No archive whose bus rows are sound is turned away and no other is taken;
\* what fails later has a repeated key or a value that its column refuses.
THEOREM ArchivesAreJudged == SelectionSpec => []AcceptanceIsExact
<1>1. SelectionInv => AcceptanceIsExact
  <2> SUFFICES ASSUME SelectionInv PROVE AcceptanceIsExact
    OBVIOUS
  <2>1. ASSUME stage \in Selected PROVE Sound
    BY <2>1, PickedIsClosed
       DEF SelectionInv, AfterAgencies, AfterRoutes, AfterTrips, AfterTimes, AfterShapes,
           AfterStops, Selected, Sound
  <2> QED
    BY <2>1 DEF AcceptanceIsExact, SelectionInv, Selected
<1> QED
  BY <1>1, SelectionInvHolds, PTL

-----------------------------------------------------------------------------
(* RealtimeFeed.                                                           *)

(* A realtime response: what has been parsed of it.                        *)

Parsed(kind) == {i \in Reported(kind) : i <= read}

KeyOf(i) == ParsedTrip(response[i]).key

\* A trip that the response reports again is held as it was reported last.
TripsAreParsed ==
  feed.trips = {ParsedTrip(response[i]) :
                i \in {j \in Parsed("trip_update") :
                         \A k \in Parsed("trip_update") : KeyOf(k) = KeyOf(j) => k <= j}}

UpdateOf(i, n) == ParsedUpdates(response[i])[n]

UpdatesAreParsed ==
  /\ feed.updates \in Seq({UpdateOf(p[1], p[2]) : p \in Nat \X Nat})
  /\ \A k \in DOMAIN feed.updates :
       \E i \in Parsed("trip_update") : \E n \in DOMAIN response[i].stops :
         feed.updates[k] = UpdateOf(i, n)
  /\ \A i \in Parsed("trip_update") : \A n \in DOMAIN response[i].stops :
       \E k \in DOMAIN feed.updates : feed.updates[k] = UpdateOf(i, n)

VehiclesAreParsed ==
  /\ feed.vehicles \in Seq({ParsedVehicle(response[i]) : i \in Nat})
  /\ \A k \in DOMAIN feed.vehicles :
       \E i \in Parsed("vehicle") : feed.vehicles[k] = ParsedVehicle(response[i])
  /\ \A i \in Parsed("vehicle") :
       \E k \in DOMAIN feed.vehicles : feed.vehicles[k] = ParsedVehicle(response[i])

FeedInv ==
  /\ response \in Responses /\ read \in 0 .. Len(response)
  /\ ~isFiltered => TripsAreParsed /\ UpdatesAreParsed /\ VehiclesAreParsed
  /\ isFiltered => read = Len(response)
  /\ OnlyBusesPass

-----------------------------------------------------------------------------
LEMMA Responding ==
  ASSUME response \in Responses
  PROVE  /\ Len(response) \in Nat /\ DOMAIN response = 1 .. Len(response)
         /\ \A i \in DOMAIN response :
              /\ Len(response[i].stops) \in Nat
              /\ DOMAIN response[i].stops = 1 .. Len(response[i].stops)
BY ResponsesAssumption

\* What a sequence holds that is made of two.
IsMadeOf(all, s, t) ==
  /\ \A k \in DOMAIN all : (k \in DOMAIN s /\ all[k] = s[k]) \/ \E n \in DOMAIN t : all[k] = t[n]
  /\ \A k \in DOMAIN s : k \in DOMAIN all /\ all[k] = s[k]
  /\ \A n \in DOMAIN t : \E k \in DOMAIN all : all[k] = t[n]

LEMMA Concatenated ==
  ASSUME NEW S, NEW s \in Seq(S), NEW t \in Seq(S), NEW all, all = s \o t
  PROVE  all \in Seq(S) /\ IsMadeOf(all, s, t)
<1>1. /\ all \in Seq(S)
      /\ Len(s) \in Nat /\ Len(t) \in Nat /\ DOMAIN all = 1 .. Len(s) + Len(t)
      /\ DOMAIN s = 1 .. Len(s) /\ DOMAIN t = 1 .. Len(t)
  OBVIOUS
<1>2. \A k \in DOMAIN s : all[k] = s[k]
  OBVIOUS
<1>3. \A n \in DOMAIN t : all[Len(s) + n] = t[n]
  OBVIOUS
<1>4. ASSUME NEW k \in DOMAIN all, k \notin DOMAIN s
      PROVE  k - Len(s) \in DOMAIN t /\ all[k] = t[k - Len(s)]
  <2>1. k - Len(s) \in DOMAIN t /\ Len(s) + (k - Len(s)) = k
    BY <1>1, <1>4
  <2> QED
    BY <1>3, <2>1
<1>5. ASSUME NEW n \in DOMAIN t
      PROVE  Len(s) + n \in DOMAIN all
  BY <1>1
<1>6. /\ \A k \in DOMAIN all : (k \in DOMAIN s /\ all[k] = s[k]) \/ \E n \in DOMAIN t : all[k] = t[n]
      /\ \A k \in DOMAIN s : k \in DOMAIN all /\ all[k] = s[k]
  BY <1>1, <1>2, <1>4
<1>7. \A n \in DOMAIN t : \E k \in DOMAIN all : all[k] = t[n]
  BY <1>3, <1>5
<1> QED
  BY <1>1, <1>6, <1>7 DEF IsMadeOf

LEMMA Appended ==
  ASSUME NEW S, NEW s \in Seq(S), NEW x \in S
  PROVE  /\ Append(s, x) \in Seq(S)
         /\ \A k \in DOMAIN Append(s, x) :
              (k \in DOMAIN s /\ Append(s, x)[k] = s[k]) \/ Append(s, x)[k] = x
         /\ \A k \in DOMAIN s : k \in DOMAIN Append(s, x) /\ Append(s, x)[k] = s[k]
         /\ \E k \in DOMAIN Append(s, x) : Append(s, x)[k] = x
<1>1. /\ Append(s, x) \in Seq(S) /\ DOMAIN Append(s, x) = 1 .. Len(s) + 1
      /\ DOMAIN s = 1 .. Len(s) /\ Len(s) \in Nat
  OBVIOUS
<1>2. Append(s, x)[Len(s) + 1] = x /\ \A k \in DOMAIN s : Append(s, x)[k] = s[k]
  OBVIOUS
<1> QED
  BY <1>1, <1>2

LEMMA UpdateRows ==
  ASSUME response \in Responses, NEW i \in DOMAIN response
  PROVE  /\ ParsedUpdates(response[i]) \in Seq({UpdateOf(p[1], p[2]) : p \in Nat \X Nat})
         /\ DOMAIN ParsedUpdates(response[i]) = DOMAIN response[i].stops
         /\ \A n \in DOMAIN response[i].stops : ParsedUpdates(response[i])[n] = UpdateOf(i, n)
<1> DEFINE S == {UpdateOf(p[1], p[2]) : p \in Nat \X Nat}
           len == Len(response[i].stops)
<1>1. len \in Nat /\ DOMAIN response[i].stops = 1 .. len /\ i \in Nat
  BY Responding
<1>2. DOMAIN ParsedUpdates(response[i]) = 1 .. len
  BY <1>1 DEF ParsedUpdates
<1>3. \A n \in 1 .. len : ParsedUpdates(response[i])[n] = UpdateOf(i, n)
  BY DEF UpdateOf
<1>4. \A n \in 1 .. len : UpdateOf(i, n) \in S
  <2> SUFFICES ASSUME NEW n \in 1 .. len PROVE UpdateOf(i, n) \in S
    OBVIOUS
  <2>1. <<i, n>> \in Nat \X Nat /\ <<i, n>>[1] = i /\ <<i, n>>[2] = n
    BY <1>1
  <2> QED
    BY <2>1
<1> HIDE DEF S
<1>5. ParsedUpdates(response[i]) = [n \in 1 .. len |-> UpdateOf(i, n)]
  BY <1>1 DEF ParsedUpdates, UpdateOf
<1>6. ParsedUpdates(response[i]) \in [1 .. len -> S]
  BY <1>4, <1>5
<1>7. ParsedUpdates(response[i]) \in Seq(S)
  BY <1>1, <1>6
<1> QED
  BY <1>1, <1>2, <1>3, <1>7 DEF S

-----------------------------------------------------------------------------
(* Parsing goes on.                                                        *)

LEMMA ParsedNext ==
  ASSUME FeedInv, ParseEntity, NEW kind
  PROVE  /\ response' = response /\ read + 1 \in DOMAIN response /\ read' = read + 1
         /\ Parsed(kind)' = Parsed(kind) \cup
              (IF Reports(response[read + 1], kind) THEN {read + 1} ELSE {})
         /\ Parsed(kind) \subseteq 1 .. read
<1>1. /\ response' = response /\ read' = read + 1 /\ read < Len(response) /\ read \in Nat
      /\ Len(response) \in Nat /\ DOMAIN response = 1 .. Len(response)
  <2>1. response \in Responses /\ read \in 0 .. Len(response)
    BY DEF FeedInv
  <2>2. response' = response /\ read' = read + 1 /\ read < Len(response)
    BY DEF ParseEntity
  <2> QED
    BY <2>1, <2>2, Responding
<1>2. Parsed(kind) = {i \in 1 .. Len(response) : Reports(response[i], kind) /\ i <= read}
  BY <1>1 DEF Parsed, Reported
<1>3. Parsed(kind)' = {i \in 1 .. Len(response) : Reports(response[i], kind) /\ i <= read + 1}
  BY <1>1 DEF Parsed, Reported, Reports
<1> HIDE DEF Parsed
<1>4. Parsed(kind)' = Parsed(kind) \cup
        (IF Reports(response[read + 1], kind) THEN {read + 1} ELSE {})
  BY <1>1, <1>2, <1>3
<1> QED
  BY <1>1, <1>2, <1>4

LEMMA TripsAdvance ==
  ASSUME FeedInv, ParseEntity, TripsAreParsed
  PROVE  TripsAreParsed'
<1> DEFINE i == read + 1
           e == response[i]
           now == Parsed("trip_update")
<1>1. /\ response' = response /\ now \subseteq 1 .. read
      /\ Parsed("trip_update")' = now \cup (IF Reports(e, "trip_update") THEN {i} ELSE {})
      /\ read \in Nat
  <2>1. response \in Responses /\ read \in 0 .. Len(response)
    BY DEF FeedInv
  <2> QED
    BY <2>1, ParsedNext, Responding
<1>2. feed'.trips = IF Reports(e, "trip_update") THEN WithTrip(feed.trips, ParsedTrip(e))
                    ELSE feed.trips
  BY <1>1, ParsedNext DEF ParseEntity
<1> DEFINE Last(S) == {j \in S : \A k \in S : KeyOf(k) = KeyOf(j) => k <= j}
<1>3. feed.trips = {ParsedTrip(response[j]) : j \in Last(now)}
  BY DEF TripsAreParsed
<1>4. \A j : KeyOf(j)' = KeyOf(j)
  BY <1>1 DEF KeyOf
<1>5. TripsAreParsed' <=> feed'.trips = {ParsedTrip(response[j]) : j \in Last(Parsed("trip_update")')}
  BY <1>1, <1>4 DEF TripsAreParsed
<1>6. CASE ~Reports(e, "trip_update")
  BY <1>1, <1>2, <1>3, <1>5, <1>6
<1>7. CASE Reports(e, "trip_update")
  <2>1. Last(now \cup {i}) = {j \in Last(now) : KeyOf(j) # KeyOf(i)} \cup {i}
    BY <1>1
  <2>2. feed'.trips = {t \in feed.trips : t.key # KeyOf(i)} \cup {ParsedTrip(e)}
    BY <1>2, <1>7 DEF WithTrip, KeyOf
  <2>3. \A j : ParsedTrip(response[j]).key = KeyOf(j)
    BY DEF KeyOf
  <2> HIDE DEF Last
  <2>4. {t \in feed.trips : t.key # KeyOf(i)}
          = {ParsedTrip(response[j]) : j \in {k \in Last(now) : KeyOf(k) # KeyOf(i)}}
    BY <1>3, <2>3
  <2>5. feed'.trips = {ParsedTrip(response[j]) : j \in Last(now \cup {i})}
    BY <2>1, <2>2, <2>4
  <2> QED
    BY <1>1, <1>5, <1>7, <2>5
<1> QED
  BY <1>6, <1>7

LEMMA UpdatesAdvance ==
  ASSUME FeedInv, ParseEntity, UpdatesAreParsed
  PROVE  UpdatesAreParsed'
<1> DEFINE S == {UpdateOf(p[1], p[2]) : p \in Nat \X Nat}
           i == read + 1
           new == ParsedUpdates(response[i])
<1>1. /\ response' = response /\ i \in DOMAIN response
      /\ Parsed("trip_update")' =
           Parsed("trip_update") \cup (IF Reports(response[i], "trip_update") THEN {i} ELSE {})
  BY ParsedNext
<1>2. feed'.updates = IF Reports(response[i], "trip_update") THEN feed.updates \o new
                      ELSE feed.updates
  BY <1>1, ParsedNext DEF ParseEntity
<1>3. \A j, n : UpdateOf(j, n)' = UpdateOf(j, n)
  BY <1>1 DEF UpdateOf
<1>4. S' = S
  BY <1>3
<1>5. /\ new \in Seq(S) /\ DOMAIN new = DOMAIN response[i].stops
      /\ \A n \in DOMAIN response[i].stops : new[n] = UpdateOf(i, n)
  BY <1>1, UpdateRows DEF FeedInv
<1>6. /\ feed.updates \in Seq(S)
      /\ \A k \in DOMAIN feed.updates :
           \E j \in Parsed("trip_update") : \E n \in DOMAIN response[j].stops :
             feed.updates[k] = UpdateOf(j, n)
      /\ \A j \in Parsed("trip_update") : \A n \in DOMAIN response[j].stops :
           \E k \in DOMAIN feed.updates : feed.updates[k] = UpdateOf(j, n)
  BY DEF UpdatesAreParsed
<1>7. SUFFICES
        /\ feed'.updates \in Seq(S)
        /\ \A k \in DOMAIN feed'.updates :
             \E j \in Parsed("trip_update")' : \E n \in DOMAIN response[j].stops :
               feed'.updates[k] = UpdateOf(j, n)
        /\ \A j \in Parsed("trip_update")' : \A n \in DOMAIN response[j].stops :
             \E k \in DOMAIN feed'.updates : feed'.updates[k] = UpdateOf(j, n)
  BY <1>1, <1>3, <1>4 DEF UpdatesAreParsed
<1> HIDE DEF S, new
<1>8. CASE ~Reports(response[i], "trip_update")
  BY <1>1, <1>2, <1>6, <1>8
<1>9. CASE Reports(response[i], "trip_update")
  <2> DEFINE all == feed.updates \o new
  <2>1. feed'.updates = all /\ Parsed("trip_update")' = Parsed("trip_update") \cup {i}
    BY <1>1, <1>2, <1>9
  <2>2. all \in Seq(S) /\ IsMadeOf(all, feed.updates, new)
    BY <1>5, <1>6, Concatenated
  <2> HIDE DEF all, i
  <2>3. ASSUME NEW k \in DOMAIN all
        PROVE  \E j \in Parsed("trip_update")' : \E n \in DOMAIN response[j].stops :
                 all[k] = UpdateOf(j, n)
    <3>1. CASE k \in DOMAIN feed.updates /\ all[k] = feed.updates[k]
      BY <1>6, <2>1, <3>1
    <3>2. CASE \E n \in DOMAIN new : all[k] = new[n]
      BY <1>5, <2>1, <3>2
    <3> QED
      BY <2>2, <2>3, <3>1, <3>2 DEF IsMadeOf
  <2>4. ASSUME NEW j \in Parsed("trip_update")', NEW n \in DOMAIN response[j].stops
        PROVE  \E k \in DOMAIN all : all[k] = UpdateOf(j, n)
    BY <1>5, <1>6, <2>1, <2>2 DEF IsMadeOf
  <2> QED
    BY <2>1, <2>2, <2>3, <2>4
<1> QED
  BY <1>8, <1>9

LEMMA VehiclesAdvance ==
  ASSUME FeedInv, ParseEntity, VehiclesAreParsed
  PROVE  VehiclesAreParsed'
<1> DEFINE S == {ParsedVehicle(response[j]) : j \in Nat}
           i == read + 1
           new == ParsedVehicle(response[i])
<1>1. /\ response' = response /\ i \in Nat
      /\ Parsed("vehicle")' =
           Parsed("vehicle") \cup (IF Reports(response[i], "vehicle") THEN {i} ELSE {})
  <2>1. response \in Responses /\ read \in 0 .. Len(response)
    BY DEF FeedInv
  <2> QED
    BY <2>1, ParsedNext, Responding
<1>2. feed'.vehicles = IF Reports(response[i], "vehicle") THEN Append(feed.vehicles, new)
                       ELSE feed.vehicles
  BY <1>1, ParsedNext DEF ParseEntity
<1>3. S' = S /\ new \in S
  BY <1>1
<1>4. /\ feed.vehicles \in Seq(S)
      /\ \A k \in DOMAIN feed.vehicles :
           \E j \in Parsed("vehicle") : feed.vehicles[k] = ParsedVehicle(response[j])
      /\ \A j \in Parsed("vehicle") :
           \E k \in DOMAIN feed.vehicles : feed.vehicles[k] = ParsedVehicle(response[j])
  BY DEF VehiclesAreParsed
<1>5. SUFFICES
        /\ feed'.vehicles \in Seq(S)
        /\ \A k \in DOMAIN feed'.vehicles :
             \E j \in Parsed("vehicle")' : feed'.vehicles[k] = ParsedVehicle(response[j])
        /\ \A j \in Parsed("vehicle")' :
             \E k \in DOMAIN feed'.vehicles : feed'.vehicles[k] = ParsedVehicle(response[j])
  BY <1>1, <1>3 DEF VehiclesAreParsed
<1>6. CASE ~Reports(response[i], "vehicle")
  BY <1>1, <1>2, <1>4, <1>6
<1>7. CASE Reports(response[i], "vehicle")
  <2> DEFINE all == Append(feed.vehicles, new)
  <2>1. feed'.vehicles = all /\ Parsed("vehicle")' = Parsed("vehicle") \cup {i}
        /\ new = ParsedVehicle(response[i])
    BY <1>1, <1>2, <1>7
  <2> HIDE DEF S, new
  <2>2. /\ all \in Seq(S)
        /\ \A k \in DOMAIN all :
             (k \in DOMAIN feed.vehicles /\ all[k] = feed.vehicles[k]) \/ all[k] = new
        /\ \A k \in DOMAIN feed.vehicles : k \in DOMAIN all /\ all[k] = feed.vehicles[k]
        /\ \E k \in DOMAIN all : all[k] = new
    BY <1>3, <1>4, Appended
  <2> HIDE DEF all, i
  <2>3. \A k \in DOMAIN all : \E j \in Parsed("vehicle")' : all[k] = ParsedVehicle(response[j])
    BY <1>4, <2>1, <2>2
  <2>4. \A j \in Parsed("vehicle")' : \E k \in DOMAIN all : all[k] = ParsedVehicle(response[j])
    BY <1>4, <2>1, <2>2
  <2> QED
    BY <2>1, <2>2, <2>3, <2>4
<1> QED
  BY <1>6, <1>7

-----------------------------------------------------------------------------
(* Filtering.                                                              *)

LEMMA LeastOfNats ==
  ASSUME NEW S, S \subseteq Nat, S # {}
  PROVE  \E x \in S : \A y \in S : x <= y
<1> DEFINE R == {p \in Nat \X Nat : p[1] < p[2]}
<1>1. IsWellFoundedOn(R, Nat)
  BY NatLessThanWellFounded DEF OpToRel
<1> HIDE DEF R
<1>2. PICK x \in S : \A y \in S : ~(<<y, x>> \in R)
  BY <1>1, WFMin
<1>3. \A y \in S : ~(y < x)
  BY <1>2 DEF R
<1> QED
  BY <1>3

LEMMA GreatestOfNats ==
  ASSUME NEW S, S \subseteq Nat, S # {}, NEW bound \in Nat, \A y \in S : y <= bound
  PROVE  \E x \in S : \A y \in S : y <= x
<1> DEFINE B == {b \in Nat : \A y \in S : y <= b}
<1>1. PICK b \in B : \A c \in B : b <= c
  <2>1. bound \in B
    OBVIOUS
  <2> QED
    BY <2>1, LeastOfNats
<1>2. CASE b \in S
  BY <1>1, <1>2
<1>3. CASE b \notin S
  <2>1. \A y \in S : y <= b - 1 /\ y \in Nat
    <3> TAKE y \in S
    <3>1. y \in Nat /\ y <= b /\ y # b /\ b \in Nat
      BY <1>1, <1>3
    <3> QED
      BY <3>1
  <2>2. b - 1 \in Nat
    <3>1. PICK y \in S : TRUE
      OBVIOUS
    <3>2. y \in Nat /\ y <= b - 1 /\ b \in Nat
      BY <2>1, <1>1
    <3> QED
      BY <3>2
  <2>3. b - 1 \in B
    BY <2>1, <2>2
  <2> QED
    BY <1>1, <2>3
<1> QED
  BY <1>2, <1>3

LEMMA MaxOfNats ==
  ASSUME NEW S, S \subseteq Nat, S # {}, NEW bound \in Nat, \A y \in S : y <= bound
  PROVE  Max(S) \in S /\ \A y \in S : y <= Max(S)
<1>1. \E x \in S : \A y \in S : x >= y
  BY GreatestOfNats
<1> QED
  BY <1>1 DEF Max

\* The report that decides about a trip is the last one of its key.
LEMMA DecidingIsLast ==
  ASSUME response \in Responses, NEW i \in Reported("trip_update")
  PROVE  /\ Deciding(i) \in Reported("trip_update") /\ KeyOf(Deciding(i)) = KeyOf(i)
         /\ \A k \in Reported("trip_update") : KeyOf(k) = KeyOf(i) => k <= Deciding(i)
<1> DEFINE same == {j \in Reported("trip_update") : KeyOf(j) = KeyOf(i)}
<1>1. same \subseteq Nat /\ i \in same /\ Len(response) \in Nat /\ \A j \in same : j <= Len(response)
  BY Responding DEF Reported
<1>2. Deciding(i) = Max(same)
  BY DEF Deciding, KeyOf
<1> HIDE DEF same
<1>3. Deciding(i) \in same /\ \A k \in same : k <= Deciding(i)
  BY <1>1, <1>2, MaxOfNats
<1> QED
  BY <1>3 DEF same

\* A row has a route exactly if it is about a bus, and then one of the feed.
LEMMA BusesHaveRoutes ==
  ASSUME NEW x, NEW i, x.trip = response[i].trip.id, x.route = response[i].trip.route,
         x.relationship = TripRelationship(response[i].trip.relationship)
  PROVE  /\ BusRoute(x) # None <=> IsBus(i)
         /\ BusRoute(x) # None => BusRoute(x) \in RouteIds
BY ResponsesAssumption DEF BusRoute, IsBus

\* A row with a route is on its own.
LEMMA BusesKeepTheirRoutes ==
  ASSUME NEW i \in DOMAIN response,
         NEW x, x.trip = response[i].trip.id, x.route = response[i].trip.route,
         BusRoute(x) # None, NEW y, y.trip = x.trip, y.route = BusRoute(x)
  PROVE  IsOnItsRoute(y)
BY ResponsesAssumption DEF BusRoute, IsOnItsRoute

\* Reports with one key are of one trip.
LEMMA SameTrip ==
  ASSUME response \in Responses, NEW i \in DOMAIN response, NEW j \in DOMAIN response,
         KeyOf(i) = KeyOf(j)
  PROVE  response[i].trip.id = response[j].trip.id
<1> DEFINE key(k) == TripKey(response[k].id, response[k].trip, response[k].vehicle.id)
<1>1. \A k : KeyOf(k) = key(k)
  BY DEF KeyOf, ParsedTrip
<1>2. \A k : /\ response[k].id # None => key(k)[1] = "entity" /\ key(k)[2] = response[k].id
             /\ response[k].id = None /\ response[k].trip.id # None =>
                  key(k)[1] = "trip" /\ key(k)[2] = response[k].trip.id
             /\ response[k].id = None => \/ key(k)[1] = "trip" /\ key(k)[2] = response[k].trip.id
                                         \/ key(k)[1] = "vehicle" /\ response[k].trip.id = None
  BY DEF TripKey
<1> HIDE DEF key
<1>3. key(i) = key(j)
  BY <1>1
<1>4. CASE response[i].id # None \/ response[j].id # None
  <2>1. response[i].id = response[j].id
    BY <1>2, <1>3, <1>4
  <2> QED
    BY <1>4, <2>1, ResponsesAssumption
<1>5. CASE response[i].id = None /\ response[j].id = None
  BY <1>2, <1>3, <1>5
<1> QED
  BY <1>4, <1>5

\* The trip of a stop update is held as the deciding report has it.
LEMMA TripOfUpdate ==
  ASSUME response \in Responses, TripsAreParsed, read = Len(response),
         NEW i \in Reported("trip_update"), NEW u, u.key = KeyOf(i)
  PROVE  TripOf(u) = ParsedTrip(response[Deciding(i)])
<1> DEFINE d == Deciding(i)
<1>1. Parsed("trip_update") = Reported("trip_update")
  BY Responding DEF Parsed, Reported
<1>2. /\ d \in Reported("trip_update") /\ KeyOf(d) = KeyOf(i)
      /\ \A k \in Reported("trip_update") : KeyOf(k) = KeyOf(i) => k <= d
  BY DecidingIsLast
<1> HIDE DEF d
<1>3. ParsedTrip(response[d]) \in feed.trips /\ ParsedTrip(response[d]).key = u.key
  BY <1>1, <1>2 DEF TripsAreParsed, KeyOf
<1>4. ASSUME NEW t \in feed.trips, t.key = u.key
      PROVE  t = ParsedTrip(response[d])
  <2>1. PICK j \in Reported("trip_update") :
          /\ t = ParsedTrip(response[j])
          /\ \A k \in Reported("trip_update") : KeyOf(k) = KeyOf(j) => k <= j
    BY <1>1, <1>4 DEF TripsAreParsed
  <2>2. KeyOf(j) = KeyOf(i)
    BY <1>4, <2>1 DEF KeyOf
  <2>3. j <= d /\ d <= j /\ j \in Nat /\ d \in Nat
    BY <1>2, <2>1, <2>2, Responding DEF Reported
  <2>4. j = d
    BY <2>3
  <2> QED
    BY <2>1, <2>4
<1> QED
  BY <1>3, <1>4 DEF TripOf, d

LEMMA UpdateFields ==
  ASSUME response \in Responses, NEW i \in DOMAIN response, NEW n \in DOMAIN response[i].stops
  PROVE  /\ UpdateOf(i, n).key = KeyOf(i)
         /\ UpdateOf(i, n).trip = response[i].trip.id
         /\ \A x : [UpdateOf(i, n) EXCEPT !.route = x].route = x
         /\ \A x : [UpdateOf(i, n) EXCEPT !.route = x].trip = UpdateOf(i, n).trip
         /\ \A x : StateKey([UpdateOf(i, n) EXCEPT !.route = x]) = StateKey(UpdateOf(i, n))
BY DEF UpdateOf, ParsedUpdates, KeyOf, StateKey, StopKey

LEMMA FilteredTrips ==
  ASSUME response \in Responses, TripsAreParsed, read = Len(response), FilterBuses
  PROVE  /\ {t.key : t \in feed'.trips} = {KeyOf(i) : i \in BusReports}
         /\ \A t \in feed'.trips : IsOnItsRoute(t)
<1>1. Parsed("trip_update") = Reported("trip_update")
  BY Responding DEF Parsed, Reported
<1>2. feed'.trips = {[t EXCEPT !.route = BusRoute(t)] : t \in {u \in feed.trips : BusRoute(u) # None}}
  BY DEF FilterBuses
<1>3. \A i : LET t == ParsedTrip(response[i])
             IN  /\ BusRoute(t) # None <=> IsBus(i)
                 /\ [t EXCEPT !.route = BusRoute(t)].key = KeyOf(i)
  BY BusesHaveRoutes DEF ParsedTrip, KeyOf
<1>4. ASSUME NEW t \in feed'.trips
      PROVE  \E i \in Reported("trip_update") : IsBus(Deciding(i)) /\ KeyOf(i) = t.key
  <2>1. PICK u \in feed.trips : BusRoute(u) # None /\ t = [u EXCEPT !.route = BusRoute(u)]
    BY <1>2, <1>4
  <2>2. PICK i \in Reported("trip_update") :
          /\ u = ParsedTrip(response[i])
          /\ \A k \in Reported("trip_update") : KeyOf(k) = KeyOf(i) => k <= i
    BY <1>1 DEF TripsAreParsed
  <2>3. Deciding(i) <= i /\ i <= Deciding(i) /\ i \in Nat /\ Deciding(i) \in Nat
    BY <2>2, DecidingIsLast, Responding DEF Reported
  <2>4. Deciding(i) = i
    BY <2>3
  <2> QED
    BY <1>3, <2>1, <2>2, <2>4
<1>5. ASSUME NEW i \in Reported("trip_update"), IsBus(Deciding(i))
      PROVE  \E t \in feed'.trips : t.key = KeyOf(i)
  <2>1. /\ Deciding(i) \in Reported("trip_update") /\ KeyOf(Deciding(i)) = KeyOf(i)
        /\ \A k \in Reported("trip_update") : KeyOf(k) = KeyOf(i) => k <= Deciding(i)
    BY DecidingIsLast
  <2>2. ParsedTrip(response[Deciding(i)]) \in feed.trips
    BY <1>1, <2>1 DEF TripsAreParsed
  <2> QED
    BY <1>2, <1>3, <1>5, <2>1, <2>2
<1>6. ASSUME NEW t \in feed'.trips PROVE IsOnItsRoute(t)
  <2>1. PICK u \in feed.trips : BusRoute(u) # None /\ t = [u EXCEPT !.route = BusRoute(u)]
    BY <1>2, <1>6
  <2>2. PICK i \in Reported("trip_update") : u = ParsedTrip(response[i])
    BY <1>1, <2>1 DEF TripsAreParsed
  <2>3. /\ i \in DOMAIN response
        /\ u.trip = response[i].trip.id /\ u.route = response[i].trip.route
        /\ t.trip = u.trip /\ t.route = BusRoute(u)
    BY <2>1, <2>2 DEF Reported, ParsedTrip
  <2> QED
    BY <2>1, <2>3, BusesKeepTheirRoutes
<1> QED
  BY <1>4, <1>5, <1>6 DEF BusReports

LEMMA FilteredUpdates ==
  ASSUME response \in Responses, TripsAreParsed, UpdatesAreParsed, read = Len(response), FilterBuses
  PROVE  /\ {StateKey(feed'.updates[k]) : k \in DOMAIN feed'.updates} =
              UNION {{StateKey(UpdateOf(i, n)) : n \in DOMAIN response[i].stops} : i \in BusReports}
         /\ \A k \in DOMAIN feed'.updates : IsOnItsRoute(feed'.updates[k])
<1> DEFINE rows == feed.updates
           kept == {k \in DOMAIN rows : AcceptedRoute(rows[k]) # None}
<1>1. /\ Parsed("trip_update") = Reported("trip_update") /\ Reported("trip_update") \subseteq DOMAIN response
      /\ BusReports \subseteq Reported("trip_update")
  BY Responding DEF Parsed, Reported, BusReports
<1>2. feed'.updates = [k \in kept |-> [rows[k] EXCEPT !.route = AcceptedRoute(rows[k])]]
  BY DEF FilterBuses, OnRoute
<1>3. ASSUME NEW i \in Reported("trip_update"), NEW n \in DOMAIN response[i].stops
      PROVE  /\ AcceptedRoute(UpdateOf(i, n)) # None <=> i \in BusReports
             /\ AcceptedRoute(UpdateOf(i, n)) # None =>
                  \A y : y.trip = response[i].trip.id /\ y.route = AcceptedRoute(UpdateOf(i, n))
                         => IsOnItsRoute(y)
  <2>1. UpdateOf(i, n).key = KeyOf(i)
    BY <1>1, UpdateFields
  <2>2. TripOf(UpdateOf(i, n)) = ParsedTrip(response[Deciding(i)])
    BY <2>1, TripOfUpdate
  <2> DEFINE t == ParsedTrip(response[Deciding(i)])
  <2>3. /\ t.trip = response[Deciding(i)].trip.id /\ t.route = response[Deciding(i)].trip.route
        /\ t.relationship = TripRelationship(response[Deciding(i)].trip.relationship)
    BY DEF ParsedTrip
  <2> HIDE DEF t
  <2>4. BusRoute(t) # None <=> IsBus(Deciding(i))
    BY <2>3, BusesHaveRoutes
  <2>5. t.trip = response[i].trip.id /\ Deciding(i) \in DOMAIN response
    <3>1. Deciding(i) \in DOMAIN response /\ KeyOf(Deciding(i)) = KeyOf(i)
      BY <1>1, DecidingIsLast
    <3> QED
      BY <1>1, <2>3, <3>1, SameTrip
  <2>6. ASSUME BusRoute(t) # None, NEW y, y.trip = response[i].trip.id, y.route = BusRoute(t)
        PROVE  IsOnItsRoute(y)
    BY <2>3, <2>5, <2>6, BusesKeepTheirRoutes
  <2>7. AcceptedRoute(UpdateOf(i, n)) = BusRoute(t)
    BY <2>2 DEF AcceptedRoute, t
  <2> QED
    BY <2>4, <2>6, <2>7 DEF BusReports
<1>4. \A k \in DOMAIN rows : \E i \in Reported("trip_update") : \E n \in DOMAIN response[i].stops :
        rows[k] = UpdateOf(i, n)
  BY <1>1 DEF UpdatesAreParsed
<1>5. \A i \in Reported("trip_update") : \A n \in DOMAIN response[i].stops :
        \E k \in DOMAIN rows : rows[k] = UpdateOf(i, n)
  BY <1>1 DEF UpdatesAreParsed
<1> HIDE DEF rows, kept
<1>6. ASSUME NEW k \in kept
      PROVE  /\ IsOnItsRoute(feed'.updates[k])
             /\ \E i \in BusReports : \E n \in DOMAIN response[i].stops :
                  StateKey(feed'.updates[k]) = StateKey(UpdateOf(i, n))
  <2>1. k \in DOMAIN rows /\ AcceptedRoute(rows[k]) # None
    BY DEF kept
  <2>2. PICK i \in Reported("trip_update") : \E n \in DOMAIN response[i].stops : rows[k] = UpdateOf(i, n)
    BY <1>4, <2>1
  <2>3. PICK n \in DOMAIN response[i].stops : rows[k] = UpdateOf(i, n)
    BY <2>2
  <2>4. i \in BusReports /\ AcceptedRoute(UpdateOf(i, n)) # None
    BY <1>3, <2>1, <2>3
  <2>5. feed'.updates[k] = [UpdateOf(i, n) EXCEPT !.route = AcceptedRoute(UpdateOf(i, n))]
    BY <1>2, <2>3
  <2>6. /\ feed'.updates[k].route = AcceptedRoute(UpdateOf(i, n))
        /\ feed'.updates[k].trip = response[i].trip.id
        /\ StateKey(feed'.updates[k]) = StateKey(UpdateOf(i, n))
    BY <1>1, <2>5, UpdateFields
  <2>7. IsOnItsRoute(feed'.updates[k])
    BY <1>3, <2>4, <2>6
  <2> QED
    BY <2>4, <2>6, <2>7
<1>7. ASSUME NEW i \in BusReports, NEW n \in DOMAIN response[i].stops
      PROVE  \E k \in kept : StateKey(feed'.updates[k]) = StateKey(UpdateOf(i, n))
  <2>1. PICK k \in DOMAIN rows : rows[k] = UpdateOf(i, n)
    BY <1>1, <1>5
  <2>2. k \in kept
    BY <1>1, <1>3, <2>1 DEF kept
  <2>3. feed'.updates[k] = [UpdateOf(i, n) EXCEPT !.route = AcceptedRoute(UpdateOf(i, n))]
    BY <1>2, <2>1, <2>2
  <2> QED
    BY <1>1, <2>2, <2>3, UpdateFields
<1>8. DOMAIN feed'.updates = kept
  BY <1>2
<1>9. {StateKey(feed'.updates[k]) : k \in kept} =
        UNION {{StateKey(UpdateOf(i, n)) : n \in DOMAIN response[i].stops} : i \in BusReports}
  BY <1>6, <1>7
<1> QED
  BY <1>6, <1>8, <1>9

LEMMA FilteredVehicles ==
  ASSUME response \in Responses, VehiclesAreParsed, read = Len(response), FilterBuses
  PROVE  /\ {feed'.vehicles[k].key : k \in DOMAIN feed'.vehicles} =
              {ParsedVehicle(response[i]).key : i \in {j \in Reported("vehicle") : IsBus(j)}}
         /\ \A k \in DOMAIN feed'.vehicles : IsOnItsRoute(feed'.vehicles[k])
<1> DEFINE rows == feed.vehicles
           kept == {k \in DOMAIN rows : BusRoute(rows[k]) # None}
<1>1. Parsed("vehicle") = Reported("vehicle")
  BY Responding DEF Parsed, Reported
<1>2. feed'.vehicles = [k \in kept |-> [rows[k] EXCEPT !.route = BusRoute(rows[k])]]
  BY DEF FilterBuses, OnRoute
<1>3. \A i : LET v == ParsedVehicle(response[i])
             IN  /\ BusRoute(v) # None <=> IsBus(i)
                 /\ i \in DOMAIN response /\ BusRoute(v) # None =>
                      IsOnItsRoute([v EXCEPT !.route = BusRoute(v)])
                 /\ \A x : [v EXCEPT !.route = x].key = v.key
  <2> SUFFICES ASSUME NEW i
               PROVE  LET v == ParsedVehicle(response[i])
                      IN  /\ BusRoute(v) # None <=> IsBus(i)
                          /\ i \in DOMAIN response /\ BusRoute(v) # None =>
                               IsOnItsRoute([v EXCEPT !.route = BusRoute(v)])
                          /\ \A x : [v EXCEPT !.route = x].key = v.key
    OBVIOUS
  <2> DEFINE v == ParsedVehicle(response[i])
  <2>1. /\ v.trip = response[i].trip.id /\ v.route = response[i].trip.route
        /\ v.relationship = TripRelationship(response[i].trip.relationship)
    BY DEF ParsedVehicle, ParsedTrip
  <2>2. \A x : [v EXCEPT !.route = x].key = v.key
    BY DEF ParsedVehicle
  <2>3. \A x : [v EXCEPT !.route = x].route = x /\ [v EXCEPT !.route = x].trip = v.trip
    BY DEF ParsedVehicle
  <2> HIDE DEF v
  <2>4. BusRoute(v) # None <=> IsBus(i)
    BY <2>1, BusesHaveRoutes
  <2>5. i \in DOMAIN response /\ BusRoute(v) # None => IsOnItsRoute([v EXCEPT !.route = BusRoute(v)])
    BY <2>1, <2>3, BusesKeepTheirRoutes
  <2> QED
    BY <2>2, <2>4, <2>5 DEF v
<1>4. /\ \A k \in DOMAIN rows : \E i \in Reported("vehicle") : rows[k] = ParsedVehicle(response[i])
      /\ \A i \in Reported("vehicle") : \E k \in DOMAIN rows : rows[k] = ParsedVehicle(response[i])
  BY <1>1 DEF VehiclesAreParsed
<1> HIDE DEF rows
<1>5. ASSUME NEW k \in kept
      PROVE  /\ IsOnItsRoute(feed'.vehicles[k])
             /\ \E i \in Reported("vehicle") :
                  IsBus(i) /\ feed'.vehicles[k].key = ParsedVehicle(response[i]).key
  <2>1. PICK i \in Reported("vehicle") : rows[k] = ParsedVehicle(response[i])
    BY <1>4
  <2>2. i \in DOMAIN response
    BY DEF Reported
  <2> QED
    BY <1>2, <1>3, <2>1, <2>2
<1>6. ASSUME NEW i \in Reported("vehicle"), IsBus(i)
      PROVE  \E k \in kept : feed'.vehicles[k].key = ParsedVehicle(response[i]).key
  <2>1. PICK k \in DOMAIN rows : rows[k] = ParsedVehicle(response[i])
    BY <1>4
  <2>2. BusRoute(rows[k]) # None
    BY <1>3, <1>6, <2>1
  <2>3. feed'.vehicles[k] = [rows[k] EXCEPT !.route = BusRoute(rows[k])]
    BY <1>2, <2>1, <2>2
  <2>4. feed'.vehicles[k].key = ParsedVehicle(response[i]).key
    BY <1>3, <2>1, <2>3
  <2> QED
    BY <2>1, <2>2, <2>4
<1>7. DOMAIN feed'.vehicles = kept
  BY <1>2
<1> HIDE DEF kept
<1> QED
  BY <1>5, <1>6, <1>7

LEMMA FeedInvKept == FeedInv /\ [FeedNext]_feedVars => FeedInv'
<1> SUFFICES ASSUME FeedInv, [FeedNext]_feedVars PROVE FeedInv'
  OBVIOUS
<1>1. response \in Responses /\ read \in 0 .. Len(response) /\ Len(response) \in Nat
  <2>1. response \in Responses /\ read \in 0 .. Len(response)
    BY DEF FeedInv
  <2> QED
    BY <2>1, Responding
<1>2. CASE ParseEntity
  <2>1. /\ response' = response /\ read' = read + 1 /\ read < Len(response)
        /\ isFiltered' = isFiltered
    BY <1>2 DEF ParseEntity
  <2>2. ~isFiltered
    BY <1>1, <2>1 DEF FeedInv
  <2>3. TripsAreParsed' /\ UpdatesAreParsed' /\ VehiclesAreParsed'
    BY <1>2, <2>2, TripsAdvance, UpdatesAdvance, VehiclesAdvance DEF FeedInv
  <2>4. OnlyBusesPass'
    BY <2>1, <2>2 DEF OnlyBusesPass
  <2>5. read' \in 0 .. Len(response)
    BY <1>1, <2>1
  <2> QED
    BY <1>1, <2>1, <2>2, <2>3, <2>4, <2>5 DEF FeedInv
<1>3. CASE FilterBuses
  <2>1. read = Len(response) /\ read' = read /\ response' = response /\ ~isFiltered /\ isFiltered'
    BY <1>3 DEF FilterBuses
  <2>2. TripsAreParsed /\ UpdatesAreParsed /\ VehiclesAreParsed
    BY <2>1 DEF FeedInv
  <2>3. /\ \A kind : Reported(kind)' = Reported(kind)
        /\ \A i : KeyOf(i)' = KeyOf(i) /\ IsBus(i)' = IsBus(i)
        /\ \A i, n : UpdateOf(i, n)' = UpdateOf(i, n)
    BY <2>1 DEF Reported, KeyOf, IsBus, UpdateOf
  <2>4. \A i : Deciding(i)' = Deciding(i)
    BY <2>1, <2>3 DEF Deciding, Reported
  <2>5. BusReports' = BusReports
    BY <2>3, <2>4 DEF BusReports
  <2>6. TripsPass'
    BY <1>1, <1>3, <2>1, <2>2, <2>5, FilteredTrips DEF TripsPass, KeyOf
  <2>7. UpdatesPass'
    <3>1. {StateKey(feed'.updates[k]) : k \in DOMAIN feed'.updates} =
            UNION {{StateKey(UpdateOf(i, n)) : n \in DOMAIN response[i].stops} : i \in BusReports}
      BY <1>1, <1>3, <2>1, <2>2, FilteredUpdates
    <3>2. UpdatesPass' <=>
            {StateKey(feed'.updates[k]) : k \in DOMAIN feed'.updates} =
            UNION {{StateKey(ParsedUpdates(response[i])[n]) : n \in DOMAIN response[i].stops} :
                   i \in BusReports}
      BY <2>1, <2>5 DEF UpdatesPass
    <3> QED
      BY <3>1, <3>2 DEF UpdateOf
  <2>8. VehiclesPass'
    BY <1>1, <1>3, <2>1, <2>2, <2>3, FilteredVehicles DEF VehiclesPass
  <2>9. RoutesAreTheirs'
    <3>1. \A row : IsOnItsRoute(row)' <=> IsOnItsRoute(row)
      BY <2>1 DEF IsOnItsRoute
    <3>2. /\ \A t \in feed'.trips : IsOnItsRoute(t)
          /\ \A k \in DOMAIN feed'.updates : IsOnItsRoute(feed'.updates[k])
          /\ \A k \in DOMAIN feed'.vehicles : IsOnItsRoute(feed'.vehicles[k])
      BY <1>1, <1>3, <2>1, <2>2, FilteredTrips, FilteredUpdates, FilteredVehicles
    <3> QED
      BY <2>1, <3>2 DEF RoutesAreTheirs, IsOnItsRoute
  <2> QED
    BY <1>1, <2>1, <2>6, <2>7, <2>8, <2>9 DEF FeedInv, OnlyBusesPass
<1>4. CASE CountDelays \/ UNCHANGED feedVars
  <2>1. response' = response /\ read' = read /\ feed' = feed /\ isFiltered' = isFiltered
    BY <1>4 DEF CountDelays, feedVars
  <2>2. /\ \A kind : Reported(kind)' = Reported(kind) /\ Parsed(kind)' = Parsed(kind)
        /\ \A i : KeyOf(i)' = KeyOf(i) /\ IsBus(i)' = IsBus(i) /\ Deciding(i)' = Deciding(i)
        /\ \A i, n : UpdateOf(i, n)' = UpdateOf(i, n)
    BY <2>1 DEF Reported, Parsed, KeyOf, IsBus, Deciding, UpdateOf
  <2>3. TripsAreParsed' = TripsAreParsed /\ UpdatesAreParsed' = UpdatesAreParsed
        /\ VehiclesAreParsed' = VehiclesAreParsed
    BY <2>1, <2>2 DEF TripsAreParsed, UpdatesAreParsed, VehiclesAreParsed
  <2>4. OnlyBusesPass' = OnlyBusesPass
    <3>1. BusReports' = BusReports
      BY <2>2 DEF BusReports
    <3>2. TripsPass' = TripsPass
      BY <2>1, <3>1 DEF TripsPass
    <3>3. UpdatesPass' = UpdatesPass
      BY <2>1, <3>1 DEF UpdatesPass
    <3>4. VehiclesPass' = VehiclesPass
      BY <2>1, <2>2 DEF VehiclesPass
    <3>5. RoutesAreTheirs' = RoutesAreTheirs
      BY <2>1 DEF RoutesAreTheirs, IsOnItsRoute
    <3> QED
      BY <2>1, <3>2, <3>3, <3>4, <3>5 DEF OnlyBusesPass
  <2> QED
    BY <2>1, <2>3, <2>4 DEF FeedInv
<1> QED
  BY <1>2, <1>3, <1>4 DEF FeedNext

LEMMA FeedInvHolds == FeedSpec => []FeedInv
<1>1. FeedInit => FeedInv
  <2> SUFFICES ASSUME FeedInit PROVE FeedInv
    OBVIOUS
  <2>1. response \in Responses /\ read = 0 /\ isFiltered = FALSE
        /\ feed = [updates |-> <<>>, trips |-> {}, vehicles |-> <<>>]
    BY DEF FeedInit
  <2>2. \A kind : Parsed(kind) = {}
    BY <2>1, Responding DEF Parsed, Reported
  <2>3. TripsAreParsed /\ UpdatesAreParsed /\ VehiclesAreParsed
    BY <2>1, <2>2 DEF TripsAreParsed, UpdatesAreParsed, VehiclesAreParsed
  <2> QED
    BY <2>1, <2>3, Responding DEF FeedInv, OnlyBusesPass
<1> QED
  BY <1>1, FeedInvKept, PTL DEF FeedSpec

\* Whatever a response holds, repeats and trips without ids included, the board
\* and the map get its buses and nothing else, each on its own route.
THEOREM NothingButBusesPasses == FeedSpec => []OnlyBusesPass
<1>1. FeedInv => OnlyBusesPass
  BY DEF FeedInv
<1> QED
  BY <1>1, FeedInvHolds, PTL

-----------------------------------------------------------------------------
(* Counting.                                                               *)

LEMMA SameSize ==
  ASSUME NEW S, NEW T, NEW f \in [S -> T], IsFiniteSet(S),
         \A x, y \in S : f[x] = f[y] => x = y, \A t \in T : \E x \in S : f[x] = t
  PROVE  IsFiniteSet(T) /\ Cardinality(T) = Cardinality(S)
<1>1. f \in Bijection(S, T)
  BY DEF Bijection, Injection, Surjection, IsInjective
<1>2. ExistsBijection(S, T)
  BY <1>1 DEF ExistsBijection
<1> QED
  BY <1>2, FS_Bijection

PartOf(f, S, b) == {x \in S : f[x] = b}

NumberedParts(g, B) == UNION {{b} \X (1 .. g[b]) : b \in B}

\* A finite set is the sum of its parts: count each part b with g[b], and the
\* numbered parts are as many as the elements.
LEMMA SumOfParts ==
  ASSUME NEW S, IsFiniteSet(S), NEW B, NEW f \in [S -> B], NEW g,
         \A b \in B : g[b] = Cardinality(PartOf(f, S, b))
  PROVE  Cardinality(NumberedParts(g, B)) = Cardinality(S)
<1> DEFINE Part(b) == PartOf(f, S, b)
           Numbered == NumberedParts(g, B)
           number == [b \in B |-> CHOOSE h : h \in Bijection(1 .. g[b], Part(b))]
           F == [q \in Numbered |-> number[q[1]][q[2]]]
<1>1. ASSUME NEW b \in B
      PROVE  number[b] \in Bijection(1 .. g[b], Part(b))
  <2>1. Part(b) \in SUBSET S
    BY DEF PartOf
  <2>2. IsFiniteSet(Part(b))
    BY <2>1, FS_Subset
  <2>3. ExistsBijection(1 .. g[b], Part(b))
    BY <2>2, FS_CardinalityType
  <2> HIDE DEF Part
  <2>4. \E h : h \in Bijection(1 .. g[b], Part(b))
    BY <2>3 DEF ExistsBijection
  <2> QED
    BY <2>4
<1> HIDE DEF number
<1>2. ASSUME NEW b \in B
      PROVE  /\ \A n \in 1 .. g[b] : number[b][n] \in S /\ f[number[b][n]] = b
             /\ \A n, m \in 1 .. g[b] : number[b][n] = number[b][m] => n = m
             /\ \A x \in S : f[x] = b => \E n \in 1 .. g[b] : number[b][n] = x
  <2>1. PICK h : h = number[b]
    OBVIOUS
  <2>2. h \in Bijection(1 .. g[b], Part(b))
    BY <1>1, <2>1
  <2>3. /\ h \in [1 .. g[b] -> Part(b)]
        /\ \A n, m \in 1 .. g[b] : h[n] = h[m] => n = m
        /\ \A x \in Part(b) : \E n \in 1 .. g[b] : h[n] = x
    BY <2>2 DEF Bijection, Injection, Surjection, IsInjective
  <2> QED
    BY <2>1, <2>3 DEF PartOf
<1>3. \A q : q \in Numbered <=> q[1] \in B /\ q[2] \in 1 .. g[q[1]] /\ q = <<q[1], q[2]>>
  BY DEF NumberedParts
<1> HIDE DEF Numbered
<1>4. F \in [Numbered -> S]
  BY <1>2, <1>3
<1>5. ASSUME NEW q \in Numbered, NEW r \in Numbered, F[q] = F[r]
      PROVE  q = r
  <2>1. q[1] = r[1]
    BY <1>2, <1>3, <1>5
  <2>2. q[2] = r[2]
    BY <1>2, <1>3, <1>5, <2>1
  <2> QED
    BY <1>3, <2>1, <2>2
<1>6. ASSUME NEW x \in S PROVE \E q \in Numbered : F[q] = x
  <2>1. PICK n \in 1 .. g[f[x]] : number[f[x]][n] = x
    BY <1>2
  <2>2. <<f[x], n>> \in Numbered
    BY <1>3
  <2> QED
    BY <2>1, <2>2
<1> HIDE DEF F
<1>7. F \in Bijection(Numbered, S)
  BY <1>4, <1>5, <1>6 DEF Bijection, Injection, Surjection, IsInjective
<1>8. ExistsBijection(Numbered, S)
  BY <1>7 DEF ExistsBijection
<1>9. ExistsBijection(S, Numbered)
  BY <1>8, Fun_ExistsBijSymmetric
<1> QED
  BY <1>9, FS_Bijection DEF Numbered

Bins == UNION {{<<scope, DelayOf(feed.updates[i])>> : scope \in Scopes(feed.updates[i])} : i \in Counted}

HasPlaces == \E n \in Nat : DOMAIN feed.updates \subseteq 1 .. n

IsCounted == histogram = [bin \in Bins |-> Cardinality(InBin(bin))]

LEMMA CountedIsFinite ==
  ASSUME HasPlaces
  PROVE  /\ IsFiniteSet(DOMAIN feed.updates) /\ DOMAIN feed.updates \subseteq Nat
         /\ IsFiniteSet(Counted) /\ Counted \subseteq CurrentUpdates
         /\ CurrentUpdates \subseteq DOMAIN feed.updates
<1>1. PICK n \in Nat : DOMAIN feed.updates \subseteq 1 .. n
  BY DEF HasPlaces
<1>2. IsFiniteSet(1 .. n)
  BY FS_Interval
<1>3. CurrentUpdates \subseteq DOMAIN feed.updates /\ Counted \subseteq CurrentUpdates
  BY DEF CurrentUpdates, Counted
<1>4. IsFiniteSet(DOMAIN feed.updates)
  BY <1>1, <1>2, FS_Subset
<1>5. IsFiniteSet(Counted)
  BY <1>3, <1>4, FS_Subset
<1> QED
  BY <1>1, <1>3, <1>4, <1>5

\* The bins of a kind add up to the predictions that have a scope of the kind.
LEMMA TotalOfKind ==
  ASSUME HasPlaces, IsCounted, NEW kind, NEW S, S \subseteq Counted, NEW scopeOf,
         \A i \in Counted : \A x :
           x \in Scopes(feed.updates[i]) /\ x[1] = kind <=> i \in S /\ x = scopeOf[i]
  PROVE  Total(kind) = Cardinality(S)
<1> DEFINE rows == feed.updates
           B == {b \in DOMAIN histogram : b[1][1] = kind}
           f == [i \in S |-> <<scopeOf[i], DelayOf(rows[i])>>]
<1>1. IsFiniteSet(S)
  BY CountedIsFinite, FS_Subset
<1>2. \A i \in S : scopeOf[i] \in Scopes(rows[i]) /\ scopeOf[i][1] = kind
  OBVIOUS
<1>3. DOMAIN histogram = Bins
  BY DEF IsCounted
<1>4. \A i \in S : <<scopeOf[i], DelayOf(rows[i])>> \in B
  BY <1>2, <1>3 DEF Bins
<1>5. f \in [S -> B]
  BY <1>4
<1>6. ASSUME NEW b \in B
      PROVE  histogram[b] = Cardinality(PartOf(f, S, b))
  <2>1. b \in Bins /\ b[1][1] = kind /\ histogram[b] = Cardinality(InBin(b))
    BY <1>3, <1>6 DEF IsCounted
  <2>2. b = <<b[1], b[2]>>
    BY <2>1 DEF Bins
  <2>3. \A i : i \in InBin(b) <=> i \in S /\ b[1] = scopeOf[i] /\ b[2] = DelayOf(rows[i])
    BY <2>1 DEF InBin
  <2>4. \A i \in S : f[i] = b <=> b[1] = scopeOf[i] /\ b[2] = DelayOf(rows[i])
    BY <2>2
  <2> HIDE DEF f
  <2>5. InBin(b) = PartOf(f, S, b)
    BY <2>3, <2>4 DEF PartOf
  <2> QED
    BY <2>1, <2>5
<1>7. Total(kind) = Cardinality(NumberedParts(histogram, B))
  BY DEF Total, NumberedParts
<1> HIDE DEF f, B
<1>8. Cardinality(NumberedParts(histogram, B)) = Cardinality(S)
  BY <1>1, <1>5, <1>6, SumOfParts
<1> QED
  BY <1>7, <1>8

LEMMA ScopesAre ==
  ASSUME NEW u, NEW x
  PROVE  x \in Scopes(u) <=> \/ x = <<"network", "">> \/ x = <<"route", u.route>>
                             \/ u.stop # None /\ x = <<"stop", u.stop>>
BY DEF Scopes

LEMMA TotalsAgree ==
  ASSUME HasPlaces, IsCounted
  PROVE  /\ Total("network") = Cardinality(Counted)
         /\ Total("route") = Cardinality(Counted)
         /\ Total("stop") = Cardinality({i \in Counted : feed.updates[i].stop # None})
<1>1. Total("network") = Cardinality(Counted)
  <2> DEFINE scopeOf == [i \in Counted |-> <<"network", "">>]
  <2>1. \A i \in Counted : \A x :
          x \in Scopes(feed.updates[i]) /\ x[1] = "network" <=> i \in Counted /\ x = scopeOf[i]
    <3> TAKE i \in Counted
    <3> TAKE x
    <3>1. x \in Scopes(feed.updates[i]) <=>
            \/ x = <<"network", "">> \/ x = <<"route", feed.updates[i].route>>
            \/ feed.updates[i].stop # None /\ x = <<"stop", feed.updates[i].stop>>
      BY ScopesAre
    <3>2. /\ <<"network", "">>[1] = "network" /\ <<"route", feed.updates[i].route>>[1] = "route"
          /\ <<"stop", feed.updates[i].stop>>[1] = "stop"
      OBVIOUS
    <3>3. scopeOf[i] = <<"network", "">>
      OBVIOUS
    <3> HIDE DEF scopeOf
    <3> QED
      BY <3>1, <3>2, <3>3
  <2> HIDE DEF scopeOf
  <2> QED
    BY <2>1, TotalOfKind
<1>2. Total("route") = Cardinality(Counted)
  <2> DEFINE scopeOf == [i \in Counted |-> <<"route", feed.updates[i].route>>]
  <2>1. \A i \in Counted : \A x :
          x \in Scopes(feed.updates[i]) /\ x[1] = "route" <=> i \in Counted /\ x = scopeOf[i]
    <3> TAKE i \in Counted
    <3> TAKE x
    <3>1. x \in Scopes(feed.updates[i]) <=>
            \/ x = <<"network", "">> \/ x = <<"route", feed.updates[i].route>>
            \/ feed.updates[i].stop # None /\ x = <<"stop", feed.updates[i].stop>>
      BY ScopesAre
    <3>2. /\ <<"network", "">>[1] = "network" /\ <<"route", feed.updates[i].route>>[1] = "route"
          /\ <<"stop", feed.updates[i].stop>>[1] = "stop"
      OBVIOUS
    <3>3. scopeOf[i] = <<"route", feed.updates[i].route>>
      OBVIOUS
    <3> HIDE DEF scopeOf
    <3> QED
      BY <3>1, <3>2, <3>3
  <2> HIDE DEF scopeOf
  <2> QED
    BY <2>1, TotalOfKind
<1>3. Total("stop") = Cardinality({i \in Counted : feed.updates[i].stop # None})
  <2> DEFINE S == {i \in Counted : feed.updates[i].stop # None}
             scopeOf == [i \in Counted |-> <<"stop", feed.updates[i].stop>>]
  <2>1. \A i \in Counted : \A x :
          x \in Scopes(feed.updates[i]) /\ x[1] = "stop" <=> i \in S /\ x = scopeOf[i]
    <3> TAKE i \in Counted
    <3> TAKE x
    <3>1. x \in Scopes(feed.updates[i]) <=>
            \/ x = <<"network", "">> \/ x = <<"route", feed.updates[i].route>>
            \/ feed.updates[i].stop # None /\ x = <<"stop", feed.updates[i].stop>>
      BY ScopesAre
    <3>2. /\ <<"network", "">>[1] = "network" /\ <<"route", feed.updates[i].route>>[1] = "route"
          /\ <<"stop", feed.updates[i].stop>>[1] = "stop"
      OBVIOUS
    <3>3. (i \in S <=> feed.updates[i].stop # None) /\ scopeOf[i] = <<"stop", feed.updates[i].stop>>
      OBVIOUS
    <3> HIDE DEF scopeOf, S
    <3> QED
      BY <3>1, <3>2, <3>3
  <2>2. S \subseteq Counted
    OBVIOUS
  <2> HIDE DEF scopeOf, S
  <2>3. Total("stop") = Cardinality(S)
    BY <2>1, <2>2, TotalOfKind
  <2> QED
    BY <2>3 DEF S
<1> QED
  BY <1>1, <1>2, <1>3

\* Each state of a stop of a trip is counted at its last place or not at all.
LEMMA PlacesAreKeys ==
  ASSUME HasPlaces, IsCounted
  PROVE  LET keys == {StateKey(feed.updates[i]) : i \in DOMAIN feed.updates}
             last == [k \in keys |-> Max({i \in DOMAIN feed.updates : StateKey(feed.updates[i]) = k})]
             counted == {k \in keys : Counts(feed.updates[last[k]])}
         IN  /\ Cardinality(counted) = Cardinality(Counted)
             /\ Cardinality({k \in counted : feed.updates[last[k]].stop # None}) =
                  Cardinality({i \in Counted : feed.updates[i].stop # None})
<1> DEFINE rows == feed.updates
           keys == {StateKey(rows[i]) : i \in DOMAIN rows}
           last == [k \in keys |-> Max({i \in DOMAIN rows : StateKey(rows[i]) = k})]
           counted == {k \in keys : Counts(rows[last[k]])}
           f == [i \in Counted |-> StateKey(rows[i])]
           S == {i \in Counted : rows[i].stop # None}
           T == {k \in counted : rows[last[k]].stop # None}
           g == [i \in S |-> StateKey(rows[i])]
<1>1. ASSUME NEW k \in keys
      PROVE  /\ last[k] \in CurrentUpdates /\ StateKey(rows[last[k]]) = k
             /\ \A i \in CurrentUpdates : StateKey(rows[i]) = k => i = last[k]
  <2> DEFINE same == {i \in DOMAIN rows : StateKey(rows[i]) = k}
  <2>1. PICK n \in Nat : DOMAIN rows \subseteq 1 .. n
    BY DEF HasPlaces
  <2>2. same \subseteq Nat /\ same # {} /\ \A y \in same : y <= n
    BY <2>1
  <2>3. last[k] = Max(same)
    OBVIOUS
  <2> HIDE DEF same
  <2>4. last[k] \in same /\ \A y \in same : y <= last[k]
    BY <2>2, <2>3, MaxOfNats
  <2> HIDE DEF last
  <2>5. last[k] \in CurrentUpdates /\ StateKey(rows[last[k]]) = k
    BY <2>4 DEF CurrentUpdates, same
  <2>6. ASSUME NEW i \in CurrentUpdates, StateKey(rows[i]) = k
        PROVE  i = last[k]
    <3>1. i \in same /\ last[k] <= i
      BY <2>4, <2>5, <2>6 DEF CurrentUpdates, same
    <3>2. i \in Nat /\ last[k] \in Nat /\ i <= last[k]
      BY <2>2, <2>4, <3>1
    <3> QED
      BY <3>1, <3>2
  <2> QED
    BY <2>5, <2>6
<1>2. Counted = {i \in CurrentUpdates : Counts(rows[i])} /\ CurrentUpdates \subseteq DOMAIN rows
  BY DEF Counted, CurrentUpdates
<1> HIDE DEF last
<1>3. ASSUME NEW i \in Counted
      PROVE  StateKey(rows[i]) \in counted /\ last[StateKey(rows[i])] = i
  BY <1>1, <1>2
<1>4. ASSUME NEW k \in counted
      PROVE  last[k] \in Counted /\ StateKey(rows[last[k]]) = k
  BY <1>1, <1>2
<1> HIDE DEF counted
<1>5. IsFiniteSet(Counted) /\ IsFiniteSet(S)
  <2>1. S \in SUBSET Counted
    OBVIOUS
  <2> QED
    BY <2>1, CountedIsFinite, FS_Subset
<1>6. Cardinality(counted) = Cardinality(Counted)
  <2>1. f \in [Counted -> counted]
    BY <1>3
  <2>2. \A x, y \in Counted : f[x] = f[y] => x = y
    BY <1>3
  <2>3. \A k \in counted : \E x \in Counted : f[x] = k
    BY <1>4
  <2> HIDE DEF f
  <2> QED
    BY <1>5, <2>1, <2>2, <2>3, SameSize
<1>7. Cardinality(T) = Cardinality(S)
  <2>1. g \in [S -> T]
    BY <1>3
  <2>2. \A x, y \in S : g[x] = g[y] => x = y
    BY <1>3
  <2>3. \A k \in T : \E x \in S : g[x] = k
    BY <1>4
  <2> HIDE DEF g, S, T
  <2> QED
    BY <1>5, <2>1, <2>2, <2>3, SameSize
<1> QED
  BY <1>6, <1>7 DEF last, counted

CountInv ==
  /\ isFiltered => HasPlaces
  /\ histogram # None => isFiltered /\ IsCounted

LEMMA CountInvKept == FeedInv /\ CountInv /\ [FeedNext]_feedVars => CountInv'
<1> SUFFICES ASSUME FeedInv, CountInv, [FeedNext]_feedVars PROVE CountInv'
  OBVIOUS
<1>1. ASSUME feed' = feed
      PROVE  /\ HasPlaces' = HasPlaces /\ Bins' = Bins /\ \A b : InBin(b)' = InBin(b)
  <2>1. CurrentUpdates' = CurrentUpdates
    BY <1>1 DEF CurrentUpdates
  <2>2. \A u : TripOf(u)' = TripOf(u)
    BY <1>1 DEF TripOf
  <2>3. \A u : Counts(u)' = Counts(u)
    BY <2>2 DEF Counts
  <2>4. Counted' = Counted
    BY <1>1, <2>1, <2>3 DEF Counted
  <2> QED
    BY <1>1, <2>4 DEF HasPlaces, Bins, InBin
<1>2. CASE ParseEntity
  <2>1. ~isFiltered
    BY <1>2 DEF ParseEntity, FeedInv
  <2> QED
    BY <1>2, <2>1 DEF ParseEntity, CountInv
<1>3. CASE FilterBuses
  <2>1. ~isFiltered /\ histogram' = histogram /\ isFiltered'
    BY <1>3 DEF FilterBuses
  <2>2. UpdatesAreParsed
    BY <2>1 DEF FeedInv
  <2>3. DOMAIN feed.updates = 1 .. Len(feed.updates) /\ Len(feed.updates) \in Nat
    BY <2>2 DEF UpdatesAreParsed
  <2>4. DOMAIN feed'.updates \subseteq DOMAIN feed.updates
    BY <1>3 DEF FilterBuses, OnRoute
  <2> QED
    BY <2>1, <2>3, <2>4 DEF CountInv, HasPlaces
<1>4. CASE CountDelays
  <2>1. isFiltered /\ isFiltered' = isFiltered /\ feed' = feed
    BY <1>4 DEF CountDelays
  <2>2. histogram' = [bin \in Bins |-> Cardinality(InBin(bin))]
    BY <1>4 DEF CountDelays, Bins
  <2>3. IsCounted'
    BY <1>1, <2>1, <2>2 DEF IsCounted
  <2> QED
    BY <1>1, <2>1, <2>3 DEF CountInv
<1>5. CASE UNCHANGED feedVars
  <2>1. feed' = feed /\ isFiltered' = isFiltered /\ histogram' = histogram
    BY <1>5 DEF feedVars
  <2>2. IsCounted' = IsCounted
    BY <1>1, <2>1 DEF IsCounted
  <2> QED
    BY <1>1, <2>1, <2>2 DEF CountInv
<1> QED
  BY <1>2, <1>3, <1>4, <1>5 DEF FeedNext

\* However often a response repeats a prediction, a poll counts it once, in the
\* network, in its route and in the stop that it names.
THEOREM NoPredictionCountsTwice == FeedSpec => []PredictionsCountOnce
<1>1. FeedInit => CountInv
  BY DEF FeedInit, CountInv
<1>2. CountInv => PredictionsCountOnce
  <2> SUFFICES ASSUME HasPlaces, IsCounted
               PROVE  LET keys == {StateKey(feed.updates[i]) : i \in DOMAIN feed.updates}
                          last == [k \in keys |->
                                     Max({i \in DOMAIN feed.updates : StateKey(feed.updates[i]) = k})]
                          counted == {k \in keys : Counts(feed.updates[last[k]])}
                      IN  /\ Total("network") = Cardinality(counted)
                          /\ Total("route") = Total("network")
                          /\ Total("stop") =
                               Cardinality({k \in counted : feed.updates[last[k]].stop # None})
    BY DEF CountInv, PredictionsCountOnce
  <2> QED
    BY TotalsAgree, PlacesAreKeys
<1> QED
  BY <1>1, <1>2, CountInvKept, FeedInvHolds, PTL DEF FeedSpec

-----------------------------------------------------------------------------
(* DaemonLife.                                                             *)

Ended == {"none", "done"}

\* A task that has not ended has an open pool; there are such tasks only while
\* run has started some and not yet gathered them, and during the gathering
\* they only unwind. The last conjunct is the feed lock.
LifeInv ==
  /\ LifeTypeOK
  /\ \A t \in Task : task[t] \notin Ended => pool = "open"
  /\ main \in {"looking", "installing", "serving"} => pool = "open"
  /\ main \in {"opening", "looking", "closed", "exited"} => \A t \in Task : task[t] \in Ended
  /\ main = "gathering" => \A t \in Task : task[t] \in Ended \cup {"unwinding"}
  /\ \A t, u \in Refreshing : task[t] \in InRefresh /\ task[u] \in InRefresh => t = u

LEMMA LifeInitEstablishes == LifeInit => LifeInv
<1> SUFFICES ASSUME LifeInit PROVE LifeInv
  OBVIOUS
<1>1. LifeTypeOK
  BY DEF LifeInit, LifeTypeOK, NoTask
<1>2. \A t \in Task : task[t] = "none"
  BY DEF LifeInit, NoTask
<1>3. Refreshing \subseteq Task
  BY DEF Task
<1> QED
  BY <1>1, <1>2, <1>3 DEF LifeInit, LifeInv, Ended, InRefresh

\* A step that moves one task from work to work, or out of it, and leaves run
\* and the pool alone. Only TakeFeedLock begins a refresh.
LEMMA MoveKeeps ==
  ASSUME LifeInv, NEW t \in Task, NEW to,
         to \in InWork \cup {"queued", "resting", "done"},
         task[t] \notin Ended \cup {"unwinding"},
         Moves(t, to), UNCHANGED <<main, pool>>, LifeTypeOK',
         to \in InRefresh =>
           /\ t \in Refreshing
           /\ task[t] \in InRefresh \/ \A u \in Refreshing : task[u] \notin InRefresh
  PROVE  LifeInv'
<1>1. pool = "open"
  BY DEF LifeInv, Ended
<1>2. \A u \in Task : task'[u] = IF u = t THEN to ELSE task[u]
  BY DEF LifeInv, LifeTypeOK, Moves
<1>3. main \notin {"opening", "looking", "closed", "exited", "gathering"}
  BY DEF LifeInv, Ended
<1>4. Refreshing \subseteq Task
  BY DEF Task
<1>5. \A u, w \in Refreshing : task'[u] \in InRefresh /\ task'[w] \in InRefresh => u = w
  BY <1>2, <1>4 DEF LifeInv
<1> QED
  BY <1>1, <1>2, <1>3, <1>5 DEF LifeInv

LEMMA AfterWorkRests == \A t \in Task : AfterWork(t) \in {"resting", "done"}
BY DEF AfterWork

LEMMA LifeTypesKept == LifeTypeOK /\ [LifeNext]_lifeVars => LifeTypeOK'
<1> SUFFICES ASSUME LifeTypeOK, [LifeNext]_lifeVars PROVE LifeTypeOK'
  OBVIOUS
<1> USE DEF LifeTypeOK, InWork, InRefresh
<1>1. ASSUME Open \/ OpenFails \/ LookFails \/ Signal \/ Stop \/ Close \/ Exit PROVE LifeTypeOK'
  BY <1>1 DEF Open, OpenFails, LookFails, Signal, Stop, Close, Exit
<1>2. ASSUME LookForFeed \/ StartWorkers \/ CancelTasks \/ RestartProcess PROVE LifeTypeOK'
  <2>1. CASE LookForFeed
    BY <2>1 DEF LookForFeed, WithWorkers
  <2>2. CASE StartWorkers
    BY <2>2 DEF StartWorkers, WithWorkers
  <2>3. CASE CancelTasks
    BY <2>3 DEF CancelTasks
  <2>4. CASE RestartProcess
    BY <2>4 DEF RestartProcess, NoTask
  <2> QED
    BY <1>2, <2>1, <2>2, <2>3, <2>4
<1>3. ASSUME NEW t \in Refreshing, RefreshSteps(t) PROVE LifeTypeOK'
  <2>1. AfterWork(t) \in {"resting", "done"}
    BY AfterWorkRests DEF Task
  <2> QED
    BY <1>3, <2>1 DEF RefreshSteps, TakeFeedLock, Download, ActivateKnown, SelectRows,
      RowsSelected, WriteRows, ArchiveEnds, RefreshFails, Moves
<1>4. ASSUME NEW t \in Workers, WakeTask(t) \/ WorkEnds(t) PROVE LifeTypeOK'
  <2>1. AfterWork(t) \in {"resting", "done"}
    BY AfterWorkRests DEF Task
  <2> QED
    BY <1>4, <2>1 DEF WakeTask, WorkEnds, Moves, Workers
<1>5. ASSUME NEW t \in Task, Unwind(t) PROVE LifeTypeOK'
  BY <1>5 DEF Unwind, Moves
<1>6. ASSUME FindFeed \/ StoreTripUpdates PROVE LifeTypeOK'
  <2>1. AfterWork("realtime") \in {"resting", "done"}
    BY DEF AfterWork
  <2> QED
    BY <1>6, <2>1 DEF FindFeed, StoreTripUpdates, Moves
<1>7. ASSUME ThreadEnds \/ OthersImport PROVE LifeTypeOK'
  BY <1>7 DEF ThreadEnds, OthersImport
<1>8. CASE UNCHANGED lifeVars
  BY <1>8 DEF lifeVars
<1> QED
  BY <1>1, <1>2, <1>3, <1>4, <1>5, <1>6, <1>7, <1>8 DEF LifeNext, RunSteps

LEMMA LifeInvKept == LifeInv /\ [LifeNext]_lifeVars => LifeInv'
<1> SUFFICES ASSUME LifeInv, [LifeNext]_lifeVars PROVE LifeInv'
  OBVIOUS
<1>0. LifeTypeOK /\ LifeTypeOK'
  BY LifeTypesKept DEF LifeInv
<1>1. ASSUME Open \/ OpenFails \/ LookFails \/ Signal \/ Stop \/ Close \/ Exit
             \/ ThreadEnds \/ OthersImport \/ UNCHANGED lifeVars
      PROVE  LifeInv'
  <2>1. task' = task
    BY <1>1 DEF Open, OpenFails, LookFails, Signal, Stop, Close, Exit, ThreadEnds,
      OthersImport, lifeVars
  <2> QED
    BY <1>0, <1>1, <2>1 DEF Open, OpenFails, LookFails, Signal, Stop, Close, Exit, ThreadEnds,
      OthersImport, lifeVars, LifeInv, HaveEnded, Ended
<1>2. CASE LookForFeed \/ StartWorkers
  <2>1. pool = "open" /\ pool' = "open" /\ main' \in {"installing", "serving"}
    BY <1>2 DEF LookForFeed, StartWorkers, LifeInv
  <2>2. \A u \in Refreshing : task'[u] \in InRefresh => task[u] \in InRefresh
    BY <1>0, <1>2 DEF LookForFeed, StartWorkers, WithWorkers, Refreshing, Task, InRefresh, LifeTypeOK
  <2> QED
    BY <1>0, <2>1, <2>2 DEF LifeInv
<1>3. CASE CancelTasks
  <2>1. \A u \in Task : task'[u] = IF task[u] \in Ended THEN task[u] ELSE "unwinding"
    BY <1>3 DEF CancelTasks, Cancelled, Ended
  <2>2. main' = "gathering" /\ pool' = pool
    BY <1>3 DEF CancelTasks
  <2>3. Refreshing \subseteq Task
    BY DEF Task
  <2> QED
    BY <1>0, <2>1, <2>2, <2>3 DEF LifeInv, Ended, InRefresh
<1>4. CASE RestartProcess
  BY <1>0, <1>4 DEF RestartProcess, NoTask, LifeInv, Ended, InRefresh, Refreshing, Task
<1>5. ASSUME NEW t \in Refreshing, RefreshSteps(t) PROVE LifeInv'
  <2>1. t \in Task /\ AfterWork(t) \in {"resting", "done"}
    BY AfterWorkRests DEF Task
  <2> DEFINE Moved(to) ==
        /\ Moves(t, to) /\ UNCHANGED <<main, pool>>
        /\ \/ task[t] \in InRefresh
           \/ task[t] = "queued" /\ \A u \in Refreshing : task[u] \notin InRefresh
  <2>2. \E to \in InWork \cup {"resting", "done"} : Moved(to)
    <3> USE DEF InWork, InRefresh
    <3>1. CASE TakeFeedLock(t)
      <4>1. Moved("downloading")
        BY <3>1 DEF TakeFeedLock
      <4> QED
        BY <4>1
    <3>2. CASE Download(t)
      <4>1. Moved("checking")
        BY <3>2 DEF Download
      <4> QED
        BY <4>1
    <3>3. CASE ActivateKnown(t) \/ WriteRows(t)
      <4>1. Moved("archiving")
        BY <3>3 DEF ActivateKnown, WriteRows
      <4> QED
        BY <4>1
    <3>4. CASE SelectRows(t)
      <4>1. Moved("selecting")
        BY <3>4 DEF SelectRows
      <4> QED
        BY <4>1
    <3>5. CASE RowsSelected(t)
      <4>1. Moved("writing")
        BY <3>5 DEF RowsSelected
      <4> QED
        BY <4>1
    <3>6. CASE ArchiveEnds(t) \/ RefreshFails(t)
      <4>1. Moved(AfterWork(t))
        BY <3>6 DEF ArchiveEnds, RefreshFails
      <4> QED
        BY <4>1, <2>1
    <3> QED
      BY <1>5, <3>1, <3>2, <3>3, <3>4, <3>5, <3>6 DEF RefreshSteps
  <2> QED
    BY <1>0, <2>1, <2>2, MoveKeeps DEF InWork, Ended, InRefresh
<1>6. ASSUME NEW t \in Workers, WakeTask(t) \/ WorkEnds(t) PROVE LifeInv'
  <2>1. t \in Task /\ AfterWork(t) \in {"resting", "done"}
    BY AfterWorkRests DEF Task
  <2>2. PICK to \in {"queued", "looking", "pruning", "resting", "done"} :
          Moves(t, to) /\ UNCHANGED <<main, pool>>
    BY <1>6, <2>1 DEF WakeTask, WorkEnds, Workers
  <2>3. task[t] \notin Ended \cup {"unwinding"}
    BY <1>6 DEF WakeTask, WorkEnds, Ended
  <2> QED
    BY <1>0, <2>1, <2>2, <2>3, MoveKeeps DEF InWork, InRefresh
<1>7. ASSUME NEW t \in Task, Unwind(t) PROVE LifeInv'
  <2>1. \A u \in Task : task'[u] = IF u = t THEN "done" ELSE task[u]
    BY <1>0, <1>7 DEF Unwind, Moves, LifeTypeOK
  <2>2. UNCHANGED <<main, pool>>
    BY <1>7 DEF Unwind
  <2>3. Refreshing \subseteq Task
    BY DEF Task
  <2> QED
    BY <1>0, <2>1, <2>2, <2>3 DEF LifeInv, Ended, InRefresh
<1>8. CASE FindFeed \/ StoreTripUpdates
  <2>1. PICK to \in {"polling", "resting", "done"} :
          Moves("realtime", to) /\ UNCHANGED <<main, pool>>
    BY <1>8 DEF FindFeed, StoreTripUpdates, AfterWork
  <2>2. task["realtime"] \notin Ended \cup {"unwinding"} /\ "realtime" \in Task
    BY <1>8 DEF FindFeed, StoreTripUpdates, Ended, Task, Workers
  <2> QED
    BY <1>0, <2>1, <2>2, MoveKeeps DEF InWork, InRefresh
<1> QED
  BY <1>1, <1>2, <1>3, <1>4, <1>5, <1>6, <1>7, <1>8 DEF LifeNext, RunSteps

LEMMA LifeInvHolds == LifeSpec => []LifeInv
BY LifeInitEstablishes, LifeInvKept, PTL DEF LifeSpec

\* Every reachable state of the process is well typed.
THEOREM LifeTypeCorrect == LifeSpec => []LifeTypeOK
<1>1. LifeInv => LifeTypeOK
  BY DEF LifeInv
<1> QED
  BY <1>1, LifeInvHolds, PTL

\* However the process starts, fails and is stopped, its connections outlive
\* its tasks, and one refresh at most is past the feed lock.
THEOREM PoolClosesLast == LifeSpec => []ConnectionsOutliveTasks
<1>1. LifeInv => ConnectionsOutliveTasks
  BY DEF LifeInv, ConnectionsOutliveTasks, Ended, InWork, InRefresh
<1> QED
  BY <1>1, LifeInvHolds, PTL
================================================================================
