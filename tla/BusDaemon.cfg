SPECIFICATION Spec
CONSTANTS
  c1 = c1
  c2 = c2
  Collector = {c1, c2}
  Configured <- Intervals
  MinInterval = 3
  Safety = 1
  MaxDelay = 1
  NoFeed = NoFeed
  f1 = f1
  f2 = f2
  Process = {c1, c2}
  Version = {f1, f2}
  NoVersion = NoVersion
  r1 = r1
  r2 = r2
  t1 = t1
  t2 = t2
  a = a
  b = b
  s1 = s1
  s2 = s2
  s3 = s3
  p = p
  e1 = e1
  e2 = e2
  rail = rail
  train = train
  v1 = v1
  plate = plate
  Blank = Blank
  DefaultAgency = DefaultAgency
  AgencyId = {a, b}
  RouteId = {r1, r2}
  TripId = {t1, t2}
  StopId = {s1, s2, s3}
  ShapeId = {p}
  AgencyFiles <- SomeAgencyFiles
  RouteFiles <- SomeRouteFiles
  TripFiles <- SomeTripFiles
  TimeFiles <- SomeTimeFiles
  ShapeFiles <- SomeShapeFiles
  StopFiles <- SomeStopFiles
  None = None
  Responses <- SomeResponses
  TripRoutes <- SomeTripRoutes
  RouteIds = {r1, r2}
  IsKeyed = TRUE
CHECK_DEADLOCK FALSE
INVARIANTS ActiveIsUsable ShapesFlagIsTrue OnlyActiveIsBulky RecordedIsKept ImportsExactlyTheBuses AcceptanceIsExact OnlyBusesPass PredictionsCountOnce ConnectionsOutliveTasks
PROPERTIES CeilingKept BothFeedsGetSlots StaysServed SettlesOnPublished StopsWhenAsked BoardEventuallyFilled
