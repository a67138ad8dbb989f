\* One collector, and TripUpdates polls that may fail for longer than a live row lasts.
SPECIFICATION Spec
CONSTANTS
  c1 = c1
  c2 = c2
  v1 = v1
  v2 = v2
  t1 = t1
  k1 = k1
  late = late
  unknown = unknown
  None = None
  Collector = {c1}
  Version = {v1, v2}
  Trip = {t1}
  Key = {k1}
  TripOf <- TripOfKey
  Known <- KnownTrips
  Hash = {late}
  DelayOf <- Delays
  LiveWindow = 1
  SampleWindow = 3
  PruneLimit = 1
  MaxGap = 2
INVARIANT BoardMissesOnlyOvertaken
