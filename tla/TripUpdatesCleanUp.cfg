\* One collector and one version; polls are never far apart, and the clean-up runs
\* beside them.
SPECIFICATION Spec
CONSTANTS
  c1 = c1
  c2 = c2
  v1 = v1
  v2 = v2
  t1 = t1
  k1 = k1
  late = late
  unknown = unknown
  None = None
  Collector = {c1}
  Version = {v1}
  Trip = {t1}
  Key = {k1}
  TripOf <- TripOfKey
  Known <- KnownTrips
  Hash = {late, unknown}
  DelayOf <- Delays
  LiveWindow = 1
  SampleWindow = 1
  PruneLimit = 1
  MaxGap = 1
INVARIANT BoardShowsLatest
