SPECIFICATION StorageSpec
CONSTANTS
  t1 = t1
  t2 = t2
  early = early
  late = late
  unknown = unknown
  None = None
  Trip = {t1, t2}
  StatesOf <- States
  Hash = {early, late, unknown}
  DelayOf <- Delays
  Rank <- Ranks
  IdStep = 2
  Bucket <- Ranks
  Buckets = 2
  BatchSize = 2
  LiveWindow = 1
  Window = 3
  Histories <- Past
  MaxTime = 3
  Collector = {c1, c2}
  Vehicle = {k1, k2}
  State = {here, there}
  Version = {old, new}
  Gone = Gone
  MaxFetches = 3
INVARIANTS CopiesAreComplete StatisticsComplete FinishedMoveVerifies BoardAgreesWithMemory MapIsOneResponse MapIsArchived
PROPERTIES ProjectionsNeverGoBack ArchivedBeforeRetired
