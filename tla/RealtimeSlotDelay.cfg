\* The slot as in BusDaemon.cfg, with a request that may leave later than the
\* safety margin after its reservation.
SPECIFICATION SlotSpec
CONSTANTS
  c1 = c1
  c2 = c2
  Collector = {c1, c2}
  Configured <- Intervals
  MinInterval = 3
  Safety = 1
  MaxDelay = 2
  NoFeed = NoFeed
PROPERTY CeilingKept
