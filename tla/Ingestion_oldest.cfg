SPECIFICATION Spec
CONSTANTS
  w1 = w1
  w2 = w2
  s1 = s1
  h1 = h1
  h2 = h2
  NResources = 1
  Pages = 2
  InWindow <- WindowOldest
  BelowFloor <- FloorOldest
  Replicas = {w1}
  Scheduled = {}
  Handlers = {h1}
  ChunkBudget = 2
  MaxJobs = 1
  MaxFaults = 0
  MayLack = {}
  LongRuns = FALSE
INVARIANTS
  WindowDelivered
CHECK_DEADLOCK FALSE
