SPECIFICATION FairSpec
CONSTANTS
  w1 = w1
  w2 = w2
  s1 = s1
  h1 = h1
  h2 = h2
  NResources = 2
  Pages = 3
  InWindow <- WindowNewest
  BelowFloor <- FloorNewest
  Replicas = {w1}
  Scheduled = {}
  Handlers = {h1, h2}
  ChunkBudget = 1
  MaxJobs = 2
  MaxFaults = 2
  MayLack = {1}
  LongRuns = FALSE
PROPERTIES
  KeepsWalk
  SettledJobStays
  EveryJobSettles
CHECK_DEADLOCK FALSE
