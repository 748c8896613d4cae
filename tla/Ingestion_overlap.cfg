SPECIFICATION Spec
CONSTANTS
  w1 = w1
  w2 = w2
  s1 = s1
  h1 = h1
  h2 = h2
  NResources = 2
  Pages = 2
  InWindow <- WindowTwo
  BelowFloor <- FloorTwo
  Replicas = {w1, w2}
  Scheduled = {s1}
  Handlers = {h1}
  ChunkBudget = 1
  MaxJobs = 1
  MaxFaults = 1
  MayLack = {}
  LongRuns = TRUE
INVARIANTS
  TypeOK
  CursorPassesOnlyDelivered
  WindowDelivered
  CompletedJobDelivered
SYMMETRY SameReplicas
CHECK_DEADLOCK FALSE
