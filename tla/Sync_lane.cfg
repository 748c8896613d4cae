SPECIFICATION FairSpec
CONSTANTS
  r1 = r1
  r2 = r2
  r3 = r3
  Runs = {r1, r2}
  Webhooks = TRUE
  Deadlines = TRUE
  Ageing = TRUE
  MaxFaults = 2
INVARIANTS
  OneHolder
PROPERTIES
  RequestFollowed
CHECK_DEADLOCK FALSE
