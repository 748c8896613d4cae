SPECIFICATION Spec
CONSTANTS
  r1 = r1
  r2 = r2
  r3 = r3
  Runs = {r1, r2}
  Webhooks = FALSE
  Deadlines = TRUE
  Ageing = FALSE
  MaxFaults = 0
INVARIANTS
  OneRepull
CHECK_DEADLOCK FALSE
