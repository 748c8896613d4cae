SPECIFICATION LiveSpec
CONSTANTS
  r1 = r1
  r2 = r2
  r3 = r3
  brandA = brandA
  brandB = brandB
  w1 = w1
  w2 = w2
  Reqs = {r1, r2}
  Brands = {brandA}
  BrandOf <- SameBrand
  Workers = {w1, w2}
  ClaimLimit = 10
  MaxAttempts = 2
  LateCommits = TRUE
  SlowBatches = TRUE
  LostAnswers = TRUE
  MaxFaults = 2
  Malformed = {r2}
INVARIANTS
  NoneLostUnserved
  DeadForAReason
PROPERTIES
  EveryRequestSettles
