SPECIFICATION Spec
CONSTANTS
  r1 = r1
  r2 = r2
  r3 = r3
  brandA = brandA
  brandB = brandB
  w1 = w1
  w2 = w2
  Reqs = {r1, r2, r3}
  Brands = {brandA, brandB}
  BrandOf <- TwoAndOne
  Workers = {w1, w2}
  ClaimLimit = 10
  MaxAttempts = 2
  LateCommits = FALSE
  SlowBatches = FALSE
  LostAnswers = FALSE
  MaxFaults = 1
  Malformed = {r3}
SYMMETRY Replicas
INVARIANTS
  OneErasurePerBrand
PROPERTIES
  KeepsLaneContract
