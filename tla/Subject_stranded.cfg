SPECIFICATION Spec
CONSTANTS
  email = email
  phone = phone
  device = device
  b1 = b1
  b2 = b2
  b3 = b3
  NoBrain = NoBrain
  NoId = NoId
  Ids = {email}
  Medium = {}
  Brains = {b1, b2, b3}
  Events <- OneId
  Requests <- ByEmail
  MaxRequests = 2
  MaxRetries = 1
SYMMETRY Symmetric
INVARIANTS
  NoneStranded
