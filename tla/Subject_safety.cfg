SPECIFICATION Spec
CONSTANTS
  email = email
  phone = phone
  device = device
  b1 = b1
  b2 = b2
  b3 = b3
  NoBrain = NoBrain
  NoId = NoId
  Ids = {email, phone}
  Medium = {}
  Brains = {b1, b2}
  Events <- TwoIds
  Requests <- AnyAddress
  MaxRequests = 1
  MaxRetries = 1
INVARIANTS
  ErasedStaysErased
PROPERTIES
  ReplayFindsSubject
