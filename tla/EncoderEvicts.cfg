SPECIFICATION Spec
CHECK_DEADLOCK FALSE
CONSTANTS
  i1 = i1
  i2 = i2
  i3 = i3
  e1 = e1
  e2 = e2
  e3 = e3
  r1 = r1
  r2 = r2
  Images = {i1, i2, i3}
  Encoders = {e1}
  Reliable = {e1}
  RegistryFaults = FALSE
  Requests = {r1}
  MaxImages = 2
  Batches = {}
  CacheSize = 2
  MaxAsked = 3
INVARIANTS
  FittingIsAnswered
