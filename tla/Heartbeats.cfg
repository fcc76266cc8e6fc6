SPECIFICATION Spec
CHECK_DEADLOCK FALSE
CONSTANTS
  p1 = p1
  p2 = p2
  Peers = {p1, p2}
  NumLayers = 3
  SpanLen <- Lengths
  Throughput <- Speeds
  Ttl = 9
  MaxDelay = 1
  MaxMisses = 1
  MaxRestarts = 1
INVARIANTS
  TypeOK
  ServingIsListed
  DeadIsUnlisted
  LeftStaysOut
PROPERTIES
  JoinsLeastServed
