SPECIFICATION FairSpec
CHECK_DEADLOCK FALSE
CONSTANTS
  h1 = h1
  h2 = h2
  h3 = h3
  NoPeer = NoPeer
  Addrs = {h1, h2, h3}
  MaxSessions = 2
  MaxInc = 1
  MaxFailures = 2
  MaxActs = 3
  MaxDreams = 0
  Horizon = 1
  Founders = {h1, h2}
  Reliable = {h3}
  RegistryFaults = TRUE
  LongIdle = FALSE
  Persistent = FALSE
INVARIANTS
  AnswersExact
PROPERTIES
  CallsEnd
