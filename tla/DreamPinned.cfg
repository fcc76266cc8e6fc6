SPECIFICATION Spec
CHECK_DEADLOCK FALSE
CONSTANTS
  h1 = h1
  h2 = h2
  h3 = h3
  NoPeer = NoPeer
  Addrs = {h1}
  MaxSessions = 2
  MaxInc = 1
  MaxFailures = 0
  MaxActs = 2
  MaxDreams = 1
  Horizon = 1
  Founders = {h1}
  Reliable = {}
  RegistryFaults = FALSE
  LongIdle = FALSE
  Persistent = TRUE
INVARIANTS
  AnswersExact
