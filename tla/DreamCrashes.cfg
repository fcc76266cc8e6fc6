SPECIFICATION Spec
CHECK_DEADLOCK FALSE
CONSTANTS
  h1 = h1
  h2 = h2
  h3 = h3
  NoPeer = NoPeer
  Addrs = {h1, h2, h3}
  MaxSessions = 1
  MaxInc = 1
  MaxFailures = 2
  MaxActs = 2
  MaxDreams = 1
  Horizon = 1
  Founders = {h1, h2}
  Reliable = {h2, h3}
  RegistryFaults = TRUE
  LongIdle = FALSE
  Persistent = FALSE
INVARIANTS
  TypeOK
  StateMatchesLog
  OneWriter
  SessionsAccountedFor
PROPERTIES
  ActingUndisturbed
  ImplementsLocalBackend
