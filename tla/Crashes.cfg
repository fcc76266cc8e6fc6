SPECIFICATION Spec
CHECK_DEADLOCK FALSE
CONSTANTS
  h1 = h1
  h2 = h2
  h3 = h3
  h4 = h4
  NumLayers = 3
  Addrs = {h1, h2, h3, h4}
  SpanOf <- Overlapping
  MaxSessions = 2
  MaxLoad <- Unloaded
  MaxInc = 1
  MaxFailures = 2
  PromptLen = 2
  MaxSteps = 2
  Founders = {h2, h3, h4}
  Reliable = {h2, h3}
  RegistryFaults = TRUE
  LongIdle = FALSE
INVARIANTS
  TypeOK
  OutputExact
  RouteTiles
  ReplayExact
  CachesCaughtUp
  CachesNotShared
  SessionsAccountedFor
PROPERTIES
  OtherHopsUntouched
  Survives
  ImplementsGeneration
