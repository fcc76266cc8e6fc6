SPECIFICATION Spec
CHECK_DEADLOCK FALSE
CONSTANTS
  h1 = h1
  h2 = h2
  h3 = h3
  h4 = h4
  NumLayers = 2
  Addrs = {h1, h2, h3}
  SpanOf <- Halves
  MaxSessions = 2
  MaxLoad <- Unloaded
  MaxInc = 1
  MaxFailures = 2
  PromptLen = 2
  MaxSteps = 2
  Founders = {h1}
  Reliable = {}
  RegistryFaults = FALSE
  LongIdle = TRUE
INVARIANTS
  OutputExact
