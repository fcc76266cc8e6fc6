SPECIFICATION FairSpec
CHECK_DEADLOCK FALSE
CONSTANTS
  t1 = t1
  t2 = t2
  Callers = {t1, t2}
  Limit <- TwiceAndOnce
  MaxConns = 2
  HighWater = 0
  BadFrames = {1}
  Stalls = TRUE
  Cancels = {t1}
  Closes = TRUE
INVARIANTS
  TypeOK
  NobodyForgotten
  NothingLeftBehind
PROPERTIES
  Undisturbed
  ImplementsCalls
  CallsEnd
