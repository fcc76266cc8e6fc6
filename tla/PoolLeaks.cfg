SPECIFICATION Spec
CHECK_DEADLOCK FALSE
CONSTANTS
  t1 = t1
  t2 = t2
  Callers = {t1, t2}
  Limit <- TwiceAndOnce
  MaxConns = 2
  HighWater = 0
  BadFrames = {1}
  Stalls = FALSE
  Cancels = {}
  Closes = FALSE
INVARIANTS
  OneConnection
