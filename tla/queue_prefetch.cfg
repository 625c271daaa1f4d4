SPECIFICATION Spec
CONSTANTS
  Msgs = {m1, m2}
  Slots = {s1, s2}
  MaxRetries = 1
  MaxFailures = 0
  MaxDrops = 0
  MaxCrashes = 0
INVARIANT OneMessageAtATime
CHECK_DEADLOCK FALSE
