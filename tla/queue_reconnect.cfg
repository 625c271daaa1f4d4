SPECIFICATION FairSpec
CONSTANTS
  Msgs = {m1, m2}
  Slots = {s1, s2}
  MaxRetries = 1
  MaxFailures = 0
  MaxDrops = 1
  MaxCrashes = 0
PROPERTY ReconnectionResumes
CHECK_DEADLOCK FALSE
