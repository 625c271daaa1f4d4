SPECIFICATION FairSpec
CONSTANTS
  Msgs = {m1, m2}
  Slots = {s1, s2}
  MaxRetries = 1
  MaxFailures = 3
  MaxDrops = 1
  MaxCrashes = 1
INVARIANTS TypeOK NoMessageLost OneCopyWithoutFaults
PROPERTIES AcceptedIsProcessed ImplementsAtLeastOnce
CHECK_DEADLOCK FALSE
