SPECIFICATION FairSpec
CONSTANTS
  Bookings = {b1}
  MaxTick = 7
  MaxFaults = 1
INVARIANTS TypeOK StatusMatchesDates
PROPERTIES OneDayArrivalIsNoticed CurrentEnds
CHECK_DEADLOCK FALSE
