SPECIFICATION FairSpec
CONSTANTS
  Bookings = {b1}
  MaxTick = 5
  MaxFaults = 0
PROPERTY ArrivalIsNoticed
CHECK_DEADLOCK FALSE
