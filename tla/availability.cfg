SPECIFICATION Spec
CONSTANTS
  Users = {u1, u2}
  Bookings = {b1, b2}
  Periods <- Stays
  Searches <- Queries
  NoUser = NoUser
  NoPeriod = NoPeriod
  Limit = 1
  MaxProperties = 2
  MaxRequests = 6
INVARIANTS TypeOK DoubleStayNeedsRace
PROPERTY SearchComplete
SYMMETRY Symmetry
CHECK_DEADLOCK FALSE
