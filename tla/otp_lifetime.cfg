SPECIFICATION Spec
CONSTANTS
  Users = {u1, u2}
  Devices = {d1}
  Handlers = {h1, h2}
  NoUser = NoUser
  NoDevice = NoDevice
  MaxCodes = 1
  MaxRequests = 1
  MaxFaults = 0
PROPERTY FiveMinutes
CHECK_DEADLOCK FALSE
