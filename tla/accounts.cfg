SPECIFICATION Spec
CONSTANTS
  Users = {u1, u2}
  Devices = {d1}
  Handlers = {h1, h2}
  NoUser = NoUser
  NoDevice = NoDevice
  MaxCodes = 2
  MaxRequests = 4
  MaxFaults = 1
INVARIANTS TypeOK TokensBounded CodeUsesBounded PushTokenUnique ReferralsCounted WalletForEveryUser
PROPERTY PasswordKept
SYMMETRY Symmetry
CHECK_DEADLOCK FALSE
