SPECIFICATION Spec
CONSTANTS
  Refs = {r1}
  Bookings = {b1, b2}
  Wallets = {guest, host}
  Handlers = {h1}
  NoRef = NoRef
  NoBooking = NoBooking
  NoWallet = NoWallet
  guest = guest
  host = host
  unpayable = {b2}
  GuestWallet <- MCGuestWallet
  HostWallet <- MCHostWallet
  DraftWallets = {guest}
  DraftTypes = {"Deposit", "Booking"}
  MaxRequests = 4
  MaxFaults = 1
INVARIANTS NoLostCredit OnePayoutPerDebit
CHECK_DEADLOCK FALSE
