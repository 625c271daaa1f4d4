SPECIFICATION Spec
CONSTANTS
  Refs = {r1}
  Bookings = {b1}
  Wallets = {guest, host}
  Handlers = {h1, h2}
  NoRef = NoRef
  NoBooking = NoBooking
  NoWallet = NoWallet
  guest = guest
  host = host
  unpayable = {}
  GuestWallet <- MCGuestWallet
  HostWallet <- MCHostWallet
  DraftWallets = {guest}
  DraftTypes = {"Booking"}
  MaxRequests = 4
  MaxFaults = 1
INVARIANTS PaidOnlyIfCharged RowsBelongToPaid PayoutsBackedByDebit Inv
PROPERTIES RecordsKept ImplementsBooks
CHECK_DEADLOCK FALSE
