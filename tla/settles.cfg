SPECIFICATION FairSpec
CONSTANTS
  Refs = {r1}
  Bookings = {b1}
  Wallets = {guest}
  Handlers = {h1, h2}
  NoRef = NoRef
  NoBooking = NoBooking
  NoWallet = NoWallet
  guest = guest
  host = guest
  unpayable = {}
  GuestWallet <- MCGuestWallet
  HostWallet <- MCHostWallet
  DraftWallets = {guest, NoWallet}
  DraftTypes = {"Deposit", "Booking", "Other"}
  MaxRequests = 2
  MaxFaults = 1
INVARIANTS TypeOK BalanceBackedByLedger AddedOnce
PROPERTIES ChargedIsConfirmed ChargedIsPosted
CHECK_DEADLOCK FALSE
