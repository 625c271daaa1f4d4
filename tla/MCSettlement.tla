---------------------------- MODULE MCSettlement ----------------------------
(***************************************************************************)
(* Instances of Settlement for TLC.                                        *)
(***************************************************************************)
EXTENDS Settlement

CONSTANTS guest, host,
  unpayable   \* bookings of a host without a wallet: register saves it last

\* Every guest pays from one wallet and every other host is paid into another.
MCGuestWallet == [b \in Bookings |-> guest]
MCHostWallet == [b \in Bookings |-> IF b \in unpayable THEN NoWallet ELSE host]
=============================================================================
