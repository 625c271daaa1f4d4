--------------------------- MODULE MCAvailability ---------------------------
(***************************************************************************)
(* An instance of Availability for TLC: two stays that share an instant,   *)
(* and one with its dates reversed.                                        *)
(***************************************************************************)
EXTENDS Availability, TLC

Stays == {<<0, 1>>, <<1, 2>>, <<3, 2>>}

\* Of guests, hosts and anyone with a period, and of the admin without.
Queries == [from: {"guest", "host", "anyone"}, user: Users, period: {<<0, 1>>}]
           \cup [from: {"admin"}, user: Users, period: {NoPeriod}]

\* Users and bookings are interchangeable and no property is a liveness property.
Symmetry == Permutations(Users) \cup Permutations(Bookings)
=============================================================================
