------------------------------ MODULE MCAccounts -----------------------------
(***************************************************************************)
(* An instance of Accounts for TLC.                                        *)
(***************************************************************************)
EXTENDS Accounts, TLC

\* Users and slots are interchangeable and no property is a liveness property.
Symmetry == Permutations(Users) \cup Permutations(Handlers)
=============================================================================
