------------------------------- MODULE Books --------------------------------
(***************************************************************************)
(* What the money side of the system promises, with no handlers, messages  *)
(* or bookings: money is recorded after it is collected, the ledger only   *)
(* grows and pays out of completed debits, and a balance is made of credit *)
(* rows of its wallet.  It may lack some (Settlement's NoLostCredit says   *)
(* when it does not), and a confirmation may be taken back, but not the    *)
(* rows that are posted.                                                   *)
(***************************************************************************)
EXTENDS Naturals, Sequences

CONSTANTS Refs, Wallets

VARIABLES charged,    \* references the money of which is collected
          confirmed,  \* references recorded as paid on the processor's word
          ledger,     \* the rows, in insertion order
          balance     \* the rows each balance accounts for

vars == <<charged, confirmed, ledger, balance>>

Row == [type: {"Deposit", "Booking", "Refund"}, mode: {"Debit", "Credit"},
        status: {"Processed", "Completed"}, wallet: Wallets, ref: Refs]

Credits(w) == {i \in DOMAIN ledger : ledger[i].mode = "Credit" /\ ledger[i].wallet = w}

\* A payout is backed by a debit of the same payment that was completed before.
Backed(row) ==
  row.mode = "Credit" /\ row.type # "Deposit" =>
    \E d \in DOMAIN ledger : /\ ledger[d].mode = "Debit"
                            /\ ledger[d].status = "Completed"
                            /\ ledger[d].ref = row.ref

Init ==
  /\ charged = {}
  /\ confirmed = {}
  /\ ledger = <<>>
  /\ balance = [w \in Wallets |-> {}]

Collect ==
  /\ \E r \in Refs : charged' = charged \cup {r}
  /\ UNCHANGED <<confirmed, ledger, balance>>

Confirm ==
  /\ \E r \in charged : confirmed' = confirmed \cup {r}
  /\ UNCHANGED <<charged, ledger, balance>>

\* A client's request writes over what was confirmed.
Retract ==
  /\ \E r \in confirmed : confirmed' = confirmed \ {r}
  /\ UNCHANGED <<charged, ledger, balance>>

Post ==
  /\ \E row \in Row : /\ row.ref \in charged
                      /\ Backed(row)
                      /\ ledger' = Append(ledger, row)
  /\ UNCHANGED <<charged, confirmed, balance>>

Complete ==
  /\ \E i \in DOMAIN ledger : /\ ledger[i].mode = "Debit"
                              /\ ledger' = [ledger EXCEPT ![i].status = "Completed"]
  /\ UNCHANGED <<charged, confirmed, balance>>

SetBalance ==
  /\ \E w \in Wallets : \E S \in SUBSET Credits(w) : balance' = [balance EXCEPT ![w] = S]
  /\ UNCHANGED <<charged, confirmed, ledger>>

Next == Collect \/ Confirm \/ Retract \/ Post \/ Complete \/ SetBalance

Spec == Init /\ [][Next]_vars
=============================================================================
