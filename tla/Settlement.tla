----------------------------- MODULE Settlement -----------------------------
(***************************************************************************)
(* Payments, the transaction ledger, wallet balances and booking review:   *)
(* src/app/payment/payment.service.ts and the paths of                     *)
(* src/app/booking/booking.service.ts that reach it.  Nothing here runs in *)
(* a database transaction, so each handler is split at its awaits and the  *)
(* handlers interleave.                                                    *)
(*                                                                         *)
(* Amounts are abstracted: a wallet's balance column is the set of ledger  *)
(* rows whose amounts have been added into it.                             *)
(*                                                                         *)
(* The queue is abstracted to a count of waiting messages; RabbitQueue has *)
(* its retries and what becomes of it when a channel is lost.              *)
(***************************************************************************)
EXTENDS Integers, Sequences, FiniteSets

CONSTANTS
  Refs,         \* Paystack references
  Bookings,     \* booking ids
  Wallets,      \* wallet ids
  Handlers,     \* slots for handlers that run at the same time
  NoRef, NoBooking, NoWallet,
  GuestWallet,  \* the wallet of each booking's guest, or NoWallet
  HostWallet,   \* the wallet of each booking's host, or NoWallet
  DraftWallets, \* wallets clients create payments for, or NoWallet
  DraftTypes,   \* transaction types clients create payments with
  MaxRequests,  \* bound on verification and review requests
  MaxFaults     \* bound on failing awaits, lost channels and process crashes

(***************************************************************************)
(* "Other" stands for WITHDRAWAL and for every type without a case in      *)
(* persistTransaction: none of them reaches the ledger.                    *)
(***************************************************************************)
PaymentTypes == {"Deposit", "Booking", "Other"}

ASSUME NullsAssumption ==
  /\ NoRef \notin Refs
  /\ NoBooking \notin Bookings
  /\ NoWallet \notin Wallets

ASSUME OwnersAssumption ==
  /\ GuestWallet \in [Bookings -> Wallets \cup {NoWallet}]
  /\ HostWallet \in [Bookings -> Wallets \cup {NoWallet}]
  /\ DraftWallets \subseteq Wallets \cup {NoWallet}
  /\ DraftTypes \subseteq PaymentTypes

ASSUME BoundsAssumption ==
  /\ IsFiniteSet(Handlers)
  /\ MaxRequests \in Nat /\ MaxFaults \in Nat

VARIABLES
  charged,   \* the references Paystack has collected the money of
  payment,   \* the payments table, by reference
  booking,   \* the bookings table, by id, with its invoice's payment
  ledger,    \* the transactions table, in insertion order
  balance,   \* the rows accounted for in each wallet's balance column
  rewritten, \* history: references whose payment a booking's body has changed
  pending,   \* verification messages waiting in the payment queue
  server,    \* the process: consuming, running without a consumer, or down
  job,       \* what each handler slot is doing
  requests, faults

db == <<payment, rewritten, booking, ledger, balance>>
vars == <<charged, db, pending, server, job, requests, faults>>
-----------------------------------------------------------------------------
Payment == [status: {"absent", "pending", "success"},
            type: PaymentTypes \cup {"None"},
            wallet: Wallets \cup {NoWallet}]

BookingStatuses ==
  {"absent", "Draft", "Pending", "Upcoming", "Rejected", "Cancelled", "removed"}

\* A removed booking keeps ref: its invoice stays linked to the payment.
Booking == [status: BookingStatuses, paid: BOOLEAN, ref: Refs \cup {NoRef}]

Row == [type: {"Deposit", "Booking", "Refund"}, mode: {"Debit", "Credit"},
        status: {"Processed", "Completed"}, wallet: Wallets, ref: Refs]

Actions == {"Approve", "Reject", "Cancel"}

Places == {"idle", "verify", "book", "save", "deposit", "debit", "find",
           "complete", "payout", "read", "write", "ack", "throw"}

Job == [pc: Places,
        kind: {"None", "Process", "Approve", "Cancel"},
        ref: Refs \cup {NoRef}, bk: Bookings \cup {NoBooking},
        wallet: Wallets \cup {NoWallet}, type: PaymentTypes \cup {"None"},
        kept: PaymentTypes \cup {"None"}, row: Nat, seen: SUBSET Nat]

Absent == [status |-> "absent", type |-> "None", wallet |-> NoWallet]

Unbooked == [status |-> "absent", paid |-> FALSE, ref |-> NoRef]

Idle == [pc |-> "idle", kind |-> "None", ref |-> NoRef, bk |-> NoBooking,
         wallet |-> NoWallet, type |-> "None", kept |-> "None", row |-> 0, seen |-> {}]

StatusFor(act) == CASE act = "Approve" -> "Upcoming"
                    [] act = "Reject"  -> "Rejected"
                    [] act = "Cancel"  -> "Cancelled"

DepositRow(j) == [type |-> "Deposit", mode |-> "Credit", status |-> "Completed",
                  wallet |-> j.wallet, ref |-> j.ref]

DebitRow(j) == [type |-> "Booking", mode |-> "Debit", status |-> "Processed",
                wallet |-> j.wallet, ref |-> j.ref]

\* Mutant: the guest is credited whatever the review decided.
PayoutRowToGuest(j) ==
  [type |-> IF j.kind = "Approve" THEN "Booking" ELSE "Refund",
   mode |-> "Credit", status |-> "Completed",
   wallet |-> GuestWallet[j.bk], ref |-> j.ref]

PayoutRow(j) == [type |-> IF j.kind = "Approve" THEN "Booking" ELSE "Refund",
                 mode |-> "Credit", status |-> "Completed",
                 wallet |-> j.wallet, ref |-> j.ref]

\* Mutant: the status of the debit is not looked at.
DebitsOfAnyStatus(r) ==
  {i \in DOMAIN ledger : /\ ledger[i].type = "Booking"
                         /\ ledger[i].mode = "Debit"
                         /\ ledger[i].ref = r}

\* The rows the review handlers look for: unreviewed debits of a payment.
ProcessedDebits(r) ==
  {i \in DOMAIN ledger : /\ ledger[i].type = "Booking"
                         /\ ledger[i].mode = "Debit"
                         /\ ledger[i].status = "Processed"
                         /\ ledger[i].ref = r}
-----------------------------------------------------------------------------
Init ==
  /\ charged = {}
  /\ payment = [r \in Refs |-> Absent]
  /\ booking = [b \in Bookings |-> Unbooked]
  /\ rewritten = {}
  /\ ledger = <<>>
  /\ balance = [w \in Wallets |-> {}]
  /\ server = "up"
  /\ pending = [r \in Refs |-> 0]
  /\ job = [h \in Handlers |-> Idle]
  /\ requests = 0
  /\ faults = 0

\* The customer completes the charge at Paystack.
Charge(r) ==
  /\ r \notin charged
  /\ charged' = charged \cup {r}
  /\ UNCHANGED <<db, pending, server, job, requests, faults>>

Serving == server # "down"

\* The reference column is unique: a second draft for r is refused.
CreatePayment(r, w, t) ==
  /\ Serving
  /\ payment[r].status = "absent"
  /\ payment' = [payment EXCEPT ![r] = [status |-> "pending", type |-> t, wallet |-> w]]
  /\ UNCHANGED <<charged, rewritten, booking, ledger, balance, pending, server, job, requests, faults>>

Exists(b) == booking[b].status \notin {"absent", "removed"}

\* The links of bookings to invoices and of invoices to payments are one to
\* one; the invoice of a removed booking may be sent again.
InsertBooking(b, r) ==
  /\ Serving
  /\ booking[b].status = "absent"
  /\ r # NoRef => \A c \in Bookings : Exists(c) => booking[c].ref # r
  /\ booking' = [booking EXCEPT ![b] = [status |-> "Draft", paid |-> FALSE, ref |-> r]]

\* The body's invoice names no payment (NoRef) or links one as it is.
CreateBooking(b, r) ==
  /\ r # NoRef => payment[r].status # "absent"
  /\ InsertBooking(b, r)
  /\ UNCHANGED <<charged, payment, rewritten, ledger, balance, pending, server, job, requests, faults>>

\* What a body may write into the columns of its invoice's payment.
Columns == [status: {"pending", "success"}, type: DraftTypes, wallet: DraftWallets]

\* The cascade of the save updates the payment with the columns the body gives
\* it, or inserts one that does not exist.
CreateBookingWith(b, r, p) ==
  /\ InsertBooking(b, r)
  /\ payment' = [payment EXCEPT ![r] = p]
  /\ rewritten' = IF p = payment[r] \/ (payment[r].status = "absent" /\ p.status = "pending")
                  THEN rewritten ELSE rewritten \cup {r}
  /\ UNCHANGED <<charged, ledger, balance, pending, server, job, requests, faults>>

RemoveBooking(b) ==
  /\ Serving
  /\ Exists(b)
  /\ booking' = [booking EXCEPT ![b].status = "removed"]
  /\ UNCHANGED <<charged, payment, rewritten, ledger, balance, pending, server, job, requests, faults>>

(***************************************************************************)
(* The read of the payment and the push of the message are one step: a     *)
(* message that is not pushed yet is like one not received yet.  The push  *)
(* reconnects where it has to, which brings back no consumer.              *)
(***************************************************************************)
VerifyPayment(r) ==
  /\ Serving
  /\ requests < MaxRequests
  /\ payment[r].status # "success"
  /\ pending' = [pending EXCEPT ![r] = @ + 1]
  /\ requests' = requests + 1
  /\ UNCHANGED <<charged, db, server, job, faults>>
-----------------------------------------------------------------------------
(***************************************************************************)
(* processPayment, run for a message of the payment queue.  The payment    *)
(* read first, with its wallet and booking, is used to the end.            *)
(***************************************************************************)
BookingOf(r) ==
  IF \E b \in Bookings : Exists(b) /\ booking[b].ref = r
  THEN CHOOSE b \in Bookings : Exists(b) /\ booking[b].ref = r
  ELSE NoBooking

\* One more message for r waits.
Again(r) == [pending EXCEPT ![r] = @ + 1]

Receive(h, r) ==
  /\ server = "up"
  /\ job[h].pc = "idle"
  /\ pending[r] > 0
  /\ pending' = [pending EXCEPT ![r] = @ - 1]
  /\ job' = [job EXCEPT ![h] = [Idle EXCEPT !.pc = "verify", !.kind = "Process", !.ref = r,
                                            !.bk = BookingOf(r),
                                            !.wallet = payment[r].wallet,
                                            !.type = payment[r].type]]
  /\ UNCHANGED <<charged, db, server, requests, faults>>

\* Slot h is at pc and moves to next.
Goto(h, pc, next) ==
  /\ job[h].pc = pc
  /\ job' = [job EXCEPT ![h].pc = next]

\* Mutant: Paystack's answer is not looked at.
VerifyAnything(h) ==
  /\ job[h].pc = "verify"
  /\ job' = [job EXCEPT ![h].pc = IF job[h].bk # NoBooking THEN "book" ELSE "save",
                        ![h].kept = payment[job[h].ref].type]
  /\ UNCHANGED <<charged, db, pending, server, requests, faults>>

\* Mutant: a payment saved as a success is taken for one that is posted.
VerifyUnsavedOnly(h) ==
  /\ job[h].pc = "verify"
  /\ job' = [job EXCEPT ![h].pc = IF job[h].ref \notin charged THEN "throw"
                                  ELSE IF payment[job[h].ref].status = "success" THEN "ack"
                                  ELSE IF job[h].bk # NoBooking THEN "book" ELSE "save",
                        ![h].kept = payment[job[h].ref].type]
  /\ UNCHANGED <<charged, db, pending, server, requests, faults>>

\* Paystack answers; anything but "success" is an exception.  preload then reads
\* the payment's columns again, of which save writes back those that differ.
Verify(h) ==
  /\ job[h].pc = "verify"
  /\ job' = [job EXCEPT ![h].pc = IF job[h].ref \notin charged THEN "throw"
                                  ELSE IF job[h].bk # NoBooking THEN "book" ELSE "save",
                        ![h].kept = payment[job[h].ref].type]
  /\ UNCHANGED <<charged, db, pending, server, requests, faults>>

\* Mutant: the debit is inserted before the payment is saved.
MarkBookingThenDebit(h) ==
  /\ Goto(h, "book", "debit")
  /\ LET b == job[h].bk IN
     booking' = IF Exists(b) THEN [booking EXCEPT ![b].status = "Pending", ![b].paid = TRUE]
                ELSE booking
  /\ UNCHANGED <<charged, payment, rewritten, ledger, balance, pending, server, requests, faults>>

\* An UPDATE by id: a booking removed since it was read is left alone.
MarkBookingPaid(h) ==
  /\ Goto(h, "book", "save")
  /\ LET b == job[h].bk IN
     booking' = IF Exists(b) THEN [booking EXCEPT ![b].status = "Pending", ![b].paid = TRUE]
                ELSE booking
  /\ UNCHANGED <<charged, payment, rewritten, ledger, balance, pending, server, requests, faults>>

\* Mutant: a payment without a wallet is not refused.
AfterSaveUnchecked(j) ==
  IF j.type \notin {"Deposit", "Booking"} THEN "throw"
  ELSE IF j.type = "Deposit" THEN "deposit" ELSE "debit"

AfterSave(j) ==
  IF j.wallet = NoWallet \/ j.type \notin {"Deposit", "Booking"} THEN "throw"
  ELSE IF j.type = "Deposit" THEN "deposit" ELSE "debit"

\* A payment that was read is updated, one that was not is inserted, unless
\* somebody has inserted the reference since.
SavePayment(h) ==
  LET j == job[h]
      clash == j.type = "None" /\ payment[j.ref].status # "absent"
  IN  /\ j.pc = "save"
      /\ job' = [job EXCEPT ![h].pc = IF clash THEN "throw" ELSE AfterSave(j),
                            ![h].kept = "None"]
      /\ payment' = IF clash THEN payment
                    ELSE IF j.type = "None"
                    THEN [payment EXCEPT ![j.ref] = [status |-> "success", type |-> "Other",
                                                     wallet |-> NoWallet]]
                    ELSE [payment EXCEPT ![j.ref].status = "success", ![j.ref].type = j.kept]
      /\ UNCHANGED <<charged, rewritten, booking, ledger, balance, pending, server, requests, faults>>

\* Mutant: a deposit row that exists is taken again instead of a new one.
InsertDepositOnce(h) ==
  LET found == {i \in DOMAIN ledger : ledger[i] = DepositRow(job[h])} IN
  /\ job[h].pc = "deposit"
  /\ ledger' = IF found = {} THEN Append(ledger, DepositRow(job[h])) ELSE ledger
  /\ \E i \in (IF found = {} THEN {Len(ledger) + 1} ELSE found) :
       job' = [job EXCEPT ![h].pc = "read", ![h].row = i]
  /\ UNCHANGED <<charged, payment, rewritten, booking, balance, pending, server, requests, faults>>

InsertDeposit(h) ==
  /\ job[h].pc = "deposit"
  /\ ledger' = Append(ledger, DepositRow(job[h]))
  /\ job' = [job EXCEPT ![h].pc = "read", ![h].row = Len(ledger) + 1]
  /\ UNCHANGED <<charged, payment, rewritten, booking, balance, pending, server, requests, faults>>

\* Mutant: the wallet is updated for a debit too.
InsertDebitAdded(h) ==
  /\ job[h].pc = "debit"
  /\ ledger' = Append(ledger, DebitRow(job[h]))
  /\ job' = [job EXCEPT ![h].pc = "read", ![h].row = Len(ledger) + 1]
  /\ UNCHANGED <<charged, payment, rewritten, booking, balance, pending, server, requests, faults>>

InsertDebit(h) ==
  /\ Goto(h, "debit", "ack")
  /\ ledger' = Append(ledger, DebitRow(job[h]))
  /\ UNCHANGED <<charged, payment, rewritten, booking, balance, pending, server, requests, faults>>

\* For a debit the host is notified first; then the message is acknowledged.  On
\* a lost channel that is in vain, and may even have a copy published.
Ack(h) ==
  /\ job[h].pc = "ack"
  /\ pending' = pending \/ (server = "deaf" /\ pending' = Again(job[h].ref))
  /\ job' = [job EXCEPT ![h] = Idle]
  /\ UNCHANGED <<charged, db, server, requests, faults>>
-----------------------------------------------------------------------------
\* The status is updated whatever it was.  A rejection ends there.
Review(h, b, act) ==
  /\ Serving
  /\ job[h].pc = "idle"
  /\ requests < MaxRequests
  /\ Exists(b)
  /\ booking' = [booking EXCEPT ![b].status = StatusFor(act)]
  /\ job' = IF act = "Reject" THEN job
            ELSE [job EXCEPT ![h] = [Idle EXCEPT !.pc = "find", !.kind = act, !.bk = b]]
  /\ requests' = requests + 1
  /\ UNCHANGED <<charged, payment, rewritten, ledger, balance, pending, server, faults>>

FindDebit(h) ==
  LET j == job[h]
      r == booking[j.bk].ref
      w == IF j.kind = "Approve" THEN HostWallet[j.bk] ELSE GuestWallet[j.bk]
  IN  /\ j.pc = "find"
      /\ \/ /\ ~Exists(j.bk) \/ ProcessedDebits(r) = {}
            /\ job' = [job EXCEPT ![h].pc = "throw"]
         \/ /\ Exists(j.bk)
            /\ \E i \in ProcessedDebits(r) :
                 job' = [job EXCEPT ![h] = [j EXCEPT !.pc = "complete", !.ref = r,
                                                     !.wallet = w, !.row = i]]
      /\ UNCHANGED <<charged, db, pending, server, requests, faults>>

\* Mutant: the debit is saved whole by its id, as bookingTransaction does when
\* given one, but for the wallet that is being paid.
CompleteDebitWhole(h) ==
  /\ Goto(h, "complete", IF job[h].wallet = NoWallet THEN "throw" ELSE "payout")
  /\ ledger' = [ledger EXCEPT ![job[h].row] = [DebitRow(job[h]) EXCEPT !.status = "Completed"]]
  /\ UNCHANGED <<charged, payment, rewritten, booking, balance, pending, server, requests, faults>>

\* Mutant: the debit found is not completed.
LeaveDebit(h) ==
  /\ Goto(h, "complete", IF job[h].wallet = NoWallet THEN "throw" ELSE "payout")
  /\ UNCHANGED <<charged, db, pending, server, requests, faults>>

\* Reading the id of a wallet that does not exist throws after the update.
CompleteDebit(h) ==
  /\ Goto(h, "complete", IF job[h].wallet = NoWallet THEN "throw" ELSE "payout")
  /\ ledger' = [ledger EXCEPT ![job[h].row].status = "Completed"]
  /\ UNCHANGED <<charged, payment, rewritten, booking, balance, pending, server, requests, faults>>

InsertPayout(h) ==
  /\ job[h].pc = "payout"
  /\ ledger' = Append(ledger, PayoutRow(job[h]))
  /\ job' = [job EXCEPT ![h].pc = "read", ![h].row = Len(ledger) + 1]
  /\ UNCHANGED <<charged, payment, rewritten, booking, balance, pending, server, requests, faults>>
-----------------------------------------------------------------------------
\* updateWalletBalance, for a deposit, a payout and a refund alike.
ReadWallet(h) ==
  /\ job[h].pc = "read"
  /\ job' = [job EXCEPT ![h].pc = "write", ![h].seen = balance[job[h].wallet]]
  /\ UNCHANGED <<charged, db, pending, server, requests, faults>>

\* Mutant: the balance is set to the amount instead of increased by it.
OverwriteWallet(h) ==
  LET j == job[h]
  IN  /\ j.pc = "write"
      /\ balance' = [balance EXCEPT ![j.wallet] = {j.row}]
      /\ job' = [job EXCEPT ![h] = IF j.kind = "Process" THEN [j EXCEPT !.pc = "ack", !.seen = {}]
                                   ELSE Idle]
      /\ UNCHANGED <<charged, payment, rewritten, booking, ledger, pending, server, requests, faults>>

WriteWallet(h) ==
  LET j == job[h]
  IN  /\ j.pc = "write"
      /\ balance' = [balance EXCEPT ![j.wallet] = j.seen \cup {j.row}]
      /\ job' = [job EXCEPT ![h] = IF j.kind = "Process" THEN [j EXCEPT !.pc = "ack", !.seen = {}]
                                   ELSE Idle]
      /\ UNCHANGED <<charged, payment, rewritten, booking, ledger, pending, server, requests, faults>>
-----------------------------------------------------------------------------
(***************************************************************************)
(* A handler ends with an exception.  A message is not lost by it: it is   *)
(* republished or dead-lettered and comes back; a review is just answered. *)
(* On a lost channel, where the message waits again already, only the      *)
(* republished copy comes on top.                                          *)
(***************************************************************************)
\* Mutant: the exception is swallowed and the message acknowledged.
SwallowError(h) ==
  /\ job' = [job EXCEPT ![h] = Idle]
  /\ UNCHANGED pending

EndWithError(h) ==
  /\ \/ pending' = IF job[h].kind = "Process" THEN Again(job[h].ref) ELSE pending
     \/ server = "deaf" /\ pending' = pending
  /\ job' = [job EXCEPT ![h] = Idle]

Throw(h) ==
  /\ job[h].pc = "throw"
  /\ EndWithError(h)
  /\ UNCHANGED <<charged, db, server, requests, faults>>

\* Any awaited call may fail instead: the database, Paystack or the queue.
Fail(h) ==
  /\ job[h].pc \notin {"idle", "throw"}
  /\ faults < MaxFaults
  /\ EndWithError(h)
  /\ faults' = faults + 1
  /\ UNCHANGED <<charged, db, server, requests>>
-----------------------------------------------------------------------------
(***************************************************************************)
(* The end of consumption.  The broker holds what it has delivered on the  *)
(* consumer's channel until it is acknowledged or the channel ends.        *)
(***************************************************************************)
Processing(r) == {h \in Handlers : job[h].kind = "Process" /\ job[h].ref = r}

Requeued ==
  IF server = "up" THEN [r \in Refs |-> pending[r] + Cardinality(Processing(r))] ELSE pending

\* The channel is lost: a new one is made, but nothing consumes on it.
LoseChannel ==
  /\ server = "up"
  /\ faults < MaxFaults
  /\ server' = "deaf"
  /\ pending' = Requeued
  /\ faults' = faults + 1
  /\ UNCHANGED <<charged, db, job, requests>>

\* The process dies with its handlers.
Crash ==
  /\ Serving
  /\ faults < MaxFaults
  /\ server' = "down"
  /\ pending' = Requeued
  /\ job' = [h \in Handlers |-> Idle]
  /\ faults' = faults + 1
  /\ UNCHANGED <<charged, db, requests>>

\* Somebody starts it again: connect, registerQueue, consumeMessages.
Restart ==
  /\ server = "down"
  /\ server' = "up"
  /\ UNCHANGED <<charged, db, pending, job, requests, faults>>
-----------------------------------------------------------------------------
ProcessStep(h) ==
  \/ Verify(h) \/ MarkBookingPaid(h) \/ SavePayment(h)
  \/ InsertDeposit(h) \/ InsertDebit(h) \/ Ack(h)

ReviewStep(h) == FindDebit(h) \/ CompleteDebit(h) \/ InsertPayout(h)

WalletStep(h) == ReadWallet(h) \/ WriteWallet(h)

Step(h) == ProcessStep(h) \/ ReviewStep(h) \/ WalletStep(h) \/ Throw(h)

Next ==
  \/ \E r \in Refs : Charge(r) \/ VerifyPayment(r)
  \/ \E r \in Refs, w \in DraftWallets, t \in DraftTypes : CreatePayment(r, w, t)
  \/ \E b \in Bookings, r \in Refs \cup {NoRef} : CreateBooking(b, r)
  \/ \E b \in Bookings, r \in Refs, p \in Columns : CreateBookingWith(b, r, p)
  \/ \E b \in Bookings : RemoveBooking(b)
  \/ \E h \in Handlers, r \in Refs : Receive(h, r)
  \/ \E h \in Handlers, b \in Bookings, act \in Actions : Review(h, b, act)
  \/ \E h \in Handlers : Step(h) \/ Fail(h)
  \/ LoseChannel \/ Crash \/ Restart

Spec == Init /\ [][Next]_vars

(***************************************************************************)
(* An awaited call is answered or fails, so a handler that started moves   *)
(* on.  The consumer sets no prefetch limit: while there is one, every     *)
(* waiting message is delivered, whatever the others do.  The slots are    *)
(* the model's bound, hence strong fairness of Receive.  Nothing in the    *)
(* program consumes again after a lost channel or restarts a process that  *)
(* died: Restart is not fair.  Neither are the customer, the requests and  *)
(* the faults.                                                             *)
(***************************************************************************)
Fairness ==
  /\ \A h \in Handlers : WF_vars(Step(h))
  /\ \A r \in Refs : SF_vars(\E h \in Handlers : Receive(h, r))

FairSpec == Spec /\ Fairness
-----------------------------------------------------------------------------
(***************************************************************************)
(*                               Properties                                *)
(***************************************************************************)
TypeOK ==
  /\ charged \in SUBSET Refs
  /\ payment \in [Refs -> Payment]
  /\ rewritten \in SUBSET Refs
  /\ booking \in [Bookings -> Booking]
  /\ ledger \in Seq(Row)
  /\ balance \in [Wallets -> SUBSET Nat]
  /\ pending \in [Refs -> Nat]
  /\ server \in {"up", "deaf", "down"}
  /\ job \in [Handlers -> Job]
  /\ requests \in 0..MaxRequests
  /\ faults \in 0..MaxFaults

\* Nothing is recorded as paid before Paystack has the money: not the booking,
\* whatever bodies say, nor the payment, unless a booking's body changed it.
PaidOnlyIfCharged ==
  /\ \A r \in Refs : payment[r].status = "success" => r \in charged \cup rewritten
  /\ \A b \in Bookings : booking[b].paid => booking[b].ref \in charged

\* A row enters the ledger only for money that Paystack has, and its payment is
\* a success, or was one until a booking's body changed it: however handlers,
\* stale bodies, retries and crashes interleave.
RowsBelongToPaid ==
  \A i \in DOMAIN ledger :
    /\ ledger[i].ref \in charged
    /\ payment[ledger[i].ref].status = "success" \/ ledger[i].ref \in rewritten

IsCreditOf(w, i) == /\ i \in DOMAIN ledger
                    /\ ledger[i].mode = "Credit"
                    /\ ledger[i].wallet = w

IsDebitOf(r, i) == /\ i \in DOMAIN ledger
                   /\ ledger[i].type = "Booking"
                   /\ ledger[i].mode = "Debit"
                   /\ ledger[i].ref = r

DebitCompleted(r) == \E d \in DOMAIN ledger : IsDebitOf(r, d) /\ ledger[d].status = "Completed"

IsPayout(row) == row.mode = "Credit" /\ row.type \in {"Booking", "Refund"}

\* Hosts are paid and guests refunded out of a debit that the review has
\* completed: no payout row without a completed debit of the same payment.
PayoutsBackedByDebit ==
  \A i \in DOMAIN ledger : IsPayout(ledger[i]) => DebitCompleted(ledger[i].ref)

\* A balance holds the amounts of credit rows of its own wallet only: a debit,
\* a stale read or the other party's row never ends up in it.
BalanceBackedByLedger ==
  \A w \in Wallets : \A i \in balance[w] : IsCreditOf(w, i)

\* No row's amount is added twice: a row waiting to be added is in no balance
\* yet, and no two handlers are about to add the same row.
AddedOnce ==
  \A h \in Handlers : job[h].pc \in {"read", "write"} =>
    /\ \A w \in Wallets : job[h].row \notin balance[w]
    /\ \A g \in Handlers \ {h} :
         job[g].pc \in {"read", "write"} => job[g].row # job[h].row

\* With one handler at a time, every credit has reached the balance when the
\* handler is idle, unless a call failed or the process died on the way.  (Two
\* at a time may lose one: the balance is read, added to and written back.)
NoLostCredit ==
  faults = 0 /\ (\A h \in Handlers : job[h].pc = "idle") =>
    \A i \in DOMAIN ledger :
      ledger[i].mode = "Credit" => i \in balance[ledger[i].wallet]

\* With one handler at a time, failures and crashes included, a completed debit
\* pays at most once: payouts never outnumber completed debits of a payment.
Completed(r) == {i \in DOMAIN ledger : /\ ledger[i].mode = "Debit"
                                      /\ ledger[i].status = "Completed"
                                      /\ ledger[i].ref = r}

Payouts(r) == {i \in DOMAIN ledger : IsPayout(ledger[i]) /\ ledger[i].ref = r}

OnePayoutPerDebit ==
  \A r \in Refs : Cardinality(Payouts(r)) <= Cardinality(Completed(r))

\* What is recorded stays recorded: a payment leaves success by a booking's
\* body only, a row is never changed but for the review of a debit, and none is
\* deleted.
RecordsKept ==
  [][/\ \A r \in Refs :
          payment[r].status = "success" => payment'[r].status = "success" \/ r \in rewritten'
     /\ \A i \in DOMAIN ledger :
          /\ i \in DOMAIN ledger'
          /\ \/ ledger'[i] = ledger[i]
             \/ /\ ledger[i].status = "Processed"
                /\ ledger'[i] = [ledger[i] EXCEPT !.status = "Completed"]]_vars

\* A waiting verification of a charged payment ends in a saved success, in
\* spite of failures and of a concurrent insert of the reference, or the process
\* stops consuming before.  One that is started again has it to do again.
ChargedIsConfirmed ==
  \A r \in Refs :
    server = "up" /\ pending[r] > 0 /\ r \in charged ~>
      payment[r].status = "success" \/ server # "up"

Settles(r) == /\ payment[r].type \in {"Deposit", "Booking"}
              /\ payment[r].wallet # NoWallet

\* A charged draft whose verification is queued reaches the ledger, and a
\* deposit reaches the balance, even when the handler fails in between, unless
\* the process stops consuming before or a booking's body changes the payment.
ChargedIsPosted ==
  \A r \in Refs :
    server = "up" /\ pending[r] > 0 /\ r \in charged /\ Settles(r) ~>
      \/ server # "up"
      \/ r \in rewritten
      \/ \E i \in DOMAIN ledger :
           /\ ledger[i].ref = r
           /\ payment[r].type = "Deposit" => i \in balance[payment[r].wallet]

(***************************************************************************)
(* The handlers implement Books: read through this mapping, every step     *)
(* collects, confirms, retracts, posts, completes, sets a balance or       *)
(* stutters.  A payment that a booking's body changed counts as retracted, *)
(* whatever its status says.                                               *)
(***************************************************************************)
Confirmed == {r \in Refs : payment[r].status = "success"} \ rewritten

Promise == INSTANCE Books WITH confirmed <- Confirmed

\* processPayment and the review handlers, interleaved and failing anywhere,
\* never record money in an order the abstract books would refuse.
ImplementsBooks == Promise!Spec
-----------------------------------------------------------------------------
(***************************************************************************)
(* The inductive invariant: what each handler may rely on at each of its   *)
(* awaits, though everything it read may have changed since.               *)
(***************************************************************************)
JobOK(j) ==
  /\ j.kind = "Process" =>
       /\ j.ref \in Refs
       /\ j.bk # NoBooking => booking[j.bk].ref = j.ref /\ booking[j.bk].status # "absent"
  /\ j.pc \in {"verify", "book", "save", "deposit", "debit"} => j.kind = "Process"
  /\ j.pc \in {"book", "save", "deposit", "debit"} => j.ref \in charged
  /\ j.pc = "book" => j.bk \in Bookings
  /\ j.pc \in {"deposit", "debit"} =>
       /\ j.wallet \in Wallets
       /\ payment[j.ref].status = "success" \/ j.ref \in rewritten
  /\ j.pc \in {"find", "complete", "payout"} =>
       j.kind \in {"Approve", "Cancel"} /\ j.bk \in Bookings
  /\ j.pc = "complete" => j.ref \in Refs /\ IsDebitOf(j.ref, j.row)
  /\ j.pc = "payout" => j.wallet \in Wallets /\ j.ref \in Refs /\ DebitCompleted(j.ref)
  /\ j.pc \in {"read", "write"} => j.wallet \in Wallets /\ IsCreditOf(j.wallet, j.row)
  /\ j.pc = "write" => \A i \in j.seen : IsCreditOf(j.wallet, i)

\* A row about to be added was not in the balance another handler has read.
SeenApart ==
  \A h, g \in Handlers :
    /\ job[h].pc \in {"read", "write"}
    /\ job[g].pc = "write"
    /\ h # g
    => job[h].row \notin job[g].seen

\* Every handler's beliefs hold, and with them the safety properties above,
\* in every state that retries, races and crashes can lead to.
Inv ==
  /\ TypeOK
  /\ PaidOnlyIfCharged
  /\ RowsBelongToPaid
  /\ PayoutsBackedByDebit
  /\ BalanceBackedByLedger
  /\ AddedOnce
  /\ SeenApart
  /\ \A h \in Handlers : JobOK(job[h])
=============================================================================
