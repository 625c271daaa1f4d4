-------------------------- MODULE SettlementProofs --------------------------
(***************************************************************************)
(* Proofs that Settlement's invariant holds for any number of references,  *)
(* bookings, wallets and handlers, any owners and any bounds.              *)
(***************************************************************************)
EXTENDS Settlement, SequenceTheorems, FiniteSetTheorems, TLAPS

USE NullsAssumption, OwnersAssumption, BoundsAssumption

-----------------------------------------------------------------------------
LEMMA InitType == Init => TypeOK
  BY DEF Init, TypeOK, Payment, Booking, BookingStatuses, Job, Places, Absent, Unbooked, Idle

\* A handler that ends leaves well-formed counters of waiting messages.
LEMMA EndType ==
  ASSUME TypeOK, NEW h \in Handlers, JobOK(job[h]), EndWithError(h)
  PROVE  pending' \in [Refs -> Nat] /\ job' \in [Handlers -> Job]
<1>1. Idle \in Job
  BY DEF Idle, Job, Places
<1>2. job' \in [Handlers -> Job]
  BY <1>1 DEF EndWithError, TypeOK
<1>3. pending' \in [Refs -> Nat]
  BY DEF EndWithError, Again, TypeOK, JobOK
<1> QED BY <1>2, <1>3

\* A slot that moves on, or that is given a well-formed record, stays well-formed.
LEMMA GotoType ==
  ASSUME job \in [Handlers -> Job], NEW h \in Handlers, NEW pc, NEW next \in Places,
         Goto(h, pc, next)
  PROVE  job' \in [Handlers -> Job]
  BY DEF Goto, Job

LEMMA JobEdits ==
  ASSUME NEW j \in Job, NEW p \in Places, NEW n \in Nat, NEW S \in SUBSET Nat,
         NEW r \in Refs \cup {NoRef}, NEW w \in Wallets \cup {NoWallet}
  PROVE  /\ [j EXCEPT !.pc = p] \in Job
         /\ [j EXCEPT !.pc = p, !.row = n] \in Job
         /\ [j EXCEPT !.pc = p, !.seen = S] \in Job
         /\ [j EXCEPT !.pc = p, !.ref = r, !.wallet = w, !.row = n] \in Job
<1>1. [j EXCEPT !.pc = p] \in Job
  BY DEF Job
<1>2. [j EXCEPT !.pc = p, !.row = n] \in Job
  BY DEF Job
<1>3. [j EXCEPT !.pc = p, !.seen = S] \in Job
  BY DEF Job
<1>4. [j EXCEPT !.pc = p, !.ref = r, !.wallet = w, !.row = n] \in Job
  BY DEF Job
<1> QED BY <1>1, <1>2, <1>3, <1>4

LEMMA DebitFound ==
  ASSUME NEW j \in Job, NEW n \in Nat,
         NEW r \in Refs \cup {NoRef}, NEW w \in Wallets \cup {NoWallet}
  PROVE  [j EXCEPT !.pc = "complete", !.ref = r, !.wallet = w, !.row = n] \in Job
BY DEF Job, Places

LEMMA RowEdit ==
  ASSUME NEW row \in Row
  PROVE  LET done == [row EXCEPT !.status = "Completed"] IN
         /\ done \in Row
         /\ done.status = "Completed"
         /\ done.type = row.type /\ done.mode = row.mode
         /\ done.wallet = row.wallet /\ done.ref = row.ref
  BY DEF Row

LEMMA PaymentEdit ==
  ASSUME NEW p \in Payment, NEW t \in PaymentTypes \cup {"None"}
  PROVE  /\ [p EXCEPT !.status = "success", !.type = t] \in Payment
         /\ [p EXCEPT !.status = "success", !.type = t].status = "success"
  BY DEF Payment

LEMMA BookingEdit ==
  ASSUME NEW bk \in Booking
  PROVE  [bk EXCEPT !.status = "Pending", !.paid = TRUE] \in Booking
  BY DEF Booking, BookingStatuses

LEMMA PlacedType ==
  ASSUME job \in [Handlers -> Job], NEW h \in Handlers, NEW n \in Nat, NEW p \in Places,
         job' = [job EXCEPT ![h].pc = p, ![h].row = n]
  PROVE  job' \in [Handlers -> Job]
<1>1. [job[h] EXCEPT !.pc = p, !.row = n] \in Job
  BY JobEdits
<1>2. job' = [job EXCEPT ![h] = [job[h] EXCEPT !.pc = p, !.row = n]]
  OBVIOUS
<1> QED BY <1>1, <1>2

LEMMA KeptType ==
  ASSUME job \in [Handlers -> Job], NEW h \in Handlers, NEW p \in Places,
         NEW t \in PaymentTypes \cup {"None"},
         job' = [job EXCEPT ![h].pc = p, ![h].kept = t]
  PROVE  job' \in [Handlers -> Job]
<1>1. [job[h] EXCEPT !.pc = p, !.kept = t] \in Job
  BY DEF Job
<1>2. job' = [job EXCEPT ![h] = [job[h] EXCEPT !.pc = p, !.kept = t]]
  OBVIOUS
<1> QED BY <1>1, <1>2

LEMMA SeenType ==
  ASSUME job \in [Handlers -> Job], NEW h \in Handlers, NEW S \in SUBSET Nat,
         job' = [job EXCEPT ![h].pc = "write", ![h].seen = S]
  PROVE  job' \in [Handlers -> Job]
<1>1. [job[h] EXCEPT !.pc = "write", !.seen = S] \in Job
  BY JobEdits DEF Places
<1>2. job' = [job EXCEPT ![h] = [job[h] EXCEPT !.pc = "write", !.seen = S]]
  OBVIOUS
<1> QED BY <1>1, <1>2

LEMMA TypeStep == Inv /\ [Next]_vars => TypeOK'
<1> SUFFICES ASSUME TypeOK, \A h \in Handlers : JobOK(job[h]), [Next]_vars
             PROVE  TypeOK'
  BY DEF Inv
<1> USE DEF TypeOK
<1>1. ASSUME NEW r \in Refs, Charge(r) PROVE TypeOK'
  BY <1>1 DEF Charge, db
<1>2. ASSUME NEW r \in Refs, VerifyPayment(r) PROVE TypeOK'
  BY <1>2 DEF VerifyPayment, db
<1>3. ASSUME NEW r \in Refs, NEW w \in DraftWallets, NEW t \in DraftTypes, CreatePayment(r, w, t)
      PROVE  TypeOK'
  <2>1. [status |-> "pending", type |-> t, wallet |-> w] \in Payment
    BY DEF Payment
  <2> QED BY <1>3, <2>1 DEF CreatePayment, db
<1>4. ASSUME NEW b \in Bookings, NEW r \in Refs \cup {NoRef}, InsertBooking(b, r)
      PROVE  booking' \in [Bookings -> Booking]
  <2>1. [status |-> "Draft", paid |-> FALSE, ref |-> r] \in Booking
    BY DEF Booking, BookingStatuses
  <2> QED BY <1>4, <2>1 DEF InsertBooking
<1>4a. ASSUME NEW b \in Bookings, NEW r \in Refs \cup {NoRef}, CreateBooking(b, r) PROVE TypeOK'
  BY <1>4a, <1>4 DEF CreateBooking
<1>4b. ASSUME NEW b \in Bookings, NEW r \in Refs, NEW p \in Columns, CreateBookingWith(b, r, p)
       PROVE  TypeOK'
  <2>1. p \in Payment
    BY DEF Columns, Payment
  <2> QED BY <1>4b, <1>4, <2>1 DEF CreateBookingWith
<1>5. ASSUME NEW b \in Bookings, RemoveBooking(b) PROVE TypeOK'
  <2>1. booking[b] \in Booking
    OBVIOUS
  <2>2. [booking[b] EXCEPT !.status = "removed"] \in Booking
    BY <2>1 DEF Booking, BookingStatuses
  <2>3. booking' = [booking EXCEPT ![b] = [booking[b] EXCEPT !.status = "removed"]]
    BY <1>5 DEF RemoveBooking
  <2> QED BY <1>5, <2>2, <2>3 DEF RemoveBooking, db
<1>6. ASSUME NEW h \in Handlers, NEW r \in Refs, Receive(h, r) PROVE TypeOK'
  <2>1. BookingOf(r) \in Bookings \cup {NoBooking}
    BY DEF BookingOf
  <2>2. payment[r] \in Payment
    OBVIOUS
  <2>3. job' \in [Handlers -> Job]
    BY <1>6, <2>1, <2>2 DEF Receive, Job, Idle, Payment, Places
  <2> QED BY <1>6, <2>3 DEF Receive, db
<1>7. ASSUME NEW h \in Handlers, NEW b \in Bookings, NEW act \in Actions, Review(h, b, act)
      PROVE  TypeOK'
  <2>1. StatusFor(act) \in BookingStatuses
    BY DEF StatusFor, Actions, BookingStatuses
  <2>2. act = "Reject" \/ act \in {"Approve", "Cancel"}
    BY DEF Actions
  <2>3. job' \in [Handlers -> Job]
    BY <1>7, <2>2 DEF Review, Job, Idle, Places
  <2>4. booking' \in [Bookings -> Booking]
    <3>1. booking[b] \in Booking
      OBVIOUS
    <3>2. [booking[b] EXCEPT !.status = StatusFor(act)] \in Booking
      BY <2>1, <3>1 DEF Booking
    <3>3. booking' = [booking EXCEPT ![b] = [booking[b] EXCEPT !.status = StatusFor(act)]]
      BY <1>7 DEF Review
    <3> QED BY <3>2, <3>3
  <2> QED BY <1>7, <2>3, <2>4 DEF Review
<1>8. ASSUME NEW h \in Handlers, Verify(h) PROVE TypeOK'
  <2>1. job' \in [Handlers -> Job]
    <3>1. job[h].ref \in Refs
      BY <1>8 DEF Verify, JobOK
    <3>2. payment[job[h].ref].type \in PaymentTypes \cup {"None"}
      BY <3>1 DEF Payment
    <3>3. PICK p \in {"throw", "book", "save"} :
            job' = [job EXCEPT ![h].pc = p, ![h].kept = payment[job[h].ref].type]
      BY <1>8 DEF Verify
    <3> QED BY <3>2, <3>3, KeptType DEF Places
  <2> QED BY <1>8, <2>1 DEF Verify, db
<1>9. ASSUME NEW h \in Handlers, MarkBookingPaid(h) PROVE TypeOK'
  <2>1. job' \in [Handlers -> Job]
    BY <1>9, GotoType DEF MarkBookingPaid, Places
  <2>2. booking' \in [Bookings -> Booking]
    <3>1. job[h].bk \in Bookings
      BY <1>9 DEF MarkBookingPaid, Goto, JobOK
    <3>2. booking' \in {booking,
                        [booking EXCEPT ![job[h].bk] = [booking[job[h].bk] EXCEPT
                                                          !.status = "Pending", !.paid = TRUE]]}
      BY <1>9, <3>1 DEF MarkBookingPaid
    <3>3. booking[job[h].bk] \in Booking
      BY <3>1
    <3> QED BY <3>1, <3>2, <3>3, BookingEdit
  <2> QED BY <1>9, <2>1, <2>2 DEF MarkBookingPaid
<1>10. ASSUME NEW h \in Handlers, SavePayment(h) PROVE TypeOK'
  <2>1. AfterSave(job[h]) \in {"throw", "deposit", "debit"}
    BY DEF AfterSave
  <2>2. job' \in [Handlers -> Job]
    <3>1. PICK p \in {"throw", "deposit", "debit"} :
            job' = [job EXCEPT ![h].pc = p, ![h].kept = "None"]
      BY <1>10, <2>1 DEF SavePayment
    <3> QED BY <3>1, KeptType DEF Places
  <2>3. payment' \in [Refs -> Payment]
    <3>1. job[h].ref \in Refs
      BY <1>10 DEF SavePayment, JobOK
    <3>2. [payment[job[h].ref] EXCEPT !.status = "success", !.type = job[h].kept] \in Payment
      <4>1. job[h].kept \in PaymentTypes \cup {"None"}
        BY DEF Job
      <4> QED BY <3>1, <4>1, PaymentEdit
    <3>3. [status |-> "success", type |-> "Other", wallet |-> NoWallet] \in Payment
      BY DEF Payment, PaymentTypes
    <3>4. payment' \in {payment,
                        [payment EXCEPT ![job[h].ref] = [payment[job[h].ref] EXCEPT
                                             !.status = "success", !.type = job[h].kept]],
                        [payment EXCEPT ![job[h].ref] =
                           [status |-> "success", type |-> "Other", wallet |-> NoWallet]]}
      BY <1>10 DEF SavePayment
    <3> QED BY <3>1, <3>2, <3>3, <3>4
  <2> QED BY <1>10, <2>2, <2>3 DEF SavePayment
<1>11. ASSUME NEW h \in Handlers, InsertDeposit(h) PROVE TypeOK'
  <2>1. DepositRow(job[h]) \in Row
    BY <1>11 DEF InsertDeposit, DepositRow, Row, JobOK
  <2>2. ledger' \in Seq(Row)
    BY <1>11, <2>1, AppendProperties DEF InsertDeposit
  <2>3. job' \in [Handlers -> Job]
    <3>1. Len(ledger) + 1 \in Nat
      OBVIOUS
    <3>2. job' = [job EXCEPT ![h].pc = "read", ![h].row = Len(ledger) + 1]
      BY <1>11 DEF InsertDeposit
    <3> QED BY <3>1, <3>2, PlacedType DEF Places
  <2> QED BY <1>11, <2>2, <2>3 DEF InsertDeposit
<1>12. ASSUME NEW h \in Handlers, InsertDebit(h) PROVE TypeOK'
  <2>1. DebitRow(job[h]) \in Row
    BY <1>12 DEF InsertDebit, Goto, DebitRow, Row, JobOK
  <2>2. ledger' \in Seq(Row)
    BY <1>12, <2>1, AppendProperties DEF InsertDebit
  <2>3. job' \in [Handlers -> Job]
    BY <1>12, GotoType DEF InsertDebit, Places
  <2> QED BY <1>12, <2>2, <2>3 DEF InsertDebit
<1>13. ASSUME NEW h \in Handlers, Ack(h) PROVE TypeOK'
  <2>1. job' \in [Handlers -> Job]
    BY <1>13 DEF Ack, Job, Idle, Places
  <2>2. pending' \in [Refs -> Nat]
    BY <1>13 DEF Ack, Again
  <2> QED BY <1>13, <2>1, <2>2 DEF Ack, db
<1>14. ASSUME NEW h \in Handlers, FindDebit(h) PROVE TypeOK'
  <2>1. job[h].bk \in Bookings
    BY <1>14 DEF FindDebit, JobOK
  <2>2. booking[job[h].bk].ref \in Refs \cup {NoRef}
    BY <2>1 DEF Booking
  <2>3. \A i \in DOMAIN ledger : i \in Nat
    OBVIOUS
  <2>4. job' \in [Handlers -> Job]
    <3>1. CASE job' = [job EXCEPT ![h].pc = "throw"]
      <4>1. [job[h] EXCEPT !.pc = "throw"] \in Job
        BY JobEdits DEF Places
      <4> QED BY <3>1, <4>1
    <3>2. ASSUME NEW i \in DOMAIN ledger,
                 NEW w \in Wallets \cup {NoWallet},
                 job' = [job EXCEPT ![h] = [job[h] EXCEPT !.pc = "complete",
                                                   !.ref = booking[job[h].bk].ref,
                                                   !.wallet = w, !.row = i]]
          PROVE  job' \in [Handlers -> Job]
      <4>1. i \in Nat /\ job[h] \in Job
        BY <2>3
      <4>2. [job[h] EXCEPT !.pc = "complete", !.ref = booking[job[h].bk].ref,
                           !.wallet = w, !.row = i] \in Job
        <5> HIDE DEF TypeOK
        <5> QED BY <2>2, <4>1, DebitFound
      <4> QED BY <3>2, <4>2
    <3>3. /\ HostWallet[job[h].bk] \in Wallets \cup {NoWallet}
          /\ GuestWallet[job[h].bk] \in Wallets \cup {NoWallet}
      BY <2>1
    <3> QED BY <1>14, <3>1, <3>2, <3>3 DEF FindDebit, ProcessedDebits
  <2> QED BY <1>14, <2>4 DEF FindDebit, db
<1>15. ASSUME NEW h \in Handlers, CompleteDebit(h) PROVE TypeOK'
  <2>1. job' \in [Handlers -> Job]
    BY <1>15, GotoType DEF CompleteDebit, Places
  <2>2. ledger' \in Seq(Row)
    <3>1. job[h].row \in DOMAIN ledger
      BY <1>15 DEF CompleteDebit, Goto, JobOK, IsDebitOf
    <3>2. [ledger[job[h].row] EXCEPT !.status = "Completed"] \in Row
      BY <3>1, RowEdit
    <3>3. ledger' = [ledger EXCEPT ![job[h].row] =
                       [ledger[job[h].row] EXCEPT !.status = "Completed"]]
      BY <1>15 DEF CompleteDebit
    <3> QED BY <3>1, <3>2, <3>3
  <2> QED BY <1>15, <2>1, <2>2 DEF CompleteDebit
<1>16. ASSUME NEW h \in Handlers, InsertPayout(h) PROVE TypeOK'
  <2>1. PayoutRow(job[h]) \in Row
    BY <1>16 DEF InsertPayout, PayoutRow, Row, JobOK
  <2>2. ledger' \in Seq(Row)
    BY <1>16, <2>1, AppendProperties DEF InsertPayout
  <2>3. job' \in [Handlers -> Job]
    <3>1. Len(ledger) + 1 \in Nat
      OBVIOUS
    <3>2. job' = [job EXCEPT ![h].pc = "read", ![h].row = Len(ledger) + 1]
      BY <1>16 DEF InsertPayout
    <3> QED BY <3>1, <3>2, PlacedType DEF Places
  <2> QED BY <1>16, <2>2, <2>3 DEF InsertPayout
<1>17. ASSUME NEW h \in Handlers, ReadWallet(h) PROVE TypeOK'
  <2>1. job[h].wallet \in Wallets
    BY <1>17 DEF ReadWallet, JobOK
  <2>2. job' \in [Handlers -> Job]
    <3>1. balance[job[h].wallet] \in SUBSET Nat
      BY <2>1
    <3>2. job' = [job EXCEPT ![h].pc = "write", ![h].seen = balance[job[h].wallet]]
      BY <1>17 DEF ReadWallet
    <3> QED BY <3>1, <3>2, SeenType
  <2> QED BY <1>17, <2>2 DEF ReadWallet, db
<1>18. ASSUME NEW h \in Handlers, WriteWallet(h) PROVE TypeOK'
  <2>1. job' \in [Handlers -> Job]
    <3>1. Idle \in Job
      BY DEF Idle, Job, Places
    <3>2. [job[h] EXCEPT !.pc = "ack", !.seen = {}] \in Job
      BY JobEdits DEF Places
    <3> QED BY <1>18, <3>1, <3>2 DEF WriteWallet
  <2>2. balance' \in [Wallets -> SUBSET Nat]
    <3>1. job[h] \in Job
      OBVIOUS
    <3>2. job[h].seen \cup {job[h].row} \in SUBSET Nat
      BY <3>1 DEF Job
    <3> QED BY <1>18, <3>2 DEF WriteWallet
  <2> QED BY <1>18, <2>1, <2>2 DEF WriteWallet
<1>19. ASSUME NEW h \in Handlers, Throw(h) PROVE TypeOK'
  BY <1>19, EndType DEF Throw, db
<1>20. ASSUME NEW h \in Handlers, Fail(h) PROVE TypeOK'
  BY <1>20, EndType DEF Fail, db
<1>20a. Requeued \in [Refs -> Nat]
  <2>1. \A r \in Refs : Cardinality(Processing(r)) \in Nat
    BY FS_Subset, FS_CardinalityType DEF Processing
  <2> QED BY <2>1 DEF Requeued
<1>21. ASSUME Crash PROVE TypeOK'
  <2>1. Idle \in Job
    BY DEF Idle, Job, Places
  <2> QED BY <1>21, <1>20a, <2>1 DEF Crash, db
<1>21a. ASSUME LoseChannel PROVE TypeOK'
  BY <1>21a, <1>20a DEF LoseChannel, db
<1>21b. ASSUME Restart PROVE TypeOK'
  BY <1>21b DEF Restart, db
<1>22. CASE UNCHANGED vars
  BY <1>22 DEF vars, db
<1> QED
  BY <1>1, <1>2, <1>3, <1>4a, <1>4b, <1>5, <1>6, <1>7, <1>8, <1>9, <1>10, <1>11, <1>12, <1>13,
     <1>14, <1>15, <1>16, <1>17, <1>18, <1>19, <1>20, <1>21, <1>21a, <1>21b, <1>22
     DEF Next, Step, ProcessStep, ReviewStep, WalletStep
-----------------------------------------------------------------------------
(***************************************************************************)
(* What no step undoes.  A handler's beliefs are built from these facts    *)
(* only, so they survive whatever the other handlers do.                   *)
(***************************************************************************)
LedgerGrows ==
  \A i \in DOMAIN ledger :
    /\ i \in DOMAIN ledger'
    /\ ledger'[i].type = ledger[i].type
    /\ ledger'[i].mode = ledger[i].mode
    /\ ledger'[i].wallet = ledger[i].wallet
    /\ ledger'[i].ref = ledger[i].ref
    /\ ledger[i].status = "Completed" => ledger'[i].status = "Completed"

Grows ==
  /\ charged \subseteq charged'
  /\ rewritten \subseteq rewritten'
  /\ \A r \in Refs :
       payment[r].status = "success" => payment'[r].status = "success" \/ r \in rewritten'
  /\ \A b \in Bookings :
       booking[b].status # "absent" =>
         booking'[b].ref = booking[b].ref /\ booking'[b].status # "absent"
  /\ LedgerGrows

\* The only steps that touch the ledger.
LEMMA LedgerWriters ==
  Next =>
    \/ UNCHANGED ledger
    \/ \E h \in Handlers : \/ InsertDeposit(h) \/ InsertDebit(h)
                           \/ CompleteDebit(h) \/ InsertPayout(h)
  BY DEF Next, Charge, VerifyPayment, CreatePayment, InsertBooking, CreateBooking,
         CreateBookingWith, RemoveBooking, Receive,
         Review, Step, ProcessStep, ReviewStep, WalletStep, Verify, MarkBookingPaid,
         SavePayment, Ack, FindDebit, ReadWallet, WriteWallet, Throw, Fail, LoseChannel, Crash, Restart, db

\* The only steps that touch the payments or the bookings.
LEMMA TableWriters ==
  Next =>
    /\ \/ UNCHANGED payment
       \/ \E r \in Refs, w \in DraftWallets, t \in DraftTypes : CreatePayment(r, w, t)
       \/ \E b \in Bookings, r \in Refs, p \in Columns : CreateBookingWith(b, r, p)
       \/ \E h \in Handlers : SavePayment(h)
    /\ \/ UNCHANGED rewritten
       \/ \E b \in Bookings, r \in Refs, p \in Columns : CreateBookingWith(b, r, p)
    /\ \/ UNCHANGED booking
       \/ \E b \in Bookings, r \in Refs \cup {NoRef} : InsertBooking(b, r)
       \/ \E b \in Bookings : RemoveBooking(b)
       \/ \E h \in Handlers : MarkBookingPaid(h)
       \/ \E h \in Handlers, b \in Bookings, act \in Actions : Review(h, b, act)
    /\ UNCHANGED charged \/ \E r \in Refs : Charge(r)
    /\ UNCHANGED balance \/ \E h \in Handlers : WriteWallet(h)
  BY DEF Next, Charge, VerifyPayment, CreatePayment, InsertBooking, CreateBooking,
         CreateBookingWith, RemoveBooking, Receive,
         Review, Step, ProcessStep, ReviewStep, WalletStep, Verify, MarkBookingPaid,
         SavePayment, InsertDeposit, InsertDebit, Ack, FindDebit, CompleteDebit,
         InsertPayout, ReadWallet, WriteWallet, Throw, Fail, LoseChannel, Crash, Restart, db

\* Appending a row keeps the others and puts the row at the end.
LEMMA Appended ==
  ASSUME ledger \in Seq(Row), NEW row \in Row, ledger' = Append(ledger, row)
  PROVE  /\ Len(ledger') = Len(ledger) + 1
         /\ DOMAIN ledger' = DOMAIN ledger \cup {Len(ledger) + 1}
         /\ Len(ledger) + 1 \notin DOMAIN ledger
         /\ \A i \in DOMAIN ledger : ledger'[i] = ledger[i]
         /\ ledger'[Len(ledger) + 1] = row
  OBVIOUS

\* The rows that the handlers insert are well formed where they insert them.
LEMMA InsertedRows ==
  ASSUME TypeOK, NEW h \in Handlers, JobOK(job[h])
  PROVE  /\ InsertDeposit(h) => DepositRow(job[h]) \in Row
         /\ InsertDebit(h) => DebitRow(job[h]) \in Row
         /\ InsertPayout(h) => PayoutRow(job[h]) \in Row
<1>1. InsertDeposit(h) => DepositRow(job[h]) \in Row
  BY DEF InsertDeposit, DepositRow, Row, JobOK
<1>2. InsertDebit(h) => DebitRow(job[h]) \in Row
  BY DEF InsertDebit, Goto, DebitRow, Row, JobOK
<1>3. InsertPayout(h) => PayoutRow(job[h]) \in Row
  BY DEF InsertPayout, PayoutRow, Row, JobOK
<1> QED BY <1>1, <1>2, <1>3

LEMMA InsertGrows ==
  ASSUME Inv, NEW h \in Handlers,
         InsertDeposit(h) \/ InsertDebit(h) \/ InsertPayout(h)
  PROVE  LedgerGrows
<1>1. PICK row \in Row : ledger' = Append(ledger, row)
  BY InsertedRows DEF Inv, InsertDeposit, InsertDebit, InsertPayout
<1> QED BY <1>1, Appended DEF Inv, TypeOK, LedgerGrows

\* Completing a debit changes its status and nothing else.
LEMMA CompleteEffect ==
  ASSUME Inv, NEW h \in Handlers, CompleteDebit(h)
  PROVE  /\ job[h].row \in DOMAIN ledger
         /\ DOMAIN ledger' = DOMAIN ledger
         /\ ledger'[job[h].row] = [ledger[job[h].row] EXCEPT !.status = "Completed"]
         /\ \A i \in DOMAIN ledger : i # job[h].row => ledger'[i] = ledger[i]
<1>1. job[h].row \in DOMAIN ledger
  BY DEF CompleteDebit, Goto, Inv, JobOK, IsDebitOf
<1> QED BY <1>1 DEF CompleteDebit, Inv, TypeOK

LEMMA CompleteGrows ==
  ASSUME Inv, NEW h \in Handlers, CompleteDebit(h)
  PROVE  LedgerGrows
<1>0. job[h].row \in DOMAIN ledger
  BY CompleteEffect
<1>1. ledger[job[h].row] \in Row
  BY <1>0 DEF Inv, TypeOK
<1>2. /\ ledger'[job[h].row].type = ledger[job[h].row].type
      /\ ledger'[job[h].row].mode = ledger[job[h].row].mode
      /\ ledger'[job[h].row].wallet = ledger[job[h].row].wallet
      /\ ledger'[job[h].row].ref = ledger[job[h].row].ref
      /\ ledger'[job[h].row].status = "Completed"
  <2>1. ledger'[job[h].row] = [ledger[job[h].row] EXCEPT !.status = "Completed"]
    BY CompleteEffect
  <2> QED BY <1>1, <2>1, RowEdit
<1>3. \A i \in DOMAIN ledger :
        \/ ledger'[i] = ledger[i]
        \/ i = job[h].row
  BY CompleteEffect
<1>4. DOMAIN ledger' = DOMAIN ledger
  BY CompleteEffect
<1> QED BY <1>2, <1>3, <1>4 DEF LedgerGrows

LEMMA NextGrows == Inv /\ Next => Grows
<1> SUFFICES ASSUME Inv, Next PROVE Grows
  OBVIOUS
<1>1. charged \subseteq charged'
  BY TableWriters DEF Charge
<1>2. ASSUME NEW r \in Refs, payment[r].status = "success"
      PROVE  payment'[r].status = "success" \/ r \in rewritten'
  <2>0. payment \in [Refs -> Payment] /\ \A q \in Refs : payment[q] \in Payment
    BY DEF Inv, TypeOK
  <2>1. ASSUME NEW q \in Refs, NEW w \in DraftWallets, NEW t \in DraftTypes,
               CreatePayment(q, w, t)
        PROVE  payment'[r].status = "success"
    BY <1>2, <2>0, <2>1 DEF CreatePayment
  <2>2. ASSUME NEW h \in Handlers, SavePayment(h) PROVE payment'[r].status = "success"
    BY <1>2, <2>0, <2>2 DEF SavePayment, Payment
  <2>3. ASSUME NEW b \in Bookings, NEW q \in Refs, NEW p \in Columns, CreateBookingWith(b, q, p)
        PROVE  payment'[r].status = "success" \/ r \in rewritten'
    BY <1>2, <2>0, <2>3 DEF CreateBookingWith
  <2> QED BY <1>2, <2>1, <2>2, <2>3, TableWriters
<1>2a. rewritten \subseteq rewritten'
  BY TableWriters DEF CreateBookingWith
<1>3. ASSUME NEW b \in Bookings, booking[b].status # "absent"
      PROVE  booking'[b].ref = booking[b].ref /\ booking'[b].status # "absent"
  <2>0. booking \in [Bookings -> Booking] /\ booking[b] \in Booking
    BY DEF Inv, TypeOK
  <2>1. ASSUME NEW c \in Bookings, NEW r \in Refs \cup {NoRef}, InsertBooking(c, r)
        PROVE  booking'[b] = booking[b]
    BY <1>3, <2>0, <2>1 DEF InsertBooking
  <2>2. ASSUME NEW c \in Bookings, RemoveBooking(c)
        PROVE  booking'[b].ref = booking[b].ref /\ booking'[b].status # "absent"
    BY <1>3, <2>0, <2>2 DEF RemoveBooking, Booking
  <2>3. ASSUME NEW h \in Handlers, MarkBookingPaid(h)
        PROVE  booking'[b].ref = booking[b].ref /\ booking'[b].status # "absent"
    BY <1>3, <2>0, <2>3 DEF MarkBookingPaid, Booking
  <2>4. ASSUME NEW h \in Handlers, NEW c \in Bookings, NEW act \in Actions, Review(h, c, act)
        PROVE  booking'[b].ref = booking[b].ref /\ booking'[b].status # "absent"
    <3>1. StatusFor(act) # "absent"
      BY DEF StatusFor, Actions
    <3> QED BY <1>3, <2>0, <2>4, <3>1 DEF Review, Booking
  <2> QED BY <1>3, <2>1, <2>2, <2>3, <2>4, TableWriters
<1>4. LedgerGrows
  BY LedgerWriters, InsertGrows, CompleteGrows DEF LedgerGrows
<1> QED BY <1>1, <1>2, <1>2a, <1>3, <1>4 DEF Grows

\* A handler that does not move keeps its beliefs.
LEMMA BeliefsKept ==
  ASSUME Inv, Grows, NEW h \in Handlers, job'[h] = job[h]
  PROVE  JobOK(job[h])'
<1>0. JobOK(job[h]) /\ job[h] \in Job /\ NoRef \notin Refs
  BY DEF Inv, TypeOK
<1>1. ASSUME NEW r, NEW i, IsDebitOf(r, i) PROVE IsDebitOf(r, i)'
  BY <1>1 DEF IsDebitOf, Grows, LedgerGrows
<1>2. ASSUME NEW w, NEW i, IsCreditOf(w, i) PROVE IsCreditOf(w, i)'
  BY <1>2 DEF IsCreditOf, Grows, LedgerGrows
<1>3. ASSUME NEW r, DebitCompleted(r) PROVE DebitCompleted(r)'
  <2>1. PICK d \in DOMAIN ledger : IsDebitOf(r, d) /\ ledger[d].status = "Completed"
    BY <1>3 DEF DebitCompleted
  <2>2. d \in DOMAIN ledger' /\ IsDebitOf(r, d)' /\ ledger'[d].status = "Completed"
    BY <2>1, <1>1 DEF Grows, LedgerGrows
  <2> QED BY <2>2 DEF DebitCompleted
<1>4. job[h].kind = "Process" /\ job[h].bk # NoBooking =>
        booking'[job[h].bk].ref = job[h].ref /\ booking'[job[h].bk].status # "absent"
  BY <1>0 DEF JobOK, Grows, Job
<1>5. job[h].pc \in {"deposit", "debit"} =>
        payment'[job[h].ref].status = "success" \/ job[h].ref \in rewritten'
  BY <1>0 DEF JobOK, Grows
<1>6. job[h].pc \in {"book", "save", "deposit", "debit"} => job[h].ref \in charged'
  BY <1>0 DEF JobOK, Grows
<1>7. /\ job[h].pc = "complete" => IsDebitOf(job[h].ref, job[h].row)'
      /\ job[h].pc = "payout" => DebitCompleted(job[h].ref)'
      /\ job[h].pc \in {"read", "write"} => IsCreditOf(job[h].wallet, job[h].row)'
      /\ job[h].pc = "write" => \A i \in job[h].seen : IsCreditOf(job[h].wallet, i)'
  BY <1>0, <1>1, <1>2, <1>3 DEF JobOK, IsDebitOf, IsCreditOf, DebitCompleted
<1> QED BY <1>0, <1>4, <1>5, <1>6, <1>7 DEF JobOK, IsDebitOf, IsCreditOf, DebitCompleted
-----------------------------------------------------------------------------
(***************************************************************************)
(* The safety properties, one lemma each: the handler that takes the step  *)
(* relies on its own belief (JobOK), everything else is kept by Grows.     *)
(***************************************************************************)
LEMMA PaidStep == Inv /\ Next => PaidOnlyIfCharged'
<1> SUFFICES ASSUME Inv, Next PROVE PaidOnlyIfCharged'
  OBVIOUS
<1>0. /\ Grows
      /\ PaidOnlyIfCharged
      /\ payment \in [Refs -> Payment]
      /\ booking \in [Bookings -> Booking]
      /\ \A h \in Handlers : JobOK(job[h])
  BY NextGrows DEF Inv, TypeOK
<1>1. ASSUME NEW r \in Refs, payment'[r].status = "success" PROVE r \in charged' \cup rewritten'
  <2>1. CASE UNCHANGED payment
    BY <1>0, <1>1, <2>1 DEF PaidOnlyIfCharged, Grows
  <2>2. ASSUME NEW q \in Refs, NEW w \in DraftWallets, NEW t \in DraftTypes,
               CreatePayment(q, w, t)
        PROVE  r \in charged' \cup rewritten'
    BY <1>0, <1>1, <2>2 DEF PaidOnlyIfCharged, CreatePayment, Grows
  <2>2a. ASSUME NEW b \in Bookings, NEW q \in Refs, NEW p \in Columns, CreateBookingWith(b, q, p)
         PROVE  r \in charged' \cup rewritten'
    BY <1>0, <1>1, <2>2a DEF PaidOnlyIfCharged, CreateBookingWith, Columns, Grows
  <2>3. ASSUME NEW h \in Handlers, SavePayment(h) PROVE r \in charged' \cup rewritten'
    <3>1. job[h].ref \in charged
      BY <1>0, <2>3 DEF SavePayment, JobOK
    <3>2. CASE r = job[h].ref
      BY <1>0, <3>1, <3>2 DEF Grows
    <3>3. CASE r # job[h].ref
      BY <1>0, <1>1, <2>3, <3>3 DEF SavePayment, PaidOnlyIfCharged, Grows
    <3> QED BY <3>2, <3>3
  <2> QED BY <2>1, <2>2, <2>2a, <2>3, TableWriters
<1>2. ASSUME NEW b \in Bookings, booking'[b].paid PROVE booking'[b].ref \in charged'
  <2>1. CASE UNCHANGED booking
    BY <1>0, <1>2, <2>1 DEF PaidOnlyIfCharged, Grows
  <2>2. ASSUME NEW c \in Bookings, NEW r \in Refs \cup {NoRef}, InsertBooking(c, r)
        PROVE  booking'[b].ref \in charged'
    BY <1>0, <1>2, <2>2 DEF PaidOnlyIfCharged, InsertBooking, Grows
  <2>3. ASSUME NEW c \in Bookings, RemoveBooking(c) PROVE booking'[b].ref \in charged'
    BY <1>0, <1>2, <2>3 DEF PaidOnlyIfCharged, RemoveBooking, Booking, Grows
  <2>4. ASSUME NEW h \in Handlers, MarkBookingPaid(h) PROVE booking'[b].ref \in charged'
    <3>1. /\ job[h].bk \in Bookings
          /\ job[h].ref \in charged
          /\ booking[job[h].bk].ref = job[h].ref
      BY <1>0, <2>4 DEF MarkBookingPaid, Goto, JobOK
    <3>2. CASE b = job[h].bk
      BY <1>0, <2>4, <3>1, <3>2 DEF MarkBookingPaid, Booking, Grows
    <3>3. CASE b # job[h].bk
      BY <1>0, <1>2, <2>4, <3>1, <3>3 DEF MarkBookingPaid, PaidOnlyIfCharged, Grows
    <3> QED BY <3>2, <3>3
  <2>5. ASSUME NEW h \in Handlers, NEW c \in Bookings, NEW act \in Actions, Review(h, c, act)
        PROVE  booking'[b].ref \in charged'
    BY <1>0, <1>2, <2>5 DEF PaidOnlyIfCharged, Review, Booking, Grows
  <2> QED BY <2>1, <2>2, <2>3, <2>4, <2>5, TableWriters
<1> QED BY <1>1, <1>2 DEF PaidOnlyIfCharged

\* A row's payment is charged and saved when the row is inserted.
LEMMA InsertedAreLegal ==
  ASSUME Inv, NEW h \in Handlers, NEW row,
         \/ InsertDeposit(h) /\ row = DepositRow(job[h])
         \/ InsertDebit(h) /\ row = DebitRow(job[h])
         \/ InsertPayout(h) /\ row = PayoutRow(job[h])
  PROVE  /\ row \in Row
         /\ ledger' = Append(ledger, row)
         /\ row.ref \in charged
         /\ payment[row.ref].status = "success" \/ row.ref \in rewritten
         /\ IsPayout(row) => DebitCompleted(row.ref)
<1>0. JobOK(job[h]) /\ TypeOK /\ RowsBelongToPaid
  BY DEF Inv
<1>1. row \in Row /\ ledger' = Append(ledger, row)
  BY <1>0, InsertedRows DEF InsertDeposit, InsertDebit, InsertPayout
<1>2. row.ref = job[h].ref
  BY DEF DepositRow, DebitRow, PayoutRow
<1>3. CASE InsertDeposit(h) /\ row = DepositRow(job[h])
  BY <1>0, <1>1, <1>2, <1>3 DEF InsertDeposit, DepositRow, JobOK, IsPayout
<1>4. CASE InsertDebit(h) /\ row = DebitRow(job[h])
  BY <1>0, <1>1, <1>2, <1>4 DEF InsertDebit, Goto, DebitRow, JobOK, IsPayout
<1>5. CASE InsertPayout(h) /\ row = PayoutRow(job[h])
  <2>1. DebitCompleted(job[h].ref)
    BY <1>0, <1>5 DEF InsertPayout, JobOK
  <2>2. /\ job[h].ref \in charged
        /\ payment[job[h].ref].status = "success" \/ job[h].ref \in rewritten
    BY <1>0, <2>1 DEF DebitCompleted, IsDebitOf, RowsBelongToPaid
  <2> QED BY <1>1, <1>2, <2>1, <2>2
<1> QED BY <1>3, <1>4, <1>5

LEMMA RowsStep == Inv /\ Next => RowsBelongToPaid' /\ PayoutsBackedByDebit'
<1> SUFFICES ASSUME Inv, Next PROVE RowsBelongToPaid' /\ PayoutsBackedByDebit'
  OBVIOUS
<1>a. Grows /\ ledger \in Seq(Row)
  BY NextGrows DEF Inv, TypeOK
<1>b. \A i \in DOMAIN ledger : ledger[i] \in Row
  BY <1>a
<1>c. \A row \in Row : row.ref \in Refs
  BY DEF Row
<1>0. /\ Grows /\ ledger \in Seq(Row)
      /\ \A i \in DOMAIN ledger : ledger[i].ref \in Refs
      /\ \A row \in Row : row.ref \in Refs
  BY <1>a, <1>b, <1>c
<1>1. ASSUME NEW r, DebitCompleted(r) PROVE DebitCompleted(r)'
  <2>1. PICK d \in DOMAIN ledger : IsDebitOf(r, d) /\ ledger[d].status = "Completed"
    BY <1>1 DEF DebitCompleted
  <2>2. d \in DOMAIN ledger' /\ IsDebitOf(r, d)' /\ ledger'[d].status = "Completed"
    BY <1>0, <2>1 DEF Grows, LedgerGrows, IsDebitOf
  <2> QED BY <2>2 DEF DebitCompleted
\* A row that was there before.
<1>2. ASSUME NEW i \in DOMAIN ledger
      PROVE  /\ ledger'[i].ref \in charged'
             /\ payment'[ledger'[i].ref].status = "success" \/ ledger'[i].ref \in rewritten'
             /\ IsPayout(ledger'[i]) => DebitCompleted(ledger[i].ref)'
  <2>1. ledger'[i].ref = ledger[i].ref /\ ledger[i].ref \in Refs
    BY <1>0 DEF Grows, LedgerGrows
  <2>2. /\ ledger'[i].ref \in charged'
        /\ payment'[ledger'[i].ref].status = "success" \/ ledger'[i].ref \in rewritten'
    BY <1>0, <2>1 DEF Grows, Inv, RowsBelongToPaid
  <2>3. IsPayout(ledger'[i]) => IsPayout(ledger[i])
    BY <1>0 DEF Grows, LedgerGrows, IsPayout
  <2>4. PICK r : r = ledger[i].ref
    OBVIOUS
  <2>5. IsPayout(ledger[i]) => DebitCompleted(r)
    BY <2>4 DEF Inv, PayoutsBackedByDebit
  <2>6. IsPayout(ledger[i]) => DebitCompleted(r)'
    BY <2>5, <1>1
  <2>7. DebitCompleted(r)' => DebitCompleted(ledger[i].ref)'
    BY <2>1, <2>4 DEF DebitCompleted, IsDebitOf
  <2> QED BY <2>2, <2>3, <2>6, <2>7
\* A row inserted by this step.
<1>3. ASSUME NEW h \in Handlers, NEW row,
             \/ InsertDeposit(h) /\ row = DepositRow(job[h])
             \/ InsertDebit(h) /\ row = DebitRow(job[h])
             \/ InsertPayout(h) /\ row = PayoutRow(job[h])
      PROVE  RowsBelongToPaid' /\ PayoutsBackedByDebit'
  <2>1. /\ row \in Row /\ ledger' = Append(ledger, row)
        /\ row.ref \in charged
        /\ payment[row.ref].status = "success" \/ row.ref \in rewritten
        /\ IsPayout(row) => DebitCompleted(row.ref)
    BY <1>3, InsertedAreLegal
  <2>2. PICK r \in Refs : r = row.ref
    BY <1>0, <2>1
  <2>3. /\ r \in charged'
        /\ payment'[r].status = "success" \/ r \in rewritten'
        /\ IsPayout(row) => DebitCompleted(r)'
    BY <1>0, <1>1, <2>1, <2>2 DEF Grows
  <2>4. /\ DOMAIN ledger' = DOMAIN ledger \cup {Len(ledger) + 1}
        /\ ledger'[Len(ledger) + 1] = row
    BY <1>0, <2>1, Appended
  <2>5. ASSUME NEW i \in DOMAIN ledger', i \notin DOMAIN ledger
        PROVE  /\ ledger'[i].ref \in charged'
               /\ payment'[ledger'[i].ref].status = "success" \/ ledger'[i].ref \in rewritten'
               /\ IsPayout(ledger'[i]) => DebitCompleted(ledger[i].ref)'
    <3>1. ledger'[i] = row /\ ledger'[i].ref = r
      BY <2>2, <2>4, <2>5
    <3>2. DebitCompleted(r)' => DebitCompleted(ledger[i].ref)'
      BY <3>1 DEF DebitCompleted, IsDebitOf
    <3> QED BY <2>3, <3>1, <3>2
  <2> QED BY <1>2, <2>5 DEF RowsBelongToPaid, PayoutsBackedByDebit
<1>4. CASE DOMAIN ledger' = DOMAIN ledger
  BY <1>2, <1>4 DEF RowsBelongToPaid, PayoutsBackedByDebit
<1> QED BY <1>3, <1>4, CompleteEffect, LedgerWriters

LEMMA BalanceStep == Inv /\ Next => BalanceBackedByLedger'
<1> SUFFICES ASSUME Inv, Next PROVE BalanceBackedByLedger'
  OBVIOUS
<1>0. /\ Grows
      /\ balance \in [Wallets -> SUBSET Nat]
      /\ BalanceBackedByLedger
      /\ \A h \in Handlers : JobOK(job[h])
  BY NextGrows DEF Inv, TypeOK
<1>1. ASSUME NEW w, NEW i, IsCreditOf(w, i) PROVE IsCreditOf(w, i)'
  BY <1>0, <1>1 DEF IsCreditOf, Grows, LedgerGrows
<1>2. ASSUME NEW w \in Wallets, NEW i \in balance'[w] PROVE IsCreditOf(w, i)
  <2>1. CASE UNCHANGED balance
    BY <1>0, <1>2, <2>1 DEF BalanceBackedByLedger
  <2>2. ASSUME NEW h \in Handlers, WriteWallet(h) PROVE IsCreditOf(w, i)
    <3>1. /\ IsCreditOf(job[h].wallet, job[h].row)
          /\ \A k \in job[h].seen : IsCreditOf(job[h].wallet, k)
          /\ job[h].wallet \in Wallets
      BY <1>0, <2>2 DEF WriteWallet, JobOK
    <3> QED BY <1>0, <1>2, <2>2, <3>1 DEF WriteWallet, BalanceBackedByLedger
  <2> QED BY <2>1, <2>2, TableWriters
<1> QED BY <1>1, <1>2 DEF BalanceBackedByLedger
-----------------------------------------------------------------------------
(***************************************************************************)
(* Rows about to be added, kept apart.                                     *)
(***************************************************************************)
Adding == {"read", "write"}

\* No handler comes to the wallet in this step.
Quiet ==
  /\ UNCHANGED balance
  /\ \A h \in Handlers : job'[h] = job[h] \/ job'[h].pc \notin Adding

LEMMA WalletMovers ==
  Inv /\ Next =>
    \/ Quiet
    \/ \E h \in Handlers :
         InsertDeposit(h) \/ InsertPayout(h) \/ ReadWallet(h) \/ WriteWallet(h)
<1> SUFFICES ASSUME Inv, Next
             PROVE  \/ Quiet
                    \/ \E h \in Handlers : \/ InsertDeposit(h) \/ InsertPayout(h)
                                           \/ ReadWallet(h) \/ WriteWallet(h)
  OBVIOUS
<1>0. job \in [Handlers -> Job] /\ \A h \in Handlers : job[h] \in Job
  BY DEF Inv, TypeOK
<1>1. ASSUME NEW h \in Handlers, NEW pc, NEW next \in Places \ Adding, Goto(h, pc, next)
      PROVE  \A g \in Handlers : job'[g] = job[g] \/ job'[g].pc \notin Adding
  BY <1>0, <1>1 DEF Goto, Job
<1>2. \A h \in Handlers : AfterSave(job[h]) \in Places \ Adding
  BY DEF AfterSave, Places, Adding
<1>3. ASSUME NEW h \in Handlers, MarkBookingPaid(h) \/ InsertDebit(h) \/ CompleteDebit(h)
      PROVE  Quiet
  BY <1>1, <1>3 DEF MarkBookingPaid, InsertDebit, CompleteDebit, Places, Adding, Quiet, db
<1>3a. ASSUME NEW h \in Handlers, Verify(h) \/ SavePayment(h) PROVE Quiet
  <2>1. PICK p \in Places \ Adding : \E t : job' = [job EXCEPT ![h].pc = p, ![h].kept = t]
    BY <1>2, <1>3a DEF Verify, SavePayment, Places, Adding
  <2>2. job'[h].pc \notin Adding /\ \A g \in Handlers : g # h => job'[g] = job[g]
    BY <1>0, <2>1 DEF Job
  <2> QED BY <1>3a, <2>2 DEF Verify, SavePayment, Quiet, db
<1>4. ASSUME NEW h \in Handlers, Ack(h) \/ Throw(h) \/ Fail(h) PROVE Quiet
  BY <1>0, <1>4 DEF Ack, Throw, Fail, EndWithError, Idle, Adding, Quiet, db
<1>5. ASSUME NEW h \in Handlers, FindDebit(h) PROVE Quiet
  <2>1. job'[h].pc \in {"throw", "complete"}
    <3>1. \A p \in Places : \A r, w, n :
            [job[h] EXCEPT !.pc = p, !.ref = r, !.wallet = w, !.row = n].pc = p
      BY <1>0 DEF Job
    <3>2. CASE job' = [job EXCEPT ![h].pc = "throw"]
      BY <1>0, <3>2 DEF Job
    <3>3. ASSUME NEW i, NEW w, NEW r,
                 job' = [job EXCEPT ![h] = [job[h] EXCEPT !.pc = "complete", !.ref = r,
                                                   !.wallet = w, !.row = i]]
          PROVE  job'[h].pc = "complete"
      BY <1>0, <3>1, <3>3 DEF Places
    <3> QED BY <1>5, <3>2, <3>3 DEF FindDebit
  <2>2. \A g \in Handlers : g # h => job'[g] = job[g]
    BY <1>0, <1>5 DEF FindDebit
  <2> QED BY <1>5, <2>1, <2>2 DEF FindDebit, Adding, Quiet, db
<1>6. ASSUME NEW h \in Handlers, NEW r \in Refs, Receive(h, r) PROVE Quiet
  BY <1>0, <1>6 DEF Receive, Idle, Adding, Quiet, db
<1>7. ASSUME NEW h \in Handlers, NEW b \in Bookings, NEW act \in Actions, Review(h, b, act)
      PROVE  Quiet
  BY <1>0, <1>7 DEF Review, Idle, Adding, Quiet
<1>8. ASSUME Crash PROVE Quiet
  BY <1>8 DEF Crash, Idle, Adding, Quiet, db
<1>9. ASSUME UNCHANGED <<balance, job>> PROVE Quiet
  BY <1>9 DEF Quiet
<1>10. \/ UNCHANGED <<balance, job>>
       \/ Crash
       \/ \E h \in Handlers, r \in Refs : Receive(h, r)
       \/ \E h \in Handlers, b \in Bookings, act \in Actions : Review(h, b, act)
       \/ \E h \in Handlers : Step(h) \/ Fail(h)
  BY DEF Next, Charge, VerifyPayment, CreatePayment, CreateBooking, CreateBookingWith,
         RemoveBooking, LoseChannel, Restart, db
<1> QED
  BY <1>3, <1>3a, <1>4, <1>5, <1>6, <1>7, <1>8, <1>9, <1>10
     DEF Step, ProcessStep, ReviewStep, WalletStep

\* The facts a proof about one handler and another needs of the present state.
LEMMA ApartNow ==
  ASSUME Inv
  PROVE  /\ job \in [Handlers -> Job]
         /\ balance \in [Wallets -> SUBSET Nat]
         /\ \A w \in Wallets : \A i \in balance[w] : i \in DOMAIN ledger
         /\ \A h \in Handlers : job[h].pc \in Adding =>
              /\ job[h].wallet \in Wallets
              /\ job[h].row \in DOMAIN ledger
              /\ \A w \in Wallets : job[h].row \notin balance[w]
         /\ \A h \in Handlers : job[h].pc = "write" =>
              \A i \in job[h].seen : i \in DOMAIN ledger
         /\ \A h, g \in Handlers :
              h # g /\ job[h].pc \in Adding /\ job[g].pc \in Adding => job[h].row # job[g].row
         /\ \A h, g \in Handlers :
              h # g /\ job[h].pc \in Adding /\ job[g].pc = "write" => job[h].row \notin job[g].seen
  BY DEF Inv, TypeOK, BalanceBackedByLedger, AddedOnce, SeenApart, JobOK, IsCreditOf, Adding

\* Proving the primed forms from what a step does to one handler.
LEMMA ApartStep == Inv /\ Next => AddedOnce' /\ SeenApart'
<1> SUFFICES ASSUME Inv, Next PROVE AddedOnce' /\ SeenApart'
  OBVIOUS
<1>1. CASE Quiet
  BY <1>1, ApartNow DEF Quiet, AddedOnce, SeenApart, Adding
<1>2. ASSUME NEW h \in Handlers, InsertDeposit(h) \/ InsertPayout(h)
      PROVE  AddedOnce' /\ SeenApart'
  <2>1. /\ job'[h].pc = "read" /\ job'[h].row = Len(ledger) + 1
        /\ \A g \in Handlers : g # h => job'[g] = job[g]
        /\ balance' = balance
    BY <1>2, ApartNow DEF InsertDeposit, InsertPayout, Job
  <2>2. Len(ledger) + 1 \notin DOMAIN ledger
    BY DEF Inv, TypeOK
  <2> QED BY <2>1, <2>2, ApartNow DEF AddedOnce, SeenApart, Adding
<1>3. ASSUME NEW h \in Handlers, ReadWallet(h)
      PROVE  AddedOnce' /\ SeenApart'
  <2>1. /\ job[h].pc = "read" /\ job'[h].pc = "write" /\ job'[h].row = job[h].row
        /\ job'[h].seen = balance[job[h].wallet]
        /\ \A g \in Handlers : g # h => job'[g] = job[g]
        /\ balance' = balance
    BY <1>3, ApartNow DEF ReadWallet, Job, db
  <2> QED BY <2>1, ApartNow DEF AddedOnce, SeenApart, Adding
<1>4. ASSUME NEW h \in Handlers, WriteWallet(h)
      PROVE  AddedOnce' /\ SeenApart'
  <2>1. /\ job[h].pc = "write" /\ job'[h].pc \notin Adding
        /\ balance' = [balance EXCEPT ![job[h].wallet] = job[h].seen \cup {job[h].row}]
        /\ \A g \in Handlers : g # h => job'[g] = job[g]
    BY <1>4, ApartNow DEF WriteWallet, Job, Idle, Adding
  <2> QED BY <2>1, ApartNow DEF AddedOnce, SeenApart, Adding
<1> QED BY <1>1, <1>2, <1>3, <1>4, WalletMovers
-----------------------------------------------------------------------------
\* The handler that moves may rely on its next belief.
LEMMA MoverStep ==
  ASSUME Inv, TypeOK', Grows, NEW h \in Handlers, Step(h)
  PROVE  JobOK(job[h])'
<1>0. /\ job \in [Handlers -> Job] /\ job[h] \in Job
      /\ JobOK(job[h])
      /\ RowsBelongToPaid /\ BalanceBackedByLedger
  BY DEF Inv, TypeOK
<1>1. CASE Verify(h)
  <2>1. PICK t : job'[h] = [job[h] EXCEPT !.pc = IF job[h].ref \notin charged THEN "throw"
                                                ELSE IF job[h].bk # NoBooking THEN "book" ELSE "save",
                                          !.kept = t]
    BY <1>0, <1>1 DEF Verify
  <2>2. job[h].pc = "verify" /\ UNCHANGED <<charged, booking>>
    BY <1>1 DEF Verify, db
  <2> QED BY <1>0, <2>1, <2>2 DEF JobOK, Job
<1>2. CASE MarkBookingPaid(h)
  <2>1. job'[h] = [job[h] EXCEPT !.pc = "save"] /\ job[h].pc = "book"
    BY <1>0, <1>2 DEF MarkBookingPaid, Goto
  <2> QED BY <1>0, <2>1 DEF JobOK, Job, Grows
<1>3. CASE SavePayment(h)
  <2>1. /\ job[h].pc = "save" /\ UNCHANGED <<charged, booking>>
        /\ job[h].kind = "Process" /\ job[h].ref \in Refs /\ job[h].ref \in charged
        /\ job[h].bk # NoBooking =>
             booking[job[h].bk].ref = job[h].ref /\ booking[job[h].bk].status # "absent"
    BY <1>0, <1>3 DEF SavePayment, JobOK
  <2>2. PICK p \in {"throw", AfterSave(job[h])} :
          /\ job'[h] = [job[h] EXCEPT !.pc = p, !.kept = "None"]
          /\ p # "throw" => payment'[job[h].ref].status = "success"
    <3>1. payment \in [Refs -> Payment] /\ payment[job[h].ref] \in Payment
      BY <2>1 DEF Inv, TypeOK
    <3>2. job[h].kept \in PaymentTypes \cup {"None"}
      BY <1>0 DEF Job
    <3>3. CASE job' = [job EXCEPT ![h].pc = "throw", ![h].kept = "None"]
      BY <1>0, <3>3
    <3>4. CASE /\ job' = [job EXCEPT ![h].pc = AfterSave(job[h]), ![h].kept = "None"]
               /\ \/ payment' = [payment EXCEPT ![job[h].ref] =
                                   [status |-> "success", type |-> "Other", wallet |-> NoWallet]]
                  \/ payment' = [payment EXCEPT ![job[h].ref].status = "success",
                                                ![job[h].ref].type = job[h].kept]
      <4>1. \/ payment'[job[h].ref] = [status |-> "success", type |-> "Other", wallet |-> NoWallet]
            \/ payment'[job[h].ref] = [payment[job[h].ref] EXCEPT !.status = "success",
                                                                 !.type = job[h].kept]
        BY <2>1, <3>1, <3>4
      <4>2. payment'[job[h].ref].status = "success"
        <5>1. CASE payment'[job[h].ref] = [status |-> "success", type |-> "Other",
                                           wallet |-> NoWallet]
          BY <5>1
        <5>2. CASE payment'[job[h].ref] = [payment[job[h].ref] EXCEPT !.status = "success",
                                                                     !.type = job[h].kept]
          <6>1. PICK p : p = payment[job[h].ref]
            OBVIOUS
          <6>2. PICK t : t = job[h].kept
            OBVIOUS
          <6>3. p \in Payment /\ t \in PaymentTypes \cup {"None"}
            BY <3>1, <3>2, <6>1, <6>2
          <6>4. payment'[job[h].ref] = [p EXCEPT !.status = "success", !.type = t]
            BY <5>2, <6>1, <6>2
          <6>5. [p EXCEPT !.status = "success", !.type = t].status = "success"
            BY <6>3, PaymentEdit
          <6> QED BY <6>4, <6>5
        <5> QED BY <4>1, <5>1, <5>2
      <4> QED BY <1>0, <3>4, <4>2
    <3> QED BY <1>3, <3>3, <3>4 DEF SavePayment
  <2>3. /\ job'[h].pc = p /\ job'[h].kind = "Process" /\ job'[h].ref = job[h].ref
        /\ job'[h].bk = job[h].bk /\ job'[h].wallet = job[h].wallet
    BY <1>0, <2>1, <2>2 DEF Job
  <2>4. p \in {"throw", "deposit", "debit"} /\ (p # "throw" => job[h].wallet \in Wallets)
    BY <1>0, <2>2 DEF AfterSave, Job
  <2> QED BY <2>1, <2>2, <2>3, <2>4 DEF JobOK
<1>4. CASE InsertDeposit(h)
  <2>1. /\ job'[h] = [job[h] EXCEPT !.pc = "read", !.row = Len(ledger) + 1]
        /\ job[h].pc = "deposit"
    BY <1>0, <1>4 DEF InsertDeposit
  <2>2. /\ Len(ledger) + 1 \in DOMAIN ledger'
        /\ ledger'[Len(ledger) + 1] = DepositRow(job[h])
    BY <1>0, <1>4, InsertedRows, Appended DEF InsertDeposit, Inv, TypeOK
  <2> QED BY <1>0, <2>1, <2>2 DEF JobOK, Job, Grows, DepositRow, IsCreditOf
<1>5. CASE InsertDebit(h)
  <2>1. job'[h] = [job[h] EXCEPT !.pc = "ack"] /\ job[h].pc = "debit"
    BY <1>0, <1>5 DEF InsertDebit, Goto
  <2> QED BY <1>0, <2>1 DEF JobOK, Job, Grows
<1>6. CASE Ack(h)
  BY <1>0, <1>6 DEF Ack, Idle, JobOK
<1>7. CASE FindDebit(h)
  <2>1. /\ job[h].pc = "find"
        /\ job[h].kind \in {"Approve", "Cancel"}
        /\ job[h].bk \in Bookings
        /\ UNCHANGED ledger
    BY <1>0, <1>7 DEF FindDebit, JobOK, db
  <2>2. CASE job' = [job EXCEPT ![h].pc = "throw"]
    BY <1>0, <2>1, <2>2 DEF JobOK, Job
  <2>3. ASSUME NEW w, NEW i \in ProcessedDebits(booking[job[h].bk].ref),
               job' = [job EXCEPT ![h] = [job[h] EXCEPT !.pc = "complete",
                                                 !.ref = booking[job[h].bk].ref,
                                                 !.wallet = w, !.row = i]]
        PROVE  JobOK(job[h])'
    <3>1. PICK r : r = booking[job[h].bk].ref
      OBVIOUS
    <3>2. /\ i \in DOMAIN ledger /\ ledger[i].ref = r
          /\ ledger[i].type = "Booking" /\ ledger[i].mode = "Debit"
      BY <2>3, <3>1 DEF ProcessedDebits
    <3>3. r \in Refs
      <4>1. ledger[i] \in Row
        BY <3>2 DEF Inv, TypeOK
      <4> QED BY <3>2, <4>1 DEF Row
    <3>4. job'[h] = [job[h] EXCEPT !.pc = "complete", !.ref = r, !.wallet = w, !.row = i]
      BY <1>0, <2>3, <3>1
    <3>5. /\ job'[h].pc = "complete" /\ job'[h].ref = r /\ job'[h].row = i
          /\ job'[h].kind = job[h].kind /\ job'[h].bk = job[h].bk
      BY <1>0, <3>4 DEF Job
    <3> QED BY <2>1, <3>2, <3>3, <3>5 DEF JobOK, IsDebitOf
  <2> QED BY <1>7, <2>2, <2>3 DEF FindDebit
<1>8. CASE CompleteDebit(h)
  <2>1. /\ job'[h] = [job[h] EXCEPT !.pc = IF job[h].wallet = NoWallet THEN "throw" ELSE "payout"]
        /\ job[h].pc = "complete"
    BY <1>0, <1>8 DEF CompleteDebit, Goto
  <2>2. /\ job'[h].pc \in {"throw", "payout"}
        /\ job'[h].pc = "payout" => job'[h].wallet \in Wallets
        /\ job'[h].ref = job[h].ref
        /\ job'[h].kind = job[h].kind /\ job'[h].bk = job[h].bk
    BY <1>0, <2>1 DEF Job
  <2>3. /\ job[h].kind \in {"Approve", "Cancel"} /\ job[h].bk \in Bookings
        /\ job[h].ref \in Refs /\ IsDebitOf(job[h].ref, job[h].row)
    BY <1>0, <2>1 DEF JobOK
  <2>4. ledger[job[h].row] \in Row
    BY <2>3 DEF IsDebitOf, Inv, TypeOK
  <2>5. /\ job[h].row \in DOMAIN ledger'
        /\ ledger'[job[h].row].status = "Completed"
        /\ ledger'[job[h].row].type = "Booking"
        /\ ledger'[job[h].row].mode = "Debit"
        /\ ledger'[job[h].row].ref = job[h].ref
    <3>1. /\ job[h].row \in DOMAIN ledger'
          /\ ledger'[job[h].row] = [ledger[job[h].row] EXCEPT !.status = "Completed"]
      BY <1>8, CompleteEffect
    <3>2. /\ ledger[job[h].row].type = "Booking"
          /\ ledger[job[h].row].mode = "Debit"
          /\ ledger[job[h].row].ref = job[h].ref
      BY <2>3 DEF IsDebitOf
    <3> QED BY <2>4, <3>1, <3>2, RowEdit
  <2> QED BY <2>2, <2>3, <2>5 DEF JobOK, DebitCompleted, IsDebitOf
<1>9. CASE InsertPayout(h)
  <2>1. /\ job'[h] = [job[h] EXCEPT !.pc = "read", !.row = Len(ledger) + 1]
        /\ job[h].pc = "payout"
    BY <1>0, <1>9 DEF InsertPayout
  <2>2. /\ Len(ledger) + 1 \in DOMAIN ledger'
        /\ ledger'[Len(ledger) + 1] = PayoutRow(job[h])
    BY <1>0, <1>9, InsertedRows, Appended DEF InsertPayout, Inv, TypeOK
  <2> QED BY <1>0, <2>1, <2>2 DEF JobOK, Job, Grows, PayoutRow, IsCreditOf
<1>10. CASE ReadWallet(h)
  <2>1. /\ job'[h] = [job[h] EXCEPT !.pc = "write", !.seen = balance[job[h].wallet]]
        /\ job[h].pc = "read"
        /\ UNCHANGED <<booking, ledger>>
    BY <1>0, <1>10 DEF ReadWallet, db
  <2>2. /\ job'[h].pc = "write" /\ job'[h].seen = balance[job[h].wallet]
        /\ job'[h].wallet = job[h].wallet /\ job'[h].row = job[h].row
        /\ job'[h].kind = job[h].kind /\ job'[h].ref = job[h].ref /\ job'[h].bk = job[h].bk
    BY <1>0, <2>1 DEF Job
  <2>3. \A i \in balance[job[h].wallet] : IsCreditOf(job[h].wallet, i)
    BY <1>0, <2>1 DEF JobOK, BalanceBackedByLedger
  <2> QED BY <1>0, <2>1, <2>2, <2>3 DEF JobOK, IsCreditOf
<1>11. CASE WriteWallet(h)
  <2>1. CASE job'[h] = Idle
    BY <2>1 DEF Idle, JobOK
  <2>2. CASE job'[h] = [job[h] EXCEPT !.pc = "ack", !.seen = {}]
    <3>1. /\ job'[h].pc = "ack"
          /\ job'[h].kind = job[h].kind /\ job'[h].ref = job[h].ref /\ job'[h].bk = job[h].bk
      BY <1>0, <2>2 DEF Job
    <3> QED BY <1>0, <1>11, <3>1 DEF WriteWallet, JobOK
  <2> QED BY <1>0, <1>11, <2>1, <2>2 DEF WriteWallet
<1>12. CASE Throw(h)
  BY <1>0, <1>12 DEF Throw, EndWithError, Idle, JobOK
<1> QED
  BY <1>1, <1>2, <1>3, <1>4, <1>5, <1>6, <1>7, <1>8, <1>9, <1>10, <1>11, <1>12
     DEF Step, ProcessStep, ReviewStep, WalletStep

LEMMA JobsStep == Inv /\ Next => (\A h \in Handlers : JobOK(job[h]))'
<1> SUFFICES ASSUME Inv, Next, NEW g \in Handlers PROVE JobOK(job[g])'
  OBVIOUS
<1>0. /\ Grows /\ TypeOK'
      /\ job \in [Handlers -> Job]
      /\ booking \in [Bookings -> Booking]
  BY NextGrows, TypeStep DEF Inv, TypeOK
<1>1. CASE job'[g] = job[g]
  BY <1>0, <1>1, BeliefsKept
<1>2. CASE job'[g] = Idle
  BY <1>2 DEF Idle, JobOK
<1>3. CASE Step(g)
  BY <1>0, <1>3, MoverStep
<1>4. ASSUME NEW r \in Refs, Receive(g, r) PROVE JobOK(job[g])'
  <2>1. BookingOf(r) # NoBooking =>
          booking[BookingOf(r)].ref = r /\ booking[BookingOf(r)].status # "absent"
    BY DEF BookingOf, Exists
  <2>2. /\ job'[g].pc = "verify" /\ job'[g].kind = "Process"
        /\ job'[g].ref = r /\ job'[g].bk = BookingOf(r)
        /\ UNCHANGED booking
    BY <1>0, <1>4 DEF Receive, Idle, db
  <2> QED BY <2>1, <2>2 DEF JobOK
<1>5. ASSUME NEW b \in Bookings, NEW act \in Actions, Review(g, b, act), act # "Reject"
      PROVE  JobOK(job[g])'
  <2>1. job'[g].pc = "find" /\ job'[g].kind = act /\ job'[g].bk = b
    BY <1>0, <1>5 DEF Review, Idle
  <2>2. act \in {"Approve", "Cancel"}
    BY <1>5 DEF Actions
  <2> QED BY <2>1, <2>2 DEF JobOK
\* The steps of the other handlers, and those of no handler.
<1>6. ASSUME NEW h \in Handlers, h # g,
             \/ Step(h) \/ Fail(h)
             \/ \E r \in Refs : Receive(h, r)
             \/ \E b \in Bookings, act \in Actions : Review(h, b, act)
      PROVE  job'[g] = job[g]
  BY <1>0, <1>6
     DEF Step, ProcessStep, ReviewStep, WalletStep, Verify, MarkBookingPaid, SavePayment,
         InsertDeposit, InsertDebit, Ack, FindDebit, CompleteDebit, InsertPayout, ReadWallet,
         WriteWallet, Throw, Fail, EndWithError, Goto, Receive, Review
<1>7. Fail(g) \/ Crash => job'[g] = Idle
  BY <1>0 DEF Fail, EndWithError, Crash
<1>8. ASSUME NEW b \in Bookings, Review(g, b, "Reject") PROVE job'[g] = job[g]
  BY <1>8 DEF Review
<1>9. \/ UNCHANGED job
      \/ Crash
      \/ \E h \in Handlers, r \in Refs : Receive(h, r)
      \/ \E h \in Handlers, b \in Bookings, act \in Actions : Review(h, b, act)
      \/ \E h \in Handlers : Step(h) \/ Fail(h)
  BY DEF Next, Charge, VerifyPayment, CreatePayment, CreateBooking, CreateBookingWith,
         RemoveBooking, LoseChannel, Restart
<1> QED BY <1>1, <1>2, <1>3, <1>4, <1>5, <1>6, <1>7, <1>8, <1>9
-----------------------------------------------------------------------------
LEMMA InitInv == Init => Inv
<1> SUFFICES ASSUME Init PROVE Inv
  OBVIOUS
<1>1. TypeOK
  BY InitType
<1>2. PaidOnlyIfCharged /\ RowsBelongToPaid /\ PayoutsBackedByDebit /\ BalanceBackedByLedger
  BY DEF Init, Absent, Unbooked, PaidOnlyIfCharged, RowsBelongToPaid, PayoutsBackedByDebit,
         BalanceBackedByLedger
<1>3. AddedOnce /\ SeenApart /\ \A h \in Handlers : JobOK(job[h])
  BY DEF Init, Idle, AddedOnce, SeenApart, JobOK
<1> QED BY <1>1, <1>2, <1>3 DEF Inv

LEMMA StutterInv == Inv /\ UNCHANGED vars => Inv'
  BY DEF Inv, vars, db, TypeOK, PaidOnlyIfCharged, RowsBelongToPaid, PayoutsBackedByDebit,
         BalanceBackedByLedger, AddedOnce, SeenApart, JobOK, IsDebitOf, IsCreditOf,
         DebitCompleted, IsPayout

\* The invariant of the money side: what each handler believes at each await
\* stays true while every other handler, a failure or a crash interferes.
THEOREM Invariance == Spec => []Inv
<1>1. Inv /\ [Next]_vars => Inv'
  BY TypeStep, PaidStep, RowsStep, BalanceStep, ApartStep, JobsStep, StutterInv DEF Inv
<1> QED BY InitInv, <1>1, PTL DEF Spec

\* The tables, the queue and the handlers are well formed in every reachable state.
THEOREM TypeCorrect == Spec => []TypeOK
  BY Invariance, PTL DEF Inv

\* No booking is recorded as paid before Paystack charged its payment, and no
\* payment is that no booking's body has changed.
THEOREM PaidIsCharged == Spec => []PaidOnlyIfCharged
  BY Invariance, PTL DEF Inv

\* Ledger rows belong to charged payments, which are recorded as paid or were
\* until a booking's body changed them.
THEOREM RowsArePaid == Spec => []RowsBelongToPaid
  BY Invariance, PTL DEF Inv

\* Payouts and refunds always have a completed debit of the same payment.
THEOREM PayoutsAreBacked == Spec => []PayoutsBackedByDebit
  BY Invariance, PTL DEF Inv

\* A balance is made of credit rows of its own wallet, each added at most once.
THEOREM BalancesAreBacked == Spec => [](BalanceBackedByLedger /\ AddedOnce)
  BY Invariance, PTL DEF Inv

\* Completing a row that is completed already writes what is there.
LEMMA CompleteTwice ==
  ASSUME NEW row \in Row
  PROVE  \/ row.status = "Processed"
         \/ [row EXCEPT !.status = "Completed"] = row
  BY DEF Row

\* Payments leave success by a booking's body only, rows are never changed but
\* by a review.
THEOREM HistoryKept == Spec => RecordsKept
<1> DEFINE Kept ==
      /\ \A r \in Refs :
           payment[r].status = "success" => payment'[r].status = "success" \/ r \in rewritten'
      /\ \A i \in DOMAIN ledger :
           /\ i \in DOMAIN ledger'
           /\ \/ ledger'[i] = ledger[i]
              \/ /\ ledger[i].status = "Processed"
                 /\ ledger'[i] = [ledger[i] EXCEPT !.status = "Completed"]
<1>1. ASSUME Inv, Next PROVE Kept
  <2>1. Grows /\ ledger \in Seq(Row) /\ \A i \in DOMAIN ledger : ledger[i] \in Row
    BY <1>1, NextGrows DEF Inv, TypeOK
  <2>2. ASSUME NEW i \in DOMAIN ledger
        PROVE  \/ ledger'[i] = ledger[i]
               \/ /\ ledger[i].status = "Processed"
                  /\ ledger'[i] = [ledger[i] EXCEPT !.status = "Completed"]
    <3>1. ASSUME NEW h \in Handlers, NEW row \in Row, ledger' = Append(ledger, row)
          PROVE  ledger'[i] = ledger[i]
      BY <2>1, <3>1, Appended
    <3>2. ASSUME NEW h \in Handlers, CompleteDebit(h), ledger'[i] # ledger[i]
          PROVE  /\ ledger[i].status = "Processed"
                 /\ ledger'[i] = [ledger[i] EXCEPT !.status = "Completed"]
      <4>1. ledger'[i] = [ledger[i] EXCEPT !.status = "Completed"]
        BY <1>1, <3>2, CompleteEffect
      <4> QED BY <2>1, <3>2, <4>1, CompleteTwice
    <3> QED BY <1>1, <3>1, <3>2, LedgerWriters, InsertedAreLegal
  <2> QED BY <2>1, <2>2 DEF Grows, LedgerGrows
<1>2. Inv /\ [Next]_vars => [Kept]_vars
  BY <1>1
<1> QED BY <1>2, Invariance, PTL DEF Spec, RecordsKept
-----------------------------------------------------------------------------
(***************************************************************************)
(* Settlement implements Books.                                            *)
(***************************************************************************)
LEMMA InitRefines == Init => Promise!Init
  BY DEF Init, Promise!Init, Confirmed, Absent

\* The steps that leave payments, ledger, balances and charges alone stutter.
LEMMA Stutters ==
  ASSUME UNCHANGED <<charged, payment, rewritten, ledger, balance>>
  PROVE  UNCHANGED Promise!vars
  BY DEF Promise!vars, Confirmed

LEMMA StepRefines == Inv /\ [Next]_vars => [Promise!Next]_(Promise!vars)
<1> SUFFICES ASSUME Inv, [Next]_vars PROVE Promise!Next \/ UNCHANGED Promise!vars
  OBVIOUS
<1>0. /\ payment \in [Refs -> Payment] /\ charged \subseteq Refs
      /\ ledger \in Seq(Row) /\ balance \in [Wallets -> SUBSET Nat]
      /\ PaidOnlyIfCharged /\ RowsBelongToPaid
      /\ \A h \in Handlers : JobOK(job[h])
  BY DEF Inv, TypeOK
<1>1. ASSUME NEW r \in Refs, Charge(r) PROVE Promise!Next
  BY <1>1 DEF Charge, db, Confirmed, Promise!Next, Promise!Collect
<1>2. ASSUME NEW r \in Refs, NEW w \in DraftWallets, NEW t \in DraftTypes, CreatePayment(r, w, t)
      PROVE  UNCHANGED Promise!vars
  BY <1>0, <1>2 DEF CreatePayment, Confirmed, Promise!vars
<1>2a. ASSUME NEW b \in Bookings, NEW r \in Refs, NEW p \in Columns, CreateBookingWith(b, r, p)
       PROVE  Promise!Next \/ UNCHANGED Promise!vars
  <2>1. UNCHANGED <<charged, ledger, balance>>
    BY <1>2a DEF CreateBookingWith
  <2>2. CASE rewritten' = rewritten \cup {r}
    <3>1. Confirmed' = Confirmed \ {r}
      BY <1>0, <1>2a, <2>2 DEF CreateBookingWith, Confirmed
    <3> QED BY <2>1, <3>1 DEF Promise!Next, Promise!Retract, Promise!vars
  <2>3. CASE rewritten' = rewritten
    <3>1. Confirmed' = Confirmed
      BY <1>0, <1>2a, <2>3 DEF CreateBookingWith, Confirmed
    <3> QED BY <2>1, <3>1 DEF Promise!vars
  <2> QED BY <1>2a, <2>2, <2>3 DEF CreateBookingWith
<1>3. ASSUME NEW h \in Handlers, SavePayment(h) PROVE Promise!Next \/ UNCHANGED Promise!vars
  <2>1. job[h].ref \in charged /\ job[h].ref \in Refs
    BY <1>0, <1>3 DEF SavePayment, JobOK
  <2>2. Confirmed' \in {Confirmed, Confirmed \cup {job[h].ref}}
    BY <1>0, <1>3, <2>1 DEF SavePayment, Confirmed, Payment
  <2>3. UNCHANGED <<charged, ledger, balance>>
    BY <1>3 DEF SavePayment
  <2> QED BY <2>1, <2>2, <2>3 DEF Promise!Next, Promise!Confirm, Promise!vars
<1>4. ASSUME NEW h \in Handlers, NEW row,
             \/ InsertDeposit(h) /\ row = DepositRow(job[h])
             \/ InsertDebit(h) /\ row = DebitRow(job[h])
             \/ InsertPayout(h) /\ row = PayoutRow(job[h])
      PROVE  Promise!Next
  <2>1. /\ row \in Row /\ ledger' = Append(ledger, row)
        /\ row.ref \in charged
        /\ payment[row.ref].status = "success" \/ row.ref \in rewritten
        /\ IsPayout(row) => DebitCompleted(row.ref)
    BY <1>4, InsertedAreLegal
  <2>2. row \in Promise!Row /\ row.ref \in Refs
    BY <2>1 DEF Row, Promise!Row
  <2>4. Promise!Backed(row)
    BY <2>1, <2>2 DEF Promise!Backed, Promise!Row, IsPayout, DebitCompleted, IsDebitOf
  <2>5. UNCHANGED <<charged, payment, rewritten, balance>>
    BY <1>4 DEF InsertDeposit, InsertDebit, InsertPayout
  <2> QED BY <2>1, <2>2, <2>4, <2>5 DEF Promise!Next, Promise!Post, Confirmed
<1>5. ASSUME NEW h \in Handlers, CompleteDebit(h) PROVE Promise!Next
  <2>1. job[h].row \in DOMAIN ledger /\ ledger[job[h].row].mode = "Debit"
    BY <1>0, <1>5 DEF CompleteDebit, Goto, JobOK, IsDebitOf
  <2> QED BY <1>5, <2>1 DEF CompleteDebit, Promise!Next, Promise!Complete, Confirmed
<1>6. ASSUME NEW h \in Handlers, WriteWallet(h) PROVE Promise!Next
  <2>1. /\ job[h].wallet \in Wallets
        /\ \A i \in job[h].seen \cup {job[h].row} : IsCreditOf(job[h].wallet, i)
    BY <1>0, <1>6 DEF WriteWallet, JobOK
  <2>2. job[h].seen \cup {job[h].row} \in SUBSET Promise!Credits(job[h].wallet)
    BY <2>1 DEF IsCreditOf, Promise!Credits
  <2> QED BY <1>6, <2>1, <2>2 DEF WriteWallet, Promise!Next, Promise!SetBalance, Confirmed
<1>7. \/ UNCHANGED <<charged, payment, rewritten, ledger, balance>>
      \/ \E r \in Refs : Charge(r)
      \/ \E r \in Refs, w \in DraftWallets, t \in DraftTypes : CreatePayment(r, w, t)
      \/ \E b \in Bookings, r \in Refs, p \in Columns : CreateBookingWith(b, r, p)
      \/ \E h \in Handlers : \/ SavePayment(h) \/ InsertDeposit(h) \/ InsertDebit(h)
                             \/ InsertPayout(h) \/ CompleteDebit(h) \/ WriteWallet(h)
  BY DEF Next, vars, VerifyPayment, CreateBooking, RemoveBooking, Receive, Review, Step,
         ProcessStep, ReviewStep, WalletStep, Verify, MarkBookingPaid, Ack, FindDebit,
         ReadWallet, Throw, Fail, LoseChannel, Crash, Restart, db
<1> QED BY <1>1, <1>2, <1>2a, <1>3, <1>4, <1>5, <1>6, <1>7, Stutters

\* Every behaviour of the handlers is one of the abstract books: money is
\* recorded only in the order that Books allows.
THEOREM Refinement == Spec => ImplementsBooks
<1>1. Inv /\ [Next]_vars => [Promise!Next]_(Promise!vars)
  BY StepRefines
<1> QED BY InitRefines, <1>1, Invariance, PTL DEF Spec, ImplementsBooks, Promise!Spec
=============
