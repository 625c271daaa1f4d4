-------------------------- MODULE OneHandlerProofs ---------------------------
(***************************************************************************)
(* What Settlement promises while handlers do not overlap: one at a time   *)
(* runs, whether for a message or for a review.  For any payments,         *)
(* bookings, wallets, requests and faults.                                 *)
(***************************************************************************)
EXTENDS SettlementProofs

OneHandler == \A h, g \in Handlers : h = g

\* A credit is in its wallet's balance or a handler is adding it, and what that
\* handler has read is the balance still.
CreditsArrive ==
  /\ faults = 0 =>
       \A i \in DOMAIN ledger :
         ledger[i].mode = "Credit" =>
           i \in balance[ledger[i].wallet] \/ \E h \in Handlers : job[h].pc \in Adding /\ job[h].row = i
  /\ \A h \in Handlers : job[h].pc = "write" => job[h].seen = balance[job[h].wallet]

\* A debit that is completed and not yet paid out of.
Owing(r) == IF \E h \in Handlers : job[h].pc = "payout" /\ job[h].ref = r THEN 1 ELSE 0

\* The debit a review has found awaits it still; what is completed covers what
\* is paid and what is about to be.
DebitsCover ==
  /\ \A h \in Handlers : job[h].pc = "complete" => ledger[job[h].row].status = "Processed"
  /\ \A r \in Refs : Cardinality(Payouts(r)) + Owing(r) <= Cardinality(Completed(r))
-----------------------------------------------------------------------------
(***************************************************************************)
(* Who moves.                                                              *)
(***************************************************************************)
LEMMA Movers ==
  ASSUME Inv, Next, NEW h \in Handlers, job'[h] # job[h]
  PROVE  \/ Step(h) \/ Fail(h) \/ Crash \/ (\E r \in Refs : Receive(h, r))
         \/ \E b \in Bookings, act \in Actions : Review(h, b, act)
<1>1. ASSUME NEW g \in Handlers, g # h,
             \/ Step(g) \/ Fail(g) \/ (\E r \in Refs : Receive(g, r))
             \/ \E b \in Bookings, act \in Actions : Review(g, b, act)
      PROVE  FALSE
  <2>1. job \in [Handlers -> Job]
    BY DEF Inv, TypeOK
  <2> QED
    BY <1>1, <2>1
       DEF Step, ProcessStep, ReviewStep, WalletStep, Verify, MarkBookingPaid, SavePayment,
           InsertDeposit, InsertDebit, Ack, FindDebit, CompleteDebit, InsertPayout, ReadWallet,
           WriteWallet, Throw, Fail, EndWithError, Goto, Receive, Review
<1> QED BY <1>1 DEF Next, Charge, VerifyPayment, CreatePayment, CreateBooking, CreateBookingWith,
                   RemoveBooking, LoseChannel, Restart

\* A handler leaves the wallet by writing it, or by a fault.
LEMMA LeavesWallet ==
  ASSUME Inv, Next, NEW h \in Handlers, job[h].pc \in Adding, job'[h] # job[h]
  PROVE  ReadWallet(h) \/ WriteWallet(h) \/ faults' = faults + 1
<1>1. ~Verify(h) /\ ~MarkBookingPaid(h) /\ ~SavePayment(h) /\ ~InsertDeposit(h) /\ ~InsertDebit(h)
      /\ ~Ack(h) /\ ~FindDebit(h) /\ ~CompleteDebit(h) /\ ~InsertPayout(h) /\ ~Throw(h)
  BY DEF Adding, Verify, MarkBookingPaid, SavePayment, InsertDeposit, InsertDebit, Ack, FindDebit,
         CompleteDebit, InsertPayout, Throw, Goto
<1>2. (\A r \in Refs : ~Receive(h, r)) /\ \A b \in Bookings, act \in Actions : ~Review(h, b, act)
  BY DEF Adding, Receive, Review
<1>3. Fail(h) \/ Crash => faults' = faults + 1
  BY DEF Fail, Crash
<1> QED BY <1>1, <1>2, <1>3, Movers DEF Step, ProcessStep, ReviewStep, WalletStep

\* A review comes to a debit by finding it, and to the payout by completing it.
LEMMA Arrives ==
  ASSUME Inv, Next, NEW h \in Handlers, job'[h] # job[h]
  PROVE  /\ job'[h].pc = "complete" => FindDebit(h)
         /\ job'[h].pc = "payout" => CompleteDebit(h)
<1>0. job \in [Handlers -> Job] /\ job[h] \in Job
  BY DEF Inv, TypeOK
<1>1. ASSUME NEW pc, NEW next \in Places, Goto(h, pc, next) PROVE job'[h].pc = next
  BY <1>0, <1>1 DEF Goto, Job
<1>2. AfterSave(job[h]) \in {"throw", "deposit", "debit"}
  BY DEF AfterSave
<1>3. Verify(h) \/ MarkBookingPaid(h) \/ SavePayment(h) \/ InsertDebit(h)
        => job'[h].pc \in {"throw", "book", "save", "deposit", "debit", "ack"}
  <2>1. CASE Verify(h) \/ SavePayment(h)
    <3>1. PICK p \in {"throw", "book", "save", "deposit", "debit"} :
            \E t : job' = [job EXCEPT ![h].pc = p, ![h].kept = t]
      BY <1>2, <2>1 DEF Verify, SavePayment
    <3> QED BY <1>0, <3>1 DEF Job
  <2>2. CASE MarkBookingPaid(h) \/ InsertDebit(h)
    BY <1>1, <2>2 DEF MarkBookingPaid, InsertDebit, Places
  <2> QED BY <2>1, <2>2
<1>4. CompleteDebit(h) => job'[h].pc \in {"throw", "payout"}
  BY <1>1 DEF CompleteDebit, Places
<1>5. FindDebit(h) => job'[h].pc \in {"throw", "complete"}
  <2>1. CASE job' = [job EXCEPT ![h].pc = "throw"]
    BY <1>0, <2>1 DEF Job
  <2>2. ASSUME NEW i, NEW w, NEW r,
               job' = [job EXCEPT ![h] = [job[h] EXCEPT !.pc = "complete", !.ref = r,
                                                 !.wallet = w, !.row = i]]
        PROVE  job'[h].pc = "complete"
    <3>1. [job[h] EXCEPT !.pc = "complete", !.ref = r, !.wallet = w, !.row = i].pc = "complete"
      BY <1>0 DEF Job
    <3> QED BY <1>0, <2>2, <3>1
  <2> QED BY <2>1, <2>2 DEF FindDebit
<1>6. InsertDeposit(h) \/ InsertPayout(h) \/ ReadWallet(h) \/ WriteWallet(h)
        => job'[h].pc \in {"read", "write", "ack", "idle"}
  <2>1. InsertDeposit(h) \/ InsertPayout(h) => job'[h].pc = "read"
    BY <1>0 DEF InsertDeposit, InsertPayout, Job
  <2>2. ReadWallet(h) => job'[h].pc = "write"
    BY <1>0 DEF ReadWallet, Job
  <2>3. WriteWallet(h) => job'[h].pc \in {"ack", "idle"}
    <3>1. [job[h] EXCEPT !.pc = "ack", !.seen = {}].pc = "ack" /\ Idle.pc = "idle"
      BY <1>0 DEF Job, Idle
    <3> QED BY <1>0, <3>1 DEF WriteWallet
  <2> QED BY <2>1, <2>2, <2>3
<1>7. Ack(h) \/ Throw(h) \/ Fail(h) \/ Crash => job'[h].pc = "idle"
  BY <1>0 DEF Ack, Throw, Fail, EndWithError, Crash, Idle
<1>8. /\ \A r \in Refs : Receive(h, r) => job'[h].pc = "verify"
      /\ \A b \in Bookings, act \in Actions : Review(h, b, act) => job'[h] = job[h] \/ job'[h].pc = "find"
  BY <1>0 DEF Receive, Review, Idle
<1> QED BY <1>3, <1>4, <1>5, <1>6, <1>7, <1>8, Movers DEF Step, ProcessStep, ReviewStep, WalletStep
-----------------------------------------------------------------------------
(***************************************************************************)
(* Credits.                                                                *)
(***************************************************************************)
LEMMA QuietLedger ==
  ASSUME Inv, Next, Quiet, NEW i \in DOMAIN ledger', ledger'[i].mode = "Credit"
  PROVE  i \in DOMAIN ledger /\ ledger[i].mode = "Credit" /\ ledger'[i].wallet = ledger[i].wallet
<1>0. Grows /\ job \in [Handlers -> Job] /\ ledger \in Seq(Row)
  BY NextGrows DEF Inv, TypeOK
<1>1. ASSUME NEW h \in Handlers PROVE ~InsertDeposit(h) /\ ~InsertPayout(h)
  BY <1>0 DEF Quiet, InsertDeposit, InsertPayout, Adding, Job
<1>2. ASSUME NEW h \in Handlers, InsertDebit(h) PROVE i \in DOMAIN ledger
  <2>1. DebitRow(job[h]) \in Row /\ ledger' = Append(ledger, DebitRow(job[h]))
    BY <1>2, InsertedRows DEF Inv, InsertDebit
  <2>2. DebitRow(job[h]).mode = "Debit"
    BY DEF DebitRow
  <2> QED BY <1>0, <2>1, <2>2, Appended
<1>3. ASSUME NEW h \in Handlers, CompleteDebit(h) PROVE i \in DOMAIN ledger
  BY <1>3, CompleteEffect
<1>4. i \in DOMAIN ledger
  BY <1>1, <1>2, <1>3, LedgerWriters
<1> QED BY <1>0, <1>4 DEF Grows, LedgerGrows

LEMMA CreditsStep ==
  ASSUME Inv, OneHandler, CreditsArrive, Next
  PROVE  CreditsArrive'
<1>0. /\ Grows /\ job \in [Handlers -> Job] /\ ledger \in Seq(Row)
      /\ balance \in [Wallets -> SUBSET Nat] /\ \A h \in Handlers : JobOK(job[h])
      /\ \A h \in Handlers : job[h] \in Job
      /\ faults \in Nat /\ (faults' = faults \/ faults' = faults + 1)
  <2> USE DEF Inv, TypeOK
  <2>1. faults' = faults \/ faults' = faults + 1
    BY DEF Next, Charge, VerifyPayment, CreatePayment, CreateBooking, CreateBookingWith,
           RemoveBooking, LoseChannel, Restart, Receive, Review, Step, ProcessStep, ReviewStep, WalletStep, Verify, MarkBookingPaid,
           SavePayment, InsertDeposit, InsertDebit, Ack, FindDebit, CompleteDebit,
           InsertPayout, ReadWallet, WriteWallet, Throw, Fail, Crash
  <2> QED BY <2>1, NextGrows
<1>1. ASSUME NEW h \in Handlers, InsertDeposit(h) \/ InsertPayout(h) PROVE CreditsArrive'
  <2>1. PICK row \in Row : ledger' = Append(ledger, row)
    BY <1>1, InsertedRows DEF Inv, InsertDeposit, InsertPayout
  <2>2. /\ DOMAIN ledger' = DOMAIN ledger \cup {Len(ledger) + 1}
        /\ \A i \in DOMAIN ledger : ledger'[i] = ledger[i]
    BY <1>0, <2>1, Appended
  <2>3. /\ job[h].pc \notin Adding /\ job'[h].pc = "read" /\ job'[h].row = Len(ledger) + 1
        /\ UNCHANGED <<balance, faults>>
    BY <1>0, <1>1 DEF InsertDeposit, InsertPayout, Job, Adding
  <2>4. \A g \in Handlers : g = h
    BY DEF OneHandler
  <2> QED BY <2>2, <2>3, <2>4 DEF CreditsArrive, Adding
<1>2. ASSUME NEW h \in Handlers, ReadWallet(h) PROVE CreditsArrive'
  <2>1. /\ job'[h].pc = "write" /\ job'[h].row = job[h].row /\ job'[h].wallet = job[h].wallet
        /\ job'[h].seen = balance[job[h].wallet] /\ UNCHANGED <<ledger, balance, faults>>
    BY <1>0, <1>2 DEF ReadWallet, Job, db
  <2>2. \A g \in Handlers : g = h
    BY DEF OneHandler
  <2> QED BY <2>1, <2>2 DEF CreditsArrive, Adding
<1>3. ASSUME NEW h \in Handlers, WriteWallet(h) PROVE CreditsArrive'
  <2>1. /\ job[h].pc = "write" /\ job'[h].pc \notin Adding /\ UNCHANGED <<ledger, faults>>
        /\ balance' = [balance EXCEPT ![job[h].wallet] = job[h].seen \cup {job[h].row}]
    BY <1>0, <1>3 DEF WriteWallet, Job, Idle, Adding
  <2>2. /\ job[h].wallet \in Wallets /\ IsCreditOf(job[h].wallet, job[h].row)
        /\ job[h].seen = balance[job[h].wallet]
    BY <1>0, <2>1 DEF JobOK, CreditsArrive
  <2>3. \A g \in Handlers : g = h
    BY DEF OneHandler
  <2>4. ASSUME NEW i \in DOMAIN ledger, ledger[i].mode = "Credit", faults = 0
        PROVE  i \in balance'[ledger[i].wallet]
    <3>1. ledger[i].wallet \in Wallets
      <4>1. ledger[i] \in Row
        BY <1>0, <2>4
      <4> QED BY <4>1 DEF Row
    <3>2. i \in balance[ledger[i].wallet] \/ i = job[h].row
      BY <2>3, <2>4 DEF CreditsArrive
    <3> QED BY <1>0, <2>1, <2>2, <3>1, <3>2 DEF IsCreditOf
  <2> QED BY <2>1, <2>3, <2>4 DEF CreditsArrive, Adding
<1>4. CASE /\ Quiet
           /\ \A h \in Handlers : ~ReadWallet(h) /\ ~WriteWallet(h)
  <2>1. ASSUME NEW h \in Handlers, job'[h].pc = "write" PROVE job'[h].seen = balance'[job'[h].wallet]
    BY <1>4, <2>1 DEF Quiet, Adding, CreditsArrive
  <2>2. ASSUME faults' = 0, NEW i \in DOMAIN ledger', ledger'[i].mode = "Credit"
        PROVE  \/ i \in balance'[ledger'[i].wallet]
               \/ \E h \in Handlers : job'[h].pc \in Adding /\ job'[h].row = i
    <3>1. i \in DOMAIN ledger /\ ledger[i].mode = "Credit" /\ ledger'[i].wallet = ledger[i].wallet
      BY <1>4, <2>2, QuietLedger
    <3>2. faults = 0 /\ faults' # faults + 1
      BY <1>0, <2>2
    <3>3. CASE i \in balance[ledger[i].wallet]
      BY <1>4, <3>1, <3>3 DEF Quiet
    <3>4. ASSUME NEW h \in Handlers, job[h].pc \in Adding, job[h].row = i
          PROVE  job'[h].pc \in Adding /\ job'[h].row = i
      BY <1>4, <3>2, <3>4, LeavesWallet
    <3> QED BY <3>1, <3>2, <3>3, <3>4 DEF CreditsArrive
  <2> QED BY <2>1, <2>2 DEF CreditsArrive
<1> QED BY <1>1, <1>2, <1>3, <1>4, WalletMovers
-----------------------------------------------------------------------------
(***************************************************************************)
(* Payouts.                                                                *)
(***************************************************************************)
LEMMA RowSets ==
  ASSUME Inv, NEW r
  PROVE  /\ IsFiniteSet(Payouts(r)) /\ Cardinality(Payouts(r)) \in Nat
         /\ IsFiniteSet(Completed(r)) /\ Cardinality(Completed(r)) \in Nat
<1>1. ledger \in Seq(Row)
  BY DEF Inv, TypeOK
<1>2. IsFiniteSet(DOMAIN ledger)
  <2>1. DOMAIN ledger = 1..Len(ledger) /\ Len(ledger) \in Nat
    BY <1>1
  <2> QED BY <2>1, FS_Interval
<1>3. Payouts(r) \in SUBSET DOMAIN ledger /\ Completed(r) \in SUBSET DOMAIN ledger
  BY DEF Payouts, Completed
<1> QED BY <1>2, <1>3, FS_Subset, FS_CardinalityType

\* A new row counts as a payout, or for nothing yet.
LEMMA InsertedCounts ==
  ASSUME Inv, NEW row \in Row, ledger' = Append(ledger, row), row.status = "Completed" => row.mode = "Credit",
         NEW r \in Refs
  PROVE  /\ Completed(r)' = Completed(r)
         /\ Payouts(r)' = IF IsPayout(row) /\ row.ref = r THEN Payouts(r) \cup {Len(ledger) + 1}
                          ELSE Payouts(r)
         /\ Len(ledger) + 1 \notin Payouts(r)
<1>1. /\ DOMAIN ledger' = DOMAIN ledger \cup {Len(ledger) + 1}
      /\ Len(ledger) + 1 \notin DOMAIN ledger
      /\ \A i \in DOMAIN ledger : ledger'[i] = ledger[i]
      /\ ledger'[Len(ledger) + 1] = row
  BY Appended DEF Inv, TypeOK
<1>2. Completed(r)' = Completed(r)
  BY <1>1 DEF Completed
<1>3. Len(ledger) + 1 \notin Payouts(r)
  BY <1>1 DEF Payouts
<1>4. Payouts(r)' = IF IsPayout(row) /\ row.ref = r THEN Payouts(r) \cup {Len(ledger) + 1}
                    ELSE Payouts(r)
  BY <1>1 DEF Payouts, IsPayout
<1> QED BY <1>2, <1>3, <1>4

LEMMA DebitStays ==
  ASSUME Inv, OneHandler, DebitsCover, Next, NEW h \in Handlers, job'[h].pc = "complete"
  PROVE  ledger'[job'[h].row].status = "Processed"
<1>0. /\ job \in [Handlers -> Job] /\ job[h] \in Job /\ ledger \in Seq(Row) /\ JobOK(job[h])
  BY DEF Inv, TypeOK
<1>1. CASE job'[h] = job[h]
  <2>1. job[h].pc = "complete" /\ ledger[job[h].row].status = "Processed" /\ job[h].row \in DOMAIN ledger
    BY <1>0, <1>1 DEF DebitsCover, JobOK, IsDebitOf
  <2>2. ASSUME NEW g \in Handlers PROVE ~InsertDeposit(g) /\ ~InsertDebit(g) /\ ~InsertPayout(g)
    BY <2>1 DEF OneHandler, InsertDeposit, InsertDebit, InsertPayout, Goto
  <2>3. ASSUME NEW g \in Handlers, CompleteDebit(g) PROVE FALSE
    <3>1. g = h
      BY DEF OneHandler
    <3>2. job'[h].pc \in {"throw", "payout"}
      BY <1>0, <2>3, <3>1 DEF CompleteDebit, Goto, Job
    <3> QED BY <3>2
  <2>4. UNCHANGED ledger
    BY <2>2, <2>3, LedgerWriters
  <2> QED BY <1>1, <2>1, <2>4
<1>2. CASE job'[h] # job[h]
  <2>1. FindDebit(h)
    BY <1>2, Arrives
  <2>2. UNCHANGED ledger /\ job' # [job EXCEPT ![h].pc = "throw"]
    <3>1. [job EXCEPT ![h].pc = "throw"][h].pc = "throw"
      BY <1>0 DEF Job
    <3> QED BY <2>1, <3>1 DEF FindDebit, db
  <2>3. PICK i \in ProcessedDebits(booking[job[h].bk].ref) :
               job' = [job EXCEPT ![h] =
                         [job[h] EXCEPT !.pc = "complete", !.ref = booking[job[h].bk].ref,
                                        !.wallet = IF job[h].kind = "Approve" THEN HostWallet[job[h].bk]
                                                   ELSE GuestWallet[job[h].bk],
                                        !.row = i]]
    BY <2>1, <2>2 DEF FindDebit
  <2>4. job'[h].row = i
    BY <1>0, <2>3 DEF Job
  <2> QED BY <2>2, <2>3, <2>4 DEF ProcessedDebits
<1> QED BY <1>1, <1>2

LEMMA DebitsStep ==
  ASSUME Inv, OneHandler, DebitsCover, Next
  PROVE  DebitsCover'
<1>0. /\ job \in [Handlers -> Job] /\ ledger \in Seq(Row)
      /\ \A h \in Handlers : JobOK(job[h]) /\ job[h] \in Job
  BY DEF Inv, TypeOK
<1>1. \A h \in Handlers : job'[h].pc = "complete" => ledger'[job'[h].row].status = "Processed"
  BY DebitStays
<1> SUFFICES ASSUME NEW r \in Refs
             PROVE  Cardinality(Payouts(r)') + Owing(r)' <= Cardinality(Completed(r)')
  BY <1>1 DEF DebitsCover
<1>2. /\ Cardinality(Payouts(r)) \in Nat /\ Cardinality(Completed(r)) \in Nat
      /\ IsFiniteSet(Payouts(r)) /\ IsFiniteSet(Completed(r))
      /\ Owing(r) \in {0, 1} /\ Owing(r)' \in {0, 1}
      /\ Cardinality(Payouts(r)) + Owing(r) <= Cardinality(Completed(r))
  BY RowSets DEF Owing, DebitsCover
<1>3. CASE UNCHANGED ledger
  <2>1. Payouts(r)' = Payouts(r) /\ Completed(r)' = Completed(r)
    BY <1>3 DEF Payouts, Completed, IsPayout
  <2>2. ASSUME NEW h \in Handlers, job'[h].pc = "payout", job'[h].ref = r
        PROVE  Owing(r) = 1
    <3>1. ~CompleteDebit(h)
      <4>1. SUFFICES ASSUME CompleteDebit(h) PROVE FALSE
        OBVIOUS
      <4>2. job[h].pc = "complete" /\ job[h].row \in DOMAIN ledger /\ ledger[job[h].row].status = "Processed"
        BY <4>1, CompleteEffect DEF CompleteDebit, Goto, DebitsCover
      <4>3. ledger'[job[h].row].status = "Completed"
        <5>1. ledger[job[h].row] \in Row
          BY <1>0, <4>2
        <5> QED BY <4>1, <5>1, CompleteEffect, RowEdit
      <4> QED BY <1>3, <4>2, <4>3
    <3> QED BY <2>2, <3>1, Arrives DEF Owing
  <2> QED BY <1>2, <2>1, <2>2 DEF Owing
<1>4. ASSUME NEW h \in Handlers, InsertDeposit(h) \/ InsertDebit(h) \/ InsertPayout(h)
      PROVE  Cardinality(Payouts(r)') + Owing(r)' <= Cardinality(Completed(r)')
  <2>1. job'[h].pc # "payout"
    BY <1>0, <1>4 DEF InsertDeposit, InsertDebit, InsertPayout, Goto, Job
  <2>2. Owing(r)' = 0
    BY <2>1 DEF Owing, OneHandler
  <2>3. CASE InsertPayout(h)
    <3>1. PayoutRow(job[h]) \in Row /\ ledger' = Append(ledger, PayoutRow(job[h]))
      BY <1>0, <2>3, InsertedRows DEF Inv, InsertPayout
    <3>2. PayoutRow(job[h]).mode = "Credit" /\ PayoutRow(job[h]).ref = job[h].ref
      BY DEF PayoutRow
    <3>3. PICK more : more = Payouts(r) \cup {Len(ledger) + 1}
      OBVIOUS
    <3>4. /\ Completed(r)' = Completed(r) /\ Len(ledger) + 1 \notin Payouts(r)
          /\ job[h].ref # r => Payouts(r)' = Payouts(r)
          /\ Payouts(r)' = Payouts(r) \/ Payouts(r)' = more
      BY <3>1, <3>2, <3>3, InsertedCounts
    <3>5. Cardinality(more) = Cardinality(Payouts(r)) + 1
      BY <1>2, <3>3, <3>4, FS_AddElement
    <3>6. CASE job[h].ref = r
      <4>1. Owing(r) = 1
        BY <2>3, <3>6 DEF InsertPayout, Owing
      <4>2. Cardinality(Payouts(r)') = Cardinality(Payouts(r)) \/ Cardinality(Payouts(r)') = Cardinality(more)
        BY <3>4
      <4>3. Cardinality(Completed(r)') = Cardinality(Completed(r))
        BY <3>4
      <4> QED BY <1>2, <2>2, <3>5, <4>1, <4>2, <4>3
    <3>7. CASE job[h].ref # r
      BY <1>2, <2>2, <3>4, <3>7
    <3> QED BY <3>6, <3>7
  <2>4. ASSUME NEW row \in Row, ledger' = Append(ledger, row), ~IsPayout(row),
               row.status = "Completed" => row.mode = "Credit"
        PROVE  Cardinality(Payouts(r)') + Owing(r)' <= Cardinality(Completed(r)')
    <3>1. Completed(r)' = Completed(r) /\ Payouts(r)' = Payouts(r)
      BY <2>4, InsertedCounts
    <3> QED BY <1>2, <2>2, <3>1
  <2>5. CASE InsertDeposit(h)
    <3>1. /\ DepositRow(job[h]) \in Row /\ ledger' = Append(ledger, DepositRow(job[h]))
          /\ ~IsPayout(DepositRow(job[h])) /\ DepositRow(job[h]).mode = "Credit"
      BY <1>0, <2>5, InsertedRows DEF Inv, InsertDeposit, DepositRow, IsPayout
    <3> QED BY <2>4, <3>1
  <2>6. CASE InsertDebit(h)
    <3>1. /\ DebitRow(job[h]) \in Row /\ ledger' = Append(ledger, DebitRow(job[h]))
          /\ ~IsPayout(DebitRow(job[h])) /\ DebitRow(job[h]).status = "Processed"
      BY <1>0, <2>6, InsertedRows DEF Inv, InsertDebit, DebitRow, IsPayout
    <3> QED BY <2>4, <3>1
  <2> QED BY <1>4, <2>3, <2>5, <2>6
<1>5. ASSUME NEW h \in Handlers, CompleteDebit(h)
      PROVE  Cardinality(Payouts(r)') + Owing(r)' <= Cardinality(Completed(r)')
  <2>0. PICK d \in DOMAIN ledger, q \in Refs : d = job[h].row /\ q = job[h].ref
    BY <1>0, <1>5 DEF CompleteDebit, Goto, JobOK, IsDebitOf
  <2>1. /\ job[h].pc = "complete" /\ ledger[d].status = "Processed" /\ ledger[d].mode = "Debit"
        /\ ledger[d].ref = q /\ job'[h].ref = q /\ ledger[d] \in Row
    BY <1>0, <1>5, <2>0 DEF CompleteDebit, Goto, JobOK, IsDebitOf, DebitsCover, Job
  <2>2. /\ DOMAIN ledger' = DOMAIN ledger
        /\ ledger'[d] = [ledger[d] EXCEPT !.status = "Completed"]
        /\ \A i \in DOMAIN ledger : i # d => ledger'[i] = ledger[i]
    BY <1>5, <2>0, CompleteEffect
  <2>3. ledger'[d].status = "Completed" /\ ledger'[d].mode = "Debit" /\ ledger'[d].ref = q
    BY <2>1, <2>2, RowEdit
  <2>4. Payouts(r)' = Payouts(r)
    BY <2>1, <2>2, <2>3 DEF Payouts, IsPayout
  <2>5. CASE r = q
    <3>0. d \notin Completed(r)
      BY <2>1 DEF Completed
    <3>1. Completed(r)' = Completed(r) \cup {d}
      <4>1. ASSUME NEW i \in DOMAIN ledger, i # d
            PROVE  i \in Completed(r)' <=> i \in Completed(r)
        BY <2>2, <4>1 DEF Completed
      <4>2. d \in Completed(r)'
        BY <2>2, <2>3, <2>5 DEF Completed
      <4>3. Completed(r) \in SUBSET DOMAIN ledger /\ Completed(r)' \in SUBSET DOMAIN ledger
        BY <2>2 DEF Completed
      <4> HIDE DEF Completed
      <4> QED BY <4>1, <4>2, <4>3
    <3>2. Cardinality(Completed(r)') = Cardinality(Completed(r)) + 1
      BY <1>2, <3>0, <3>1, FS_AddElement
    <3> QED BY <1>2, <2>4, <3>2
  <2>6. CASE r # q
    <3>1. Completed(r)' = Completed(r)
      BY <2>1, <2>2, <2>3, <2>6 DEF Completed
    <3>2. Owing(r)' = 0
      BY <2>1, <2>6 DEF Owing, OneHandler
    <3> QED BY <1>2, <2>4, <3>1, <3>2
  <2> QED BY <2>5, <2>6
<1> QED BY <1>3, <1>4, <1>5, LedgerWriters
-----------------------------------------------------------------------------
OneHandlerInv == Inv /\ (OneHandler => CreditsArrive /\ DebitsCover)

LEMMA OneHandlerInit == Init => OneHandlerInv
<1> SUFFICES ASSUME Init PROVE OneHandlerInv
  OBVIOUS
<1>1. Inv
  BY InitInv
<1>2. CreditsArrive
  BY DEF Init, Idle, CreditsArrive
<1>3. DebitsCover
  <2>1. \A h \in Handlers : job[h].pc = "idle"
    BY DEF Init, Idle
  <2>2. \A r : Payouts(r) = {} /\ Completed(r) = {} /\ Owing(r) = 0
    BY <2>1 DEF Init, Payouts, Completed, Owing
  <2> QED BY <2>1, <2>2, FS_EmptySet DEF DebitsCover
<1> QED BY <1>1, <1>2, <1>3 DEF OneHandlerInv

LEMMA OneHandlerStep == OneHandlerInv /\ [Next]_vars => OneHandlerInv'
<1> SUFFICES ASSUME OneHandlerInv, [Next]_vars PROVE OneHandlerInv'
  OBVIOUS
<1>1. Inv'
  BY TypeStep, PaidStep, RowsStep, BalanceStep, ApartStep, JobsStep, StutterInv DEF OneHandlerInv, Inv
<1>2. CASE Next
  BY <1>1, <1>2, CreditsStep, DebitsStep DEF OneHandlerInv, OneHandler
<1>3. CASE UNCHANGED vars
  BY <1>1, <1>3 DEF OneHandlerInv, OneHandler, CreditsArrive, DebitsCover, Owing, Payouts, Completed,
                    IsPayout, vars, db
<1> QED BY <1>2, <1>3

\* With one handler at a time and however many payments, bookings, wallets and
\* requests, the credits and debits under way are accounted for.
THEOREM OneHandlerInvariance == Spec => []OneHandlerInv
  BY OneHandlerInit, OneHandlerStep, PTL DEF Spec

\* updateWalletBalance loses no credit when handlers do not overlap and no call
\* fails: once the handler is idle, every credit row is in its wallet's balance.
THEOREM NoCreditIsLost == Spec => [](OneHandler => NoLostCredit)
<1>1. OneHandlerInv => (OneHandler => NoLostCredit)
  BY DEF OneHandlerInv, CreditsArrive, NoLostCredit, Adding
<1> QED BY <1>1, OneHandlerInvariance, PTL

\* When handlers do not overlap, a debit pays once at most, whatever calls fail
\* and wherever the process dies.
THEOREM DebitsPayOnce == Spec => [](OneHandler => OnePayoutPerDebit)
<1>1. OneHandlerInv => (OneHandler => OnePayoutPerDebit)
  <2> SUFFICES ASSUME OneHandlerInv, OneHandler, NEW r \in Refs
               PROVE  Cardinality(Payouts(r)) <= Cardinality(Completed(r))
    BY DEF OnePayoutPerDebit
  <2>1. /\ Cardinality(Payouts(r)) + Owing(r) <= Cardinality(Completed(r)) /\ Owing(r) \in {0, 1}
    BY DEF OneHandlerInv, DebitsCover, Owing
  <2> QED BY <2>1, RowSets DEF OneHandlerInv
<1> QED BY <1>1, OneHandlerInvariance, PTL

\* No row's amount is added twice, however many handlers overlap.
THEOREM RowsAreAddedOnce == Spec => []AddedOnce
<1>1. Inv => AddedOnce
  BY DEF Inv
<1> QED BY <1>1, Invariance, PTL
=============================================================================
