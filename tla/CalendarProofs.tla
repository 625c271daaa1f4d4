--------------------------- MODULE CalendarProofs ----------------------------
(***************************************************************************)
(* Proofs that a booking's status matches its dates, for any bookings, any *)
(* length of time and any number of failing runs.                          *)
(***************************************************************************)
EXTENDS BookingCalendar, TLAPS

USE CalendarAssumption

\* Tomorrow's midnight bounds the start of a stay, its arrival day that of a stay
\* with a length.
Due(b) ==
  /\ booking[b].start < booking[b].end => booking[b].start < Midnight(now) + Day
  /\ booking[b].start = booking[b].end => booking[b].start <= Midnight(now) + Day

\* The list of a run is stale when it is used, but what it says of dates has not
\* become wrong: a booking on it was created, and has the dates the query saw.
ArrivalsDue ==
  \A b \in arrivals.todo :
    /\ booking[b].status # "unused"
    /\ Due(b)

EndingsDue ==
  \A b \in endings.todo :
    /\ booking[b].status # "unused"
    /\ booking[b].end + Day <= now

CalendarInv == TypeOK /\ StatusMatchesDates /\ ArrivalsDue /\ EndingsDue
-----------------------------------------------------------------------------
LEMMA MidnightBefore ==
  ASSUME NEW t \in Nat
  PROVE  Midnight(t) \in Int /\ Midnight(t) <= t /\ Midnight(t) <= Midnight(t + 1)
  BY DEF Midnight, Day

LEMMA RunParts ==
  ASSUME TypeOK
  PROVE  /\ arrivals \in Run /\ arrivals.on \in BOOLEAN /\ arrivals.ran \in BOOLEAN
         /\ arrivals.todo \subseteq Bookings /\ (~arrivals.on => arrivals.todo = {})
         /\ endings \in Run /\ endings.on \in BOOLEAN /\ endings.ran \in BOOLEAN
         /\ endings.todo \subseteq Bookings /\ (~endings.on => endings.todo = {})
  BY DEF TypeOK, Run

LEMMA BookingParts ==
  ASSUME TypeOK, NEW b \in Bookings
  PROVE  booking[b].status \in Statuses /\ booking[b].start \in Nat /\ booking[b].end \in Nat
  BY DEF TypeOK, Ticks

\* An update of a status leaves the dates, and the other bookings, alone.
LEMMA StatusSet ==
  ASSUME TypeOK, NEW b \in Bookings, NEW s \in Statuses, SetStatus(b, s)
  PROVE  /\ booking' \in [Bookings -> [status: Statuses, start: Ticks, end: Ticks]]
         /\ \A c \in Bookings : /\ booking'[c].start = booking[c].start
                                /\ booking'[c].end = booking[c].end
                                /\ booking'[c].status = IF c = b THEN s ELSE booking[c].status
  BY DEF TypeOK, SetStatus

\* What the properties depend on besides the row itself is time, which only grows.
LEMMA Unchanging ==
  ASSUME TypeOK, StatusMatchesDates, ArrivalsDue, EndingsDue,
         TypeOK', now' = now,
         arrivals'.todo \subseteq arrivals.todo, endings'.todo \subseteq endings.todo,
         NEW s \in Statuses \ {"Current", "Completed", "unused"},
         \A c \in Bookings : /\ booking'[c].start = booking[c].start
                             /\ booking'[c].end = booking[c].end
                             /\ booking'[c].status \in {s, booking[c].status}
  PROVE  CalendarInv'
<1>1. StatusMatchesDates'
  BY DEF StatusMatchesDates
<1>2. ArrivalsDue'
  BY RunParts DEF ArrivalsDue, Due
<1>3. EndingsDue'
  BY RunParts DEF EndingsDue
<1> QED BY <1>1, <1>2, <1>3 DEF CalendarInv
-----------------------------------------------------------------------------
LEMMA CalendarInit == Init => CalendarInv
<1> SUFFICES ASSUME Init PROVE CalendarInv
  OBVIOUS
<1>1. TypeOK
  BY DEF Init, TypeOK, NotRun, Run, Ticks, Statuses, NoRow
<1>2. StatusMatchesDates
  BY DEF Init, StatusMatchesDates
<1> QED BY <1>1, <1>2 DEF Init, CalendarInv, ArrivalsDue, EndingsDue, NotRun

LEMMA CreateBookingKeeps ==
  ASSUME CalendarInv, NEW b \in Bookings, NEW s \in Ticks, NEW e \in Ticks, CreateBooking(b, s, e)
  PROVE  CalendarInv'
<1> USE DEF CalendarInv
<1> DEFINE new == [status |-> "Draft", start |-> s, end |-> e]
<1>1. new \in [status: Statuses, start: Ticks, end: Ticks]
  BY DEF Statuses
<1>2. /\ booking[b].status = "unused" /\ booking' = [booking EXCEPT ![b] = new]
      /\ UNCHANGED <<now, arrivals, endings, faults>>
  BY DEF CreateBooking
<1>3. \A c \in Bookings : booking'[c] = IF c = b THEN new ELSE booking[c]
  BY <1>2 DEF TypeOK
<1>4. TypeOK'
  BY <1>1, <1>2 DEF TypeOK
<1>5. StatusMatchesDates'
  BY <1>2, <1>3 DEF StatusMatchesDates
<1>6. b \notin arrivals.todo /\ b \notin endings.todo
  BY <1>2 DEF ArrivalsDue, EndingsDue
<1>7. ArrivalsDue' /\ EndingsDue'
  BY <1>2, <1>3, <1>6, RunParts DEF ArrivalsDue, EndingsDue, Due
<1> QED BY <1>4, <1>5, <1>7

LEMMA RowUpdateKeeps ==
  ASSUME CalendarInv, NEW b \in Bookings, NEW s \in {"removed", "Pending", "Upcoming", "Rejected", "Cancelled"},
         SetStatus(b, s), UNCHANGED <<now, arrivals, endings, faults>>
  PROVE  CalendarInv'
<1> USE DEF CalendarInv
<1>1. s \in Statuses \ {"Current", "Completed", "unused"}
  BY DEF Statuses, NoRow
<1>2. TypeOK'
  BY <1>1, StatusSet DEF TypeOK
<1> QED BY <1>1, <1>2, StatusSet, Unchanging

LEMMA FindArrivalsKeeps == CalendarInv /\ FindArrivals => CalendarInv'
<1> USE DEF CalendarInv
<1> SUFFICES ASSUME CalendarInv, FindArrivals PROVE CalendarInv'
  OBVIOUS
<1>1. arrivals' = [on |-> TRUE, todo |-> Arriving, ran |-> FALSE] /\ UNCHANGED <<now, booking, endings, faults>>
  BY DEF FindArrivals
<1>2. TypeOK'
  BY <1>1 DEF TypeOK, Run, Arriving
<1>3. now \in Nat
  BY DEF TypeOK, Ticks
<1>4. ASSUME NEW b \in Arriving
      PROVE  booking[b].status # "unused" /\ Due(b)
  BY <1>3, <1>4, MidnightBefore, BookingParts DEF Arriving, Due, Day
<1>5. ArrivalsDue'
  BY <1>1, <1>4 DEF ArrivalsDue, Due
<1> QED BY <1>1, <1>2, <1>5 DEF StatusMatchesDates, EndingsDue

LEMMA FindEndingsKeeps == CalendarInv /\ FindEndings => CalendarInv'
<1> USE DEF CalendarInv
<1> SUFFICES ASSUME CalendarInv, FindEndings PROVE CalendarInv'
  OBVIOUS
<1>1. endings' = [on |-> TRUE, todo |-> Ended, ran |-> FALSE] /\ UNCHANGED <<now, booking, arrivals, faults>>
  BY DEF FindEndings
<1>2. TypeOK'
  BY <1>1 DEF TypeOK, Run, Ended
<1>3. now \in Nat
  BY DEF TypeOK, Ticks
<1>4. ASSUME NEW b \in Ended
      PROVE  booking[b].status # "unused" /\ booking[b].end + Day <= now
  BY <1>3, <1>4, MidnightBefore, BookingParts DEF Ended, Day
<1>5. EndingsDue'
  BY <1>1, <1>4 DEF EndingsDue
<1> QED BY <1>1, <1>2, <1>5 DEF StatusMatchesDates, ArrivalsDue, Due

LEMMA UpdateArrivalKeeps == \A b \in Bookings : CalendarInv /\ UpdateArrival(b) => CalendarInv'
<1> USE DEF CalendarInv
<1> SUFFICES ASSUME NEW b \in Bookings, CalendarInv, UpdateArrival(b) PROVE CalendarInv'
  OBVIOUS
<1>1. /\ b \in arrivals.todo /\ Update(b, "Current")
      /\ arrivals' = [arrivals EXCEPT !.todo = @ \ {b}] /\ UNCHANGED <<now, endings, faults>>
  BY DEF UpdateArrival
<1>2. arrivals' \in Run /\ arrivals'.todo \subseteq arrivals.todo /\ arrivals'.on = arrivals.on
  BY <1>1, RunParts DEF Run
<1>3. CASE booking[b].status \in NoRow
  <2>1. UNCHANGED booking
    BY <1>1, <1>3 DEF Update
  <2>2. TypeOK'
    BY <1>1, <1>2, <2>1, RunParts DEF TypeOK
  <2>3. "Draft" \in Statuses \ {"Current", "Completed", "unused"}
    BY DEF Statuses
  <2> QED BY <1>1, <1>2, <2>1, <2>2, <2>3, Unchanging
<1>4. CASE booking[b].status \notin NoRow
  <2>1. SetStatus(b, "Current") /\ "Current" \in Statuses
    BY <1>1, <1>4 DEF Update, Statuses
  <2>2. TypeOK'
    BY <1>1, <1>2, <2>1, StatusSet, RunParts DEF TypeOK
  <2>3. Due(b)
    BY <1>1 DEF ArrivalsDue
  <2>4. StatusMatchesDates'
    BY <1>1, <2>1, <2>3, StatusSet DEF StatusMatchesDates, Due
  <2>5. ArrivalsDue' /\ EndingsDue'
    BY <1>1, <1>2, <2>1, StatusSet, RunParts DEF ArrivalsDue, EndingsDue, Due
  <2> QED BY <2>2, <2>4, <2>5
<1> QED BY <1>3, <1>4

LEMMA UpdateEndingKeeps == \A b \in Bookings : CalendarInv /\ UpdateEnding(b) => CalendarInv'
<1> USE DEF CalendarInv
<1> SUFFICES ASSUME NEW b \in Bookings, CalendarInv, UpdateEnding(b) PROVE CalendarInv'
  OBVIOUS
<1>1. /\ b \in endings.todo /\ Update(b, "Completed")
      /\ endings' = [endings EXCEPT !.todo = @ \ {b}] /\ UNCHANGED <<now, arrivals, faults>>
  BY DEF UpdateEnding
<1>2. endings' \in Run /\ endings'.todo \subseteq endings.todo /\ endings'.on = endings.on
  BY <1>1, RunParts DEF Run
<1>3. CASE booking[b].status \in NoRow
  <2>1. UNCHANGED booking
    BY <1>1, <1>3 DEF Update
  <2>2. TypeOK'
    BY <1>1, <1>2, <2>1, RunParts DEF TypeOK
  <2>3. "Draft" \in Statuses \ {"Current", "Completed", "unused"}
    BY DEF Statuses
  <2> QED BY <1>1, <1>2, <2>1, <2>2, <2>3, Unchanging
<1>4. CASE booking[b].status \notin NoRow
  <2>1. SetStatus(b, "Completed") /\ "Completed" \in Statuses
    BY <1>1, <1>4 DEF Update, Statuses
  <2>2. TypeOK'
    BY <1>1, <1>2, <2>1, StatusSet, RunParts DEF TypeOK
  <2>3. booking[b].end + Day <= now
    BY <1>1 DEF EndingsDue
  <2>4. StatusMatchesDates'
    BY <1>1, <2>1, <2>3, StatusSet DEF StatusMatchesDates
  <2>5. ArrivalsDue' /\ EndingsDue'
    BY <1>1, <1>2, <2>1, StatusSet, RunParts DEF ArrivalsDue, EndingsDue, Due
  <2> QED BY <2>2, <2>4, <2>5
<1> QED BY <1>3, <1>4

\* A run that ends, in order or by a fault, leaves nothing to do behind.
LEMMA RunEndsKeeps == CalendarInv /\ (FinishArrivals \/ FinishEndings \/ Fail) => CalendarInv'
<1> USE DEF CalendarInv
<1> SUFFICES ASSUME CalendarInv, FinishArrivals \/ FinishEndings \/ Fail PROVE CalendarInv'
  OBVIOUS
<1>1. /\ UNCHANGED <<now, booking>> /\ faults' \in 0..MaxFaults
      /\ arrivals' \in {arrivals, Finished} /\ endings' \in {endings, Finished}
  BY DEF FinishArrivals, FinishEndings, Fail, TypeOK
<1>2. Finished \in Run /\ Finished.todo = {}
  BY DEF Finished, Run
<1>3. TypeOK'
  BY <1>1, <1>2 DEF TypeOK
<1> QED BY <1>1, <1>2, <1>3 DEF StatusMatchesDates, ArrivalsDue, EndingsDue, Due

LEMMA TickKeeps == CalendarInv /\ Tick => CalendarInv'
<1> USE DEF CalendarInv
<1> SUFFICES ASSUME CalendarInv, Tick PROVE CalendarInv'
  OBVIOUS
<1>1. now < MaxTick /\ now' = now + 1 /\ arrivals' = NotRun /\ endings' = NotRun /\ UNCHANGED <<booking, faults>>
  BY DEF Tick
<1>2. NotRun \in Run /\ NotRun.todo = {}
  BY DEF NotRun, Run
<1>3. now \in Nat /\ TypeOK'
  BY <1>1, <1>2 DEF TypeOK, Ticks
<1>4. Midnight(now) \in Int /\ Midnight(now') \in Int /\ Midnight(now) <= Midnight(now')
  BY <1>1, <1>3, MidnightBefore
<1>5. StatusMatchesDates'
  <2> SUFFICES ASSUME NEW b \in Bookings
               PROVE  /\ booking[b].status = "Current" =>
                           /\ booking[b].start < booking[b].end => booking[b].start < Midnight(now') + Day
                           /\ booking[b].start = booking[b].end => booking[b].start <= Midnight(now') + Day
                      /\ booking[b].status = "Completed" => booking[b].end + Day <= now'
    BY <1>1 DEF StatusMatchesDates, Midnight
  <2> QED BY <1>1, <1>3, <1>4, BookingParts DEF StatusMatchesDates, Day
<1> QED BY <1>1, <1>2, <1>3, <1>5 DEF ArrivalsDue, EndingsDue

LEMMA CalendarStep == CalendarInv /\ [Next]_vars => CalendarInv'
<1> SUFFICES ASSUME CalendarInv, [Next]_vars PROVE CalendarInv'
  OBVIOUS
<1>1. ASSUME NEW b \in Bookings, NEW s \in Ticks, NEW e \in Ticks, CreateBooking(b, s, e)
      PROVE  CalendarInv'
  BY <1>1, CreateBookingKeeps
<1>2. ASSUME NEW b \in Bookings, RemoveBooking(b) \/ MarkBookingPaid(b) \/ Review(b)
      PROVE  CalendarInv'
  BY <1>2, RowUpdateKeeps DEF RemoveBooking, MarkBookingPaid, Review
<1>3. CASE RunArrivals
  BY <1>3, FindArrivalsKeeps, UpdateArrivalKeeps, RunEndsKeeps DEF RunArrivals
<1>4. CASE RunEndings
  BY <1>4, FindEndingsKeeps, UpdateEndingKeeps, RunEndsKeeps DEF RunEndings
<1>5. CASE Fail
  BY <1>5, RunEndsKeeps
<1>6. CASE Tick
  BY <1>6, TickKeeps
<1>7. CASE UNCHANGED vars
  BY <1>7 DEF vars, CalendarInv, TypeOK, StatusMatchesDates, ArrivalsDue, EndingsDue, Due, Midnight
<1> QED BY <1>1, <1>2, <1>3, <1>4, <1>5, <1>6, <1>7 DEF Next
-----------------------------------------------------------------------------
\* The invariant of the two jobs: the dates on which a stale list rests do not
\* change between the query and the update (cron.service.ts).
THEOREM CalendarInvariance == Spec => []CalendarInv
  BY CalendarInit, CalendarStep, PTL DEF Spec

\* Types of the bookings table and of the jobs' lists; a run that is over has
\* nothing left to update.
THEOREM CalendarTypeCorrect == Spec => []TypeOK
<1>1. CalendarInv => TypeOK
  BY DEF CalendarInv
<1> QED BY <1>1, CalendarInvariance, PTL

\* However reviews, payments, removals and failures interleave with the jobs, no stay
\* that ends after it starts is CURRENT before its arrival day, one of no length at
\* most a day before, and none is COMPLETED less than a day after its end.
THEOREM StatusFollowsDates == Spec => []StatusMatchesDates
<1>1. CalendarInv => StatusMatchesDates
  BY DEF CalendarInv
<1> QED BY <1>1, CalendarInvariance, PTL
=============================================================================
