-------------------------- MODULE BookingCalendar ---------------------------
(***************************************************************************)
(* A booking's status over time: the two hourly jobs of                    *)
(* src/cron/cron.service.ts, which find bookings and then update them one  *)
(* by one, interleaved with reviews, payments and removals, which update   *)
(* the same column without looking at it.                                  *)
(*                                                                         *)
(* Time advances by half days: an even tick is a midnight.                 *)
(***************************************************************************)
EXTENDS Integers

CONSTANTS
  Bookings,
  MaxTick,   \* bound on time
  MaxFaults  \* bound on runs of a job that fail half way

ASSUME CalendarAssumption == MaxTick \in Nat /\ MaxFaults \in Nat

VARIABLES
  now,
  booking,  \* the bookings table: status and dates
  arrivals, \* the run of checkBookingArrivalDates
  endings,  \* the run of checkBookingEndDates
  faults

vars == <<now, booking, arrivals, endings, faults>>
-----------------------------------------------------------------------------
Ticks == 0..MaxTick

Day == 2

Midnight(t) == t - (t % Day)

\* "unused" and "removed": there is no row.
NoRow == {"unused", "removed"}

Statuses == NoRow \cup {"Draft", "Pending", "Upcoming", "Rejected", "Cancelled",
                         "Current", "Completed"}

\* on: running; todo: found and not updated yet; ran: has run in this half day.
Run == [on: BOOLEAN, todo: SUBSET Bookings, ran: BOOLEAN]

TypeOK ==
  /\ now \in Ticks
  /\ booking \in [Bookings -> [status: Statuses, start: Ticks, end: Ticks]]
  /\ \A run \in {arrivals, endings} : run \in Run /\ (~run.on => run.todo = {})
  /\ faults \in 0..MaxFaults

NotRun == [on |-> FALSE, todo |-> {}, ran |-> FALSE]

Init ==
  /\ now = 0
  /\ booking = [b \in Bookings |-> [status |-> "unused", start |-> 0, end |-> 0]]
  /\ arrivals = NotRun
  /\ endings = NotRun
  /\ faults = 0

\* Both jobs run every hour.  The model lets each run once in a half day.
Tick ==
  /\ now < MaxTick
  /\ arrivals.ran /\ ~arrivals.on
  /\ endings.ran /\ ~endings.on
  /\ now' = now + 1
  /\ arrivals' = NotRun
  /\ endings' = NotRun
  /\ UNCHANGED <<booking, faults>>
-----------------------------------------------------------------------------
SetStatus(b, s) == booking' = [booking EXCEPT ![b].status = s]

\* An id is used once: dates are given with it and never change.  Nothing checks
\* that they are in order.
CreateBooking(b, s, e) ==
  /\ booking[b].status = "unused"
  /\ booking' = [booking EXCEPT ![b] = [status |-> "Draft", start |-> s, end |-> e]]
  /\ UNCHANGED <<now, arrivals, endings, faults>>

RemoveBooking(b) ==
  /\ booking[b].status \notin NoRow
  /\ SetStatus(b, "removed")
  /\ UNCHANGED <<now, arrivals, endings, faults>>

\* processPayment, at its first run or at one repeated much later.
MarkBookingPaid(b) ==
  /\ booking[b].status \notin NoRow
  /\ SetStatus(b, "Pending")
  /\ UNCHANGED <<now, arrivals, endings, faults>>

Review(b) ==
  /\ booking[b].status \notin NoRow
  /\ \E s \in {"Upcoming", "Rejected", "Cancelled"} : SetStatus(b, s)
  /\ UNCHANGED <<now, arrivals, endings, faults>>
-----------------------------------------------------------------------------
\* Mutants: today's midnight does not count; the last day ends today.
ArrivingAfterMidnight == {b \in Bookings : /\ booking[b].status = "Upcoming"
                                           /\ booking[b].start > Midnight(now)
                                           /\ booking[b].end <= Midnight(now) + Day}

EndingToday == {b \in Bookings : /\ booking[b].status = "Current"
                                 /\ booking[b].end <= Midnight(now)}

\* Mutant: only stays that ended exactly a day ago are found.
EndedYesterday == {b \in Bookings : /\ booking[b].status = "Current"
                                    /\ booking[b].end = Midnight(now) - Day}

\* The query of each job.  An arrival also has to end by tomorrow's midnight.
Arriving == {b \in Bookings : /\ booking[b].status = "Upcoming"
                              /\ booking[b].start >= Midnight(now)
                              /\ booking[b].end <= Midnight(now) + Day}

Ended == {b \in Bookings : /\ booking[b].status = "Current"
                           /\ booking[b].end <= Midnight(now) - Day}

\* A run starts with its query.
FindArrivals ==
  /\ ~arrivals.on /\ ~arrivals.ran
  /\ arrivals' = [on |-> TRUE, todo |-> Arriving, ran |-> FALSE]
  /\ UNCHANGED <<now, booking, endings, faults>>

FindEndings ==
  /\ ~endings.on /\ ~endings.ran
  /\ endings' = [on |-> TRUE, todo |-> Ended, ran |-> FALSE]
  /\ UNCHANGED <<now, booking, arrivals, faults>>

\* An UPDATE by id alone; the notifications to guest and host follow it.
Update(b, s) ==
  IF booking[b].status \in NoRow THEN UNCHANGED booking ELSE SetStatus(b, s)

UpdateArrival(b) ==
  /\ b \in arrivals.todo
  /\ Update(b, "Current")
  /\ arrivals' = [arrivals EXCEPT !.todo = @ \ {b}]
  /\ UNCHANGED <<now, endings, faults>>

UpdateEnding(b) ==
  /\ b \in endings.todo
  /\ Update(b, "Completed")
  /\ endings' = [endings EXCEPT !.todo = @ \ {b}]
  /\ UNCHANGED <<now, arrivals, faults>>

Finished == [on |-> FALSE, todo |-> {}, ran |-> TRUE]

FinishArrivals ==
  /\ arrivals.on /\ arrivals.todo = {}
  /\ arrivals' = Finished
  /\ UNCHANGED <<now, booking, endings, faults>>

FinishEndings ==
  /\ endings.on /\ endings.todo = {}
  /\ endings' = Finished
  /\ UNCHANGED <<now, booking, arrivals, faults>>

\* Mutant: the failed job lets go of its list only with the next query.
FailAndGoOn ==
  /\ faults < MaxFaults
  /\ \/ arrivals.on /\ arrivals' = [arrivals EXCEPT !.on = FALSE, !.ran = TRUE] /\ UNCHANGED endings
     \/ endings.on /\ endings' = [endings EXCEPT !.on = FALSE, !.ran = TRUE] /\ UNCHANGED arrivals
  /\ faults' = faults + 1
  /\ UNCHANGED <<now, booking>>

\* One catch around the loop: the bookings behind the failing one are skipped.
Fail ==
  /\ faults < MaxFaults
  /\ \/ arrivals.on /\ arrivals' = Finished /\ UNCHANGED endings
     \/ endings.on /\ endings' = Finished /\ UNCHANGED arrivals
  /\ faults' = faults + 1
  /\ UNCHANGED <<now, booking>>
-----------------------------------------------------------------------------
RunArrivals == FindArrivals \/ FinishArrivals \/ \E b \in Bookings : UpdateArrival(b)

RunEndings == FindEndings \/ FinishEndings \/ \E b \in Bookings : UpdateEnding(b)

Next ==
  \/ \E b \in Bookings, s, e \in Ticks : CreateBooking(b, s, e)
  \/ \E b \in Bookings : RemoveBooking(b) \/ MarkBookingPaid(b) \/ Review(b)
  \/ RunArrivals \/ RunEndings \/ Fail
  \/ Tick

Spec == Init /\ [][Next]_vars

\* The scheduler starts the jobs and time passes; nobody has to review or pay.
Fairness == WF_vars(RunArrivals) /\ WF_vars(RunEndings) /\ WF_vars(Tick)

FairSpec == Spec /\ Fairness
-----------------------------------------------------------------------------
\* A stay that ends after it starts is CURRENT only from its arrival day on and any
\* booking is COMPLETED only a day after its end, however stale the job's list is.
\* A stay of no length at a midnight is found, and made CURRENT, the day before (the
\* query takes what ends by tomorrow's midnight), and of one that ends before it
\* starts the query says nothing.
StatusMatchesDates ==
  \A b \in Bookings :
    /\ booking[b].status = "Current" =>
         /\ booking[b].start < booking[b].end => booking[b].start < Midnight(now) + Day
         /\ booking[b].start = booking[b].end => booking[b].start <= Midnight(now) + Day
    /\ booking[b].status = "Completed" => booking[b].end + Day <= now

OneDayStay(b) == booking[b].end <= Midnight(booking[b].start) + Day

\* A one-day stay that is UPCOMING when its day begins leaves UPCOMING in spite
\* of a failing run: the next run of the day finds it again.
OneDayArrivalIsNoticed ==
  \A b \in Bookings :
    /\ booking[b].status = "Upcoming" /\ OneDayStay(b)
    /\ booking[b].start \in {now, now + 1} /\ now % Day = 0
    /\ arrivals = NotRun
    ~> booking[b].status # "Upcoming"

\* A stay that is CURRENT does not stay so once it is over, though one run fails
\* (both runs that may find it are within the model's time).
CurrentEnds ==
  \A b \in Bookings :
    /\ booking[b].status = "Current"
    /\ now + 2 <= MaxTick /\ Midnight(booking[b].end) + 2 * Day < MaxTick
    ~> booking[b].status # "Current"

\* "Check for bookings with arrival date matching the current date and update
\* their status to CURRENT" (the job's comment), for stays of any length.
ArrivalIsNoticed ==
  \A b \in Bookings :
    /\ booking[b].status = "Upcoming"
    /\ booking[b].start \in {now, now + 1} /\ now % Day = 0
    /\ arrivals = NotRun
    ~> booking[b].status # "Upcoming"
=============================================================================
