---------------------------- MODULE Availability -----------------------------
(***************************************************************************)
(* src/app/property: hosts list properties, the admin reviews them, guests *)
(* page through a search and check a period before they book.  Bookings    *)
(* are those of BookingCalendar, seen from here: a status that payments,   *)
(* reviews and jobs overwrite, of which the queries ask only whether it is *)
(* UPCOMING or CURRENT.                                                    *)
(***************************************************************************)
EXTENDS Integers, Sequences, FiniteSets

CONSTANTS
  Users, Bookings,
  Periods,        \* <<check-in, check-out>>, in order or not
  NoUser, NoPeriod,
  Searches,       \* what clients search for: a part of Query
  Limit,          \* rows on a page of a search
  MaxProperties,  \* bound on the properties listed
  MaxRequests     \* bound on reviews, checks, bookings and changes of their status

ASSUME AvailabilityAssumption ==
  /\ Periods \subseteq Int \X Int
  /\ NoUser \notin Users /\ NoPeriod \notin Periods
  /\ Limit \in Nat \ {0}
  /\ {MaxProperties, MaxRequests} \subseteq Nat

\* "anyone": the request does not say from where.
Query == [from: {"guest", "host", "admin", "anyone"}, user: Users, period: Periods \cup {NoPeriod}]

ASSUME SearchesAssumption == Searches \subseteq Query

VARIABLES
  property,  \* the properties table; an id is a place in it
  booking,   \* the bookings table
  answer,    \* the check a guest made before a booking
  search,    \* a client that pages through a search
  requests

vars == <<property, booking, answer, search, requests>>
-----------------------------------------------------------------------------
Ids == DOMAIN property

RegistrationStatus == {"In Review", "Approved", "Rejected"}

\* "Free": any other status.
Row == [status: {"unused", "Free", "Upcoming", "Current", "removed"}, property: 0..MaxProperties,
        period: Periods \cup {NoPeriod}]

NoRow == [status |-> "unused", property |-> 0, period |-> NoPeriod]

\* The stay that was free.  seen: the bookings that were reserved then.
Answer == [property: 0..MaxProperties, period: Periods \cup {NoPeriod}, seen: SUBSET Bookings]

NoAnswer == [property |-> 0, period |-> NoPeriod, seen |-> {}]

NoQuery == [from |-> "none", user |-> NoUser, period |-> NoPeriod]

\* got: rows the client was sent; always: ids that matched all the time since the
\* search began.
NoSearch == [pc |-> "idle", query |-> NoQuery, cursor |-> 0, ids |-> {}, got |-> {}, always |-> {}]

TypeOK ==
  /\ property \in Seq([host: Users, status: RegistrationStatus])
  /\ Len(property) <= MaxProperties
  /\ booking \in [Bookings -> Row]
  /\ answer \in [Bookings -> Answer]
  /\ search \in [pc: {"idle", "ids", "load"}, query: Searches \cup {NoQuery}, cursor: Ids \cup {0},
                 ids: SUBSET Ids, got: SUBSET Ids, always: SUBSET Ids]
  /\ requests \in 0..MaxRequests

Init ==
  /\ property = <<>>
  /\ booking = [b \in Bookings |-> NoRow]
  /\ answer = [b \in Bookings |-> NoAnswer]
  /\ search = NoSearch
  /\ requests = 0
-----------------------------------------------------------------------------
Reserved(books) == {b \in Bookings : books[b].status \in {"Upcoming", "Current"}}

\* Mutant: only guests who have arrived are in the way.
OccupiedIn(books, p, period) ==
  {b \in Reserved(books) : /\ books[b].property = p
                           /\ books[b].status = "Current"
                           /\ books[b].period[1] <= period[2]
                           /\ books[b].period[2] >= period[1]}

\* The condition both queries put on the bookings of a property.
Conflicting(books, p, period) ==
  {b \in Reserved(books) : /\ books[b].property = p
                           /\ books[b].period[1] <= period[2]
                           /\ books[b].period[2] >= period[1]}

\* The conditions of findAll.  A guest does not see its own properties; without
\* "from" the status is not asked for.
Matching(props, books, query) ==
  {p \in DOMAIN props :
     /\ query.period # NoPeriod => Conflicting(books, p, query.period) = {}
     /\ CASE query.from = "guest" -> props[p].host # query.user /\ props[p].status = "Approved"
          [] query.from = "host" -> props[p].host = query.user
          [] query.from = "admin" -> props[p].status = "In Review"
          [] query.from = "anyone" -> TRUE
          [] OTHER -> FALSE}

Request == requests < MaxRequests /\ requests' = requests + 1

\* What the search's rows still match after a step.
Watch ==
  search' = [search EXCEPT !.always = @ \cap Matching(property', booking', search.query)]
-----------------------------------------------------------------------------
\* Property and location are saved at once, the status by default.
CreateProperty(u) ==
  /\ Len(property) < MaxProperties
  /\ property' = Append(property, [host |-> u, status |-> "In Review"])
  /\ UNCHANGED <<booking, answer, requests>>
  /\ Watch

\* Mutant: the action without a status is written too.
ReviewWithCancel(p) ==
  /\ Request
  /\ \E s \in {"Approved", "Rejected", "undefined"} : property' = [property EXCEPT ![p].status = s]
  /\ UNCHANGED <<booking, answer>>
  /\ Watch

\* By an admin, at any time, again and again.  CANCEL has no status here: the
\* update has nothing to set and throws.
Review(p) ==
  /\ Request
  /\ \E s \in {"Approved", "Rejected"} : property' = [property EXCEPT ![p].status = s]
  /\ UNCHANGED <<booking, answer>>
  /\ Watch

\* One query, and an answer whatever the status of the property.  An answer is
\* kept for the stay that is booked on it: others change nothing.
CheckAvailability(b, p, period) ==
  /\ Request
  /\ booking[b].status = "unused" /\ answer[b] = NoAnswer
  /\ Conflicting(booking, p, period) = {}
  /\ answer' = [answer EXCEPT ![b] = [property |-> p, period |-> period, seen |-> Reserved(booking)]]
  /\ UNCHANGED <<property, booking, search>>

\* create of bookings looks neither at the dates nor at the property, and needs
\* no answer.
CreateBooking(b, p, period) ==
  /\ Request
  /\ booking[b].status = "unused"
  /\ answer[b] # NoAnswer => answer[b].property = p /\ answer[b].period = period
  /\ booking' = [booking EXCEPT ![b] = [status |-> "Free", property |-> p, period |-> period]]
  /\ UNCHANGED <<property, answer>>
  /\ Watch

\* A payment, a review or a job.
ChangeStatus(b) ==
  /\ Request
  /\ booking[b].status \notin {"unused", "removed"}
  /\ \E s \in {"Free", "Upcoming", "Current"} \ {booking[b].status} :
       booking' = [booking EXCEPT ![b].status = s]
  /\ UNCHANGED <<property, answer>>
  /\ Watch

RemoveBooking(b) ==
  /\ Request
  /\ booking[b].status \notin {"unused", "removed"}
  /\ booking' = [booking EXCEPT ![b] = [NoRow EXCEPT !.status = "removed"]]
  /\ UNCHANGED <<property, answer>>
  /\ Watch
-----------------------------------------------------------------------------
StartSearch(query) ==
  /\ search.pc = "idle"
  /\ search' = [NoSearch EXCEPT !.pc = "ids", !.query = query,
                                !.always = Matching(property, booking, query)]
  /\ UNCHANGED <<property, booking, answer, requests>>

First(ids) == {p \in ids : Cardinality({k \in ids : k > p}) < Limit}

\* Mutant: pages by offset.
FindIdsByOffset ==
  /\ search.pc = "ids"
  /\ LET rest == Matching(property, booking, search.query)
         ids == {p \in rest : Cardinality({k \in rest : k > p}) >= Cardinality(search.got)}
     IN  search' = IF ids = {} THEN NoSearch
                   ELSE [search EXCEPT !.pc = "load", !.ids = First(ids)]
  /\ UNCHANGED <<property, booking, answer, requests>>

\* A query with joins and take is two: first the ids of the page ...
FindIds ==
  /\ search.pc = "ids"
  /\ LET ids == {p \in Matching(property, booking, search.query) :
                   search.cursor = 0 \/ p < search.cursor}
     IN  search' = IF ids = {} THEN NoSearch
                   ELSE [search EXCEPT !.pc = "load", !.ids = First(ids)]
  /\ UNCHANGED <<property, booking, answer, requests>>

\* ... then the rows with these ids that still match.  nextCursor is the last id
\* that was sent; a page without rows has none, and the client stops.
LoadPage ==
  /\ search.pc = "load"
  /\ LET page == search.ids \cap Matching(property, booking, search.query)
     IN  search' = IF page = {} THEN NoSearch
                   ELSE [search EXCEPT !.pc = "ids", !.ids = {}, !.got = @ \cup page,
                                       !.cursor = CHOOSE p \in page : \A k \in page : p <= k]
  /\ UNCHANGED <<property, booking, answer, requests>>
-----------------------------------------------------------------------------
Next ==
  \/ \E u \in Users : CreateProperty(u)
  \/ \E p \in Ids : Review(p)
  \/ \E b \in Bookings, p \in Ids, period \in Periods :
       CheckAvailability(b, p, period) \/ CreateBooking(b, p, period)
  \/ \E b \in Bookings : ChangeStatus(b) \/ RemoveBooking(b)
  \/ \E query \in Searches : StartSearch(query)
  \/ FindIds \/ LoadPage

Spec == Init /\ [][Next]_vars
-----------------------------------------------------------------------------
InOrder(period) == period[1] <= period[2]

ShareAnInstant(p, q) == \E t \in p[1]..p[2] : t \in q[1]..q[2]

\* The guest was told that the stay it booked was free.
Checked(b) == answer[b] # NoAnswer

\* Two guests who checked first hold the same dates of a property only if each
\* checked before the other's stay was reserved: checkAvailability is a request of
\* its own, and nothing looks again when the bookings are made, paid or approved.
DoubleStayNeedsRace ==
  \A b, c \in Reserved(booking) :
    /\ b # c /\ Checked(b) /\ Checked(c)
    /\ booking[b].property = booking[c].property
    /\ InOrder(booking[b].period) /\ InOrder(booking[c].period)
    /\ ShareAnInstant(booking[b].period, booking[c].period)
    => c \notin answer[b].seen /\ b \notin answer[c].seen

\* A client that pages to the end has been sent every property that matched all
\* the time, though others are listed, reviewed and booked meanwhile; but when
\* all rows of a page stop matching between its two queries, it stops early.
SearchComplete ==
  [][search.pc = "ids" /\ search'.pc = "idle" => search.always \subseteq search.got]_vars
=============================================================================
