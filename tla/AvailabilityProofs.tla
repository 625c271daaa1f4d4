------------------------ MODULE AvailabilityProofs --------------------------
(***************************************************************************)
(* Proofs that the tables keep their shape, that two checked stays share   *)
(* dates only after a race and that a search to the end misses nothing,    *)
(* for any users, bookings, periods, searches and sizes of a page.         *)
(***************************************************************************)
EXTENDS Availability, FiniteSetTheorems, WellFoundedInduction, TLAPS

USE AvailabilityAssumption, SearchesAssumption

\* A row's dates are there as long as it can hold them.
DatesKnown ==
  \A b \in Bookings : booking[b].status \notin {"unused", "removed"} => booking[b].period \in Periods

\* A booking is made for the stay that was checked, and keeps it.
CheckedStay ==
  \A b \in Bookings :
    Checked(b) /\ booking[b].status \notin {"unused", "removed"} =>
      booking[b].property = answer[b].property /\ booking[b].period = answer[b].period

InTheWay(row, p, period) ==
  row.property = p /\ row.period[1] <= period[2] /\ row.period[2] >= period[1]

\* A booking that was reserved at the check of another never gets into its way:
\* rows keep their dates, and a removed one does not come back.
SeenIsClear ==
  \A b \in Bookings : \A c \in answer[b].seen :
    /\ booking[c].status # "unused"
    /\ booking[c].status # "removed" => ~InTheWay(booking[c], answer[b].property, answer[b].period)

StayInv == TypeOK /\ DatesKnown /\ CheckedStay /\ SeenIsClear
-----------------------------------------------------------------------------
\* Watch keeps a search well typed when rows are added or stay.
LEMMA WatchType ==
  ASSUME TypeOK, Watch, Ids \subseteq Ids'
  PROVE  search' \in [pc: {"idle", "ids", "load"}, query: Searches \cup {NoQuery},
                      cursor: Ids' \cup {0}, ids: SUBSET Ids', got: SUBSET Ids', always: SUBSET Ids']
<1> DEFINE S == [pc: {"idle", "ids", "load"}, query: Searches \cup {NoQuery},
                 cursor: Ids \cup {0}, ids: SUBSET Ids, got: SUBSET Ids, always: SUBSET Ids]
<1>1. search \in S
  BY DEF TypeOK
<1> DEFINE left == search.always \cap Matching(property', booking', search.query)
<1>2. left \subseteq Ids
  BY <1>1
<1>3. search' = [search EXCEPT !.always = left]
  BY DEF Watch
<1> HIDE DEF left
<1>4. search' \in S
  BY <1>1, <1>2, <1>3
<1> QED BY <1>4

LEMMA SameProperties ==
  ASSUME TypeOK, Watch, property' = property, booking' \in [Bookings -> Row],
         answer' = answer, requests' \in 0..MaxRequests
  PROVE  TypeOK'
<1>1. Ids' = Ids
  BY DEF Ids
<1> QED BY <1>1, WatchType DEF TypeOK

LEMMA InitType == Init => TypeOK
<1> SUFFICES ASSUME Init PROVE TypeOK
  OBVIOUS
<1>1. property \in Seq([host: Users, status: RegistrationStatus]) /\ Len(property) = 0
  BY DEF Init
<1>2. booking \in [Bookings -> Row] /\ answer \in [Bookings -> Answer]
  BY DEF Init, Row, Answer, NoRow, NoAnswer
<1>3. search \in [pc: {"idle", "ids", "load"}, query: Searches \cup {NoQuery}, cursor: Ids \cup {0},
                  ids: SUBSET Ids, got: SUBSET Ids, always: SUBSET Ids]
  BY DEF Init, NoSearch
<1> QED BY <1>1, <1>2, <1>3 DEF TypeOK, Init

LEMMA IdsAre == TypeOK => Ids = 1..Len(property) /\ Ids \subseteq 1..MaxProperties
  BY DEF TypeOK, Ids

LEMMA RequestType == ASSUME TypeOK, Request PROVE requests' \in 0..MaxRequests
  BY DEF TypeOK, Request

LEMMA CreatePropertyType == ASSUME TypeOK, NEW u \in Users, CreateProperty(u) PROVE TypeOK'
<1> DEFINE new == [host |-> u, status |-> "In Review"]
<1>1. new \in [host: Users, status: RegistrationStatus]
  BY DEF RegistrationStatus
<1>2. property' = Append(property, new) /\ Len(property) < MaxProperties
  BY DEF CreateProperty
<1> HIDE DEF new
<1>3. /\ property' \in Seq([host: Users, status: RegistrationStatus])
      /\ Len(property') <= MaxProperties /\ Ids \subseteq Ids'
  BY <1>1, <1>2 DEF TypeOK, Ids
<1>4. UNCHANGED <<booking, answer, requests>> /\ Watch
  BY DEF CreateProperty
<1> QED BY <1>3, <1>4, WatchType DEF TypeOK

LEMMA ReviewType == ASSUME TypeOK, NEW p \in Ids, Review(p) PROVE TypeOK'
<1>1. PICK s \in {"Approved", "Rejected"} : property' = [property EXCEPT ![p].status = s]
  BY DEF Review
<1>2. [property[p] EXCEPT !.status = s] \in [host: Users, status: RegistrationStatus]
  <2>1. property[p] \in [host: Users, status: RegistrationStatus]
    <3> DEFINE R == [host: Users, status: RegistrationStatus]
    <3>1. p \in 1..Len(property) /\ property \in Seq(R)
      BY IdsAre DEF TypeOK
    <3> HIDE DEF R
    <3>2. property[p] \in R
      BY <3>1
    <3> QED BY <3>2 DEF R
  <2> QED BY <2>1 DEF RegistrationStatus
<1>3. property' = [property EXCEPT ![p] = [property[p] EXCEPT !.status = s]]
  BY <1>1
<1>4. /\ property' \in Seq([host: Users, status: RegistrationStatus])
      /\ Len(property') = Len(property) /\ Ids' = Ids
  BY <1>2, <1>3 DEF TypeOK, Ids
<1>5. UNCHANGED <<booking, answer>> /\ Watch /\ requests' \in 0..MaxRequests
  BY RequestType DEF Review
<1> QED BY <1>4, <1>5, WatchType DEF TypeOK

LEMMA CheckType ==
  ASSUME TypeOK, NEW b \in Bookings, NEW p \in Ids, NEW period \in Periods,
         CheckAvailability(b, p, period)
  PROVE  TypeOK'
<1>1. answer' = [answer EXCEPT ![b] = [property |-> p, period |-> period, seen |-> Reserved(booking)]]
  BY DEF CheckAvailability
<1>2. [property |-> p, period |-> period, seen |-> Reserved(booking)] \in Answer
  BY IdsAre DEF Answer, Reserved
<1>3. answer' \in [Bookings -> Answer]
  BY <1>1, <1>2 DEF TypeOK
<1>4. UNCHANGED <<property, booking, search>> /\ requests' \in 0..MaxRequests
  BY RequestType DEF CheckAvailability
<1> QED BY <1>3, <1>4 DEF TypeOK, Ids

LEMMA CreateBookingType ==
  ASSUME TypeOK, NEW b \in Bookings, NEW p \in Ids, NEW period \in Periods,
         CreateBooking(b, p, period)
  PROVE  TypeOK'
<1>1. [status |-> "Free", property |-> p, period |-> period] \in Row
  BY IdsAre DEF Row
<1>2. booking' \in [Bookings -> Row] /\ requests' \in 0..MaxRequests
  BY <1>1, RequestType DEF CreateBooking, TypeOK
<1>3. UNCHANGED <<property, answer>> /\ Watch
  BY DEF CreateBooking
<1> QED BY <1>2, <1>3, SameProperties

LEMMA ChangeStatusType == ASSUME TypeOK, NEW b \in Bookings, ChangeStatus(b) PROVE TypeOK'
<1>1. PICK s \in {"Free", "Upcoming", "Current"} : booking' = [booking EXCEPT ![b].status = s]
  BY DEF ChangeStatus
<1>2. [booking[b] EXCEPT !.status = s] \in Row
  BY DEF TypeOK, Row
<1>3. booking' = [booking EXCEPT ![b] = [booking[b] EXCEPT !.status = s]]
  BY <1>1
<1>4. booking' \in [Bookings -> Row]
  BY <1>2, <1>3 DEF TypeOK
<1>5. UNCHANGED <<property, answer>> /\ Watch /\ requests' \in 0..MaxRequests
  BY RequestType DEF ChangeStatus
<1> QED BY <1>4, <1>5, SameProperties

LEMMA RemoveBookingType == ASSUME TypeOK, NEW b \in Bookings, RemoveBooking(b) PROVE TypeOK'
<1>1. [NoRow EXCEPT !.status = "removed"] \in Row
  BY DEF NoRow, Row
<1>2. booking' \in [Bookings -> Row] /\ requests' \in 0..MaxRequests
  BY <1>1, RequestType DEF RemoveBooking, TypeOK
<1>3. UNCHANGED <<property, answer>> /\ Watch
  BY DEF RemoveBooking
<1> QED BY <1>2, <1>3, SameProperties

LEMMA StartSearchType == ASSUME TypeOK, NEW query \in Searches, StartSearch(query) PROVE TypeOK'
<1>1. Matching(property, booking, query) \subseteq Ids
  BY DEF Matching, Ids
<1>2. /\ search' = [NoSearch EXCEPT !.pc = "ids", !.query = query,
                                    !.always = Matching(property, booking, query)]
      /\ UNCHANGED <<property, booking, answer, requests>>
  BY DEF StartSearch
<1>3. search' \in [pc: {"idle", "ids", "load"}, query: Searches \cup {NoQuery}, cursor: Ids \cup {0},
                   ids: SUBSET Ids, got: SUBSET Ids, always: SUBSET Ids]
  BY <1>1, <1>2 DEF NoSearch
<1> QED BY <1>2, <1>3 DEF TypeOK, Ids

LEMMA NoSearchType ==
  NoSearch \in [pc: {"idle", "ids", "load"}, query: Searches \cup {NoQuery}, cursor: Ids \cup {0},
                ids: SUBSET Ids, got: SUBSET Ids, always: SUBSET Ids]
  BY DEF NoSearch

LEMMA FindIdsType == ASSUME TypeOK, FindIds PROVE TypeOK'
<1>1. search' \in [pc: {"idle", "ids", "load"}, query: Searches \cup {NoQuery}, cursor: Ids \cup {0},
                   ids: SUBSET Ids, got: SUBSET Ids, always: SUBSET Ids]
  <2> DEFINE ids == {p \in Matching(property, booking, search.query) :
                       search.cursor = 0 \/ p < search.cursor}
             found == First(ids)
  <2>1. found \subseteq Ids
    BY DEF Matching, Ids, First
  <2>2. search' = NoSearch \/ search' = [search EXCEPT !.pc = "load", !.ids = found]
    BY DEF FindIds
  <2> HIDE DEF found
  <2>3. CASE search' = NoSearch
    BY <2>3, NoSearchType
  <2>4. CASE search' = [search EXCEPT !.pc = "load", !.ids = found]
    BY <2>1, <2>4 DEF TypeOK
  <2> QED BY <2>2, <2>3, <2>4
<1>2. UNCHANGED <<property, booking, answer, requests>>
  BY DEF FindIds
<1> QED BY <1>1, <1>2 DEF TypeOK, Ids

\* A page has a last row.
LEMMA PageHasMinimum ==
  ASSUME NEW S, S \subseteq Nat, S # {}
  PROVE  \E p \in S : \A k \in S : p <= k
<1>1. PICK p \in S : \A k \in S : <<k, p>> \notin OpToRel(<, Nat)
  BY NatLessThanWellFounded, WFMin
<1>2. \A k \in S : ~(k < p)
  BY <1>1 DEF OpToRel
<1> QED BY <1>2

LEMMA LoadPageType == ASSUME TypeOK, LoadPage PROVE TypeOK'
<1>1. search' \in [pc: {"idle", "ids", "load"}, query: Searches \cup {NoQuery}, cursor: Ids \cup {0},
                   ids: SUBSET Ids, got: SUBSET Ids, always: SUBSET Ids]
  <2> DEFINE page == search.ids \cap Matching(property, booking, search.query)
             last == CHOOSE p \in page : \A k \in page : p <= k
             got == search.got \cup page
  <2>1. page \subseteq Ids /\ got \subseteq Ids
    BY DEF TypeOK
  <2>2. page # {} => last \in Ids
    <3> SUFFICES ASSUME page # {} PROVE last \in Ids
      OBVIOUS
    <3>1. page \subseteq Nat
      BY <2>1, IdsAre
    <3>2. \E p \in page : \A k \in page : p <= k
      BY <3>1, PageHasMinimum
    <3>3. last \in page
      BY <3>2
    <3> QED BY <2>1, <3>3
  <2>3. \/ search' = NoSearch
        \/ page # {} /\ search' = [search EXCEPT !.pc = "ids", !.ids = {}, !.got = got, !.cursor = last]
    BY DEF LoadPage
  <2> HIDE DEF last, got, page
  <2>4. CASE search' = NoSearch
    BY <2>4, NoSearchType
  <2>5. CASE page # {} /\ search' = [search EXCEPT !.pc = "ids", !.ids = {}, !.got = got, !.cursor = last]
    BY <2>1, <2>2, <2>5 DEF TypeOK
  <2> QED BY <2>3, <2>4, <2>5
<1>2. UNCHANGED <<property, booking, answer, requests>>
  BY DEF LoadPage
<1> QED BY <1>1, <1>2 DEF TypeOK, Ids

LEMMA TypeStep == TypeOK /\ [Next]_vars => TypeOK'
<1>1. TypeOK /\ UNCHANGED vars => TypeOK'
  BY DEF TypeOK, vars, Ids
<1> QED
  BY <1>1, CreatePropertyType, ReviewType, CheckType, CreateBookingType, ChangeStatusType,
     RemoveBookingType, StartSearchType, FindIdsType, LoadPageType
  DEF Next

\* The shape of the tables and of a search, whatever requests come.
THEOREM AvailabilityTypeCorrect == Spec => []TypeOK
  BY InitType, TypeStep, PTL DEF Spec
-----------------------------------------------------------------------------
\* Bookings: new ones hold the checked stay, the others keep property and dates.
StatusOnly(b) ==
  booking'[b].property = booking[b].property /\ booking'[b].period = booking[b].period

LEMMA ChangeStatusKeeps ==
  ASSUME TypeOK, NEW b \in Bookings, ChangeStatus(b)
  PROVE  /\ \A c \in Bookings : c # b => booking'[c] = booking[c]
         /\ StatusOnly(b) /\ booking[b].status \notin {"unused", "removed"}
         /\ booking'[b].status \in {"Free", "Upcoming", "Current"}
         /\ answer' = answer
<1>1. PICK s \in {"Free", "Upcoming", "Current"} : booking' = [booking EXCEPT ![b].status = s]
  BY DEF ChangeStatus
<1>2. booking[b] \in Row /\ booking'[b] = [booking[b] EXCEPT !.status = s]
  BY <1>1 DEF TypeOK
<1>3. booking'[b].status = s /\ StatusOnly(b)
  BY <1>2 DEF Row, StatusOnly
<1> QED BY <1>1, <1>3 DEF ChangeStatus, TypeOK

LEMMA InitStay == Init => StayInv
<1> SUFFICES ASSUME Init PROVE StayInv
  OBVIOUS
<1>1. \A b \in Bookings : /\ booking[b].status = "unused" /\ answer[b] = NoAnswer
                          /\ answer[b].seen = {}
  BY DEF Init, NoRow, NoAnswer
<1> QED BY <1>1, InitType DEF StayInv, DatesKnown, CheckedStay, SeenIsClear

LEMMA CheckStay ==
  ASSUME StayInv, NEW b \in Bookings, NEW p \in Ids, NEW period \in Periods,
         CheckAvailability(b, p, period), TypeOK'
  PROVE  StayInv'
<1> USE DEF StayInv
<1> DEFINE new == [property |-> p, period |-> period, seen |-> Reserved(booking)]
<1>1. /\ booking' = booking /\ booking[b].status = "unused"
      /\ Conflicting(booking, p, period) = {}
      /\ answer' = [answer EXCEPT ![b] = new]
  BY DEF CheckAvailability
<1>2. answer'[b] = new /\ \A c \in Bookings : c # b => answer'[c] = answer[c]
  BY <1>1 DEF TypeOK
<1>3. DatesKnown'
  BY <1>1 DEF DatesKnown
<1>4. CheckedStay'
  BY <1>1, <1>2 DEF CheckedStay, Checked
<1>5. SeenIsClear'
  <2>1. ASSUME NEW c \in Reserved(booking)
        PROVE  booking[c].status # "unused" /\ ~InTheWay(booking[c], p, period)
    BY <1>1 DEF Reserved, Conflicting, InTheWay
  <2> QED BY <1>1, <1>2, <2>1 DEF SeenIsClear
<1> QED BY <1>3, <1>4, <1>5

LEMMA CreateStay ==
  ASSUME StayInv, NEW b \in Bookings, NEW p \in Ids, NEW period \in Periods,
         CreateBooking(b, p, period), TypeOK'
  PROVE  StayInv'
<1> USE DEF StayInv
<1>1. /\ booking[b].status = "unused" /\ answer' = answer
      /\ answer[b] # NoAnswer => answer[b].property = p /\ answer[b].period = period
      /\ booking' = [booking EXCEPT ![b] = [status |-> "Free", property |-> p, period |-> period]]
  BY DEF CreateBooking
<1>2. /\ booking'[b] = [status |-> "Free", property |-> p, period |-> period]
      /\ \A c \in Bookings : c # b => booking'[c] = booking[c]
  BY <1>1 DEF TypeOK
<1>3. DatesKnown'
  BY <1>1, <1>2 DEF DatesKnown
<1>4. CheckedStay'
  BY <1>1, <1>2 DEF CheckedStay, Checked
<1>5. SeenIsClear'
  <2>1. \A c \in Bookings : b \notin answer[c].seen
    BY <1>1 DEF SeenIsClear
  <2>2. \A c \in Bookings : answer[c].seen \subseteq Bookings
    BY DEF TypeOK, Answer
  <2> QED BY <1>1, <1>2, <2>1, <2>2 DEF SeenIsClear
<1> QED BY <1>3, <1>4, <1>5

LEMMA ChangeStay ==
  ASSUME StayInv, NEW b \in Bookings, ChangeStatus(b), TypeOK'
  PROVE  StayInv'
<1> USE DEF StayInv
<1>1. DatesKnown'
  BY ChangeStatusKeeps DEF DatesKnown, StatusOnly
<1>2. CheckedStay'
  BY ChangeStatusKeeps DEF CheckedStay, Checked, StatusOnly
<1>3. SeenIsClear'
  <2>1. \A c \in Bookings : answer[c].seen \subseteq Bookings /\ answer'[c] = answer[c]
    BY ChangeStatusKeeps DEF TypeOK, Answer
  <2> QED BY <2>1, ChangeStatusKeeps DEF SeenIsClear, StatusOnly, InTheWay
<1> QED BY <1>1, <1>2, <1>3

LEMMA RemoveStay ==
  ASSUME StayInv, NEW b \in Bookings, RemoveBooking(b), TypeOK'
  PROVE  StayInv'
<1> USE DEF StayInv
<1>1. /\ answer' = answer /\ booking'[b].status = "removed"
      /\ \A c \in Bookings : c # b => booking'[c] = booking[c]
  BY DEF RemoveBooking, TypeOK, NoRow
<1>2. \A c \in Bookings : answer[c].seen \subseteq Bookings
  BY DEF TypeOK, Answer
<1> QED BY <1>1, <1>2 DEF DatesKnown, CheckedStay, Checked, SeenIsClear

LEMMA OthersStay ==
  ASSUME StayInv, UNCHANGED <<booking, answer>>, TypeOK'
  PROVE  StayInv'
  BY DEF StayInv, DatesKnown, CheckedStay, Checked, SeenIsClear

LEMMA StayStep == StayInv /\ [Next]_vars => StayInv'
<1> SUFFICES ASSUME StayInv, [Next]_vars PROVE StayInv'
  OBVIOUS
<1>1. TypeOK'
  BY TypeStep DEF StayInv
<1>2. CASE \E b \in Bookings, p \in Ids, period \in Periods :
             CheckAvailability(b, p, period) \/ CreateBooking(b, p, period)
  BY <1>1, <1>2, CheckStay, CreateStay
<1>3. CASE \E b \in Bookings : ChangeStatus(b) \/ RemoveBooking(b)
  BY <1>1, <1>3, ChangeStay, RemoveStay
<1>4. CASE UNCHANGED <<booking, answer>>
  BY <1>1, <1>4, OthersStay
<1> QED
  BY <1>2, <1>3, <1>4
  DEF Next, CreateProperty, Review, StartSearch, FindIds, LoadPage, vars

\* The overlap of two periods is symmetric, and what the queries look for.
LEMMA SharedIsInTheWay ==
  ASSUME NEW p \in Periods, NEW q \in Periods, ShareAnInstant(p, q)
  PROVE  p[1] <= q[2] /\ p[2] >= q[1]
<1>1. p[1] \in Int /\ p[2] \in Int /\ q[1] \in Int /\ q[2] \in Int
  OBVIOUS
<1> QED BY <1>1 DEF ShareAnInstant

LEMMA StaySafe == StayInv => DoubleStayNeedsRace
<1> SUFFICES ASSUME StayInv, NEW b \in Reserved(booking), NEW c \in Reserved(booking),
                    Checked(b), booking[b].property = booking[c].property,
                    ShareAnInstant(booking[b].period, booking[c].period)
             PROVE  c \notin answer[b].seen
  <2>1. \A p, q : ShareAnInstant(p, q) => ShareAnInstant(q, p)
    BY DEF ShareAnInstant
  <2> QED BY <2>1 DEF DoubleStayNeedsRace
<1>1. /\ booking[b].status \notin {"unused", "removed"} /\ b \in Bookings
      /\ booking[c].status \notin {"unused", "removed"} /\ c \in Bookings
  BY DEF Reserved
<1>2. booking[b].property = answer[b].property /\ booking[b].period = answer[b].period
  BY <1>1 DEF StayInv, CheckedStay
<1>3. booking[b].period \in Periods /\ booking[c].period \in Periods
  BY <1>1 DEF StayInv, DatesKnown
<1>4. InTheWay(booking[c], answer[b].property, answer[b].period)
  <2>1. /\ booking[b].period[1] <= booking[c].period[2]
        /\ booking[b].period[2] >= booking[c].period[1]
    BY <1>3, SharedIsInTheWay
  <2>2. /\ booking[b].period[1] \in Int /\ booking[b].period[2] \in Int
        /\ booking[c].period[1] \in Int /\ booking[c].period[2] \in Int
    BY <1>3
  <2> QED BY <1>2, <2>1, <2>2 DEF InTheWay
<1> QED BY <1>1, <1>4 DEF StayInv, SeenIsClear

\* Of two checked stays that share dates of a property (checkAvailability of
\* property.service.ts, create of booking.service.ts) neither was reserved when
\* the other was checked.
THEOREM DoubleStayIsARace == Spec => []DoubleStayNeedsRace
  BY InitStay, StayStep, StaySafe, PTL DEF Spec
-----------------------------------------------------------------------------
(***************************************************************************)
(* The search.                                                             *)
(***************************************************************************)
Passed(p) == search.cursor # 0 /\ p >= search.cursor

\* What has matched all along matches now, and was sent if the cursor has passed
\* it; between the two queries of a page, the ids found leave no gap.
Gapless ==
  /\ search.pc # "idle" =>
       /\ search.always \subseteq Matching(property, booking, search.query)
       /\ \A p \in search.always : Passed(p) => p \in search.got
  /\ search.pc = "load" =>
       \A p \in search.always, c \in search.ids : ~Passed(p) /\ p >= c => p \in search.ids

SearchInv == TypeOK /\ Gapless

\* The ids of a page are the highest: with one of them all above it are there.
LEMMA FirstIsUpwardClosed ==
  ASSUME NEW S, IsFiniteSet(S), S \subseteq Nat, NEW c \in First(S), NEW p \in S, p >= c
  PROVE  p \in First(S)
<1> DEFINE abovec == {k \in S : k > c}
           abovep == {k \in S : k > p}
<1>1. c \in S /\ c \in Nat /\ p \in Nat /\ Cardinality(abovec) < Limit
  BY DEF First
<1>2. abovep \subseteq abovec /\ abovec \subseteq S
  <2>1. \A k \in S : k > p => k > c
    BY <1>1
  <2> QED BY <2>1
<1>3. /\ IsFiniteSet(abovec) /\ IsFiniteSet(abovep)
      /\ Cardinality(abovep) <= Cardinality(abovec)
      /\ Cardinality(abovec) \in Nat /\ Cardinality(abovep) \in Nat
  BY <1>2, FS_Subset, FS_CardinalityType
<1>4. Cardinality(abovep) < Limit
  <2> HIDE DEF abovec, abovep
  <2> QED BY <1>1, <1>3
<1> QED BY <1>4 DEF First

LEMMA WatchKeeps ==
  ASSUME TypeOK, Watch
  PROVE  /\ search'.pc = search.pc /\ search'.query = search.query /\ search'.cursor = search.cursor
         /\ search'.ids = search.ids /\ search'.got = search.got
         /\ search'.always = search.always \cap Matching(property', booking', search.query)
<1> DEFINE left == search.always \cap Matching(property', booking', search.query)
<1>1. search' = [search EXCEPT !.always = left]
  BY DEF Watch
<1> HIDE DEF left
<1>2. /\ search'.pc = search.pc /\ search'.query = search.query /\ search'.cursor = search.cursor
      /\ search'.ids = search.ids /\ search'.got = search.got /\ search'.always = left
  BY <1>1 DEF TypeOK
<1> QED BY <1>2 DEF left

LEMMA WatchGapless == ASSUME SearchInv, Watch PROVE Gapless'
<1>1. /\ search'.pc = search.pc /\ search'.query = search.query /\ search'.cursor = search.cursor
      /\ search'.ids = search.ids /\ search'.got = search.got
      /\ search'.always \subseteq search.always
      /\ search'.always \subseteq Matching(property', booking', search'.query)
  BY WatchKeeps DEF SearchInv
<1>2. \A p : Passed(p)' <=> Passed(p)
  BY <1>1 DEF Passed
<1> QED BY <1>1, <1>2 DEF Gapless, SearchInv

LEMMA StartGapless == ASSUME NEW query \in Searches, StartSearch(query) PROVE Gapless'
<1>1. /\ search'.pc = "ids" /\ search'.cursor = 0 /\ search'.query = query
      /\ search'.always = Matching(property, booking, query)
      /\ property' = property /\ booking' = booking
  BY DEF StartSearch, NoSearch
<1> QED BY <1>1 DEF Gapless, Passed

LEMMA StopGapless == search' = NoSearch => Gapless'
  BY DEF Gapless, NoSearch

\* The ids of the next page, or none is left and nothing was missed.
LEMMA FindIdsDoes ==
  ASSUME SearchInv, FindIds
  PROVE  /\ search.pc = "ids" /\ Gapless'
         /\ search'.pc = "idle" => search.always \subseteq search.got
<1> DEFINE matching == Matching(property, booking, search.query)
           rest == {p \in matching : search.cursor = 0 \/ p < search.cursor}
<1>1. search.pc = "ids" /\ property' = property /\ booking' = booking
  BY DEF FindIds
<1>2. \/ rest = {} /\ search' = NoSearch
      \/ rest # {} /\ search' = [search EXCEPT !.pc = "load", !.ids = First(rest)]
  BY DEF FindIds
<1>3. search.always \subseteq matching /\ matching \subseteq Ids
  <2>1. search.always \subseteq matching
    BY <1>1 DEF SearchInv, Gapless
  <2>2. matching \subseteq Ids
    BY DEF Matching, Ids
  <2> QED BY <2>1, <2>2
<1>4. Ids = 1..Len(property) /\ Len(property) \in Nat /\ search.cursor \in Nat
  <2>1. Ids = 1..Len(property) /\ Len(property) \in Nat /\ search.cursor \in Ids \cup {0}
    BY IdsAre DEF SearchInv, TypeOK
  <2> QED BY <2>1
<1>5. \A p \in search.always : ~Passed(p) => p \in rest
  BY <1>3, <1>4 DEF Passed
<1>6. IsFiniteSet(rest) /\ rest \subseteq Nat
  <2>1. IsFiniteSet(1..Len(property))
    BY <1>4, FS_Interval
  <2>2. rest \subseteq 1..Len(property)
    BY <1>3, <1>4
  <2> QED BY <2>1, <2>2, FS_Subset
<1> DEFINE found == First(rest)
<1>7. CASE rest = {}
  <2>1. search.always \subseteq search.got
    BY <1>1, <1>5, <1>7 DEF SearchInv, Gapless
  <2> QED BY <1>1, <1>2, <1>7, <2>1, StopGapless
<1>8. CASE search' = [search EXCEPT !.pc = "load", !.ids = found]
  <2>1. \A p \in rest, c \in found : p >= c => p \in found
    BY <1>6, FirstIsUpwardClosed
  <2> HIDE DEF found, rest
  <2>2. /\ search'.pc = "load" /\ search'.ids = found /\ search'.query = search.query
        /\ search'.cursor = search.cursor /\ search'.got = search.got /\ search'.always = search.always
    BY <1>8 DEF SearchInv, TypeOK
  <2>3. \A p : Passed(p)' <=> Passed(p)
    BY <2>2 DEF Passed
  <2> QED BY <1>1, <1>3, <1>5, <2>1, <2>2, <2>3 DEF Gapless, SearchInv
<1> QED BY <1>2, <1>7, <1>8

\* The rows of a page: what they pass has been sent with them or before.
LEMMA LoadPageGapless ==
  ASSUME SearchInv, LoadPage
  PROVE  search.pc = "load" /\ Gapless'
<1> DEFINE matching == Matching(property, booking, search.query)
           page == search.ids \cap matching
           last == CHOOSE p \in page : \A k \in page : p <= k
           got == search.got \cup page
<1>1. search.pc = "load" /\ property' = property /\ booking' = booking
  BY DEF LoadPage
<1>2. \/ search' = NoSearch
      \/ page # {} /\ search' = [search EXCEPT !.pc = "ids", !.ids = {}, !.got = got, !.cursor = last]
  BY DEF LoadPage
<1>3. CASE page # {} /\ search' = [search EXCEPT !.pc = "ids", !.ids = {}, !.got = got, !.cursor = last]
  <2>1. page \subseteq Nat
    BY IdsAre DEF SearchInv, TypeOK
  <2>2. last \in page
    <3>1. \E p \in page : \A k \in page : p <= k
      BY <1>3, <2>1, PageHasMinimum
    <3> HIDE DEF page
    <3> QED BY <3>1
  <2> HIDE DEF last, got
  <2>3. /\ search'.pc = "ids" /\ search'.cursor = last /\ search'.query = search.query
        /\ search'.got = got /\ search'.always = search.always
    BY <1>3 DEF SearchInv, TypeOK
  <2>4. /\ search.always \subseteq matching
        /\ \A p \in search.always : Passed(p) => p \in search.got
        /\ \A p \in search.always, c \in search.ids : ~Passed(p) /\ p >= c => p \in search.ids
    BY <1>1 DEF SearchInv, Gapless
  <2>5. ASSUME NEW p \in search.always, p >= last PROVE p \in got
    BY <2>2, <2>4, <2>5 DEF got
  <2>6. \A p \in search'.always : Passed(p)' => p \in search'.got
    BY <2>3, <2>5 DEF Passed
  <2> QED BY <1>1, <2>3, <2>4, <2>6 DEF Gapless
<1> QED BY <1>1, <1>2, <1>3, StopGapless

LEMMA SearchInit == Init => SearchInv
  BY InitType DEF Init, SearchInv, Gapless, NoSearch

LEMMA SearchStep == SearchInv /\ [Next]_vars => SearchInv'
<1> SUFFICES ASSUME SearchInv, [Next]_vars PROVE SearchInv'
  OBVIOUS
<1>1. TypeOK'
  BY TypeStep DEF SearchInv
<1>2. CASE Watch
  BY <1>1, <1>2, WatchGapless DEF SearchInv
<1>3. CASE (\E query \in Searches : StartSearch(query)) \/ FindIds \/ LoadPage
  BY <1>1, <1>3, StartGapless, FindIdsDoes, LoadPageGapless DEF SearchInv
<1>4. CASE UNCHANGED <<property, booking, search>>
  BY <1>1, <1>4 DEF SearchInv, Gapless, Passed
<1> QED
  BY <1>2, <1>3, <1>4
  DEF Next, CreateProperty, Review, CheckAvailability, CreateBooking, ChangeStatus, RemoveBooking, vars

\* What a search has matched and sent, at every moment of any number of requests.
THEOREM SearchInvariance == Spec => []SearchInv
  BY SearchInit, SearchStep, PTL DEF Spec

\* findAll of property.service.ts, paged with nextCursor to a query without ids:
\* every property that matched all the time was sent, however many are listed,
\* reviewed and booked meanwhile.
THEOREM SearchIsComplete == Spec => SearchComplete
<1>1. ASSUME SearchInv, Next, search.pc = "ids", search'.pc = "idle"
      PROVE  search.always \subseteq search.got
  <2>1. CASE Watch
    BY <1>1, <2>1, WatchKeeps DEF SearchInv
  <2>2. CASE \E query \in Searches : StartSearch(query)
    BY <1>1, <2>2 DEF StartSearch
  <2>3. CASE FindIds
    BY <1>1, <2>3, FindIdsDoes
  <2>4. CASE LoadPage
    BY <1>1, <2>4, LoadPageGapless
  <2>5. CASE UNCHANGED search
    BY <1>1, <2>5
  <2> QED
    BY <1>1, <2>1, <2>2, <2>3, <2>4, <2>5
    DEF Next, CreateProperty, Review, CheckAvailability, CreateBooking, ChangeStatus, RemoveBooking
<1>2. SearchInv /\ [Next]_vars =>
        [search.pc = "ids" /\ search'.pc = "idle" => search.always \subseteq search.got]_vars
  BY <1>1
<1> QED BY <1>2, SearchInvariance, PTL DEF Spec, SearchComplete
=============================================================================
