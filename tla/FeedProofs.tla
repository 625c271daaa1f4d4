----------------------------- MODULE FeedProofs ------------------------------
(***************************************************************************)
(* What a client sees that pages through its notifications to the end, for *)
(* any table of notifications and any size of a page.  The recursion of    *)
(* Feed is followed by its smallest counterexample.                        *)
(***************************************************************************)
EXTENDS NotificationsProofs, WellFoundedInduction

LEMMA LimitIsPositive == Limit \in Nat /\ 0 < Limit
<1>1. Limit \in {Recent, Limit}
  OBVIOUS
<1>2. Limit \in Nat \ {0}
  BY <1>1, NotificationsAssumption
<1> QED BY <1>2

\* Rows a page may show, and those of them that go before row i.
Rest(u, c) == {i \in Of(u) : c = 0 \/ i < c}

Ahead(u, c, i) == Newer(u, i) \cap Rest(u, c)

\* One page and what f says of the pages after it.
Continue(u, f, c) ==
  IF Page(u, c) = {} THEN {} ELSE Page(u, c) \cup f[NextCursor(Page(u, c))]

FeedFrom(u) == CHOOSE f : f = [c \in 0..Len(rows) |-> Continue(u, f, c)]

LEMMA FeedMeans == \A u : Feed(u) = FeedFrom(u)[0]
  BY DEF Feed, FeedFrom, Continue

LEMMA HasMinimum ==
  ASSUME NEW S, S \subseteq Nat, S # {}
  PROVE  \E p \in S : \A k \in S : p <= k
<1>1. PICK p \in S : \A k \in S : <<k, p>> \notin OpToRel(<, Nat)
  BY NatLessThanWellFounded, WFMin
<1>2. \A k \in S : ~(k < p)
  BY <1>1 DEF OpToRel
<1> QED BY <1>2
-----------------------------------------------------------------------------
(***************************************************************************)
(* One page.                                                               *)
(***************************************************************************)
LEMMA RestIsFinite ==
  ASSUME Typed, NEW u, NEW c
  PROVE  /\ Rest(u, c) \subseteq 1..Len(rows)
         /\ \A i : IsFiniteSet(Ahead(u, c, i)) /\ Cardinality(Ahead(u, c, i)) \in Nat
<1>1. Rest(u, c) \subseteq 1..Len(rows) /\ IsFiniteSet(1..Len(rows))
  BY RowType, FS_Interval DEF Rest, Of
<1>2. \A i : Ahead(u, c, i) \in SUBSET (1..Len(rows))
  BY <1>1 DEF Ahead
<1> QED BY <1>1, <1>2, FS_Subset, FS_CardinalityType

LEMMA PageMeans ==
  ASSUME NEW u, NEW c
  PROVE  Page(u, c) = {i \in Rest(u, c) : Cardinality(Ahead(u, c, i)) < Limit}
  BY DEF Page, Rest, Ahead

LEMMA RowTimes ==
  ASSUME Typed, NEW u, NEW i \in Of(u)
  PROVE  i \in 1..Len(rows) /\ i \in Nat /\ rows[i].at \in Nat
  BY RowType DEF Of

\* A row is behind all that the rows before it are behind.
LEMMA AheadIsOrdered ==
  ASSUME Typed, NEW u, NEW c, NEW i \in Of(u), NEW k \in Of(u), rows[k].at >= rows[i].at
  PROVE  /\ Ahead(u, c, k) \subseteq Ahead(u, c, i)
         /\ Cardinality(Ahead(u, c, k)) <= Cardinality(Ahead(u, c, i))
         /\ k \in Ahead(u, c, i) => Cardinality(Ahead(u, c, k)) < Cardinality(Ahead(u, c, i))
<1>1. \A l \in Of(u) : rows[l].at > rows[k].at => rows[l].at > rows[i].at
  BY RowTimes
<1>2. Ahead(u, c, k) \in SUBSET Ahead(u, c, i)
  BY <1>1 DEF Ahead, Newer
<1>3. k \notin Ahead(u, c, k)
  BY RowTimes DEF Ahead, Newer
<1>4. /\ IsFiniteSet(Ahead(u, c, i)) /\ Cardinality(Ahead(u, c, i)) \in Nat
      /\ Cardinality(Ahead(u, c, k)) \in Nat
  BY RestIsFinite
<1>5. /\ Cardinality(Ahead(u, c, k)) <= Cardinality(Ahead(u, c, i))
      /\ Cardinality(Ahead(u, c, i)) = Cardinality(Ahead(u, c, k)) => Ahead(u, c, i) = Ahead(u, c, k)
  BY <1>2, <1>4, FS_Subset
<1>6. ASSUME k \in Ahead(u, c, i) PROVE Cardinality(Ahead(u, c, k)) < Cardinality(Ahead(u, c, i))
  <2>1. Cardinality(Ahead(u, c, i)) # Cardinality(Ahead(u, c, k))
    BY <1>3, <1>5, <1>6
  <2> QED BY <1>4, <1>5, <2>1
<1> QED BY <1>2, <1>5, <1>6

\* While rows are left, the newest of them is on the page.
LEMMA PageShowsSome ==
  ASSUME Typed, NEW u, NEW c, Rest(u, c) # {}
  PROVE  Page(u, c) # {}
<1> DEFINE S == {Cardinality(Ahead(u, c, k)) : k \in Rest(u, c)}
<1>1. S \subseteq Nat /\ S # {}
  BY RestIsFinite
<1>2. PICK n \in S : \A k \in S : n <= k
  BY <1>1, HasMinimum
<1>3. PICK k \in Rest(u, c) : n = Cardinality(Ahead(u, c, k))
  BY <1>2
<1>4. Ahead(u, c, k) = {}
  <2>1. SUFFICES ASSUME NEW l \in Ahead(u, c, k) PROVE FALSE
    OBVIOUS
  <2>2. l \in Rest(u, c) /\ l \in Of(u) /\ k \in Of(u) /\ rows[l].at > rows[k].at
    BY <2>1 DEF Ahead, Newer, Rest
  <2>3. Cardinality(Ahead(u, c, l)) < Cardinality(Ahead(u, c, k))
    BY <2>1, <2>2, AheadIsOrdered, RowTimes
  <2>4. Cardinality(Ahead(u, c, k)) <= Cardinality(Ahead(u, c, l))
    BY <1>2, <1>3, <2>2
  <2> QED BY <2>3, <2>4, RestIsFinite
<1>5. Cardinality(Ahead(u, c, k)) = 0
  BY <1>4, FS_EmptySet
<1>6. Cardinality(Ahead(u, c, k)) < Limit
  BY <1>5, LimitIsPositive
<1>7. k \in Page(u, c)
  BY <1>6, PageMeans
<1> QED BY <1>7

LEMMA CursorIsLast ==
  ASSUME Typed, NEW u, NEW c, Page(u, c) # {}
  PROVE  /\ NextCursor(Page(u, c)) \in Page(u, c)
         /\ \A k \in Page(u, c) : rows[NextCursor(Page(u, c))].at <= rows[k].at
<1> DEFINE S == {rows[k].at : k \in Page(u, c)}
<1>1. Page(u, c) \subseteq Of(u)
  BY DEF Page
<1>2. S \subseteq Nat /\ S # {}
  BY <1>1, RowTimes
<1>3. PICK n \in S : \A k \in S : n <= k
  BY <1>2, HasMinimum
<1>4. \E i \in Page(u, c) : \A k \in Page(u, c) : rows[i].at <= rows[k].at
  BY <1>3
<1> QED BY <1>4 DEF NextCursor
-----------------------------------------------------------------------------
(***************************************************************************)
(* The pages after each other: each cursor is below the one before it.     *)
(***************************************************************************)
LEMMA CursorDescends ==
  ASSUME Typed, NEW u, NEW c, Page(u, c) # {}
  PROVE  /\ NextCursor(Page(u, c)) \in Rest(u, c)
         /\ NextCursor(Page(u, c)) \in 1..Len(rows)
         /\ c # 0 => NextCursor(Page(u, c)) < c
<1>1. NextCursor(Page(u, c)) \in Rest(u, c)
  BY CursorIsLast, PageMeans
<1> QED BY <1>1, RestIsFinite DEF Rest

LEMMA ContinueAgrees ==
  ASSUME Typed, NEW u, NEW f, NEW g, NEW c, \A k \in Rest(u, c) : f[k] = g[k]
  PROVE  Continue(u, f, c) = Continue(u, g, c)
  BY CursorDescends DEF Continue

LEMMA FeedExists ==
  ASSUME Typed, NEW u
  PROVE  \E f : f = [c \in 0..Len(rows) |-> Continue(u, f, c)]
<1> DEFINE N == Len(rows)
           Bad == {n \in 0..N : ~\E g : \A c \in 1..n : g[c] = Continue(u, g, c)}
<1>1. N \in Nat
  BY RowType
<1> HIDE DEF N
<1>2. Bad = {}
  <2>1. SUFFICES ASSUME Bad # {} PROVE FALSE
    OBVIOUS
  <2>2. PICK n \in Bad : \A k \in Bad : n <= k
    <3>1. Bad \subseteq Nat
      BY <1>1
    <3> HIDE DEF Bad
    <3> QED BY <2>1, <3>1, HasMinimum
  <2>3. n \in Nat /\ n # 0 /\ n \in 0..N
    BY <1>1, <2>2
  <2>4. n - 1 \in 0..N /\ n - 1 \notin Bad
    BY <1>1, <2>2, <2>3
  <2>5. PICK g : \A c \in 1..(n - 1) : g[c] = Continue(u, g, c)
    BY <2>4
  <2> DEFINE h == [c \in 1..n |-> IF c = n THEN Continue(u, g, n) ELSE g[c]]
  <2>6. ASSUME NEW c \in 1..n PROVE Continue(u, h, c) = Continue(u, g, c)
    <3>1. ASSUME NEW k \in Rest(u, c) PROVE k \in 1..n /\ k # n
      BY <2>3, <2>6, <3>1, RestIsFinite DEF Rest
    <3>2. \A k \in Rest(u, c) : h[k] = g[k]
      BY <3>1
    <3> HIDE DEF h
    <3> QED BY <3>2, ContinueAgrees
  <2>7. \A c \in 1..n : h[c] = Continue(u, g, c)
    BY <2>3, <2>5
  <2>8. \A c \in 1..n : h[c] = Continue(u, h, c)
    BY <2>6, <2>7
  <2> HIDE DEF h
  <2> QED BY <2>2, <2>8
<1>3. PICK g : \A c \in 1..N : g[c] = Continue(u, g, c)
  BY <1>1, <1>2
<1> DEFINE f == [c \in 0..N |-> IF c = 0 THEN Continue(u, g, 0) ELSE g[c]]
<1>4. ASSUME NEW c \in 0..N PROVE Continue(u, f, c) = Continue(u, g, c)
  <2>1. \A k \in Rest(u, c) : k \in 0..N /\ k # 0
    BY <1>1, RestIsFinite DEF N
  <2>2. \A k \in Rest(u, c) : f[k] = g[k]
    BY <2>1
  <2> HIDE DEF f
  <2> QED BY <2>2, ContinueAgrees
<1>5. \A c \in 0..N : f[c] = Continue(u, g, c)
  BY <1>1, <1>3
<1>6. f = [c \in 0..N |-> Continue(u, f, c)]
  BY <1>4, <1>5
<1> HIDE DEF f
<1> QED BY <1>6 DEF N

LEMMA FeedContinues ==
  ASSUME Typed, NEW u, NEW c \in 0..Len(rows)
  PROVE  FeedFrom(u)[c] = Continue(u, FeedFrom(u), c)
<1>1. FeedFrom(u) = [d \in 0..Len(rows) |-> Continue(u, FeedFrom(u), d)]
  BY FeedExists DEF FeedFrom
<1> QED BY <1>1
-----------------------------------------------------------------------------
(***************************************************************************)
(* What the pages from a cursor on leave out, an older row hides.          *)
(***************************************************************************)
Hidden(u, i) == \E k \in Newer(u, i) : k < i

NothingElseFrom(u, c) == \A i \in Rest(u, c) \ FeedFrom(u)[c] : Hidden(u, i)

LEMMA PageThenRest ==
  ASSUME Typed, NEW u, NEW c \in 0..Len(rows), \A k \in Rest(u, c) : NothingElseFrom(u, k)
  PROVE  NothingElseFrom(u, c)
<1> SUFFICES ASSUME NEW i \in Rest(u, c), i \notin FeedFrom(u)[c]
             PROVE  Hidden(u, i)
  BY DEF NothingElseFrom
<1> DEFINE n == NextCursor(Page(u, c))
<1>1. Page(u, c) # {}
  BY PageShowsSome
<1>2. /\ n \in Page(u, c) /\ n \in Rest(u, c)
      /\ i \notin Page(u, c) /\ i \notin FeedFrom(u)[n]
  <2>1. FeedFrom(u)[c] = Page(u, c) \cup FeedFrom(u)[n]
    BY <1>1, FeedContinues DEF Continue
  <2>2. n \in Page(u, c) /\ n \in Rest(u, c)
    BY <1>1, CursorIsLast, CursorDescends
  <2> QED BY <2>1, <2>2
<1> HIDE DEF n
<1>3. i \in Of(u) /\ n \in Of(u) /\ i \in Nat /\ n \in Nat /\ n # 0 /\ rows[i].at \in Nat /\ rows[n].at \in Nat
  BY <1>2, RowTimes DEF Rest
<1>4. CASE i < n
  <2>1. i \in Rest(u, n)
    BY <1>3, <1>4 DEF Rest
  <2> QED BY <1>2, <2>1 DEF NothingElseFrom
<1>5. CASE i > n
  <2>1. /\ Cardinality(Ahead(u, c, n)) < Limit /\ ~(Cardinality(Ahead(u, c, i)) < Limit)
    BY <1>2, PageMeans
  <2>2. ~(rows[i].at >= rows[n].at)
    <3>1. SUFFICES ASSUME rows[i].at >= rows[n].at PROVE FALSE
      OBVIOUS
    <3>2. Cardinality(Ahead(u, c, i)) <= Cardinality(Ahead(u, c, n))
      BY <1>3, <3>1, AheadIsOrdered
    <3>3. Cardinality(Ahead(u, c, i)) \in Nat /\ Cardinality(Ahead(u, c, n)) \in Nat
      BY RestIsFinite
    <3> QED BY <2>1, <3>2, <3>3, LimitIsPositive
  <2>3. n \in Newer(u, i)
    BY <1>3, <2>2 DEF Newer
  <2> QED BY <1>5, <2>3 DEF Hidden
<1> QED BY <1>2, <1>3, <1>4, <1>5

LEMMA PagesToTheEnd ==
  ASSUME Typed, NEW u
  PROVE  NothingElseFrom(u, 0)
<1> DEFINE Bad == {c \in 1..Len(rows) : ~NothingElseFrom(u, c)}
<1>1. Len(rows) \in Nat
  BY RowType
<1>2. Bad = {}
  <2>1. SUFFICES ASSUME Bad # {} PROVE FALSE
    OBVIOUS
  <2>2. PICK c \in Bad : \A k \in Bad : c <= k
    <3>1. Bad \subseteq Nat
      BY <1>1
    <3> HIDE DEF Bad
    <3> QED BY <2>1, <3>1, HasMinimum
  <2>3. c \in 0..Len(rows) /\ c # 0 /\ ~NothingElseFrom(u, c)
    BY <1>1, <2>2
  <2>4. ASSUME NEW k \in Rest(u, c) PROVE NothingElseFrom(u, k)
    <3>1. k \in 1..Len(rows) /\ ~(c <= k)
      BY <1>1, <2>3, <2>4, RestIsFinite DEF Rest
    <3> QED BY <2>2, <3>1
  <2> QED BY <2>3, <2>4, PageThenRest
<1>3. \A k \in Rest(u, 0) : NothingElseFrom(u, k)
  BY <1>2, RestIsFinite
<1> QED BY <1>1, <1>3, PageThenRest

\* getUserNotificationsWithCursor, followed to an empty page, shows a user every
\* row of the table but those that an older row with a later createdAt hides,
\* for any number of rows and any order of their inserts.
THEOREM FeedsAreComplete == Spec => []FeedComplete
<1>1. Typed => FeedComplete
  <2> SUFFICES ASSUME Typed, NEW u \in Users, NEW i \in Of(u) \ Feed(u)
               PROVE  \E k \in Newer(u, i) : k < i
    BY DEF FeedComplete
  <2>1. i \in Rest(u, 0) /\ i \notin FeedFrom(u)[0]
    BY FeedMeans DEF Rest
  <2> QED BY <2>1, PagesToTheEnd DEF NothingElseFrom, Hidden
<1>2. NotificationsInv => Typed
  BY DEF NotificationsInv, Base
<1> QED BY <1>1, <1>2, NotificationsInvariance, PTL
=============================================================================
