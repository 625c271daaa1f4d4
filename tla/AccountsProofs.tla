--------------------------- MODULE AccountsProofs ----------------------------
(***************************************************************************)
(* Proofs about users, sessions, one-time passwords and push tokens, for   *)
(* any users, devices, handlers, requests, codes and faults.               *)
(***************************************************************************)
EXTENDS Accounts, FiniteSetTheorems, TLAPS

USE AccountsAssumption

Busy(h) == job[h].pc # "idle"

\* overlapped is what its comment says.
OneAtATime == ~overlapped => \A g, h \in Handlers : Busy(g) /\ Busy(h) => g = h

\* What a handler holds of the tables.
JobsMeanRows ==
  \A h \in Handlers :
    /\ job[h].pc \in {"mark", "lapse"} => job[h].code \in DOMAIN codes
    /\ job[h].pc = "save" => job[h].row \in Users /\ user[job[h].row].state # "none"
    /\ \/ job[h].pc \in {"referrer", "insert"}
       \/ job[h].pc = "save" /\ job[h].kind = "Register"
       => job[h].user \in Users

\* The foreign key of the referrer.
ReferrerExists ==
  \A u \in Users :
    /\ user[u].referrer \in Users => Exists(user[u].referrer)
    /\ ~Exists(u) => user[u].referrer = NoUser

Basics == TypeOK /\ OneAtATime /\ JobsMeanRows /\ ReferrerExists
-----------------------------------------------------------------------------
LEMMA IdleParts == /\ Idle \in Job /\ Idle.pc = "idle" /\ Idle.kind = "None" /\ Idle.row = NoUser
                   /\ Idle.push = NoDevice /\ Idle.points = 0 /\ Idle.code = 0 /\ Idle.user = NoUser
  BY DEF Idle, Job, Places

LEMMA RowParts == /\ NoRow \in User /\ NoRow.state = "none" /\ NoRow.push = NoDevice
                  /\ NoRow.points = 0 /\ NoRow.referrer = NoUser /\ NoRow.password = FALSE
                  /\ NoRow.wallet = FALSE
  BY DEF NoRow, User, States

LEMMA JobType ==
  ASSUME TypeOK, NEW h \in Handlers
  PROVE  /\ job[h] \in Job /\ job[h].pc \in Places /\ job[h].user \in Users \cup {NoUser}
         /\ job[h].row \in Users \cup {NoUser} /\ job[h].push \in Devices \cup {NoDevice}
         /\ job[h].points \in Nat /\ job[h].code \in Nat
         /\ job[h].kind \in {"None", "Register", "OAuth", "Reset", "Update"}
  BY DEF TypeOK, Job

LEMMA UserType ==
  ASSUME TypeOK, NEW u \in Users
  PROVE  /\ user[u] \in User /\ user[u].state \in States /\ user[u].password \in BOOLEAN
         /\ user[u].wallet \in BOOLEAN /\ user[u].push \in Devices \cup {NoDevice}
         /\ user[u].points \in Nat /\ user[u].referrer \in Users \cup {NoUser}
  BY DEF TypeOK, User

LEMMA CodeType ==
  ASSUME TypeOK, NEW i \in DOMAIN codes
  PROVE  /\ i \in Nat /\ i \in 1..Len(codes) /\ codes[i] \in Code /\ codes[i].uses \in Nat
         /\ codes[i].used \in BOOLEAN /\ codes[i].age \in 0..(Lifetime + 1)
<1> DEFINE C == Code
<1>1. codes \in Seq(C) /\ C = Code
  BY DEF TypeOK
<1> HIDE DEF C
<1>2. i \in 1..Len(codes) /\ codes[i] \in C
  BY <1>1
<1> QED BY <1>1, <1>2 DEF Code

\* The job a handler gets on with, ...
LEMMA Moved ==
  ASSUME TypeOK, NEW h \in Handlers, NEW pc \in Places, NEW j, j = [job[h] EXCEPT !.pc = pc]
  PROVE  /\ j \in Job /\ j.pc = pc /\ j.kind = job[h].kind /\ j.user = job[h].user
         /\ j.row = job[h].row /\ j.push = job[h].push /\ j.points = job[h].points
         /\ j.code = job[h].code
  BY JobType DEF Job

\* ... and what it holds of a row it has read.
LEMMA Held ==
  ASSUME TypeOK, NEW h \in Handlers, NEW r \in Users, NEW points \in Nat
  PROVE  /\ Holding(h, r, points) \in Job /\ Holding(h, r, points).pc = "save"
         /\ Holding(h, r, points).row = r /\ Holding(h, r, points).push = user[r].push
         /\ Holding(h, r, points).points = points
         /\ Holding(h, r, points).kind = job[h].kind /\ Holding(h, r, points).user = job[h].user
         /\ Holding(h, r, points).code = job[h].code
  BY JobType, UserType DEF Job, Holding, Places

\* How a job changes in a step of its handler: Goto as one equation.
LEMMA Went ==
  ASSUME TypeOK, NEW h \in Handlers, NEW pc \in Places, NEW next \in Places, Goto(h, pc, next)
  PROVE  /\ job[h].pc = pc /\ UNCHANGED bounds /\ job'[h] \in Job /\ job' \in [Handlers -> Job]
         /\ \A g \in Handlers \ {h} : job'[g] = job[g]
         /\ job'[h].pc = next
         /\ next # "idle" => /\ job'[h].kind = job[h].kind /\ job'[h].user = job[h].user
                             /\ job'[h].row = job[h].row /\ job'[h].push = job[h].push
                             /\ job'[h].points = job[h].points /\ job'[h].code = job[h].code
<1> DEFINE j == IF next = "idle" THEN Idle ELSE [job[h] EXCEPT !.pc = next]
<1>1. job[h].pc = pc /\ job' = [job EXCEPT ![h] = j] /\ UNCHANGED bounds
  BY DEF Goto
<1>2. job \in [Handlers -> Job]
  BY DEF TypeOK
<1>3. /\ j \in Job /\ j.pc = next
      /\ next # "idle" => /\ j.kind = job[h].kind /\ j.user = job[h].user
                          /\ j.row = job[h].row /\ j.push = job[h].push
                          /\ j.points = job[h].points /\ j.code = job[h].code
  BY Moved, IdleParts
<1> HIDE DEF j
<1>4. job'[h] = j /\ \A g \in Handlers \ {h} : job'[g] = job[g]
  BY <1>1, <1>2
<1>5. job' \in [Handlers -> Job]
  BY <1>1, <1>2, <1>3
<1> QED BY <1>1, <1>3, <1>4, <1>5

\* How a step changes the jobs: a request begins, its handler gets on with it,
\* or nobody does more than stop.
Begins(h) ==
  /\ ~Busy(h) /\ Busy(h)'
  /\ Request
  /\ job' \in [Handlers -> Job]
  /\ \A g \in Handlers \ {h} : job'[g] = job[g]

Proceeds(h) ==
  /\ Busy(h)
  /\ UNCHANGED overlapped
  /\ job' \in [Handlers -> Job]
  /\ \A g \in Handlers \ {h} : job'[g] = job[g]

Stops ==
  /\ overlapped => overlapped'
  /\ job' \in [Handlers -> Job]
  /\ \A g \in Handlers : job'[g] \in {job[g], Idle}

LEMMA Began ==
  ASSUME TypeOK, NEW h \in Handlers, NEW pc \in Places \ {"idle"}, NEW u \in Users,
         NEW kind \in {"None", "Register", "OAuth", "Reset", "Update"}, Begin(h, kind, u, pc)
  PROVE  /\ Begins(h) /\ job'[h].pc = pc /\ job'[h].kind = kind /\ job'[h].user = u
         /\ job'[h].row = NoUser
<1> DEFINE j == [Idle EXCEPT !.pc = pc, !.kind = kind, !.user = u]
<1>1. job[h].pc = "idle" /\ Request /\ job' = [job EXCEPT ![h] = j]
  BY DEF Begin
<1>2. j \in Job /\ j.pc = pc /\ j.kind = kind /\ j.user = u /\ j.row = NoUser
  BY DEF Idle, Job
<1>3. job \in [Handlers -> Job]
  BY DEF TypeOK
<1> HIDE DEF j
<1>4. job'[h] = j /\ job' \in [Handlers -> Job] /\ \A g \in Handlers \ {h} : job'[g] = job[g]
  BY <1>1, <1>2, <1>3
<1> QED BY <1>1, <1>2, <1>4 DEF Begins, Busy

LEMMA WentProceeds ==
  ASSUME TypeOK, NEW h \in Handlers, NEW pc \in Places \ {"idle"}, NEW next \in Places, Goto(h, pc, next)
  PROVE  Proceeds(h)
  BY Went DEF Proceeds, Busy, bounds

LEMMA ReadUserBegins ==
  ASSUME TypeOK, NEW h \in Handlers, NEW u \in Users, NEW kind \in {"Reset", "Update"}, ReadUser(h, kind, u)
  PROVE  /\ Begins(h) /\ UNCHANGED tables /\ Exists(u)
         /\ job'[h].pc = "save" /\ job'[h].row = u /\ job'[h].kind = kind
         /\ job'[h].push = user[u].push /\ job'[h].points = user[u].points
<1> DEFINE k == Holding(h, u, user[u].points)
           j == [k EXCEPT !.kind = kind, !.user = u]
<1>1. job[h].pc = "idle" /\ Exists(u) /\ Request /\ job' = [job EXCEPT ![h] = j] /\ UNCHANGED tables
  BY DEF ReadUser
<1>2. k \in Job /\ k.pc = "save" /\ k.row = u /\ k.push = user[u].push /\ k.points = user[u].points
  BY Held, UserType
<1> HIDE DEF k
<1>3. /\ j \in Job /\ j.pc = "save" /\ j.row = u /\ j.kind = kind
      /\ j.push = user[u].push /\ j.points = user[u].points
  BY <1>2 DEF Job
<1>4. job \in [Handlers -> Job]
  BY DEF TypeOK
<1> HIDE DEF j
<1>5. job'[h] = j /\ job' \in [Handlers -> Job] /\ \A g \in Handlers \ {h} : job'[g] = job[g]
  BY <1>1, <1>3, <1>4
<1> QED BY <1>1, <1>3, <1>5 DEF Begins, Busy

LEMMA UpdatePushBegins ==
  ASSUME TypeOK, NEW h \in Handlers, NEW u \in Users, NEW d \in Devices \cup {NoDevice}, UpdateUserPushToken(h, u, d)
  PROVE  /\ Begins(h) /\ UNCHANGED <<tokens, codes>>
         /\ job'[h].pc = "push" /\ job'[h].user = u /\ job'[h].push = d
         /\ user' \in [Users -> User]
         /\ \A v \in Users : /\ user'[v].state = user[v].state /\ user'[v].password = user[v].password
                             /\ user'[v].wallet = user[v].wallet /\ user'[v].points = user[v].points
                             /\ user'[v].referrer = user[v].referrer
                             /\ user'[v].push = IF v # u /\ user[v].push = d THEN NoDevice
                                                ELSE user[v].push
<1> DEFINE j == [Idle EXCEPT !.pc = "push", !.user = u, !.push = d]
           x(v) == IF v # u /\ user[v].push = d THEN [user[v] EXCEPT !.push = NoDevice] ELSE user[v]
<1>1. /\ job[h].pc = "idle" /\ Request /\ job' = [job EXCEPT ![h] = j] /\ UNCHANGED <<tokens, codes>>
      /\ user' = [v \in Users |-> x(v)]
  BY DEF UpdateUserPushToken
<1>2. j \in Job /\ j.pc = "push" /\ j.user = u /\ j.push = d
  BY DEF Idle, Job, Places
<1>3. job \in [Handlers -> Job]
  BY DEF TypeOK
<1> HIDE DEF j
<1>4. job'[h] = j /\ job' \in [Handlers -> Job] /\ \A g \in Handlers \ {h} : job'[g] = job[g]
  BY <1>1, <1>2, <1>3
<1>5. ASSUME NEW v \in Users
      PROVE  /\ x(v) \in User
             /\ x(v).state = user[v].state /\ x(v).password = user[v].password
             /\ x(v).wallet = user[v].wallet /\ x(v).points = user[v].points
             /\ x(v).referrer = user[v].referrer
             /\ x(v).push = IF v # u /\ user[v].push = d THEN NoDevice ELSE user[v].push
  BY UserType DEF User
<1> HIDE DEF x
<1>6. user' \in [Users -> User] /\ \A v \in Users : user'[v] = x(v)
  BY <1>1, <1>5
<1> QED BY <1>1, <1>2, <1>4, <1>5, <1>6 DEF Begins, Busy

LEMMA VerifyBegins ==
  ASSUME TypeOK, NEW h \in Handlers, NEW i \in DOMAIN codes, VerifyOTP(h, i)
  PROVE  /\ Begins(h) /\ UNCHANGED tables /\ ~codes[i].used
         /\ job'[h].pc \in {"mark", "lapse"} /\ job'[h].code = i
<1> DEFINE pc == IF codes[i].age > Lifetime THEN "lapse" ELSE "mark"
           j == [Idle EXCEPT !.code = i, !.pc = pc]
<1>1. /\ job[h].pc = "idle" /\ Request /\ job' = [job EXCEPT ![h] = j] /\ UNCHANGED tables
      /\ ~codes[i].used
  BY DEF VerifyOTP
<1>2. pc \in {"mark", "lapse"}
  OBVIOUS
<1> HIDE DEF pc
<1>3. j \in Job /\ j.pc = pc /\ j.code = i
  BY <1>2, CodeType DEF Idle, Job, Places
<1>4. job \in [Handlers -> Job]
  BY DEF TypeOK
<1> HIDE DEF j
<1>5. job'[h] = j /\ job' \in [Handlers -> Job] /\ \A g \in Handlers \ {h} : job'[g] = job[g]
  BY <1>1, <1>3, <1>4
<1> QED BY <1>1, <1>2, <1>3, <1>5 DEF Begins, Busy

LEMMA FindReferrerProceeds ==
  ASSUME TypeOK, NEW h \in Handlers, NEW r \in Users, FindReferrer(h, r)
  PROVE  /\ Proceeds(h) /\ UNCHANGED tables /\ UNCHANGED bounds
         /\ job[h].pc = "referrer" /\ r # job[h].user
         /\ \/ job'[h] = Idle
            \/ /\ Exists(r) /\ job'[h].pc = "save" /\ job'[h].row = r /\ job'[h].push = user[r].push
               /\ job'[h].points = user[r].points + 1 /\ job'[h].kind = job[h].kind
               /\ job'[h].user = job[h].user
<1> DEFINE j == IF Exists(r) THEN Holding(h, r, user[r].points + 1) ELSE Idle
<1>1. /\ job[h].pc = "referrer" /\ r # job[h].user /\ job' = [job EXCEPT ![h] = j]
      /\ UNCHANGED <<tables, bounds>>
  BY DEF FindReferrer
<1>2. /\ j \in Job
      /\ \/ j = Idle
         \/ /\ Exists(r) /\ j.pc = "save" /\ j.row = r /\ j.push = user[r].push
            /\ j.points = user[r].points + 1 /\ j.kind = job[h].kind
            /\ j.user = job[h].user
  BY UserType, Held, IdleParts
<1>3. job \in [Handlers -> Job]
  BY DEF TypeOK
<1> HIDE DEF j
<1>4. job'[h] = j /\ job' \in [Handlers -> Job] /\ \A g \in Handlers \ {h} : job'[g] = job[g]
  BY <1>1, <1>2, <1>3
<1> QED BY <1>1, <1>2, <1>4 DEF Proceeds, Busy, bounds

\* Requests that read without keeping what they read.
PlainRequest(h, u) ==
  \/ \E r \in Users \cup {NoUser} : Register(h, u, r)
  \/ Login(h, u) \/ LoginWithOAuth(h, u) \/ RefreshTokens(h, u)

LEMMA PlainRequestBegins ==
  ASSUME TypeOK, NEW h \in Handlers, NEW u \in Users, PlainRequest(h, u)
  PROVE  /\ Begins(h) /\ UNCHANGED tables
         /\ job'[h].pc \in {"insert", "referrer", "drop"} /\ job'[h].user = u /\ job'[h].row = NoUser
<1>1. ASSUME NEW r \in Users \cup {NoUser}, Register(h, u, r)
      PROVE  \E pc \in {"insert", "referrer"} : Begin(h, "Register", u, pc) /\ UNCHANGED tables
  BY <1>1 DEF Register
<1>2. \E pc \in {"insert", "referrer", "drop"}, kind \in {"None", "Register", "OAuth"} :
        Begin(h, kind, u, pc) /\ UNCHANGED tables
  BY <1>1 DEF PlainRequest, Login, LoginWithOAuth, RefreshTokens
<1> QED BY <1>2, Began DEF Places

LEMMA SaveUserProceeds ==
  ASSUME TypeOK, NEW h \in Handlers, SaveUser(h),
         NEW r \in Users, r = job[h].row
  PROVE  /\ Proceeds(h) /\ UNCHANGED <<tokens, codes>> /\ UNCHANGED bounds
         /\ job[h].pc = "save"
         /\ job'[h].pc = IF job[h].kind = "Register" THEN "insert" ELSE "idle"
         /\ job[h].kind = "Register" => job'[h].row = r /\ job'[h].user = job[h].user
         /\ user' \in [Users -> User]
         /\ \A v \in Users \ {r} : user'[v] = user[v]
         /\ user'[r].state = (IF user[r].state = "removed" THEN "revived" ELSE user[r].state)
         /\ user'[r].password = (user[r].password \/ job[h].kind = "Reset")
         /\ user'[r].wallet = user[r].wallet /\ user'[r].referrer = user[r].referrer
         /\ user'[r].push = job[h].push /\ user'[r].points = job[h].points
<1> DEFINE next == IF job[h].kind = "Register" THEN "insert" ELSE "idle"
           x == [user[job[h].row] EXCEPT !.state = IF @ = "removed" THEN "revived" ELSE @,
                                !.password = @ \/ job[h].kind = "Reset",
                                !.push = job[h].push,
                                !.points = job[h].points]
<1>1. Goto(h, "save", next) /\ user' = [user EXCEPT ![r] = x] /\ UNCHANGED <<tokens, codes>>
  <2>1. Goto(h, "save", next) /\ user' = [user EXCEPT ![job[h].row] = x] /\ UNCHANGED <<tokens, codes>>
    BY Zenon DEF SaveUser
  <2> HIDE DEF x, next
  <2> QED BY <2>1
<1>2. next \in Places /\ (next # "idle" <=> job[h].kind = "Register")
  BY DEF Places
<1>3. /\ x \in User
      /\ x.state = (IF user[r].state = "removed" THEN "revived" ELSE user[r].state)
      /\ x.password = (user[r].password \/ job[h].kind = "Reset")
      /\ x.wallet = user[r].wallet /\ x.referrer = user[r].referrer
      /\ x.push = job[h].push /\ x.points = job[h].points
  BY UserType, JobType DEF User, States
<1>4. user \in [Users -> User]
  BY DEF TypeOK
<1> HIDE DEF x
<1>5. user'[r] = x /\ user' \in [Users -> User] /\ \A v \in Users \ {r} : user'[v] = user[v]
  BY <1>1, <1>3, <1>4
<1>6. "save" \in Places \ {"idle"} /\ Proceeds(h)
  BY <1>1, <1>2, WentProceeds DEF Places
<1>7. UNCHANGED bounds /\ job[h].pc = "save" /\ job'[h].pc = next
      /\ (next # "idle" => job'[h].row = r /\ job'[h].user = job[h].user)
  BY <1>1, <1>2, <1>6, Went
<1> QED BY <1>1, <1>2, <1>3, <1>5, <1>6, <1>7

Refused(h) == \/ user[job[h].user].state # "none"
              \/ job[h].row # NoUser /\ ~Exists(job[h].row)

LEMMA InsertUserProceeds ==
  ASSUME TypeOK, NEW h \in Handlers, InsertUser(h),
         NEW u \in Users, u = job[h].user
  PROVE  /\ Proceeds(h) /\ UNCHANGED <<tokens, codes>> /\ UNCHANGED bounds
         /\ job[h].pc = "insert"
         /\ job'[h].pc = IF Refused(h) THEN "idle" ELSE "wallet"
         /\ ~Refused(h) => job'[h].user = u
         /\ user' \in [Users -> User]
         /\ \A v \in Users \ {u} : user'[v] = user[v]
         /\ Refused(h) => user'[u] = user[u]
         /\ ~Refused(h) => /\ user'[u].state = "row" /\ user'[u].referrer = job[h].row
                           /\ user'[u].push = NoDevice /\ user'[u].points = 0
<1> DEFINE next == IF Refused(h) THEN "idle" ELSE "wallet"
           x == IF Refused(h) THEN user[u]
                ELSE [NoRow EXCEPT !.state = "row", !.referrer = job[h].row,
                                   !.password = (job[h].kind = "Register")]
<1>1. Goto(h, "insert", next) /\ user' = [user EXCEPT ![u] = x] /\ UNCHANGED <<tokens, codes>>
  <2>1. user \in [Users -> User]
    BY DEF TypeOK
  <2>2. CASE Refused(h)
    BY <2>1, <2>2 DEF InsertUser, Refused
  <2>3. CASE ~Refused(h)
    BY <2>1, <2>3 DEF InsertUser, Refused
  <2> QED BY <2>2, <2>3
<1>2. next \in Places /\ (next # "idle" <=> ~Refused(h))
  BY DEF Places
<1>3. /\ x \in User
      /\ Refused(h) => x = user[u]
      /\ ~Refused(h) => /\ x.state = "row" /\ x.referrer = job[h].row
                        /\ x.push = NoDevice /\ x.points = 0
  <2>1. CASE Refused(h)
    BY <2>1, UserType
  <2>2. CASE ~Refused(h)
    <3>1. (job[h].kind = "Register") \in BOOLEAN
      OBVIOUS
    <3> QED BY <2>2, <3>1, JobType DEF NoRow, User, States
  <2> QED BY <2>1, <2>2
<1>4. user \in [Users -> User]
  BY DEF TypeOK
<1> HIDE DEF x
<1>5. user'[u] = x /\ user' \in [Users -> User] /\ \A v \in Users \ {u} : user'[v] = user[v]
  BY <1>1, <1>3, <1>4
<1> HIDE DEF next
<1>6. "insert" \in Places \ {"idle"} /\ Proceeds(h)
  BY <1>1, <1>2, WentProceeds DEF Places
<1>7. UNCHANGED bounds /\ job[h].pc = "insert" /\ job'[h].pc = next
      /\ (next # "idle" => job'[h].user = u)
  BY <1>1, <1>2, <1>6, Went
<1> QED BY <1>1, <1>2, <1>3, <1>5, <1>6, <1>7 DEF next

\* Writing one column of a row that may have gone.
LEMMA WalletWritten ==
  ASSUME TypeOK, NEW h \in Handlers, SaveWallet(h)
  PROVE  /\ Proceeds(h) /\ UNCHANGED <<tokens, codes>> /\ UNCHANGED bounds
         /\ job[h].pc = "wallet" /\ job'[h].pc = "drop" /\ job'[h].row = job[h].row
         /\ user' \in [Users -> User]
         /\ \A v \in Users : /\ user'[v].state = user[v].state /\ user'[v].password = user[v].password
                             /\ user'[v].push = user[v].push /\ user'[v].points = user[v].points
                             /\ user'[v].referrer = user[v].referrer
                             /\ user'[v].wallet = (user[v].wallet \/ (v = job[h].user /\ Exists(v)))
<1>1. /\ Goto(h, "wallet", "drop") /\ UNCHANGED <<tokens, codes>>
      /\ user' = IF Exists(job[h].user) THEN [user EXCEPT ![job[h].user].wallet = TRUE] ELSE user
  BY DEF SaveWallet
<1>2. "wallet" \in Places \ {"idle"} /\ "drop" \in Places /\ Proceeds(h)
  BY <1>1, WentProceeds DEF Places
<1>3. UNCHANGED bounds /\ job[h].pc = "wallet" /\ job'[h].pc = "drop" /\ job'[h].row = job[h].row
  BY <1>1, <1>2, Went
<1>4. user \in [Users -> User]
  BY DEF TypeOK
<1>5. CASE ~Exists(job[h].user)
  <2>1. user' = user /\ \A v \in Users : user[v].wallet \in BOOLEAN
    BY <1>1, <1>5, UserType
  <2>2. \A v \in Users : user'[v].wallet = (user[v].wallet \/ (v = job[h].user /\ Exists(v)))
    BY <1>5, <2>1
  <2> QED BY <1>1, <1>2, <1>3, <1>4, <2>1, <2>2
<1>6. CASE Exists(job[h].user)
  <2> DEFINE x == [user[job[h].user] EXCEPT !.wallet = TRUE]
  <2>1. job[h].user \in Users /\ user' = [user EXCEPT ![job[h].user] = x]
    BY <1>1, <1>6 DEF Exists
  <2>2. /\ x \in User /\ x.state = user[job[h].user].state /\ x.password = user[job[h].user].password
        /\ x.push = user[job[h].user].push /\ x.points = user[job[h].user].points
        /\ x.referrer = user[job[h].user].referrer /\ x.wallet = TRUE
    BY <2>1, UserType DEF User
  <2> HIDE DEF x
  <2>3. user'[job[h].user] = x /\ user' \in [Users -> User]
        /\ \A v \in Users \ {job[h].user} : user'[v] = user[v]
    BY <2>1, <2>2, <1>4
  <2>4. \A v \in Users : user[v].wallet \in BOOLEAN
    BY UserType
  <2> QED BY <1>1, <1>2, <1>3, <1>6, <2>1, <2>2, <2>3, <2>4
<1> QED BY <1>5, <1>6

LEMMA PushWritten ==
  ASSUME TypeOK, NEW h \in Handlers, SetPushToken(h)
  PROVE  /\ Proceeds(h) /\ UNCHANGED <<tokens, codes>> /\ UNCHANGED bounds
         /\ job[h].pc = "push" /\ job'[h].pc = "idle"
         /\ user' \in [Users -> User]
         /\ \A v \in Users : /\ user'[v].state = user[v].state /\ user'[v].password = user[v].password
                             /\ user'[v].wallet = user[v].wallet /\ user'[v].points = user[v].points
                             /\ user'[v].referrer = user[v].referrer
                             /\ user'[v].push = IF v = job[h].user /\ Exists(v) THEN job[h].push
                                                ELSE user[v].push
<1>1. /\ Goto(h, "push", "idle") /\ UNCHANGED <<tokens, codes>>
      /\ user' = IF Exists(job[h].user) THEN [user EXCEPT ![job[h].user].push = job[h].push] ELSE user
  BY DEF SetPushToken
<1>2. "push" \in Places \ {"idle"} /\ "idle" \in Places /\ Proceeds(h)
  BY <1>1, WentProceeds DEF Places
<1>3. UNCHANGED bounds /\ job[h].pc = "push" /\ job'[h].pc = "idle"
  BY <1>1, <1>2, Went
<1>4. user \in [Users -> User]
  BY DEF TypeOK
<1>5. CASE ~Exists(job[h].user)
  BY <1>1, <1>2, <1>3, <1>4, <1>5
<1>6. CASE Exists(job[h].user)
  <2> DEFINE x == [user[job[h].user] EXCEPT !.push = job[h].push]
  <2>1. job[h].user \in Users /\ user' = [user EXCEPT ![job[h].user] = x]
    BY <1>1, <1>6 DEF Exists
  <2>2. /\ x \in User /\ x.state = user[job[h].user].state /\ x.password = user[job[h].user].password
        /\ x.wallet = user[job[h].user].wallet /\ x.points = user[job[h].user].points
        /\ x.referrer = user[job[h].user].referrer /\ x.push = job[h].push
    BY <2>1, UserType, JobType DEF User
  <2> HIDE DEF x
  <2>3. user'[job[h].user] = x /\ user' \in [Users -> User]
        /\ \A v \in Users \ {job[h].user} : user'[v] = user[v]
    BY <2>1, <2>2, <1>4
  <2> QED BY <1>1, <1>2, <1>3, <1>6, <2>1, <2>2, <2>3
<1> QED BY <1>5, <1>6

LEMMA TokensWritten ==
  ASSUME TypeOK, NEW h \in Handlers, DropTokens(h) \/ StoreToken(h)
  PROVE  /\ Proceeds(h) /\ UNCHANGED <<user, codes>> /\ UNCHANGED bounds
         /\ tokens' \in [Users -> Nat]
         /\ \A v \in Users \ {job[h].user} : tokens'[v] = tokens[v]
         /\ \/ /\ job[h].pc = "drop" /\ job'[h].pc = "store" /\ job'[h].user = job[h].user
               /\ job[h].user \in Users => tokens'[job[h].user] = 0
            \/ /\ job[h].pc = "store" /\ job'[h].pc = "idle"
               /\ job[h].user \in Users => tokens'[job[h].user] = tokens[job[h].user] + 1
<1>1. tokens \in [Users -> Nat]
  BY DEF TypeOK
<1>2. {"drop", "store"} \subseteq Places \ {"idle"} /\ "idle" \in Places
  BY DEF Places
<1>3. CASE DropTokens(h)
  <2>1. /\ Goto(h, "drop", "store") /\ UNCHANGED <<user, codes>>
        /\ tokens' = [tokens EXCEPT ![job[h].user] = 0]
    BY <1>3 DEF DropTokens
  <2>2. Proceeds(h) /\ UNCHANGED bounds /\ job[h].pc = "drop" /\ job'[h].pc = "store" /\ job'[h].user = job[h].user
    BY <1>2, <2>1, Went, WentProceeds
  <2> QED BY <1>1, <2>1, <2>2
<1>4. CASE StoreToken(h)
  <2>1. /\ Goto(h, "store", "idle") /\ UNCHANGED <<user, codes>>
        /\ tokens' = [tokens EXCEPT ![job[h].user] = tokens[job[h].user] + 1]
    BY <1>4 DEF StoreToken
  <2>2. Proceeds(h) /\ UNCHANGED bounds /\ job[h].pc = "store" /\ job'[h].pc = "idle"
    BY <1>2, <2>1, Went, WentProceeds
  <2>3. CASE job[h].user \in Users
    <3>1. tokens[job[h].user] + 1 \in Nat
      BY <1>1, <2>3
    <3> QED BY <1>1, <2>1, <2>2, <2>3, <3>1
  <2>4. CASE job[h].user \notin Users
    BY <1>1, <2>1, <2>2, <2>4
  <2> QED BY <2>3, <2>4
<1> QED BY <1>3, <1>4

LEMMA DeactivateProceeds ==
  ASSUME TypeOK, NEW h \in Handlers, Deactivate(h), NEW i \in DOMAIN codes, i = job[h].code
  PROVE  /\ Proceeds(h) /\ UNCHANGED <<user, tokens>> /\ UNCHANGED bounds
         /\ job[h].pc \in {"mark", "lapse"} /\ job'[h].pc = "idle"
         /\ codes' \in Seq(Code) /\ DOMAIN codes' = DOMAIN codes
         /\ \A k \in DOMAIN codes \ {i} : codes'[k] = codes[k]
         /\ codes'[i].used = TRUE
         /\ codes'[i].uses = IF job[h].pc = "mark" THEN codes[i].uses + 1 ELSE codes[i].uses
<1> DEFINE C == Code
           uses == IF job[h].pc = "mark" THEN codes[i].uses + 1 ELSE codes[i].uses
           x == [codes[i] EXCEPT !.used = TRUE, !.uses = uses]
<1>1. /\ job[h].pc \in {"mark", "lapse"} /\ Goto(h, job[h].pc, "idle") /\ UNCHANGED <<user, tokens>>
      /\ codes' = [codes EXCEPT ![i].used = TRUE,
                                ![i].uses = IF job[h].pc = "mark" THEN @ + 1 ELSE @]
  BY DEF Deactivate
<1>2. codes' = [codes EXCEPT ![i] = x]
  BY <1>1
<1>3. x \in Code /\ x.used = TRUE /\ x.uses = uses
  <2>1. uses \in Nat
    BY CodeType
  <2> HIDE DEF uses
  <2> QED BY <2>1, CodeType DEF Code
<1> HIDE DEF x
<1>4. codes \in Seq(C) /\ x \in C /\ i \in 1..Len(codes)
  BY <1>3, CodeType DEF TypeOK
<1> HIDE DEF C
<1>5. codes' \in Seq(C) /\ DOMAIN codes' = DOMAIN codes /\ codes'[i] = x
      /\ \A k \in DOMAIN codes \ {i} : codes'[k] = codes[k]
  BY <1>2, <1>4
<1>6. {"mark", "lapse"} \subseteq Places \ {"idle"} /\ "idle" \in Places
  BY DEF Places
<1>7. Proceeds(h) /\ UNCHANGED bounds /\ job'[h].pc = "idle"
  BY <1>1, <1>6, Went, WentProceeds
<1> QED BY <1>1, <1>3, <1>5, <1>7 DEF C

LEMMA RemoveUserStops ==
  ASSUME TypeOK, NEW u \in Users, RemoveUser(u)
  PROVE  /\ Stops /\ UNCHANGED <<tokens, codes, job>> /\ Request
         /\ \A v \in Users : user[v].referrer # u
         /\ user' \in [Users -> User]
         /\ \A v \in Users \ {u} : user'[v] = user[v]
         /\ user'[u].state = "removed" /\ user'[u].push = NoDevice /\ user'[u].referrer = NoUser
<1> DEFINE x == [NoRow EXCEPT !.state = "removed"]
<1>1. /\ Request /\ UNCHANGED <<tokens, codes, job>> /\ user' = [user EXCEPT ![u] = x]
      /\ \A v \in Users : user[v].referrer # u
  BY DEF RemoveUser
<1>2. x \in User /\ x.state = "removed" /\ x.push = NoDevice /\ x.referrer = NoUser
  BY RowParts DEF User, States
<1>3. user \in [Users -> User] /\ job \in [Handlers -> Job] /\ (overlapped => overlapped')
  BY <1>1 DEF TypeOK, Request
<1> HIDE DEF x
<1> QED BY <1>1, <1>2, <1>3 DEF Stops

LEMMA CreateOTPLogStops ==
  ASSUME TypeOK, NEW u \in Users, CreateOTPLog(u)
  PROVE  /\ Stops /\ UNCHANGED <<user, tokens, job>> /\ UNCHANGED bounds
         /\ codes' \in Seq(Code) /\ DOMAIN codes' = DOMAIN codes \cup {Len(codes) + 1}
         /\ Len(codes) + 1 \notin DOMAIN codes
         /\ \A k \in DOMAIN codes : codes'[k] = codes[k]
         /\ codes'[Len(codes) + 1].used = FALSE /\ codes'[Len(codes) + 1].uses = 0
<1> DEFINE C == Code
           x == [email |-> u, age |-> 0, used |-> FALSE, uses |-> 0]
<1>1. codes' = Append(codes, x) /\ UNCHANGED <<user, tokens, job, bounds>>
  BY DEF CreateOTPLog
<1>2. x \in Code /\ x.used = FALSE /\ x.uses = 0
  BY DEF Code, Lifetime
<1> HIDE DEF x
<1>3. codes \in Seq(C) /\ x \in C
  BY <1>2 DEF TypeOK
<1> HIDE DEF C
<1>4. codes' \in Seq(C) /\ DOMAIN codes' = DOMAIN codes \cup {Len(codes) + 1} /\ codes'[Len(codes) + 1] = x
      /\ Len(codes) + 1 \notin DOMAIN codes
      /\ \A k \in DOMAIN codes : codes'[k] = codes[k]
  BY <1>1, <1>3
<1>5. Stops
  BY <1>1 DEF Stops, bounds, TypeOK
<1> QED BY <1>1, <1>2, <1>4, <1>5 DEF C

LEMMA TickStops ==
  ASSUME TypeOK, Tick
  PROVE  /\ Stops /\ UNCHANGED <<user, tokens, job>> /\ UNCHANGED bounds
         /\ codes' \in Seq(Code) /\ DOMAIN codes' = DOMAIN codes
         /\ \A k \in DOMAIN codes : codes'[k].used = codes[k].used /\ codes'[k].uses = codes[k].uses
<1> DEFINE x(i) == [codes[i] EXCEPT !.age = IF @ > Lifetime THEN @ ELSE @ + 1]
<1>1. codes' = [i \in DOMAIN codes |-> x(i)] /\ UNCHANGED <<user, tokens, job, bounds>>
  BY DEF Tick
<1>2. ASSUME NEW i \in DOMAIN codes
      PROVE  x(i) \in Code /\ x(i).used = codes[i].used /\ x(i).uses = codes[i].uses
  BY CodeType DEF Code, Lifetime
<1> HIDE DEF x
<1>3. Len(codes) \in Nat /\ DOMAIN codes = 1..Len(codes)
  <2> DEFINE C == Code
  <2>1. codes \in Seq(C)
    BY DEF TypeOK
  <2> HIDE DEF C
  <2> QED BY <2>1
<1>4. codes' \in Seq(Code)
  <2> DEFINE C == Code
  <2>1. codes' \in [1..Len(codes) -> C]
    BY <1>1, <1>2, <1>3
  <2> HIDE DEF C
  <2>2. codes' \in Seq(C)
    BY <1>3, <2>1
  <2> QED BY <2>2 DEF C
<1>5. Stops
  BY <1>1 DEF Stops, bounds, TypeOK
<1> QED BY <1>1, <1>2, <1>4, <1>5

Breaks == Crash \/ \E h \in Handlers : Fail(h)

LEMMA FaultStops ==
  ASSUME TypeOK, Breaks
  PROVE  /\ Stops /\ UNCHANGED tables /\ UNCHANGED <<requests, overlapped>>
         /\ faults < MaxFaults /\ faults' = faults + 1
  BY IdleParts DEF Breaks, Crash, Fail, Stops, TypeOK
-----------------------------------------------------------------------------
LEMMA RequestBounds ==
  ASSUME TypeOK, Request
  PROVE  requests' \in 0..MaxRequests /\ faults' \in 0..MaxFaults /\ overlapped' \in BOOLEAN
  BY DEF TypeOK, Request

\* A summary of Next: what a handler does, ...
Moves(h) ==
  \/ \E u \in Users :
       \/ PlainRequest(h, u)
       \/ \E kind \in {"Reset", "Update"} : ReadUser(h, kind, u)
       \/ \E d \in Devices \cup {NoDevice} : UpdateUserPushToken(h, u, d)
  \/ \E i \in DOMAIN codes : VerifyOTP(h, i)
  \/ \E r \in Users : FindReferrer(h, r)
  \/ SaveUser(h) /\ job[h].row \in Users
  \/ InsertUser(h) /\ job[h].user \in Users
  \/ SaveWallet(h) \/ SetPushToken(h)
  \/ DropTokens(h) \/ StoreToken(h)
  \/ Deactivate(h) /\ job[h].code \in DOMAIN codes

\* ... and what happens without one or to them all.
Happens == (\E u \in Users : RemoveUser(u) \/ CreateOTPLog(u)) \/ Tick

LEMMA AnyStep ==
  ASSUME Basics, Next
  PROVE  (\E h \in Handlers : Moves(h)) \/ Happens \/ Breaks
<1>1. ASSUME NEW h \in Handlers, SaveUser(h) PROVE job[h].row \in Users
  BY <1>1 DEF Basics, JobsMeanRows, SaveUser, Goto
<1>2. ASSUME NEW h \in Handlers, InsertUser(h) PROVE job[h].user \in Users
  BY <1>2 DEF Basics, JobsMeanRows, InsertUser, Goto
<1>3. ASSUME NEW h \in Handlers, Deactivate(h) PROVE job[h].code \in DOMAIN codes
  BY <1>3 DEF Basics, JobsMeanRows, Deactivate
<1> QED BY <1>1, <1>2, <1>3 DEF Next, Step, PlainRequest, Moves, Happens, Breaks

LEMMA Bounded ==
  ASSUME TypeOK, (UNCHANGED bounds) \/ Request \/ (UNCHANGED <<requests, overlapped>> /\ faults < MaxFaults /\ faults' = faults + 1)
  PROVE  requests' \in 0..MaxRequests /\ faults' \in 0..MaxFaults /\ overlapped' \in BOOLEAN
<1>1. MaxRequests \in Nat /\ MaxFaults \in Nat
  OBVIOUS
<1>2. requests \in 0..MaxRequests /\ faults \in 0..MaxFaults /\ overlapped \in BOOLEAN
  BY DEF TypeOK
<1>3. CASE UNCHANGED bounds
  BY <1>2, <1>3 DEF bounds
<1>4. CASE Request
  <2>1. overlapped' \in BOOLEAN
    BY <1>4 DEF Request
  <2> QED BY <1>1, <1>2, <1>4, <2>1 DEF Request
<1>5. CASE UNCHANGED <<requests, overlapped>> /\ faults < MaxFaults /\ faults' = faults + 1
  BY <1>1, <1>2, <1>5
<1> QED BY <1>3, <1>4, <1>5

\* Of the tables a step writes one, within its type, or none.
LEMMA TypeStep ==
  ASSUME Basics, Next
  PROVE  TypeOK'
<1> USE DEF Basics
<1>0. /\ user \in [Users -> User] /\ tokens \in [Users -> Nat] /\ codes \in Seq(Code) /\ job \in [Handlers -> Job]
      /\ (UNCHANGED tables => user' = user /\ tokens' = tokens /\ codes' = codes)
  BY DEF TypeOK, tables
<1> DEFINE B == requests' \in 0..MaxRequests /\ faults' \in 0..MaxFaults /\ overlapped' \in BOOLEAN
           J == job' \in [Handlers -> Job]
           T == user' \in [Users -> User] /\ tokens' \in [Users -> Nat] /\ codes' \in Seq(Code)
<1>1. ASSUME NEW h \in Handlers, NEW u \in Users,
             \/ PlainRequest(h, u)
             \/ \E kind \in {"Reset", "Update"} : ReadUser(h, kind, u)
             \/ \E d \in Devices \cup {NoDevice} : UpdateUserPushToken(h, u, d)
      PROVE  B /\ J /\ T
  <2>1. Begins(h)
    BY <1>1, PlainRequestBegins, ReadUserBegins, UpdatePushBegins
  <2>2. B /\ J
    BY <2>1, Bounded DEF Begins
  <2>3. CASE PlainRequest(h, u) \/ \E kind \in {"Reset", "Update"} : ReadUser(h, kind, u)
    BY <1>0, <2>2, <2>3, PlainRequestBegins, ReadUserBegins
  <2>4. ASSUME NEW d \in Devices \cup {NoDevice}, UpdateUserPushToken(h, u, d) PROVE T
    BY <1>0, <2>4, UpdatePushBegins
  <2> QED BY <1>1, <2>2, <2>3, <2>4
<1>2. ASSUME NEW h \in Handlers, NEW i \in DOMAIN codes, VerifyOTP(h, i)
      PROVE  B /\ J /\ T
  BY <1>0, <1>2, VerifyBegins, Bounded DEF Begins
<1>3. ASSUME NEW h \in Handlers, NEW r \in Users, FindReferrer(h, r)
      PROVE  B /\ J /\ T
  BY <1>0, <1>3, FindReferrerProceeds, Bounded DEF Proceeds
<1>4. ASSUME NEW h \in Handlers, SaveUser(h), job[h].row \in Users
      PROVE  B /\ J /\ T
  BY <1>0, <1>4, SaveUserProceeds, Bounded DEF Proceeds
<1>5. ASSUME NEW h \in Handlers, InsertUser(h), job[h].user \in Users
      PROVE  B /\ J /\ T
  BY <1>0, <1>5, InsertUserProceeds, Bounded DEF Proceeds
<1>6. ASSUME NEW h \in Handlers, SaveWallet(h) \/ SetPushToken(h)
      PROVE  B /\ J /\ T
  BY <1>0, <1>6, WalletWritten, PushWritten, Bounded DEF Proceeds
<1>7. ASSUME NEW h \in Handlers, DropTokens(h) \/ StoreToken(h)
      PROVE  B /\ J /\ T
  BY <1>0, <1>7, TokensWritten, Bounded DEF Proceeds
<1>8. ASSUME NEW h \in Handlers, Deactivate(h), job[h].code \in DOMAIN codes
      PROVE  B /\ J /\ T
  BY <1>0, <1>8, DeactivateProceeds, Bounded DEF Proceeds
<1>9. ASSUME NEW u \in Users, RemoveUser(u) \/ CreateOTPLog(u)
      PROVE  B /\ J /\ T
  <2>1. CASE RemoveUser(u)
    BY <1>0, <2>1, RemoveUserStops, Bounded DEF Stops
  <2>2. CASE CreateOTPLog(u)
    <3>1. B /\ J
      BY <2>2, CreateOTPLogStops, Bounded DEF Stops
    <3>2. T
      BY <1>0, <2>2, CreateOTPLogStops
    <3> QED BY <3>1, <3>2
  <2> QED BY <1>9, <2>1, <2>2
<1>10. ASSUME Tick PROVE B /\ J /\ T
  <2>1. B /\ J
    BY <1>10, TickStops, Bounded DEF Stops
  <2>2. T
    BY <1>0, <1>10, TickStops
  <2> QED BY <2>1, <2>2
<1>11. ASSUME Breaks PROVE B /\ J /\ T
  BY <1>0, <1>11, FaultStops, Bounded DEF Stops
<1>12. B /\ J /\ T
  BY <1>1, <1>2, <1>3, <1>4, <1>5, <1>6, <1>7, <1>8, <1>9, <1>10, <1>11, AnyStep DEF Moves, Happens, Breaks
<1> QED BY <1>12 DEF TypeOK

LEMMA JobsStep ==
  ASSUME Basics, Next
  PROVE  (\E h \in Handlers : Begins(h) \/ Proceeds(h)) \/ Stops
<1> USE DEF Basics
<1>1. ASSUME NEW h \in Handlers, NEW u \in Users,
             \/ PlainRequest(h, u)
             \/ \E kind \in {"Reset", "Update"} : ReadUser(h, kind, u)
             \/ \E d \in Devices \cup {NoDevice} : UpdateUserPushToken(h, u, d)
      PROVE  Begins(h)
  BY <1>1, PlainRequestBegins, ReadUserBegins, UpdatePushBegins
<1>2. ASSUME NEW h \in Handlers, \/ SaveUser(h) /\ job[h].row \in Users
                                 \/ InsertUser(h) /\ job[h].user \in Users
                                 \/ Deactivate(h) /\ job[h].code \in DOMAIN codes
      PROVE  Proceeds(h)
  BY <1>2, SaveUserProceeds, InsertUserProceeds, DeactivateProceeds
<1>3. ASSUME NEW h \in Handlers, SaveWallet(h) \/ SetPushToken(h) \/ DropTokens(h) \/ StoreToken(h)
      PROVE  Proceeds(h)
  BY <1>3, WalletWritten, PushWritten, TokensWritten
<1>4. ASSUME NEW h \in Handlers, \/ \E i \in DOMAIN codes : VerifyOTP(h, i)
                                 \/ \E r \in Users : FindReferrer(h, r)
      PROVE  Begins(h) \/ Proceeds(h)
  BY <1>4, VerifyBegins, FindReferrerProceeds
<1>5. ASSUME NEW u \in Users, RemoveUser(u) \/ CreateOTPLog(u)
      PROVE  Stops
  BY <1>5, RemoveUserStops, CreateOTPLogStops
<1>6. Tick \/ Breaks => Stops
  BY TickStops, FaultStops
<1>7. ASSUME NEW h \in Handlers, Moves(h) PROVE Begins(h) \/ Proceeds(h)
  <2>1. CASE \E u \in Users :
                \/ PlainRequest(h, u)
                \/ \E kind \in {"Reset", "Update"} : ReadUser(h, kind, u)
                \/ \E d \in Devices \cup {NoDevice} : UpdateUserPushToken(h, u, d)
    BY <1>1, <2>1
  <2>2. CASE (\E i \in DOMAIN codes : VerifyOTP(h, i)) \/ (\E r \in Users : FindReferrer(h, r))
    BY <1>4, <2>2
  <2>3. CASE \/ SaveUser(h) /\ job[h].row \in Users
             \/ InsertUser(h) /\ job[h].user \in Users
             \/ Deactivate(h) /\ job[h].code \in DOMAIN codes
    BY <1>2, <2>3
  <2>4. CASE SaveWallet(h) \/ SetPushToken(h) \/ DropTokens(h) \/ StoreToken(h)
    BY <1>3, <2>4
  <2> QED BY <1>7, <2>1, <2>2, <2>3, <2>4 DEF Moves
<1> QED BY <1>5, <1>6, <1>7, AnyStep DEF Happens, Breaks

\* Unless requests overlapped the handler that moves is the only busy one.
LEMMA OthersIdle ==
  ASSUME Basics, NEW h \in Handlers, Begins(h) \/ Proceeds(h), ~overlapped'
  PROVE  ~overlapped /\ \A g \in Handlers \ {h} : ~Busy(g) /\ ~Busy(g)'
<1>1. CASE Begins(h)
  BY <1>1 DEF Begins, Request, Busy
<1>2. CASE Proceeds(h)
  BY <1>2 DEF Proceeds, Busy, Basics, OneAtATime
<1> QED BY <1>1, <1>2

LEMMA OneAtATimeStep ==
  ASSUME Basics, Next
  PROVE  OneAtATime'
<1>1. ASSUME NEW h \in Handlers, Begins(h) \/ Proceeds(h) PROVE OneAtATime'
  BY <1>1, OthersIdle DEF OneAtATime
<1>2. CASE Stops
  <2> SUFFICES ASSUME ~overlapped', NEW g \in Handlers, NEW h \in Handlers, Busy(g)', Busy(h)'
               PROVE  g = h
    BY DEF OneAtATime
  <2>1. ~overlapped /\ Busy(g) /\ Busy(h)
    BY <1>2, IdleParts DEF Stops, Busy
  <2> QED BY <2>1 DEF Basics, OneAtATime
<1> QED BY <1>1, <1>2, JobsStep

\* What a row or a code that is there becomes is still there, ...
RowsStay ==
  /\ \A u \in Users : user[u].state # "none" => user'[u].state # "none"
  /\ DOMAIN codes \subseteq DOMAIN codes'

JobMeans(h) ==
  /\ job[h].pc \in {"mark", "lapse"} => job[h].code \in DOMAIN codes
  /\ job[h].pc = "save" => job[h].row \in Users /\ user[job[h].row].state # "none"
  /\ \/ job[h].pc \in {"referrer", "insert"}
     \/ job[h].pc = "save" /\ job[h].kind = "Register"
     => job[h].user \in Users

LEMMA JobMeansStays ==
  ASSUME NEW h \in Handlers, JobMeans(h), RowsStay, job'[h] \in {job[h], Idle}
  PROVE  JobMeans(h)'
<1>1. CASE job'[h] = job[h]
  BY <1>1 DEF JobMeans, RowsStay
<1>2. CASE job'[h] = Idle
  BY <1>2, IdleParts DEF JobMeans
<1> QED BY <1>1, <1>2

LEMMA RowsStayStep ==
  ASSUME Basics, Next
  PROVE  RowsStay
<1> USE DEF Basics
<1>1. ASSUME NEW h \in Handlers, NEW u \in Users,
             \/ PlainRequest(h, u)
             \/ \E kind \in {"Reset", "Update"} : ReadUser(h, kind, u)
             \/ \E d \in Devices \cup {NoDevice} : UpdateUserPushToken(h, u, d)
      PROVE  RowsStay
  <2>1. ASSUME NEW d \in Devices \cup {NoDevice}, UpdateUserPushToken(h, u, d) PROVE RowsStay
    BY <2>1, UpdatePushBegins DEF RowsStay
  <2> QED BY <1>1, <2>1, PlainRequestBegins, ReadUserBegins DEF RowsStay, tables
<1>2. ASSUME NEW h \in Handlers, SaveUser(h), job[h].row \in Users PROVE RowsStay
  BY <1>2, SaveUserProceeds DEF RowsStay
<1>3. ASSUME NEW h \in Handlers, InsertUser(h), job[h].user \in Users PROVE RowsStay
  BY <1>3, InsertUserProceeds DEF RowsStay, Refused
<1>4. ASSUME NEW h \in Handlers, SaveWallet(h) \/ SetPushToken(h) PROVE RowsStay
  BY <1>4, WalletWritten, PushWritten DEF RowsStay
<1>5. ASSUME NEW h \in Handlers, Deactivate(h), job[h].code \in DOMAIN codes PROVE RowsStay
  BY <1>5, DeactivateProceeds DEF RowsStay
<1>6. ASSUME NEW u \in Users, RemoveUser(u) PROVE RowsStay
  BY <1>6, RemoveUserStops DEF RowsStay
<1>7. ASSUME NEW h \in Handlers, DropTokens(h) \/ StoreToken(h) PROVE RowsStay
  BY <1>7, TokensWritten DEF RowsStay
<1>8. CASE Breaks
  BY <1>8, FaultStops DEF RowsStay, tables
<1>9. ASSUME NEW h \in Handlers, \/ \E i \in DOMAIN codes : VerifyOTP(h, i)
                                 \/ \E r \in Users : FindReferrer(h, r)
      PROVE  RowsStay
  BY <1>9, VerifyBegins, FindReferrerProceeds DEF RowsStay, tables
<1>10. ASSUME NEW u \in Users, CreateOTPLog(u) PROVE RowsStay
  BY <1>10, CreateOTPLogStops DEF RowsStay
<1>11. CASE Tick
  BY <1>11, TickStops DEF RowsStay
<1> QED BY <1>1, <1>2, <1>3, <1>4, <1>5, <1>6, <1>7, <1>8, <1>9, <1>10, <1>11, AnyStep DEF Moves, Happens, Breaks

\* ... so that only the handler that moves can come to mean something new.
LEMMA JobsMeanRowsStep ==
  ASSUME Basics, Next
  PROVE  JobsMeanRows'
<1> USE DEF Basics
<1>0. RowsStay /\ \A g \in Handlers : JobMeans(g)
  BY RowsStayStep DEF JobsMeanRows, JobMeans
<1>1. ASSUME NEW h \in Handlers, Begins(h) \/ Proceeds(h), JobMeans(h)' PROVE \A g \in Handlers : JobMeans(g)'
  <2>1. ASSUME NEW g \in Handlers \ {h} PROVE JobMeans(g)'
    BY <1>0, <1>1, JobMeansStays DEF Begins, Proceeds
  <2> QED BY <1>1, <2>1
<1>2. ASSUME NEW h \in Handlers, NEW u \in Users,
             \/ PlainRequest(h, u)
             \/ \E kind \in {"Reset", "Update"} : ReadUser(h, kind, u)
             \/ \E d \in Devices \cup {NoDevice} : UpdateUserPushToken(h, u, d)
      PROVE  \A g \in Handlers : JobMeans(g)'
  <2>1. CASE PlainRequest(h, u)
    BY <1>1, <2>1, PlainRequestBegins DEF JobMeans
  <2>2. ASSUME NEW kind \in {"Reset", "Update"}, ReadUser(h, kind, u) PROVE \A g \in Handlers : JobMeans(g)'
    BY <1>1, <2>2, ReadUserBegins DEF JobMeans, tables, Exists
  <2>3. ASSUME NEW d \in Devices \cup {NoDevice}, UpdateUserPushToken(h, u, d) PROVE \A g \in Handlers : JobMeans(g)'
    BY <1>1, <2>3, UpdatePushBegins DEF JobMeans
  <2> QED BY <1>2, <2>1, <2>2, <2>3
<1>3. ASSUME NEW h \in Handlers, NEW i \in DOMAIN codes, VerifyOTP(h, i) PROVE \A g \in Handlers : JobMeans(g)'
  BY <1>1, <1>3, VerifyBegins DEF JobMeans, tables
<1>4. ASSUME NEW h \in Handlers, NEW r \in Users, FindReferrer(h, r) PROVE \A g \in Handlers : JobMeans(g)'
  BY <1>0, <1>1, <1>4, FindReferrerProceeds, IdleParts DEF JobMeans, tables, Exists
<1>5. ASSUME NEW h \in Handlers, SaveUser(h), job[h].row \in Users PROVE \A g \in Handlers : JobMeans(g)'
  BY <1>0, <1>1, <1>5, SaveUserProceeds DEF JobMeans
<1>6. ASSUME NEW h \in Handlers, InsertUser(h), job[h].user \in Users PROVE \A g \in Handlers : JobMeans(g)'
  BY <1>1, <1>6, InsertUserProceeds DEF JobMeans
<1>7. ASSUME NEW h \in Handlers, SaveWallet(h) \/ SetPushToken(h) \/ DropTokens(h) \/ StoreToken(h)
      PROVE  \A g \in Handlers : JobMeans(g)'
  BY <1>1, <1>7, WalletWritten, PushWritten, TokensWritten DEF JobMeans
<1>8. ASSUME NEW h \in Handlers, Deactivate(h), job[h].code \in DOMAIN codes PROVE \A g \in Handlers : JobMeans(g)'
  BY <1>1, <1>8, DeactivateProceeds DEF JobMeans
<1>9. ASSUME Stops PROVE \A g \in Handlers : JobMeans(g)'
  BY <1>0, <1>9, JobMeansStays DEF Stops
<1>10. ASSUME NEW u \in Users, RemoveUser(u) \/ CreateOTPLog(u)
      PROVE  Stops
  BY <1>10, RemoveUserStops, CreateOTPLogStops
<1>11. Tick \/ Breaks => Stops
  BY TickStops, FaultStops
<1>12. \A g \in Handlers : JobMeans(g)'
  BY <1>2, <1>3, <1>4, <1>5, <1>6, <1>7, <1>8, <1>9, <1>10, <1>11, AnyStep DEF Moves, Happens, Breaks
<1> QED BY <1>12 DEF JobsMeanRows, JobMeans

\* Which steps write the users table.
LEMMA UserWriters ==
  ASSUME Basics, Next
  PROVE  \/ UNCHANGED user
         \/ \E h \in Handlers : SaveUser(h) /\ job[h].row \in Users
         \/ \E h \in Handlers : InsertUser(h) /\ job[h].user \in Users
         \/ \E h \in Handlers : SaveWallet(h) \/ SetPushToken(h)
         \/ \E u \in Users : RemoveUser(u)
         \/ \E h \in Handlers, u \in Users, d \in Devices \cup {NoDevice} : UpdateUserPushToken(h, u, d)
<1> USE DEF Basics
<1>1. ASSUME NEW h \in Handlers, NEW u \in Users,
             PlainRequest(h, u) \/ \E kind \in {"Reset", "Update"} : ReadUser(h, kind, u)
      PROVE  UNCHANGED user
  BY <1>1, PlainRequestBegins, ReadUserBegins DEF tables
<1>2. ASSUME NEW h \in Handlers, \/ \E i \in DOMAIN codes : VerifyOTP(h, i)
                                 \/ \E r \in Users : FindReferrer(h, r)
      PROVE  UNCHANGED user
  BY <1>2, VerifyBegins, FindReferrerProceeds DEF tables
<1>3. ASSUME NEW h \in Handlers, \/ DropTokens(h) \/ StoreToken(h)
                                 \/ Deactivate(h) /\ job[h].code \in DOMAIN codes
      PROVE  UNCHANGED user
  BY <1>3, TokensWritten, DeactivateProceeds
<1>4. ASSUME Tick \/ Breaks \/ \E u \in Users : CreateOTPLog(u)
      PROVE  UNCHANGED user
  BY <1>4, TickStops, FaultStops, CreateOTPLogStops DEF tables
<1> QED BY <1>1, <1>2, <1>3, <1>4, AnyStep DEF Moves, Happens

\* Who may be named as a referrer: only an insert names one, and a user that is
\* named does not go.
LEMMA ReferrerExistsStep ==
  ASSUME Basics, Next
  PROVE  ReferrerExists'
<1> USE DEF Basics
<1>0. \A u \in Users : user[u].referrer \in Users \cup {NoUser}
  BY UserType
<1>1. ASSUME \A v \in Users : user'[v].state = user[v].state /\ user'[v].referrer = user[v].referrer
      PROVE  ReferrerExists'
  BY <1>1 DEF ReferrerExists, Exists
<1>2. ASSUME UNCHANGED user PROVE ReferrerExists'
  BY <1>1, <1>2
<1>3. ASSUME NEW h \in Handlers, SaveUser(h), job[h].row \in Users PROVE ReferrerExists'
  <2>0. PICK r \in Users : r = job[h].row
    BY <1>3
  <2>1. /\ \A v \in Users \ {r} : user'[v] = user[v]
        /\ user'[r].referrer = user[r].referrer /\ job[h].pc = "save"
        /\ user'[r].state = (IF user[r].state = "removed" THEN "revived" ELSE user[r].state)
    BY <1>3, <2>0, SaveUserProceeds
  <2>2. user[r].state # "none" /\ user[r].state \in States
    BY <2>0, <2>1, UserType DEF JobsMeanRows
  <2>3. Exists(r)' /\ \A v \in Users : /\ user'[v].referrer = user[v].referrer
                                       /\ Exists(v) => Exists(v)'
    BY <2>1, <2>2 DEF Exists, States
  <2> QED BY <2>3 DEF ReferrerExists
<1>4. ASSUME NEW h \in Handlers, InsertUser(h), job[h].user \in Users PROVE ReferrerExists'
  <2>0. PICK u \in Users : u = job[h].user
    BY <1>4
  <2>1. CASE Refused(h)
    BY <1>1, <1>4, <2>0, <2>1, InsertUserProceeds
  <2>2. CASE ~Refused(h)
    <3>1. /\ \A v \in Users \ {u} : user'[v] = user[v]
          /\ user'[u].state = "row" /\ user'[u].referrer = job[h].row
      BY <1>4, <2>0, <2>2, InsertUserProceeds
    <3>2. job[h].row \in Users => Exists(job[h].row)
      BY <2>2 DEF Refused
    <3>3. Exists(u)' /\ \A v \in Users : Exists(v) => Exists(v)'
      BY <1>4, <3>1 DEF Exists
    <3> QED BY <1>0, <1>4, <3>1, <3>2, <3>3 DEF ReferrerExists, Exists
  <2> QED BY <2>1, <2>2
<1>5. ASSUME NEW h \in Handlers, SaveWallet(h) \/ SetPushToken(h) PROVE ReferrerExists'
  BY <1>1, <1>5, WalletWritten, PushWritten
<1>6. ASSUME NEW u \in Users, RemoveUser(u) PROVE ReferrerExists'
  <2>1. /\ \A v \in Users : user[v].referrer # u
        /\ \A v \in Users \ {u} : user'[v] = user[v]
        /\ user'[u].state = "removed" /\ user'[u].referrer = NoUser
    BY <1>6, RemoveUserStops
  <2> QED BY <2>1 DEF ReferrerExists, Exists
<1>7. ASSUME NEW h \in Handlers, NEW u \in Users, NEW d \in Devices \cup {NoDevice}, UpdateUserPushToken(h, u, d)
      PROVE  ReferrerExists'
  BY <1>1, <1>7, UpdatePushBegins
<1> QED BY <1>2, <1>3, <1>4, <1>5, <1>6, <1>7, UserWriters

LEMMA BasicsInit == Init => Basics
<1> SUFFICES ASSUME Init PROVE Basics
  OBVIOUS
<1>1. TypeOK
  <2>1. codes \in Seq(Code)
    BY DEF Init
  <2>2. user \in [Users -> User] /\ tokens \in [Users -> Nat] /\ job \in [Handlers -> Job]
    BY RowParts, IdleParts DEF Init
  <2>3. MaxRequests \in Nat /\ MaxFaults \in Nat
    OBVIOUS
  <2>4. requests \in 0..MaxRequests /\ faults \in 0..MaxFaults /\ overlapped \in BOOLEAN
    <3>1. requests = 0 /\ faults = 0
      BY DEF Init
    <3>2. overlapped \in BOOLEAN
      BY Zenon DEF Init
    <3> QED BY <2>3, <3>1, <3>2
  <2> QED BY <2>1, <2>2, <2>4 DEF TypeOK
<1>2. \A h \in Handlers : job[h].pc = "idle"
  BY IdleParts DEF Init
<1>3. \A u \in Users : user[u].referrer = NoUser
  BY RowParts DEF Init
<1> QED BY <1>1, <1>2, <1>3 DEF Basics, OneAtATime, Busy, JobsMeanRows, ReferrerExists

LEMMA BasicsStep == Basics /\ [Next]_vars => Basics'
<1> SUFFICES ASSUME Basics, [Next]_vars PROVE Basics'
  OBVIOUS
<1>1. CASE Next
  BY <1>1, TypeStep, OneAtATimeStep, JobsMeanRowsStep, ReferrerExistsStep DEF Basics
<1>2. CASE UNCHANGED vars
  BY <1>2 DEF vars, tables, bounds, Basics, TypeOK, OneAtATime, Busy, JobsMeanRows, ReferrerExists, Exists
<1> QED BY <1>1, <1>2

-----------------------------------------------------------------------------
(***************************************************************************)
(* Tokens and codes: what handlers are about to do counts as done.         *)
(***************************************************************************)
Most == IF overlapped THEN Cardinality(Handlers) ELSE 1

Storing(u) == {h \in Handlers : job[h].pc = "store" /\ job[h].user = u}

TokensBacked == \A u \in Users : tokens[u] + Cardinality(Storing(u)) <= Most

Marking(i) == {h \in Handlers : job[h].pc = "mark" /\ job[h].code = i}

UsesBacked ==
  \A i \in DOMAIN codes :
    /\ ~codes[i].used => codes[i].uses = 0
    /\ codes[i].uses + Cardinality(Marking(i)) <= Most

LEMMA Few ==
  ASSUME NEW S \in SUBSET Handlers
  PROVE  IsFiniteSet(S) /\ Cardinality(S) \in Nat /\ Cardinality(S) <= Cardinality(Handlers)
         /\ Cardinality(Handlers) \in Nat
  BY FS_Subset, FS_CardinalityType

LEMMA Fewer ==
  ASSUME NEW T \in SUBSET Handlers, NEW S \in SUBSET T
  PROVE  Cardinality(S) \in Nat /\ Cardinality(T) \in Nat /\ Cardinality(S) <= Cardinality(T)
  BY Few, FS_Subset

LEMMA OneLess ==
  ASSUME NEW S \in SUBSET Handlers, NEW h \in S
  PROVE  Cardinality(S \ {h}) \in Nat /\ Cardinality(S) = Cardinality(S \ {h}) + 1
  BY Few, FS_RemoveElement, FS_CardinalityType

LEMMA AtMostOne ==
  ASSUME NEW S, \A g, h \in S : g = h
  PROVE  Cardinality(S) \in Nat /\ Cardinality(S) <= 1
<1>1. CASE S = {}
  BY <1>1, FS_EmptySet
<1>2. CASE S # {}
  <2>1. PICK h \in S : TRUE
    BY <1>2
  <2>2. S = {h}
    BY <2>1
  <2>3. Cardinality({h}) = 1
    BY FS_Singleton
  <2> QED BY <2>2, <2>3
<1> QED BY <1>1, <1>2

\* After a step no more handlers are busy with anything than may be.
LEMMA BusyFew ==
  ASSUME Basics', NEW S \in SUBSET Handlers, \A h \in S : Busy(h)'
  PROVE  Cardinality(S) \in Nat /\ Cardinality(S) <= Most'
<1>1. CASE overlapped'
  BY <1>1, Few DEF Most
<1>2. CASE ~overlapped'
  <2>1. \A g, h \in S : g = h
    BY <1>2 DEF Basics, OneAtATime
  <2> QED BY <1>2, <2>1, AtMostOne DEF Most
<1> QED BY <1>1, <1>2

\* Overlapping only adds to what is possible.
LEMMA MostGrows ==
  ASSUME Basics, Next
  PROVE  Most \in Nat /\ Most' \in Nat /\ Most <= Most'
<1>1. ASSUME NEW h \in Handlers PROVE Cardinality(Handlers) >= 1 /\ Cardinality(Handlers) \in Nat
  <2>1. Handlers \in SUBSET Handlers
    OBVIOUS
  <2>2. Cardinality(Handlers \ {h}) \in Nat /\ Cardinality(Handlers) = Cardinality(Handlers \ {h}) + 1
    BY <1>1, <2>1, OneLess
  <2> QED BY <2>2
<1>2. overlapped => overlapped'
  <2>1. ASSUME NEW h \in Handlers, Begins(h) \/ Proceeds(h) PROVE overlapped => overlapped'
    BY <2>1 DEF Begins, Proceeds, Request
  <2> QED BY <2>1, JobsStep DEF Stops
<1>3. overlapped' => overlapped \/ Handlers # {}
  <2>1. ASSUME NEW u \in Users, RemoveUser(u), overlapped' PROVE overlapped \/ Handlers # {}
    BY <2>1, RemoveUserStops DEF Basics, Request
  <2>2. ASSUME NEW u \in Users, CreateOTPLog(u) PROVE UNCHANGED overlapped
    BY <2>2, CreateOTPLogStops DEF Basics, bounds
  <2>3. ASSUME Tick \/ Breaks PROVE UNCHANGED overlapped
    BY <2>3, TickStops, FaultStops DEF Basics, bounds
  <2> QED BY <2>1, <2>2, <2>3, AnyStep DEF Happens
<1>4. overlapped \in BOOLEAN /\ overlapped' \in BOOLEAN
  BY TypeStep DEF Basics, TypeOK
<1>5. Cardinality(Handlers) \in Nat
  BY FS_CardinalityType
<1> QED BY <1>1, <1>2, <1>3, <1>4, <1>5 DEF Most

\* Which steps touch the tokens and the codes, or are about to.
LEMMA KeepsTokens ==
  ASSUME Basics, NEW h \in Handlers, Moves(h), ~DropTokens(h), ~StoreToken(h)
  PROVE  (Begins(h) \/ Proceeds(h)) /\ tokens' = tokens /\ job'[h].pc # "store"
<1> USE DEF Basics
<1>1. ASSUME NEW u \in Users, PlainRequest(h, u) \/ \E kind \in {"Reset", "Update"} : ReadUser(h, kind, u)
      PROVE  Begins(h) /\ tokens' = tokens /\ job'[h].pc # "store"
  BY <1>1, PlainRequestBegins, ReadUserBegins DEF tables
<1>2. ASSUME NEW u \in Users, NEW d \in Devices \cup {NoDevice}, UpdateUserPushToken(h, u, d)
      PROVE  Begins(h) /\ tokens' = tokens /\ job'[h].pc # "store"
  BY <1>2, UpdatePushBegins
<1>3. ASSUME \/ \E i \in DOMAIN codes : VerifyOTP(h, i)
             \/ \E r \in Users : FindReferrer(h, r)
      PROVE  (Begins(h) \/ Proceeds(h)) /\ tokens' = tokens /\ job'[h].pc # "store"
  BY <1>3, VerifyBegins, FindReferrerProceeds, IdleParts DEF tables
<1>4. ASSUME \/ SaveUser(h) /\ job[h].row \in Users
             \/ InsertUser(h) /\ job[h].user \in Users
             \/ SaveWallet(h) \/ SetPushToken(h)
             \/ Deactivate(h) /\ job[h].code \in DOMAIN codes
      PROVE  Proceeds(h) /\ tokens' = tokens /\ job'[h].pc # "store"
  BY <1>4, SaveUserProceeds, InsertUserProceeds, WalletWritten, PushWritten, DeactivateProceeds
<1> QED BY <1>1, <1>2, <1>3, <1>4 DEF Moves

LEMMA KeepsCodes ==
  ASSUME Basics, NEW h \in Handlers, Moves(h), ~Deactivate(h), ~\E i \in DOMAIN codes : VerifyOTP(h, i)
  PROVE  (Begins(h) \/ Proceeds(h)) /\ codes' = codes /\ job'[h].pc # "mark"
<1> USE DEF Basics
<1>1. ASSUME NEW u \in Users, PlainRequest(h, u) \/ \E kind \in {"Reset", "Update"} : ReadUser(h, kind, u)
      PROVE  Begins(h) /\ codes' = codes /\ job'[h].pc # "mark"
  BY <1>1, PlainRequestBegins, ReadUserBegins DEF tables
<1>2. ASSUME NEW u \in Users, NEW d \in Devices \cup {NoDevice}, UpdateUserPushToken(h, u, d)
      PROVE  Begins(h) /\ codes' = codes /\ job'[h].pc # "mark"
  BY <1>2, UpdatePushBegins
<1>3. ASSUME NEW r \in Users, FindReferrer(h, r)
      PROVE  Proceeds(h) /\ codes' = codes /\ job'[h].pc # "mark"
  BY <1>3, FindReferrerProceeds, IdleParts DEF tables
<1>4. ASSUME \/ SaveUser(h) /\ job[h].row \in Users
             \/ InsertUser(h) /\ job[h].user \in Users
             \/ SaveWallet(h) \/ SetPushToken(h)
             \/ DropTokens(h) \/ StoreToken(h)
      PROVE  Proceeds(h) /\ codes' = codes /\ job'[h].pc # "mark"
  BY <1>4, SaveUserProceeds, InsertUserProceeds, WalletWritten, PushWritten, TokensWritten
<1> QED BY <1>1, <1>2, <1>3, <1>4 DEF Moves

\* A step without a handler leaves them all where they were, or stops them.
LEMMA NobodyMoves ==
  ASSUME Basics, Happens \/ Breaks
  PROVE  Stops /\ tokens' = tokens
<1>1. ASSUME NEW u \in Users, RemoveUser(u) \/ CreateOTPLog(u) PROVE Stops /\ tokens' = tokens
  BY <1>1, RemoveUserStops, CreateOTPLogStops DEF Basics
<1>2. ASSUME Tick \/ Breaks PROVE Stops /\ tokens' = tokens
  BY <1>2, TickStops, FaultStops DEF Basics, tables
<1> QED BY <1>1, <1>2 DEF Happens
-----------------------------------------------------------------------------
LEMMA TokensBackedStep ==
  ASSUME Basics, TokensBacked, Next, Basics'
  PROVE  TokensBacked'
<1>0. \A u \in Users : /\ tokens[u] \in Nat
                       /\ Storing(u) \in SUBSET Handlers
                       /\ tokens[u] + Cardinality(Storing(u)) <= Most
  BY DEF Basics, TypeOK, TokensBacked, Storing
<1>1. Most \in Nat /\ Most' \in Nat /\ Most <= Most'
  BY MostGrows
<1>2. ASSUME NEW u \in Users, tokens'[u] = tokens[u], Storing(u)' \subseteq Storing(u)
      PROVE  tokens'[u] + Cardinality(Storing(u)') <= Most'
  <2>1. /\ Cardinality(Storing(u)') \in Nat /\ Cardinality(Storing(u)) \in Nat
        /\ Cardinality(Storing(u)') <= Cardinality(Storing(u))
    BY <1>0, <1>2, Fewer
  <2> QED BY <1>0, <1>1, <1>2, <2>1
<1>3. ASSUME NEW h \in Handlers, Moves(h) PROVE TokensBacked'
  <2>1. CASE ~DropTokens(h) /\ ~StoreToken(h)
    <3>1. tokens' = tokens /\ \A u \in Users : Storing(u)' \subseteq Storing(u)
      BY <1>3, <2>1, KeepsTokens DEF Storing, Begins, Proceeds
    <3> QED BY <1>2, <3>1 DEF TokensBacked
  <2>2. CASE DropTokens(h) \/ StoreToken(h)
    <3>1. /\ \A g \in Handlers \ {h} : job'[g] = job[g]
          /\ \A v \in Users \ {job[h].user} : tokens'[v] = tokens[v]
          /\ \/ /\ job[h].pc = "drop" /\ job'[h].pc = "store" /\ job'[h].user = job[h].user
                /\ job[h].user \in Users => tokens'[job[h].user] = 0
             \/ /\ job[h].pc = "store" /\ job'[h].pc = "idle"
                /\ job[h].user \in Users => tokens'[job[h].user] = tokens[job[h].user] + 1
      BY <2>2, TokensWritten DEF Basics, Proceeds
    <3>2. ASSUME NEW u \in Users, u # job[h].user PROVE tokens'[u] + Cardinality(Storing(u)') <= Most'
      <4>1. Storing(u)' \subseteq Storing(u)
        BY <3>1, <3>2 DEF Storing
      <4> QED BY <1>2, <3>1, <3>2, <4>1
    <3>3. ASSUME NEW u \in Users, u = job[h].user, job[h].pc = "drop"
          PROVE  tokens'[u] + Cardinality(Storing(u)') <= Most'
      <4>1. tokens'[u] = 0
        BY <3>1, <3>3
      <4>2. Storing(u)' \in SUBSET Handlers /\ \A g \in Storing(u)' : Busy(g)'
        BY DEF Storing, Busy
      <4>3. Cardinality(Storing(u)') \in Nat /\ Cardinality(Storing(u)') <= Most'
        BY <4>2, BusyFew
      <4> QED BY <4>1, <4>3
    <3>4. ASSUME NEW u \in Users, u = job[h].user, job[h].pc = "store"
          PROVE  tokens'[u] + Cardinality(Storing(u)') <= Most'
      <4>1. tokens'[u] = tokens[u] + 1
        BY <3>1, <3>4
      <4>2. h \in Storing(u) /\ Storing(u)' = Storing(u) \ {h}
        BY <3>1, <3>4 DEF Storing
      <4>3. /\ Cardinality(Storing(u) \ {h}) \in Nat
            /\ Cardinality(Storing(u)) = Cardinality(Storing(u) \ {h}) + 1
        BY <1>0, <4>2, OneLess
      <4>4. tokens[u] \in Nat /\ tokens[u] + Cardinality(Storing(u)) <= Most
        BY <1>0
      <4> QED BY <1>1, <4>1, <4>2, <4>3, <4>4
    <3> QED BY <3>1, <3>2, <3>3, <3>4 DEF TokensBacked
  <2> QED BY <2>1, <2>2
<1>4. CASE Happens \/ Breaks
  <2>1. tokens' = tokens /\ \A u \in Users : Storing(u)' \subseteq Storing(u)
    BY <1>4, NobodyMoves, IdleParts DEF Storing, Stops
  <2> QED BY <1>2, <2>1 DEF TokensBacked
<1> QED BY <1>3, <1>4, AnyStep

LEMMA UsesBackedStep ==
  ASSUME Basics, UsesBacked, Next, Basics'
  PROVE  UsesBacked'
<1>0. \A i \in DOMAIN codes : /\ codes[i].uses \in Nat
                              /\ Marking(i) \in SUBSET Handlers
                              /\ codes[i].uses + Cardinality(Marking(i)) <= Most
                              /\ ~codes[i].used => codes[i].uses = 0
  BY CodeType DEF Basics, UsesBacked, Marking
<1>1. Most \in Nat /\ Most' \in Nat /\ Most <= Most'
  BY MostGrows
<1> DEFINE Good(i) == /\ ~codes'[i].used => codes'[i].uses = 0
                      /\ codes'[i].uses + Cardinality(Marking(i)') <= Most'
<1>2. ASSUME NEW i \in DOMAIN codes, codes'[i].used = codes[i].used, codes'[i].uses = codes[i].uses,
             Marking(i)' \subseteq Marking(i)
      PROVE  Good(i)
  <2>1. /\ Cardinality(Marking(i)') \in Nat /\ Cardinality(Marking(i)) \in Nat
        /\ Cardinality(Marking(i)') <= Cardinality(Marking(i))
    BY <1>0, <1>2, Fewer
  <2>2. codes[i].uses \in Nat /\ codes[i].uses + Cardinality(Marking(i)) <= Most
        /\ (~codes[i].used => codes[i].uses = 0)
    BY <1>0
  <2> QED BY <1>1, <1>2, <2>1, <2>2
\* A code that is not used has not been accepted yet, whoever is about to mark it.
<1>3. ASSUME NEW i, codes'[i].uses = 0 PROVE Good(i)
  <2>1. Marking(i)' \in SUBSET Handlers /\ \A g \in Marking(i)' : Busy(g)'
    BY DEF Marking, Busy
  <2>2. Cardinality(Marking(i)') \in Nat /\ Cardinality(Marking(i)') <= Most'
    BY <2>1, BusyFew
  <2> QED BY <1>3, <2>2
<1>4. ASSUME NEW h \in Handlers, Moves(h) PROVE DOMAIN codes' = DOMAIN codes /\ \A i \in DOMAIN codes : Good(i)
  <2>1. CASE ~Deactivate(h) /\ ~\E i \in DOMAIN codes : VerifyOTP(h, i)
    <3>1. codes' = codes /\ \A i \in DOMAIN codes : Marking(i)' \subseteq Marking(i)
      BY <1>4, <2>1, KeepsCodes DEF Marking, Begins, Proceeds
    <3> QED BY <1>2, <3>1
  <2>2. ASSUME NEW k \in DOMAIN codes, VerifyOTP(h, k)
        PROVE  DOMAIN codes' = DOMAIN codes /\ \A i \in DOMAIN codes : Good(i)
    <3>1. /\ codes' = codes /\ ~codes[k].used /\ job'[h].code = k
          /\ \A g \in Handlers \ {h} : job'[g] = job[g]
      BY <2>2, VerifyBegins DEF Basics, tables, Begins
    <3>2. \A i \in DOMAIN codes : i # k => Marking(i)' \subseteq Marking(i)
      BY <3>1 DEF Marking
    <3>3. Good(k)
      BY <1>0, <1>3, <3>1
    <3> QED BY <1>2, <3>1, <3>2, <3>3
  <2>3. ASSUME NEW k \in DOMAIN codes, Deactivate(h), k = job[h].code
        PROVE  DOMAIN codes' = DOMAIN codes /\ \A i \in DOMAIN codes : Good(i)
    <3>1. /\ \A g \in Handlers \ {h} : job'[g] = job[g]
          /\ job[h].pc \in {"mark", "lapse"} /\ job'[h].pc = "idle"
          /\ DOMAIN codes' = DOMAIN codes
          /\ \A i \in DOMAIN codes \ {k} : codes'[i] = codes[i]
          /\ codes'[k].used = TRUE
          /\ codes'[k].uses = IF job[h].pc = "mark" THEN codes[k].uses + 1 ELSE codes[k].uses
      BY <2>3, DeactivateProceeds DEF Basics, Proceeds
    <3>2. ASSUME NEW i \in DOMAIN codes, i # k PROVE Good(i)
      <4>1. Marking(i)' \subseteq Marking(i)
        BY <3>1 DEF Marking
      <4> QED BY <1>2, <3>1, <3>2, <4>1
    <3>3. codes[k].uses \in Nat /\ codes[k].uses + Cardinality(Marking(k)) <= Most /\ Marking(k) \in SUBSET Handlers
      BY <1>0
    <3>4. CASE job[h].pc = "mark"
      <4>1. h \in Marking(k) /\ Marking(k)' = Marking(k) \ {h}
        BY <2>3, <3>1, <3>4 DEF Marking
      <4>2. /\ Cardinality(Marking(k) \ {h}) \in Nat
            /\ Cardinality(Marking(k)) = Cardinality(Marking(k) \ {h}) + 1
        BY <3>3, <4>1, OneLess
      <4>3. codes'[k].uses = codes[k].uses + 1 /\ codes'[k].used = TRUE
        BY <3>1, <3>4
      <4>4. Good(k)
        BY <1>1, <3>3, <4>1, <4>2, <4>3
      <4> QED BY <3>1, <3>2, <4>4
    <3>5. CASE job[h].pc = "lapse"
      <4>1. Marking(k)' \subseteq Marking(k)
        BY <3>1 DEF Marking
      <4>2. /\ Cardinality(Marking(k)') \in Nat /\ Cardinality(Marking(k)) \in Nat
            /\ Cardinality(Marking(k)') <= Cardinality(Marking(k))
        BY <3>3, <4>1, Fewer
      <4>3. codes'[k].uses = codes[k].uses /\ codes'[k].used = TRUE
        BY <3>1, <3>5
      <4>4. Good(k)
        BY <1>1, <3>3, <4>2, <4>3
      <4> QED BY <3>1, <3>2, <4>4
    <3> QED BY <3>1, <3>4, <3>5
  <2>4. Deactivate(h) => job[h].code \in DOMAIN codes
    BY DEF Basics, JobsMeanRows, Deactivate
  <2> QED BY <2>1, <2>2, <2>3, <2>4
<1>5. ASSUME Happens \/ Breaks PROVE \A i \in DOMAIN codes' : Good(i)
  <2>1. \A i : Marking(i)' \subseteq Marking(i)
    BY <1>5, NobodyMoves, IdleParts DEF Marking, Stops
  <2>2. ASSUME NEW u \in Users, CreateOTPLog(u) PROVE \A i \in DOMAIN codes' : Good(i)
    <3>1. PICK n : n = Len(codes) + 1
      OBVIOUS
    <3>2. /\ DOMAIN codes' = DOMAIN codes \cup {n}
          /\ \A k \in DOMAIN codes : codes'[k] = codes[k]
          /\ codes'[n].uses = 0
      BY <2>2, <3>1, CreateOTPLogStops DEF Basics
    <3>3. Good(n)
      BY <1>3, <3>2
    <3> QED BY <1>2, <2>1, <3>2, <3>3
  <2>3. ASSUME \/ Tick \/ Breaks \/ \E u \in Users : RemoveUser(u)
        PROVE  /\ DOMAIN codes' = DOMAIN codes
               /\ \A k \in DOMAIN codes : codes'[k].used = codes[k].used /\ codes'[k].uses = codes[k].uses
    BY <2>3, TickStops, FaultStops, RemoveUserStops DEF Basics, tables
  <2> QED BY <1>2, <1>5, <2>1, <2>2, <2>3 DEF Happens
<1>6. \A i \in DOMAIN codes' : Good(i)
  BY <1>4, <1>5, AnyStep
<1> QED BY <1>6 DEF UsesBacked
-----------------------------------------------------------------------------
(***************************************************************************)
(* Referral points and push tokens, for requests that do not overlap: what *)
(* a handler holds of a row is what the row still is.                      *)
(***************************************************************************)
Referred(r) == {u \in Users : user[u].referrer = r}

Named == \A r \in Users : IsFiniteSet(Referred(r))

\* The referrer's points are written before the user that counts.
PointsHeld(h) ==
  /\ job[h].pc = "save" =>
       /\ Exists(job[h].row)
       /\ job[h].points >= Cardinality(Referred(job[h].row)) + (IF job[h].kind = "Register" THEN 1 ELSE 0)
  /\ job[h].pc = "insert" /\ job[h].row # NoUser =>
       user[job[h].row].points >= Cardinality(Referred(job[h].row)) + 1

PointsBacked ==
  ~overlapped =>
    /\ \A r \in Users : Exists(r) => user[r].points >= Cardinality(Referred(r))
    /\ \A h \in Handlers : PointsHeld(h)

PushHeld(h) ==
  /\ job[h].pc = "save" => job[h].push = user[job[h].row].push
  /\ job[h].pc = "push" /\ job[h].push # NoDevice =>
       \A v \in Users \ {job[h].user} : user[v].push # job[h].push

PushBacked == ~overlapped => PushTokenUnique /\ \A h \in Handlers : PushHeld(h)

LEMMA ReferredFinite ==
  ASSUME Named, NEW r \in Users
  PROVE  IsFiniteSet(Referred(r)) /\ Cardinality(Referred(r)) \in Nat
  BY FS_CardinalityType DEF Named

\* How a step can change who is named: one insert adds one user to one referrer.
LEMMA ReferredStep ==
  ASSUME Basics, Named, Next, NEW r \in Users
  PROVE  /\ IsFiniteSet(Referred(r)') /\ Cardinality(Referred(r)') \in Nat
         /\ \/ Cardinality(Referred(r)') <= Cardinality(Referred(r))
            \/ \E h \in Handlers : /\ InsertUser(h) /\ ~Refused(h) /\ job[h].row = r
                                   /\ Cardinality(Referred(r)') <= Cardinality(Referred(r)) + 1
<1> USE DEF Basics
<1>0. IsFiniteSet(Referred(r)) /\ Cardinality(Referred(r)) \in Nat
  BY ReferredFinite
<1> DEFINE Goal == /\ IsFiniteSet(Referred(r)') /\ Cardinality(Referred(r)') \in Nat
                   /\ \/ Cardinality(Referred(r)') <= Cardinality(Referred(r))
                      \/ \E h \in Handlers : /\ InsertUser(h) /\ ~Refused(h) /\ job[h].row = r
                                             /\ Cardinality(Referred(r)') <= Cardinality(Referred(r)) + 1
<1>1. ASSUME \A v \in Users : user'[v].referrer \in {user[v].referrer, NoUser} PROVE Goal
  <2>1. Referred(r)' \subseteq Referred(r)
    BY <1>1 DEF Referred
  <2>2. IsFiniteSet(Referred(r)') /\ Cardinality(Referred(r)') <= Cardinality(Referred(r))
    BY <1>0, <2>1, FS_Subset
  <2> QED BY <2>2, FS_CardinalityType
<1>2. ASSUME NEW h \in Handlers, InsertUser(h), job[h].user \in Users PROVE Goal
  <2>0. PICK u \in Users : u = job[h].user
    BY <1>2
  <2>1. CASE Refused(h) \/ job[h].row # r
    <3>1. \A v \in Users : user'[v].referrer = r => user[v].referrer = r
      BY <1>2, <2>0, <2>1, InsertUserProceeds
    <3>2. Referred(r)' \subseteq Referred(r)
      BY <3>1 DEF Referred
    <3>3. IsFiniteSet(Referred(r)') /\ Cardinality(Referred(r)') <= Cardinality(Referred(r))
      BY <1>0, <3>2, FS_Subset
    <3> QED BY <3>3, FS_CardinalityType
  <2>2. CASE ~Refused(h) /\ job[h].row = r
    <3>1. \A v \in Users \ {u} : user'[v] = user[v]
      BY <1>2, <2>0, InsertUserProceeds
    <3>2. Referred(r)' \subseteq Referred(r) \cup {u}
      BY <3>1 DEF Referred
    <3>3. /\ IsFiniteSet(Referred(r) \cup {u})
          /\ Cardinality(Referred(r) \cup {u}) <= Cardinality(Referred(r)) + 1
          /\ Cardinality(Referred(r) \cup {u}) \in Nat
      <4>1. /\ IsFiniteSet(Referred(r) \cup {u})
            /\ \/ Cardinality(Referred(r) \cup {u}) = Cardinality(Referred(r))
               \/ Cardinality(Referred(r) \cup {u}) = Cardinality(Referred(r)) + 1
        BY <1>0, FS_AddElement
      <4> QED BY <1>0, <4>1
    <3>4. IsFiniteSet(Referred(r)') /\ Cardinality(Referred(r)') <= Cardinality(Referred(r) \cup {u})
      BY <3>2, <3>3, FS_Subset
    <3>5. Cardinality(Referred(r)') \in Nat
      BY <3>4, FS_CardinalityType
    <3> QED BY <1>0, <1>2, <2>2, <3>3, <3>4, <3>5
  <2> QED BY <2>1, <2>2
<1>3. ASSUME NEW h \in Handlers, SaveUser(h), job[h].row \in Users PROVE Goal
  BY <1>1, <1>3, SaveUserProceeds
<1>4. ASSUME NEW h \in Handlers, SaveWallet(h) \/ SetPushToken(h) PROVE Goal
  BY <1>1, <1>4, WalletWritten, PushWritten
<1>5. ASSUME NEW u \in Users, RemoveUser(u) PROVE Goal
  BY <1>1, <1>5, RemoveUserStops
<1>6. ASSUME NEW h \in Handlers, NEW u \in Users, NEW d \in Devices \cup {NoDevice}, UpdateUserPushToken(h, u, d) PROVE Goal
  BY <1>1, <1>6, UpdatePushBegins
<1>7. UNCHANGED user => Goal
  BY <1>1
<1> HIDE DEF Goal
<1>8. Goal
  BY <1>2, <1>3, <1>4, <1>5, <1>6, <1>7, UserWriters
<1> QED BY <1>8 DEF Goal

\* Without a handler rows only go when nobody holds any.
LEMMA QuietAside ==
  ASSUME Basics, Happens \/ Breaks, ~overlapped'
  PROVE  /\ ~overlapped
         /\ \A h \in Handlers : job'[h] \in {job[h], Idle}
         /\ \/ UNCHANGED user
            \/ (\E u \in Users : RemoveUser(u)) /\ \A h \in Handlers : ~Busy(h)'
<1> USE DEF Basics
<1>1. ASSUME NEW u \in Users, RemoveUser(u)
      PROVE  ~overlapped /\ UNCHANGED job /\ \A h \in Handlers : ~Busy(h)'
  BY <1>1, RemoveUserStops DEF Request, Busy
<1>2. ASSUME Tick \/ \E u \in Users : CreateOTPLog(u)
      PROVE  ~overlapped /\ UNCHANGED job /\ UNCHANGED user
  BY <1>2, TickStops, CreateOTPLogStops DEF bounds
<1>3. ASSUME Breaks
      PROVE  ~overlapped /\ UNCHANGED user /\ \A h \in Handlers : job'[h] \in {job[h], Idle}
  BY <1>3, FaultStops DEF Stops, tables
<1> QED BY <1>1, <1>2, <1>3 DEF Happens

LEMMA IdleHolds ==
  ASSUME NEW h \in Handlers
  PROVE  /\ ~Busy(h)' => PointsHeld(h)' /\ PushHeld(h)'
         /\ job'[h] = Idle => PointsHeld(h)' /\ PushHeld(h)'
  BY IdleParts DEF Busy, PointsHeld, PushHeld

\* A moving handler that does not write users: it holds what it has just read.
LEMMA ReaderHolds ==
  ASSUME Basics, NEW h \in Handlers, Moves(h), UNCHANGED user, ~overlapped,
         ~SaveUser(h), ~InsertUser(h), PointsBacked, Named
  PROVE  PointsHeld(h)' /\ PushHeld(h)'
<1> USE DEF Basics
<1>0. \A r \in Users : /\ Cardinality(Referred(r)) \in Nat /\ user[r].points \in Nat
                       /\ Exists(r) => user[r].points >= Cardinality(Referred(r))
                       /\ Referred(r)' = Referred(r) /\ user'[r] = user[r]
                       /\ Exists(r) => Exists(r)'
  BY ReferredFinite, UserType DEF PointsBacked, Referred, Exists
<1>1. ASSUME NEW u \in Users, PlainRequest(h, u)
      PROVE  PointsHeld(h)' /\ PushHeld(h)'
  BY <1>1, PlainRequestBegins DEF PointsHeld, PushHeld
<1>2. ASSUME NEW u \in Users, NEW kind \in {"Reset", "Update"}, ReadUser(h, kind, u)
      PROVE  PointsHeld(h)' /\ PushHeld(h)'
  <2>1. /\ Exists(u) /\ job'[h].pc = "save" /\ job'[h].row = u /\ job'[h].kind # "Register"
        /\ job'[h].push = user[u].push /\ job'[h].points = user[u].points
    BY <1>2, ReadUserBegins
  <2>2. /\ Cardinality(Referred(u)) \in Nat /\ user[u].points >= Cardinality(Referred(u))
        /\ Referred(u)' = Referred(u) /\ user'[u] = user[u] /\ Exists(u)'
    BY <1>0, <2>1
  <2> QED BY <2>1, <2>2 DEF PointsHeld, PushHeld
<1>3. ASSUME NEW r \in Users, FindReferrer(h, r)
      PROVE  PointsHeld(h)' /\ PushHeld(h)'
  <2>1. CASE job'[h] = Idle
    BY <2>1, IdleHolds
  <2>2. CASE job'[h] # Idle
    <3>1. /\ Exists(r) /\ job'[h].pc = "save" /\ job'[h].row = r /\ job'[h].push = user[r].push
          /\ job'[h].points = user[r].points + 1
      BY <1>3, <2>2, FindReferrerProceeds
    <3>2. /\ Cardinality(Referred(r)) \in Nat /\ user[r].points >= Cardinality(Referred(r))
          /\ user[r].points \in Nat
          /\ Referred(r)' = Referred(r) /\ user'[r] = user[r] /\ Exists(r)'
      BY <1>0, <3>1
    <3> QED BY <3>1, <3>2 DEF PointsHeld, PushHeld
  <2> QED BY <2>1, <2>2
<1>4. ASSUME NEW u \in Users, NEW d \in Devices \cup {NoDevice}, UpdateUserPushToken(h, u, d)
      PROVE  PointsHeld(h)' /\ PushHeld(h)'
  <2>1. /\ job'[h].pc = "push" /\ job'[h].user = u /\ job'[h].push = d
        /\ d # NoDevice => \A v \in Users \ {u} : user'[v].push # d
    BY <1>4, UpdatePushBegins
  <2> QED BY <2>1 DEF PointsHeld, PushHeld
<1>5. ASSUME NEW i \in DOMAIN codes, VerifyOTP(h, i)
      PROVE  PointsHeld(h)' /\ PushHeld(h)'
  BY <1>5, VerifyBegins DEF PointsHeld, PushHeld
<1>6. ASSUME SaveWallet(h) \/ SetPushToken(h) \/ DropTokens(h) \/ StoreToken(h)
      PROVE  PointsHeld(h)' /\ PushHeld(h)'
  BY <1>6, WalletWritten, PushWritten, TokensWritten DEF PointsHeld, PushHeld
<1>7. ASSUME Deactivate(h), job[h].code \in DOMAIN codes
      PROVE  PointsHeld(h)' /\ PushHeld(h)'
  BY <1>7, DeactivateProceeds DEF PointsHeld, PushHeld
<1> QED BY <1>1, <1>2, <1>3, <1>4, <1>5, <1>6, <1>7 DEF Moves

\* What a step does to points and pushes when every row keeps its own.
LEMMA PointsSame ==
  ASSUME Basics, Named, PointsBacked, ~overlapped,
         \A v \in Users : /\ user'[v].state = user[v].state
                          /\ user'[v].points = user[v].points
                          /\ user'[v].referrer = user[v].referrer
  PROVE  \A r \in Users : Exists(r)' => user'[r].points >= Cardinality(Referred(r)')
<1>1. \A r \in Users : Referred(r)' = Referred(r) /\ (Exists(r)' => Exists(r))
  BY DEF Referred, Exists
<1> QED BY <1>1 DEF PointsBacked

LEMMA PushesSame ==
  ASSUME PushTokenUnique, ~overlapped,
         \A v \in Users : user'[v].push \in {user[v].push, NoDevice}
  PROVE  PushTokenUnique'
  BY DEF PushTokenUnique

LEMMA SaveUserQuiet ==
  ASSUME Basics, Named, PointsBacked, PushBacked, ~overlapped,
         NEW h \in Handlers, SaveUser(h), NEW r \in Users, r = job[h].row
  PROVE  /\ \A q \in Users : Exists(q)' => user'[q].points >= Cardinality(Referred(q)')
         /\ PointsHeld(h)' /\ PushHeld(h)' /\ PushTokenUnique'
<1> USE DEF Basics
<1>1. /\ job[h].pc = "save"
      /\ job'[h].pc = IF job[h].kind = "Register" THEN "insert" ELSE "idle"
      /\ job[h].kind = "Register" => job'[h].row = r
      /\ \A v \in Users \ {r} : user'[v] = user[v]
      /\ user'[r].referrer = user[r].referrer
      /\ user'[r].push = job[h].push /\ user'[r].points = job[h].points
  BY SaveUserProceeds
<1>2. PointsHeld(h) /\ PushHeld(h) /\ PushTokenUnique
  BY DEF PointsBacked, PushBacked
<1>3. \A q \in Users : Referred(q)' = Referred(q)
  BY <1>1 DEF Referred
<1>4. job[h].points \in Nat /\ Cardinality(Referred(r)) \in Nat
  BY JobType, ReferredFinite
<1>5. /\ Exists(r)
      /\ user'[r].points >= Cardinality(Referred(r))
      /\ job[h].kind = "Register" => user'[r].points >= Cardinality(Referred(r)) + 1
  BY <1>1, <1>2, <1>4 DEF PointsHeld
<1>6. \A q \in Users : Exists(q)' => user'[q].points >= Cardinality(Referred(q)')
  <2>1. ASSUME NEW q \in Users, q # r, Exists(q)' PROVE user'[q].points >= Cardinality(Referred(q)')
    BY <1>1, <1>3, <2>1 DEF PointsBacked, Exists
  <2> QED BY <1>3, <1>5, <2>1
<1>7. PointsHeld(h)'
  BY <1>1, <1>3, <1>5 DEF PointsHeld
<1>8. PushHeld(h)'
  BY <1>1 DEF PushHeld
<1>9. \A v \in Users : user'[v].push = user[v].push
  BY <1>1, <1>2 DEF PushHeld
<1> QED BY <1>2, <1>6, <1>7, <1>8, <1>9, PushesSame

LEMMA InsertUserQuiet ==
  ASSUME Basics, Named, PointsBacked, PushBacked, Next, ~overlapped,
         NEW h \in Handlers, \A g \in Handlers \ {h} : ~Busy(g),
         InsertUser(h), NEW u \in Users, u = job[h].user
  PROVE  /\ \A q \in Users : Exists(q)' => user'[q].points >= Cardinality(Referred(q)')
         /\ PointsHeld(h)' /\ PushHeld(h)' /\ PushTokenUnique'
<1> USE DEF Basics
<1>1. /\ job[h].pc = "insert" /\ job'[h].pc \in {"idle", "wallet"}
      /\ \A v \in Users \ {u} : user'[v] = user[v]
      /\ Refused(h) => user'[u] = user[u]
      /\ ~Refused(h) => /\ user'[u].state = "row" /\ user'[u].referrer = job[h].row
                        /\ user'[u].push = NoDevice /\ user'[u].points = 0
  BY InsertUserProceeds
<1>2. PointsHeld(h)' /\ PushHeld(h)'
  BY <1>1 DEF PointsHeld, PushHeld
<1>3. PushTokenUnique'
  <2>1. PushTokenUnique
    BY DEF PushBacked
  <2>2. \A v \in Users : user'[v].push \in {user[v].push, NoDevice}
    BY <1>1
  <2> QED BY <2>1, <2>2, PushesSame
<1>4. CASE Refused(h)
  <2>1. \A v \in Users : user'[v] = user[v]
    BY <1>1, <1>4
  <2> QED BY <1>2, <1>3, <2>1, PointsSame
<1>5. CASE ~Refused(h)
  <2>1. ~Exists(u) /\ (job[h].row # NoUser => Exists(job[h].row)) /\ job[h].row # u
    BY <1>5 DEF Refused, Exists
  <2>2. ASSUME NEW q \in Users, Exists(q)', q # u, q # job[h].row
        PROVE  user'[q].points >= Cardinality(Referred(q)')
    <3>1. Exists(q) /\ user'[q] = user[q]
      BY <1>1, <2>2 DEF Exists
    <3>2. Referred(q)' = Referred(q)
      <4>1. user[u].referrer # q /\ user'[u].referrer # q
        BY <1>1, <1>5, <2>1, <2>2 DEF ReferrerExists
      <4> QED BY <1>1, <4>1 DEF Referred
    <3> QED BY <3>1, <3>2 DEF PointsBacked
  <2>3. ASSUME NEW q \in Users, q = job[h].row
        PROVE  user'[q].points >= Cardinality(Referred(q)')
    <3>1. user[q].points \in Nat /\ user[q].points >= Cardinality(Referred(q)) + 1 /\ user'[q] = user[q]
      BY <1>1, <2>1, <2>3, UserType DEF PointsBacked, PointsHeld
    <3>2. /\ Cardinality(Referred(q)) \in Nat /\ Cardinality(Referred(q)') \in Nat
          /\ Cardinality(Referred(q)') <= Cardinality(Referred(q)) + 1
      BY ReferredStep, ReferredFinite
    <3> QED BY <3>1, <3>2
  <2>4. user'[u].points >= Cardinality(Referred(u)')
    <3>1. \A v \in Users : user[v].referrer # u
      BY <2>1 DEF ReferrerExists
    <3>2. Referred(u)' = {}
      BY <1>1, <1>5, <2>1, <3>1 DEF Referred
    <3> QED BY <1>1, <1>5, <3>2, FS_EmptySet
  <2> QED BY <1>2, <1>3, <2>2, <2>3, <2>4
<1> QED BY <1>4, <1>5

LEMMA SetPushQuiet ==
  ASSUME Basics, PushBacked, ~overlapped, NEW h \in Handlers, SetPushToken(h)
  PROVE  PushTokenUnique'
<1>1. /\ job[h].pc = "push"
      /\ \A v \in Users : user'[v].push = IF v = job[h].user /\ Exists(v) THEN job[h].push ELSE user[v].push
  BY PushWritten DEF Basics
<1>2. PushHeld(h) /\ PushTokenUnique
  BY DEF PushBacked
<1>3. job[h].push # NoDevice => \A v \in Users \ {job[h].user} : user[v].push # job[h].push
  BY <1>1, <1>2 DEF PushHeld
<1> QED BY <1>1, <1>2, <1>3 DEF PushTokenUnique

LEMMA MovesQuiet ==
  ASSUME Basics, Named, PointsBacked, PushBacked, Next, ~overlapped,
         NEW h \in Handlers, Moves(h), \A g \in Handlers \ {h} : ~Busy(g)
  PROVE  /\ \A q \in Users : Exists(q)' => user'[q].points >= Cardinality(Referred(q)')
         /\ PointsHeld(h)' /\ PushHeld(h)' /\ PushTokenUnique'
<1> USE DEF Basics
<1> DEFINE P == \A q \in Users : Exists(q)' => user'[q].points >= Cardinality(Referred(q)')
<1>0. PushTokenUnique /\ NoDevice \notin Devices
  BY DEF PushBacked
<1>1. CASE SaveUser(h)
  <2>1. job[h].row \in Users
    BY <1>1 DEF JobsMeanRows, SaveUser, Goto
  <2> QED BY <1>1, <2>1, SaveUserQuiet
<1>2. CASE InsertUser(h)
  <2>1. job[h].user \in Users
    BY <1>2 DEF JobsMeanRows, InsertUser, Goto
  <2> QED BY <1>2, <2>1, InsertUserQuiet
<1>3. CASE SaveWallet(h)
  <2>1. P /\ PushTokenUnique'
    BY <1>0, <1>3, WalletWritten, PointsSame, PushesSame
  <2>2. PointsHeld(h)' /\ PushHeld(h)'
    BY <1>3, WalletWritten DEF PointsHeld, PushHeld
  <2> QED BY <2>1, <2>2
<1>4. CASE SetPushToken(h)
  <2>1. P
    BY <1>4, PushWritten, PointsSame
  <2>2. PointsHeld(h)' /\ PushHeld(h)'
    BY <1>4, PushWritten DEF PointsHeld, PushHeld
  <2> QED BY <1>4, <2>1, <2>2, SetPushQuiet
<1>5. ASSUME NEW u \in Users, NEW d \in Devices \cup {NoDevice}, UpdateUserPushToken(h, u, d)
      PROVE  P /\ PointsHeld(h)' /\ PushHeld(h)' /\ PushTokenUnique'
  <2>1. P
    BY <1>5, UpdatePushBegins, PointsSame
  <2>2. /\ job'[h].pc = "push" /\ job'[h].user = u /\ job'[h].push = d
        /\ \A v \in Users : user'[v].push = IF v # u /\ user[v].push = d THEN NoDevice ELSE user[v].push
    BY <1>5, UpdatePushBegins
  <2>3. PointsHeld(h)'
    BY <2>2 DEF PointsHeld
  <2>4. PushHeld(h)'
    BY <1>0, <2>2 DEF PushHeld
  <2>5. \A v \in Users : user'[v].push \in {user[v].push, NoDevice}
    BY <2>2
  <2>6. PushTokenUnique'
    BY <1>0, <2>5, PushesSame
  <2> QED BY <2>1, <2>3, <2>4, <2>6
<1>6. CASE UNCHANGED user /\ ~SaveUser(h) /\ ~InsertUser(h)
  BY <1>0, <1>6, ReaderHolds, PointsSame, PushesSame
<1>7. ASSUME NEW u \in Users,
             PlainRequest(h, u) \/ \E kind \in {"Reset", "Update"} : ReadUser(h, kind, u)
      PROVE  UNCHANGED user
  BY <1>7, PlainRequestBegins, ReadUserBegins DEF tables
<1>8. ASSUME \/ \E i \in DOMAIN codes : VerifyOTP(h, i)
             \/ \E r \in Users : FindReferrer(h, r)
      PROVE  UNCHANGED user
  BY <1>8, VerifyBegins, FindReferrerProceeds DEF tables
<1>9. ASSUME \/ DropTokens(h) \/ StoreToken(h)
             \/ Deactivate(h) /\ job[h].code \in DOMAIN codes
      PROVE  UNCHANGED user
  BY <1>9, TokensWritten, DeactivateProceeds
<1> QED BY <1>1, <1>2, <1>3, <1>4, <1>5, <1>6, <1>7, <1>8, <1>9 DEF Moves

LEMMA QuietStep ==
  ASSUME Basics, Named, PointsBacked, PushBacked, Next
  PROVE  Named' /\ PointsBacked' /\ PushBacked'
<1> USE DEF Basics
<1>1. Named'
  BY ReferredStep DEF Named
<1> DEFINE P == \A q \in Users : Exists(q)' => user'[q].points >= Cardinality(Referred(q)')
<1>2. ASSUME ~overlapped', NEW h \in Handlers, Moves(h)
      PROVE  P /\ PushTokenUnique' /\ \A g \in Handlers : PointsHeld(g)' /\ PushHeld(g)'
  <2>1. Begins(h) \/ Proceeds(h)
    BY <1>2, KeepsTokens, TokensWritten
  <2>2. ~overlapped /\ \A g \in Handlers \ {h} : ~Busy(g) /\ ~Busy(g)'
    BY <1>2, <2>1, OthersIdle
  <2>3. P /\ PushTokenUnique' /\ PointsHeld(h)' /\ PushHeld(h)'
    BY <1>2, <2>2, MovesQuiet
  <2> QED BY <2>2, <2>3, IdleHolds
<1>3. ASSUME ~overlapped', Happens \/ Breaks
      PROVE  P /\ PushTokenUnique' /\ \A g \in Handlers : PointsHeld(g)' /\ PushHeld(g)'
  <2>0. ~overlapped /\ \A g \in Handlers : job'[g] \in {job[g], Idle}
    BY <1>3, QuietAside
  <2>1. PushTokenUnique /\ \A g \in Handlers : PointsHeld(g) /\ PushHeld(g)
    BY <2>0 DEF PointsBacked, PushBacked
  <2>2. CASE UNCHANGED user
    <3>1. P /\ PushTokenUnique'
      BY <2>0, <2>1, <2>2, PointsSame, PushesSame
    <3>2. ASSUME NEW g \in Handlers, job'[g] = job[g] PROVE PointsHeld(g)' /\ PushHeld(g)'
      BY <2>1, <2>2, <3>2 DEF PointsHeld, PushHeld, Referred, Exists
    <3> QED BY <2>0, <3>1, <3>2, IdleHolds
  <2>3. ASSUME NEW u \in Users, RemoveUser(u), \A g \in Handlers : ~Busy(g)'
        PROVE  P /\ PushTokenUnique' /\ \A g \in Handlers : PointsHeld(g)' /\ PushHeld(g)'
    <3>1. /\ \A v \in Users \ {u} : user'[v] = user[v]
          /\ user'[u].state = "removed" /\ user'[u].push = NoDevice /\ user'[u].referrer = NoUser
      BY <2>3, RemoveUserStops
    <3>2. ASSUME NEW q \in Users, Exists(q)' PROVE user'[q].points >= Cardinality(Referred(q)')
      <4>1. q # u /\ Exists(q) /\ user'[q] = user[q]
        BY <3>1, <3>2 DEF Exists
      <4>2. user[q].points \in Nat /\ user[q].points >= Cardinality(Referred(q))
        BY <2>0, <4>1, UserType DEF PointsBacked
      <4>3. Referred(q)' \subseteq Referred(q)
        BY <3>1 DEF Referred
      <4>4. /\ Cardinality(Referred(q)) \in Nat /\ Cardinality(Referred(q)') \in Nat
            /\ Cardinality(Referred(q)') <= Cardinality(Referred(q))
        BY <4>3, ReferredFinite, FS_Subset, FS_CardinalityType
      <4> QED BY <4>1, <4>2, <4>4
    <3>3. \A v \in Users : user'[v].push \in {user[v].push, NoDevice}
      BY <3>1
    <3>4. PushTokenUnique'
      BY <2>0, <2>1, <3>3, PushesSame
    <3> QED BY <2>3, <3>2, <3>4, IdleHolds
  <2> QED BY <1>3, <2>2, <2>3, QuietAside
<1>4. ~overlapped' => P /\ PushTokenUnique' /\ \A g \in Handlers : PointsHeld(g)' /\ PushHeld(g)'
  BY <1>2, <1>3, AnyStep
<1> QED BY <1>1, <1>4 DEF PointsBacked, PushBacked
-----------------------------------------------------------------------------
(***************************************************************************)
(* Wallets and passwords: what one request owes a row no other takes back. *)
(***************************************************************************)

\* Only saving the wallet gets a handler on that is about to.
LEMMA WaitsForWallet ==
  ASSUME Basics, NEW h \in Handlers, Moves(h), job[h].pc = "wallet"
  PROVE  SaveWallet(h)
<1> USE DEF Basics
<1>1. ~Begins(h)
  BY DEF Begins, Busy
<1>2. ASSUME NEW u \in Users PROVE ~PlainRequest(h, u)
  BY <1>1, PlainRequestBegins
<1>3. ASSUME NEW u \in Users, NEW kind \in {"Reset", "Update"} PROVE ~ReadUser(h, kind, u)
  BY <1>1, ReadUserBegins
<1>4. ASSUME NEW u \in Users, NEW d \in Devices \cup {NoDevice} PROVE ~UpdateUserPushToken(h, u, d)
  BY <1>1, UpdatePushBegins
<1>5. ASSUME NEW i \in DOMAIN codes PROVE ~VerifyOTP(h, i)
  BY <1>1, VerifyBegins
<1>6. ASSUME NEW r \in Users PROVE ~FindReferrer(h, r)
  BY FindReferrerProceeds
<1>7. ~SaveUser(h) /\ ~InsertUser(h)
  BY DEF SaveUser, InsertUser, Goto
<1>8. ~DropTokens(h) /\ ~StoreToken(h) /\ ~SetPushToken(h) /\ ~Deactivate(h)
  BY DEF DropTokens, StoreToken, SetPushToken, Deactivate, Goto
<1> QED BY <1>2, <1>3, <1>4, <1>5, <1>6, <1>7, <1>8 DEF Moves

\* A handler about to save a wallet stays so, unless it is the one that moves.
LEMMA WalletWaits ==
  ASSUME Basics, Next, ~Breaks, NEW g \in Handlers, job[g].pc = "wallet", ~SaveWallet(g)
  PROVE  job'[g] = job[g]
<1> USE DEF Basics
<1>1. ASSUME NEW h \in Handlers, Moves(h) PROVE job'[g] = job[g]
  <2>1. h # g
    BY <1>1, WaitsForWallet
  <2>2. Begins(h) \/ Proceeds(h)
    BY <1>1, KeepsTokens, TokensWritten
  <2> QED BY <2>1, <2>2 DEF Begins, Proceeds
<1>2. ASSUME NEW u \in Users, RemoveUser(u) \/ CreateOTPLog(u) PROVE job'[g] = job[g]
  BY <1>2, RemoveUserStops, CreateOTPLogStops
<1>3. Tick => job'[g] = job[g]
  BY TickStops
<1> QED BY <1>1, <1>2, <1>3, AnyStep DEF Happens

\* Where a row without a wallet comes from.
LEMMA WalletOwed ==
  ASSUME Basics, Next, NEW u \in Users, user'[u].state = "row", ~user'[u].wallet
  PROVE  \/ /\ user[u].state = "row" /\ ~user[u].wallet
            /\ \A h \in Handlers : SaveWallet(h) => u # job[h].user
         \/ \E h \in Handlers : job'[h].pc = "wallet" /\ job'[h].user = u
<1> USE DEF Basics
<1> DEFINE Kept == /\ user[u].state = "row" /\ ~user[u].wallet
                   /\ \A h \in Handlers : SaveWallet(h) => u # job[h].user
           New == \E h \in Handlers : job'[h].pc = "wallet" /\ job'[h].user = u
<1>0. ASSUME NEW h \in Handlers, SaveWallet(h), user[u].state = "row"
      PROVE  u # job[h].user /\ user[u].wallet = user'[u].wallet
  <2>1. user'[u].wallet = (user[u].wallet \/ (u = job[h].user /\ Exists(u)))
    BY <1>0, WalletWritten
  <2>2. Exists(u)
    BY <1>0 DEF Exists
  <2>3. user[u].wallet \in BOOLEAN
    BY UserType
  <2> QED BY <2>1, <2>2, <2>3
<1>1. user'[u].state = user[u].state /\ user'[u].wallet = user[u].wallet => Kept
  BY <1>0
<1>2. ASSUME NEW h \in Handlers, SaveUser(h), NEW r \in Users, r = job[h].row PROVE Kept
  <2>1. /\ \A v \in Users \ {r} : user'[v] = user[v]
        /\ user'[r].wallet = user[r].wallet
        /\ user'[r].state = (IF user[r].state = "removed" THEN "revived" ELSE user[r].state)
    BY <1>2, SaveUserProceeds
  <2> QED BY <1>1, <2>1
<1>3. ASSUME NEW h \in Handlers, InsertUser(h), NEW v \in Users, v = job[h].user PROVE Kept \/ New
  <2>1. /\ \A w \in Users \ {v} : user'[w] = user[w]
        /\ Refused(h) => user'[v] = user[v]
        /\ ~Refused(h) => job'[h].pc = "wallet" /\ job'[h].user = v
    BY <1>3, InsertUserProceeds
  <2> QED BY <1>1, <2>1
<1>4. ASSUME NEW h \in Handlers, SaveWallet(h) \/ SetPushToken(h) PROVE Kept
  <2>1. user'[u].state = user[u].state
    BY <1>4, WalletWritten, PushWritten
  <2>2. user'[u].wallet = user[u].wallet
    BY <1>0, <1>4, <2>1, PushWritten
  <2> QED BY <1>1, <2>1, <2>2
<1>5. ASSUME NEW v \in Users, RemoveUser(v) PROVE Kept
  <2>1. user'[v].state = "removed" /\ \A w \in Users \ {v} : user'[w] = user[w]
    BY <1>5, RemoveUserStops
  <2> QED BY <1>1, <2>1
<1>6. ASSUME NEW h \in Handlers, NEW v \in Users, NEW d \in Devices \cup {NoDevice}, UpdateUserPushToken(h, v, d) PROVE Kept
  BY <1>1, <1>6, UpdatePushBegins
<1>7. UNCHANGED user => Kept
  BY <1>1
<1>8. Kept \/ New
  BY <1>2, <1>3, <1>4, <1>5, <1>6, <1>7, UserWriters
<1> QED BY <1>8

LEMMA KeepsFaults ==
  ASSUME Basics, Next, ~Breaks
  PROVE  faults' = faults
<1>1. ASSUME NEW h \in Handlers, NEW u \in Users,
             \/ PlainRequest(h, u)
             \/ \E kind \in {"Reset", "Update"} : ReadUser(h, kind, u)
             \/ \E d \in Devices \cup {NoDevice} : UpdateUserPushToken(h, u, d)
      PROVE  faults' = faults
  <2>1. Request
    BY <1>1 DEF PlainRequest, Register, Login, LoginWithOAuth, RefreshTokens, Begin, ReadUser,
                UpdateUserPushToken
  <2> QED BY <2>1 DEF Request
<1>2. ASSUME NEW h \in Handlers, (\E r \in Users : FindReferrer(h, r)) \/ SaveUser(h) \/ InsertUser(h)
      PROVE  faults' = faults
  BY <1>2 DEF FindReferrer, SaveUser, InsertUser, Goto, bounds
<1>3. ASSUME NEW h \in Handlers, \/ SaveWallet(h) \/ SetPushToken(h)
                                 \/ DropTokens(h) \/ StoreToken(h) \/ Deactivate(h)
      PROVE  faults' = faults
  BY <1>3 DEF SaveWallet, SetPushToken, DropTokens, StoreToken, Deactivate, Goto, bounds
<1>4. ASSUME Tick \/ \E u \in Users : CreateOTPLog(u) PROVE faults' = faults
  BY <1>4 DEF Tick, CreateOTPLog, bounds
<1>5. ASSUME NEW u \in Users, RemoveUser(u) PROVE faults' = faults
  BY <1>5 DEF RemoveUser, Request
<1>6. ASSUME NEW h \in Handlers, NEW i \in DOMAIN codes, VerifyOTP(h, i) PROVE faults' = faults
  BY <1>6 DEF VerifyOTP, Request
<1> QED BY <1>1, <1>2, <1>3, <1>4, <1>5, <1>6, AnyStep DEF Moves, Happens

\* The two kinds of rows: those the request that inserted them gives a wallet, ...
RowsGetWallets ==
  faults = 0 => \A u \in Users : user[u].state = "row" /\ ~user[u].wallet =>
    \E h \in Handlers : job[h].pc = "wallet" /\ job[h].user = u

\* ... and those inserted again, which takes a request that overlapped.
RevivedByOverlap == \A u \in Users : user[u].state = "revived" => overlapped

LEMMA WalletStep ==
  ASSUME Basics, RowsGetWallets, Next
  PROVE  RowsGetWallets'
<1> SUFFICES ASSUME faults' = 0, NEW u \in Users, user'[u].state = "row", ~user'[u].wallet
             PROVE  \E h \in Handlers : job'[h].pc = "wallet" /\ job'[h].user = u
  BY DEF RowsGetWallets
<1>1. ~Breaks
  <2>1. faults \in 0..MaxFaults
    BY DEF Basics, TypeOK
  <2>2. Breaks => faults' = faults + 1
    BY FaultStops DEF Basics
  <2> QED BY <2>1, <2>2
<1>2. faults = 0
  BY <1>1, KeepsFaults
<1>3. ASSUME user[u].state = "row", ~user[u].wallet, \A h \in Handlers : SaveWallet(h) => u # job[h].user
      PROVE  \E h \in Handlers : job'[h].pc = "wallet" /\ job'[h].user = u
  <2>1. PICK g \in Handlers : job[g].pc = "wallet" /\ job[g].user = u
    BY <1>2, <1>3 DEF RowsGetWallets
  <2>2. job'[g] = job[g]
    BY <1>1, <1>3, <2>1, WalletWaits
  <2> QED BY <2>1, <2>2
<1> QED BY <1>3, WalletOwed

LEMMA RevivedStep ==
  ASSUME Basics, PointsBacked, RevivedByOverlap, Next
  PROVE  RevivedByOverlap'
<1> USE DEF Basics
<1> SUFFICES ASSUME NEW u \in Users, user'[u].state = "revived" PROVE overlapped'
  BY DEF RevivedByOverlap
<1>1. overlapped => overlapped'
  BY JobsStep DEF Begins, Proceeds, Stops, Request
<1>2. CASE user[u].state = "revived"
  BY <1>1, <1>2 DEF RevivedByOverlap
<1>3. CASE user[u].state # "revived"
  <2>1. ASSUME NEW h \in Handlers, SaveUser(h), NEW r \in Users, r = job[h].row PROVE overlapped
    <3>1. /\ job[h].pc = "save"
          /\ \A v \in Users \ {r} : user'[v] = user[v]
          /\ user'[r].state = (IF user[r].state = "removed" THEN "revived" ELSE user[r].state)
      BY <2>1, SaveUserProceeds
    <3>2. u = r /\ ~Exists(r)
      BY <1>3, <3>1 DEF Exists
    <3> QED BY <2>1, <3>1, <3>2 DEF PointsBacked, PointsHeld
  <2>2. ASSUME NEW h \in Handlers, InsertUser(h), NEW v \in Users, v = job[h].user PROVE FALSE
    <3>1. /\ \A w \in Users \ {v} : user'[w] = user[w]
          /\ Refused(h) => user'[v] = user[v]
          /\ ~Refused(h) => user'[v].state = "row"
      BY <2>2, InsertUserProceeds
    <3> QED BY <1>3, <3>1
  <2>3. ASSUME NEW h \in Handlers, SaveWallet(h) \/ SetPushToken(h) PROVE FALSE
    BY <1>3, <2>3, WalletWritten, PushWritten
  <2>4. ASSUME NEW v \in Users, RemoveUser(v) PROVE FALSE
    <3>1. user'[v].state = "removed" /\ \A w \in Users \ {v} : user'[w] = user[w]
      BY <2>4, RemoveUserStops
    <3> QED BY <1>3, <3>1
  <2>5. ASSUME NEW h \in Handlers, NEW v \in Users, NEW d \in Devices \cup {NoDevice},
               UpdateUserPushToken(h, v, d)
        PROVE  FALSE
    BY <1>3, <2>5, UpdatePushBegins
  <2>6. UNCHANGED user => FALSE
    BY <1>3
  <2> QED BY <1>1, <2>1, <2>2, <2>3, <2>4, <2>5, <2>6, UserWriters
<1> QED BY <1>2, <1>3

\* A password is taken back only together with its row.
LEMMA PasswordStep ==
  ASSUME Basics, Next, NEW u \in Users, Exists(u), user[u].password
  PROVE  user'[u].password \/ user'[u].state = "removed"
<1> USE DEF Basics
<1> DEFINE Goal == user'[u].password \/ user'[u].state = "removed"
<1>1. ASSUME NEW h \in Handlers, SaveUser(h), NEW r \in Users, r = job[h].row PROVE Goal
  <2>1. /\ \A v \in Users \ {r} : user'[v] = user[v]
        /\ user'[r].password = (user[r].password \/ job[h].kind = "Reset")
    BY <1>1, SaveUserProceeds
  <2> QED BY <2>1
<1>2. ASSUME NEW h \in Handlers, InsertUser(h), NEW v \in Users, v = job[h].user PROVE Goal
  <2>1. /\ \A w \in Users \ {v} : user'[w] = user[w]
        /\ Refused(h) => user'[v] = user[v]
    BY <1>2, InsertUserProceeds
  <2>2. v = u => Refused(h)
    BY <1>2 DEF Refused, Exists
  <2> QED BY <2>1, <2>2
<1>3. ASSUME NEW h \in Handlers, SaveWallet(h) \/ SetPushToken(h) PROVE Goal
  BY <1>3, WalletWritten, PushWritten
<1>4. ASSUME NEW v \in Users, RemoveUser(v) PROVE Goal
  BY <1>4, RemoveUserStops
<1>5. ASSUME NEW h \in Handlers, NEW v \in Users, NEW d \in Devices \cup {NoDevice}, UpdateUserPushToken(h, v, d) PROVE Goal
  BY <1>5, UpdatePushBegins
<1>6. UNCHANGED user => Goal
  OBVIOUS
<1> QED BY <1>1, <1>2, <1>3, <1>4, <1>5, <1>6, UserWriters
-----------------------------------------------------------------------------
\* The inductive invariant.
AccountsInv == /\ Basics /\ TokensBacked /\ UsesBacked
               /\ Named /\ PointsBacked /\ PushBacked
               /\ RowsGetWallets /\ RevivedByOverlap

LEMMA AccountsInit == Init => AccountsInv
<1> SUFFICES ASSUME Init PROVE AccountsInv
  OBVIOUS
<1>1. Basics
  BY BasicsInit
<1>2. /\ \A u \in Users : /\ user[u].state = "none" /\ user[u].referrer = NoUser /\ user[u].push = NoDevice
                          /\ tokens[u] = 0
      /\ \A h \in Handlers : job[h].pc = "idle"
      /\ codes = <<>> /\ ~overlapped
  BY RowParts, IdleParts DEF Init
<1>3. TokensBacked
  <2>1. \A u \in Users : Storing(u) = {}
    BY <1>2 DEF Storing
  <2>2. Most = 1 /\ Cardinality({}) = 0
    BY <1>2, FS_EmptySet DEF Most
  <2>3. ASSUME NEW u \in Users PROVE tokens[u] + Cardinality(Storing(u)) <= Most
    <3>1. tokens[u] = 0 /\ Cardinality(Storing(u)) = 0
      BY <1>2, <2>1, <2>2
    <3> QED BY <2>2, <3>1
  <2> QED BY <2>3 DEF TokensBacked
<1>4. UsesBacked
  BY <1>2 DEF UsesBacked
<1>5. \A r \in Users : Referred(r) = {}
  BY <1>2 DEF Referred
<1>6. Named
  BY <1>5, FS_EmptySet DEF Named
<1>7. PointsBacked
  BY <1>2 DEF PointsBacked, PointsHeld, Exists
<1>8. PushBacked
  BY <1>2 DEF PushBacked, PushHeld, PushTokenUnique
<1>9. RowsGetWallets /\ RevivedByOverlap
  BY <1>2 DEF RowsGetWallets, RevivedByOverlap
<1> QED BY <1>1, <1>3, <1>4, <1>6, <1>7, <1>8, <1>9 DEF AccountsInv

LEMMA AccountsStep == AccountsInv /\ [Next]_vars => AccountsInv'
<1> SUFFICES ASSUME AccountsInv, [Next]_vars PROVE AccountsInv'
  OBVIOUS
<1>1. Basics'
  BY BasicsStep DEF AccountsInv
<1>2. CASE Next
  BY <1>1, <1>2, TokensBackedStep, UsesBackedStep, QuietStep, WalletStep, RevivedStep DEF AccountsInv
<1>3. CASE UNCHANGED vars
  <2>1. UNCHANGED <<user, tokens, codes, job, faults, overlapped>>
    BY <1>3 DEF vars, tables, bounds
  <2>2. TokensBacked' /\ UsesBacked'
    BY <2>1 DEF AccountsInv, TokensBacked, UsesBacked, Storing, Marking, Most
  <2>3. Named' /\ PointsBacked' /\ PushBacked'
    BY <2>1 DEF AccountsInv, Named, PointsBacked, PushBacked, PointsHeld, PushHeld, Referred, Exists,
                PushTokenUnique
  <2>4. RowsGetWallets' /\ RevivedByOverlap'
    BY <2>1 DEF AccountsInv, RowsGetWallets, RevivedByOverlap
  <2> QED BY <1>1, <2>2, <2>3, <2>4 DEF AccountsInv
<1> QED BY <1>2, <1>3

\* The invariant of requests and tables the properties below rest on.
THEOREM AccountsInvariance == Spec => []AccountsInv
  BY AccountsInit, AccountsStep, PTL DEF Spec

\* Every table and every request keeps its type, for any handlers and bounds.
THEOREM AccountsTypeCorrect == Spec => []TypeOK
<1>1. AccountsInv => TypeOK
  BY DEF AccountsInv, Basics
<1> QED BY <1>1, AccountsInvariance, PTL

\* storeRefreshToken deletes before it saves: a user has no more refresh tokens
\* than requests can run at once, and one when no two overlapped.
THEOREM TokensAreBounded == Spec => []TokensBounded
<1>1. AccountsInv => TokensBounded
  <2> SUFFICES ASSUME AccountsInv, NEW u \in Users PROVE tokens[u] <= Most
    BY DEF TokensBounded, Most
  <2>1. tokens[u] \in Nat /\ tokens[u] + Cardinality(Storing(u)) <= Most
    BY DEF AccountsInv, Basics, TypeOK, TokensBacked
  <2>2. Cardinality(Storing(u)) \in Nat
    BY Few DEF Storing
  <2>3. Most \in Nat
    BY FS_CardinalityType DEF Most
  <2> QED BY <2>1, <2>2, <2>3
<1> QED BY <1>1, AccountsInvariance, PTL

\* verifyOTP reads a code and marks it later: it is accepted once, or as often
\* as requests overlap.
THEOREM CodeUsesAreBounded == Spec => []CodeUsesBounded
<1>1. AccountsInv => CodeUsesBounded
  <2> SUFFICES ASSUME AccountsInv, NEW i \in DOMAIN codes PROVE codes[i].uses <= Most
    BY DEF CodeUsesBounded, Most
  <2>1. codes[i].uses \in Nat /\ codes[i].uses + Cardinality(Marking(i)) <= Most
    BY CodeType DEF AccountsInv, Basics, UsesBacked
  <2>2. Cardinality(Marking(i)) \in Nat
    BY Few DEF Marking
  <2>3. Most \in Nat
    BY FS_CardinalityType DEF Most
  <2> QED BY <2>1, <2>2, <2>3
<1> QED BY <1>1, AccountsInvariance, PTL

\* Unless requests overlapped, a push token belongs to one user.
THEOREM PushTokensAreUnique == Spec => []PushTokenUnique
<1>1. AccountsInv => PushTokenUnique
  BY DEF AccountsInv, PushBacked, PushTokenUnique
<1> QED BY <1>1, AccountsInvariance, PTL

\* Unless requests overlapped, referrers have a point for each user they referred.
THEOREM ReferralsAreCounted == Spec => []ReferralsCounted
<1>1. AccountsInv => ReferralsCounted
  <2> SUFFICES ASSUME AccountsInv, ~overlapped, NEW r \in Users, Exists(r)
               PROVE  user[r].points >= Cardinality({u \in Users : Exists(u) /\ user[u].referrer = r})
    BY DEF ReferralsCounted
  <2>1. {u \in Users : Exists(u) /\ user[u].referrer = r} = Referred(r)
    BY DEF AccountsInv, Basics, ReferrerExists, Referred
  <2> QED BY <2>1 DEF AccountsInv, PointsBacked
<1> QED BY <1>1, AccountsInvariance, PTL

\* Without failures a user has a wallet, or the request that saves it is at work, or
\* the user was removed and inserted again by requests that overlapped.
THEOREM WalletsForAll == Spec => []WalletForEveryUser
<1>1. AccountsInv => WalletForEveryUser
  BY DEF AccountsInv, RowsGetWallets, RevivedByOverlap, WalletForEveryUser, Exists
<1> QED BY <1>1, AccountsInvariance, PTL

\* No save of an entity read before takes back a password that is set.
THEOREM PasswordsAreKept == Spec => PasswordKept
<1>1. AccountsInv /\ [Next]_vars =>
        [\A u \in Users : Exists(u) /\ user[u].password => user'[u].password \/ user'[u].state = "removed"]_vars
  BY PasswordStep DEF AccountsInv
<1> QED BY <1>1, AccountsInvariance, PTL DEF Spec, PasswordKept
=============================================================================
