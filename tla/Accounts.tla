------------------------------ MODULE Accounts -------------------------------
(***************************************************************************)
(* Users, their sessions and one-time passwords: src/app/auth/             *)
(* auth.service.ts and src/app/user/user.service.ts.  Each request is      *)
(* split at its awaits and requests interleave.                            *)
(*                                                                         *)
(* TypeORM's save(entity) compares every column the entity was read with   *)
(* to the row and writes the differences: what changed since it was read   *)
(* is written back.  The password column is not selected by a plain read.  *)
(***************************************************************************)
EXTENDS Integers, Sequences, FiniteSets

CONSTANTS
  Users,       \* user ids, one for each email; an id is used once
  Devices,     \* expo push tokens
  Handlers,    \* slots for requests that run at the same time
  NoUser, NoDevice,
  MaxCodes,    \* bound on one-time passwords
  MaxRequests, \* bound on the other requests
  MaxFaults    \* bound on failing awaits and crashes

ASSUME AccountsAssumption ==
  /\ NoUser \notin Users /\ NoDevice \notin Devices
  /\ IsFiniteSet(Handlers)
  /\ {MaxCodes, MaxRequests, MaxFaults} \subseteq Nat

VARIABLES
  user,       \* the users table, with the wallet of each
  tokens,     \* the refresh tokens of each user, counted
  codes,      \* the otp_log table, in the order of createdAt
  job,        \* what each handler slot is doing
  requests, faults,
  overlapped  \* two requests have been in progress at the same time

tables == <<user, tokens, codes>>
bounds == <<requests, faults, overlapped>>
vars == <<tables, job, bounds>>
-----------------------------------------------------------------------------
\* "revived": save has inserted a row again that was removed since its read.
States == {"none", "row", "removed", "revived"}

User == [state: States, password: BOOLEAN, wallet: BOOLEAN,
         push: Devices \cup {NoDevice}, points: Nat, referrer: Users \cup {NoUser}]

\* Times are in steps of five minutes.
Lifetime == 2

\* uses: verifications this code has been accepted for.
Code == [email: Users, age: 0..(Lifetime + 1), used: BOOLEAN, uses: Nat]

Places == {"idle", "referrer", "save", "insert", "wallet", "drop", "store",
           "push", "mark", "lapse"}

\* row, push, points: an entity that was read and will be saved.
Job == [pc: Places, kind: {"None", "Register", "OAuth", "Reset", "Update"},
        user: Users \cup {NoUser}, row: Users \cup {NoUser},
        push: Devices \cup {NoDevice}, points: Nat, code: Nat]

NoRow == [state |-> "none", password |-> FALSE, wallet |-> FALSE, push |-> NoDevice,
          points |-> 0, referrer |-> NoUser]

Idle == [pc |-> "idle", kind |-> "None", user |-> NoUser, row |-> NoUser,
         push |-> NoDevice, points |-> 0, code |-> 0]

Exists(u) == u \in Users /\ user[u].state \in {"row", "revived"}

Init ==
  /\ user = [u \in Users |-> NoRow]
  /\ tokens = [u \in Users |-> 0]
  /\ codes = <<>>
  /\ job = [h \in Handlers |-> Idle]
  /\ requests = 0
  /\ faults = 0
  /\ overlapped = FALSE
-----------------------------------------------------------------------------
Request == /\ requests < MaxRequests
           /\ requests' = requests + 1
           /\ overlapped' = (overlapped \/ \E g \in Handlers : job[g].pc # "idle")
           /\ UNCHANGED faults

\* Slot h takes a request and gets on to its first await after a read.
Begin(h, kind, u, pc) ==
  /\ job[h].pc = "idle"
  /\ Request
  /\ job' = [job EXCEPT ![h] = [Idle EXCEPT !.pc = pc, !.kind = kind, !.user = u]]

\* Slot h is at pc and moves to next, idle being the end of the request.
Goto(h, pc, next) ==
  /\ job[h].pc = pc
  /\ job' = [job EXCEPT ![h] = IF next = "idle" THEN Idle ELSE [@ EXCEPT !.pc = next]]
  /\ UNCHANGED bounds

\* Slot h holds row r as it was read, points being its new ones.
Holding(h, r, points) ==
  [job[h] EXCEPT !.pc = "save", !.row = r, !.push = user[r].push, !.points = points]
-----------------------------------------------------------------------------
\* An email in use is refused; r is the owner of the referral code, if given.
Register(h, u, r) ==
  /\ user[u].state = "none" /\ r # u
  /\ Begin(h, "Register", u, IF r = NoUser THEN "insert" ELSE "referrer")
  /\ UNCHANGED tables

\* Mutant: the points are added after the save.
FindReferrerUncounted(h, r) ==
  /\ job[h].pc = "referrer"
  /\ r # job[h].user
  /\ job' = [job EXCEPT ![h] = IF Exists(r) THEN Holding(h, r, user[r].points) ELSE Idle]
  /\ UNCHANGED <<tables, bounds>>

\* The body's referral code is looked up; an invalid one ends the registration.
FindReferrer(h, r) ==
  /\ job[h].pc = "referrer"
  /\ r # job[h].user
  /\ job' = [job EXCEPT ![h] = IF Exists(r) THEN Holding(h, r, user[r].points + 1) ELSE Idle]
  /\ UNCHANGED <<tables, bounds>>

\* Mutant: the password that was not selected is saved as NULL.
SaveUserWhole(h) ==
  LET j == job[h] IN
  /\ Goto(h, "save", IF j.kind = "Register" THEN "insert" ELSE "idle")
  /\ user' = [user EXCEPT ![j.row] =
       [user[j.row] EXCEPT !.state = IF @ = "removed" THEN "revived" ELSE @,
                           !.password = (j.kind = "Reset"),
                           !.push = j.push,
                           !.points = j.points]]
  /\ UNCHANGED <<tokens, codes>>

\* save(user) of a referrer, of a password reset and of a profile update.
SaveUser(h) ==
  LET j == job[h] IN
  /\ Goto(h, "save", IF j.kind = "Register" THEN "insert" ELSE "idle")
  /\ user' = [user EXCEPT ![j.row] =
       [user[j.row] EXCEPT !.state = IF @ = "removed" THEN "revived" ELSE @,
                           !.password = @ \/ j.kind = "Reset",
                           !.push = j.push,
                           !.points = j.points]]
  /\ UNCHANGED <<tokens, codes>>

\* Mutant: a user created by OAuth gets no wallet.
InsertUserOnly(h) ==
  LET j == job[h]
      refused == user[j.user].state # "none" \/ (j.row # NoUser /\ ~Exists(j.row))
  IN  /\ Goto(h, "insert", IF refused THEN "idle" ELSE IF j.kind = "OAuth" THEN "drop" ELSE "wallet")
      /\ user' = IF refused THEN user
                 ELSE [user EXCEPT ![j.user] = [NoRow EXCEPT !.state = "row", !.referrer = j.row,
                                                             !.password = (j.kind = "Register")]]
      /\ UNCHANGED <<tokens, codes>>

\* The email is unique and the referrer a foreign key.
InsertUser(h) ==
  LET j == job[h]
      refused == user[j.user].state # "none" \/ (j.row # NoUser /\ ~Exists(j.row))
  IN  /\ Goto(h, "insert", IF refused THEN "idle" ELSE "wallet")
      /\ user' = IF refused THEN user
                 ELSE [user EXCEPT ![j.user] = [NoRow EXCEPT !.state = "row", !.referrer = j.row,
                                                             !.password = (j.kind = "Register")]]
      /\ UNCHANGED <<tokens, codes>>

\* The wallet's id is a column of the user, which may have gone meanwhile.
SaveWallet(h) ==
  /\ Goto(h, "wallet", "drop")
  /\ user' = IF Exists(job[h].user) THEN [user EXCEPT ![job[h].user].wallet = TRUE] ELSE user
  /\ UNCHANGED <<tokens, codes>>

\* Mutant: the previous tokens are not deleted.
LoginKeepingTokens(h, u) ==
  /\ Exists(u) /\ user[u].password
  /\ Begin(h, "None", u, "store")
  /\ UNCHANGED tables

Login(h, u) ==
  /\ Exists(u) /\ user[u].password
  /\ Begin(h, "None", u, "drop")
  /\ UNCHANGED tables

\* An unknown email becomes a user without a password.
LoginWithOAuth(h, u) ==
  /\ user[u].state # "removed" /\ ~user[u].password
  /\ Begin(h, "OAuth", u, IF Exists(u) THEN "drop" ELSE "insert")
  /\ UNCHANGED tables

\* One of the user's tokens is found and not expired.
RefreshTokens(h, u) ==
  /\ tokens[u] > 0
  /\ Begin(h, "None", u, "drop")
  /\ UNCHANGED tables

\* Mutant: a session counter is decremented instead of the rows deleted.
DropOneToken(h) ==
  /\ Goto(h, "drop", "store")
  /\ tokens' = [tokens EXCEPT ![job[h].user] = @ - 1]
  /\ UNCHANGED <<user, codes>>

\* storeRefreshToken: "delete previous token", ...
DropTokens(h) ==
  /\ Goto(h, "drop", "store")
  /\ tokens' = [tokens EXCEPT ![job[h].user] = 0]
  /\ UNCHANGED <<user, codes>>

\* ... and then save the new one.
StoreToken(h) ==
  /\ Goto(h, "store", "idle")
  /\ tokens' = [tokens EXCEPT ![job[h].user] = @ + 1]
  /\ UNCHANGED <<user, codes>>

\* resetPassword and UserService.update read the user and save it.
ReadUser(h, kind, u) ==
  /\ job[h].pc = "idle"
  /\ Exists(u)
  /\ Request
  /\ job' = [job EXCEPT ![h] = [Holding(h, u, user[u].points) EXCEPT !.kind = kind, !.user = u]]
  /\ UNCHANGED tables

\* Mutant: other users keep the token.
UpdateOwnPushToken(h, u, d) ==
  /\ user[u].state # "none"
  /\ Request
  /\ job[h].pc = "idle"
  /\ job' = [job EXCEPT ![h] = [Idle EXCEPT !.pc = "push", !.user = u, !.push = d]]
  /\ UNCHANGED tables

\* updateUserPushToken: "nullify any other users with the same token", ...  The
\* token is optional: null, NoDevice here, equals nobody's and clears one's own (a
\* body without one is left out).
UpdateUserPushToken(h, u, d) ==
  /\ user[u].state # "none"
  /\ Request
  /\ job[h].pc = "idle"
  /\ job' = [job EXCEPT ![h] = [Idle EXCEPT !.pc = "push", !.user = u, !.push = d]]
  /\ user' = [v \in Users |-> IF v # u /\ user[v].push = d THEN [user[v] EXCEPT !.push = NoDevice]
                              ELSE user[v]]
  /\ UNCHANGED <<tokens, codes>>

\* ... "then update the current user's token", if the row is still there.
SetPushToken(h) ==
  LET j == job[h] IN
  /\ Goto(h, "push", "idle")
  /\ user' = IF Exists(j.user) THEN [user EXCEPT ![j.user].push = j.push] ELSE user
  /\ UNCHANGED <<tokens, codes>>

\* A user others were referred by cannot be deleted.  Refresh tokens stay.
RemoveUser(u) ==
  /\ Exists(u)
  /\ \A v \in Users : user[v].referrer # u
  /\ Request
  /\ user' = [user EXCEPT ![u] = [NoRow EXCEPT !.state = "removed"]]
  /\ UNCHANGED <<tokens, codes, job>>
-----------------------------------------------------------------------------
\* verifyUserByEmail creates a code, whether the email has a user or not.
CreateOTPLog(u) ==
  /\ Len(codes) < MaxCodes
  /\ codes' = Append(codes, [email |-> u, age |-> 0, used |-> FALSE, uses |-> 0])
  /\ UNCHANGED <<user, tokens, job, bounds>>

Latest(i) == \A k \in DOMAIN codes : codes[k].email = codes[i].email => k <= i

\* Mutant: isDeactivated is not looked at.
VerifyOTPUnchecked(h, i) ==
  /\ job[h].pc = "idle"
  /\ Latest(i)
  /\ Request
  /\ job' = [job EXCEPT ![h] = [Idle EXCEPT !.code = i,
                                  !.pc = IF codes[i].age > Lifetime THEN "lapse" ELSE "mark"]]
  /\ UNCHANGED tables

\* Only the latest code of the email is accepted, unused and not expired.
VerifyOTP(h, i) ==
  /\ job[h].pc = "idle"
  /\ Latest(i)
  /\ ~codes[i].used
  /\ Request
  /\ job' = [job EXCEPT ![h] = [Idle EXCEPT !.code = i,
                                  !.pc = IF codes[i].age > Lifetime THEN "lapse" ELSE "mark"]]
  /\ UNCHANGED tables

\* isDeactivated is written; the verification answers with OK after "mark".
Deactivate(h) ==
  LET j == job[h] IN
  /\ j.pc \in {"mark", "lapse"}
  /\ Goto(h, j.pc, "idle")
  /\ codes' = [codes EXCEPT ![j.code].used = TRUE,
                            ![j.code].uses = IF j.pc = "mark" THEN @ + 1 ELSE @]
  /\ UNCHANGED <<user, tokens>>

\* Five minutes pass.
Tick ==
  /\ \E i \in DOMAIN codes : codes[i].age <= Lifetime
  /\ codes' = [i \in DOMAIN codes |->
                 [codes[i] EXCEPT !.age = IF @ > Lifetime THEN @ ELSE @ + 1]]
  /\ UNCHANGED <<user, tokens, job, bounds>>
-----------------------------------------------------------------------------
\* A query fails and the request ends with an error.
Fail(h) ==
  /\ faults < MaxFaults
  /\ job[h].pc # "idle"
  /\ job' = [job EXCEPT ![h] = Idle]
  /\ faults' = faults + 1
  /\ UNCHANGED <<tables, requests, overlapped>>

Crash ==
  /\ faults < MaxFaults
  /\ \E h \in Handlers : job[h].pc # "idle"
  /\ job' = [h \in Handlers |-> Idle]
  /\ faults' = faults + 1
  /\ UNCHANGED <<tables, requests, overlapped>>

Step(h) ==
  \/ \E r \in Users : FindReferrer(h, r)
  \/ SaveUser(h) \/ InsertUser(h) \/ SaveWallet(h)
  \/ DropTokens(h) \/ StoreToken(h)
  \/ SetPushToken(h) \/ Deactivate(h)

Next ==
  \/ \E h \in Handlers, u \in Users :
       \/ \E r \in Users \cup {NoUser} : Register(h, u, r)
       \/ Login(h, u) \/ LoginWithOAuth(h, u) \/ RefreshTokens(h, u)
       \/ \E kind \in {"Reset", "Update"} : ReadUser(h, kind, u)
       \/ \E d \in Devices \cup {NoDevice} : UpdateUserPushToken(h, u, d)
  \/ \E u \in Users : RemoveUser(u) \/ CreateOTPLog(u)
  \/ \E h \in Handlers : Step(h) \/ Fail(h) \/ \E i \in DOMAIN codes : VerifyOTP(h, i)
  \/ Tick \/ Crash

Spec == Init /\ [][Next]_vars
-----------------------------------------------------------------------------
TypeOK ==
  /\ user \in [Users -> User]
  /\ tokens \in [Users -> Nat]
  /\ codes \in Seq(Code)
  /\ job \in [Handlers -> Job]
  /\ requests \in 0..MaxRequests
  /\ faults \in 0..MaxFaults
  /\ overlapped \in BOOLEAN

\* storeRefreshToken deletes before it saves: a user never has more refresh
\* tokens than requests can run at once, however many logins and refreshes
\* there have been, and one when no two requests overlapped.
TokensBounded ==
  \A u \in Users : tokens[u] <= (IF overlapped THEN Cardinality(Handlers) ELSE 1)

\* verifyOTP reads the code and marks it afterwards: a code is accepted more
\* than once only by requests that overlap, and no more often than they do.
CodeUsesBounded ==
  \A i \in DOMAIN codes : codes[i].uses <= (IF overlapped THEN Cardinality(Handlers) ELSE 1)

\* Unless requests overlapped a push token belongs to one user: neither a
\* profile update nor a registration gives a token back that was nullified.
PushTokenUnique ==
  ~overlapped => \A u, v \in Users : user[u].push = user[v].push /\ u # v => user[u].push = NoDevice

\* Unless requests overlapped every user that was referred is counted in the
\* points of the referrer, though failures strike between the two writes.
ReferralsCounted ==
  ~overlapped => \A r \in Users : Exists(r) =>
    user[r].points >= Cardinality({u \in Users : Exists(u) /\ user[u].referrer = r})

\* Without failures every user gets a wallet, even when two requests register one
\* email: only the request that inserted it sees it without one.  The exception are
\* users a request inserts again by saving what it had read of them before another,
\* running at the same time, removed them: nothing gives those a wallet.
WalletForEveryUser ==
  faults = 0 => \A u \in Users : Exists(u) /\ ~user[u].wallet =>
    \/ \E h \in Handlers : job[h].pc = "wallet" /\ job[h].user = u
    \/ user[u].state = "revived" /\ overlapped

\* A password that is set stays set while the user lives: entities read before
\* a reset and saved after it do not take it back.
PasswordKept ==
  [][\A u \in Users : Exists(u) /\ user[u].password => user'[u].password \/ user'[u].state = "removed"]_vars

\* "5 minutes in milliseconds" (createOTPLog's comment on the lifetime): no code
\* older than five minutes is accepted.
FiveMinutes ==
  [][\A h \in Handlers :
       job[h].pc = "idle" /\ job'[h].pc = "mark" => codes[job'[h].code].age <= 1]_vars
=============================================================================
