------------------------ MODULE NotificationsProofs --------------------------
(***************************************************************************)
(* Proofs about notifications and the gateway, for any users, messages,    *)
(* sockets, handlers, retries and faults.                                  *)
(***************************************************************************)
EXTENDS Notifications, FiniteSetTheorems, TLAPS

\* Two facts about finite sets.
LEMMA Interval ==
  ASSUME NEW k \in Nat
  PROVE  IsFiniteSet(1..k) /\ Cardinality(1..k) = k
<1>1. 1 \in Int /\ k \in Int
  OBVIOUS
<1>2. IsFiniteSet(1..k) /\ Cardinality(1..k) = IF 1 > k THEN 0 ELSE k - 1 + 1
  BY <1>1, FS_Interval
<1> QED BY <1>2

LEMMA OneLess ==
  ASSUME NEW S, NEW T, NEW x \in S, IsFiniteSet(S), T = S \ {x}, NEW v \in Nat, v = Cardinality(S)
  PROVE  Cardinality(T) = v - 1 /\ v - 1 \in Nat
<1>1. S # {}
  OBVIOUS
<1>2. v # 0
  BY <1>1, FS_EmptySet
<1>3. Cardinality(S \ {x}) = Cardinality(S) - 1
  BY FS_RemoveElement
<1> QED BY <1>2, <1>3

USE NotificationsAssumption

Typed ==
  /\ waiting \in [Msgs -> Nat]
  /\ done \subseteq Msgs
  /\ server \in {"up", "deaf", "down"}
  /\ content \in [Msgs -> Content \cup {NoContent}]
  /\ rows \in Seq(Row)
  /\ began \in Nat
  /\ mail \in [Msgs -> Nat]
  /\ mailed \cup refused \subseteq Msgs
  /\ socket \in [Sockets -> Socket]
  /\ userSockets \in [Users -> Sockets \cup {NoSocket}]
  /\ job \in [Handlers -> Job]
  /\ requests \in 0..MaxRequests
  /\ faults \in 0..MaxFaults

\* What the place of a handler says of its message, its user, its row and its
\* socket.
JobMeans(h) ==
  LET j == job[h] IN
  /\ j.kind = "None" <=> j.pc = "idle"
  /\ j.kind = "Message" <=> j.msg # NoMsg
  /\ j.kind = "Message" =>
       /\ j.user = content[j.msg].user
       /\ Addressed(j.msg) => j.pc \in {"save", "retried"} \/ Stored(j.msg)
       /\ content[j.msg].channel = "EMAIL" => HandedOver(j.msg) \/ faults > 0
  /\ j.pc \in {"save", "saved", "count", "emit", "recent", "confirm", "mark"} => j.user \in Users
  /\ j.pc \in {"save", "saved"} => j.kind \in {"Message", "Direct"}
  /\ j.pc \in {"push", "ack", "retried"} => j.kind = "Message"
  /\ j.pc \in {"recent", "confirm"} => j.kind = "Connect"
  /\ j.pc = "mark" => j.kind \in {"Mark", "MarkAll"}
  /\ j.pc \in {"count", "emit", "recent", "confirm"} => j.socket \in Sockets
  /\ j.kind = "Connect" => j.pc \in {"count", "emit", "recent", "confirm"}
  /\ j.pc = "saved" => j.row \in DOMAIN rows /\ rows[j.row].user = j.user
  /\ j.socket \in Sockets =>
       /\ socket[j.socket].state # "new"
       /\ socket[j.socket].state # "closed" => socket[j.socket].user = j.user

JobsMean == \A h \in Handlers : JobMeans(h)

\* Nothing is known of a message that was not published, and nothing runs in a
\* process that is down.
QueueMeans ==
  /\ \A m \in Msgs :
       content[m] = NoContent =>
         /\ waiting[m] = 0 /\ m \notin done
         /\ \A h \in Handlers : job[h].msg # m
         /\ \A i \in DOMAIN rows : rows[i].msg # m
  /\ server = "down" => \A h \in Handlers : job[h] = Idle

\* The map's entries are sockets of their users that are not closed.
SocketsMean ==
  \A u \in Users :
    userSockets[u] # NoSocket =>
      /\ socket[userSockets[u]].state \in {"open", "on"}
      /\ socket[userSockets[u]].user = u

Base == Typed /\ JobsMean /\ QueueMeans /\ SocketsMean
-----------------------------------------------------------------------------
LEMMA IdleParts == /\ Idle \in Job /\ Idle.pc = "idle" /\ Idle.kind = "None" /\ Idle.msg = NoMsg
                   /\ Idle.user = NoUser /\ Idle.socket = NoSocket /\ Idle.count = 0 /\ Idle.row = 0
<1>1. MaxRetries \in Nat
  OBVIOUS
<1> QED BY <1>1 DEF Idle, Job, Places

LEMMA JobType ==
  ASSUME Typed, NEW h \in Handlers
  PROVE  /\ job[h] \in Job /\ job[h].pc \in Places
         /\ job[h].kind \in {"None", "Message", "Direct", "Connect", "Mark", "MarkAll"}
         /\ job[h].msg \in Msgs \cup {NoMsg} /\ job[h].user \in Users \cup {NoUser}
         /\ job[h].socket \in Sockets \cup {NoSocket} /\ job[h].at \in Nat /\ job[h].row \in Nat
         /\ job[h].count \in Nat /\ job[h].tries \in 0..MaxRetries /\ job[h].got \in SUBSET Nat
  BY DEF Typed, Job

LEMMA SocketType ==
  ASSUME Typed, NEW s \in Sockets
  PROVE  /\ socket[s] \in Socket /\ socket[s].state \in {"new", "open", "on", "closed"}
         /\ socket[s].user \in Users \cup {NoUser} /\ socket[s].got \in SUBSET Nat
         /\ socket[s].shown \in Nat /\ socket[s].outrun \in BOOLEAN
  BY DEF Typed, Socket

LEMMA SocketParts ==
  /\ ClosedSocket \in Socket /\ ClosedSocket.state = "closed" /\ ClosedSocket.user = NoUser
  /\ NewSocket \in Socket /\ NewSocket.state = "new"
  BY DEF ClosedSocket, NewSocket, Socket

LEMMA RowType ==
  ASSUME Typed
  PROVE  /\ Len(rows) \in Nat /\ DOMAIN rows = 1..Len(rows)
         /\ \A i \in DOMAIN rows : /\ i \in Nat /\ rows[i] \in Row /\ rows[i].user \in Users
                                   /\ rows[i].msg \in Msgs \cup {NoMsg} /\ rows[i].at \in Nat
                                   /\ rows[i].read \in BOOLEAN /\ rows[i].sent \in BOOLEAN
<1> DEFINE R == Row
<1>1. rows \in Seq(R)
  BY DEF Typed
<1> HIDE DEF R
<1>2. /\ Len(rows) \in Nat /\ DOMAIN rows = 1..Len(rows)
      /\ \A i \in DOMAIN rows : i \in Nat /\ rows[i] \in R
  BY <1>1
<1> QED BY <1>2 DEF R, Row

LEMMA ContentType ==
  ASSUME Typed, NEW m \in Msgs
  PROVE  content[m] \in Content \cup {NoContent} /\ content[m].user \in Users \cup {NoUser}
  BY DEF Typed, Content, NoContent

\* How a handler gets on.
Turns(h) ==
  /\ job' \in [Handlers -> Job]
  /\ \A g \in Handlers \ {h} : job'[g] = job[g]

Continues(h) ==
  /\ job'[h].kind = job[h].kind /\ job'[h].msg = job[h].msg /\ job'[h].user = job[h].user

LEMMA Stepped ==
  ASSUME Typed, NEW h \in Handlers, NEW pc, NEW j \in Job, Step(h, pc, j)
  PROVE  /\ Turns(h) /\ job[h].pc = pc
         /\ job'[h] = IF j.pc = "idle" THEN Idle ELSE j
<1> DEFINE k == IF j.pc = "idle" THEN Idle ELSE j
<1>1. job[h].pc = pc /\ job' = [job EXCEPT ![h] = k]
  BY DEF Step
<1>2. k \in Job /\ job \in [Handlers -> Job]
  BY IdleParts DEF Typed
<1> HIDE DEF k
<1>3. job'[h] = k /\ Turns(h)
  BY <1>1, <1>2 DEF Turns
<1> QED BY <1>1, <1>3 DEF k

LEMMA Onward ==
  ASSUME Typed, NEW h \in Handlers, NEW pc, NEW next \in Places, Goto(h, pc, next)
  PROVE  /\ Turns(h) /\ job[h].pc = pc
         /\ next = "idle" => job'[h] = Idle
         /\ next # "idle" => /\ Continues(h) /\ job'[h].pc = next /\ job'[h].socket = job[h].socket
                             /\ job'[h].row = job[h].row /\ job'[h].count = job[h].count
<1> DEFINE j == [job[h] EXCEPT !.pc = next]
<1>1. /\ j \in Job /\ j.pc = next /\ j.kind = job[h].kind /\ j.msg = job[h].msg /\ j.user = job[h].user
      /\ j.socket = job[h].socket /\ j.row = job[h].row /\ j.count = job[h].count
  BY JobType DEF Job
<1>2. Step(h, pc, j)
  BY DEF Goto
<1> HIDE DEF j
<1> QED BY <1>1, <1>2, Stepped DEF Continues

LEMMA Counted ==
  ASSUME Typed, Request \/ Fault \/ UNCHANGED counters
  PROVE  /\ requests' \in 0..MaxRequests /\ faults' \in 0..MaxFaults
         /\ faults' = faults \/ (Fault /\ faults' = faults + 1)
<1>1. MaxRequests \in Nat /\ MaxFaults \in Nat
  OBVIOUS
<1> QED BY <1>1 DEF Typed, Request, Fault, counters

\* Where a handler is after its emits.
LEMMA AfterPlaces ==
  ASSUME Base, NEW h \in Handlers, job[h].pc # "idle"
  PROVE  /\ AfterCreate(h) \in {"idle", "push", "ack"} /\ AfterEmit(h) \in {"idle", "push", "ack", "recent"}
         /\ AfterCreate(h) # "idle" /\ job[h].kind \in {"Message", "Direct"} => job[h].kind = "Message"
         /\ AfterEmit(h) \in {"push", "ack"} => job[h].kind = "Message"
         /\ AfterEmit(h) = "recent" <=> job[h].kind = "Connect"
         /\ job[h].kind = "Message" => AfterEmit(h) # "idle" /\ AfterCreate(h) # "idle"
  BY JobType DEF AfterCreate, AfterEmit, Base
-----------------------------------------------------------------------------
(***************************************************************************)
(* What each action does.                                                  *)
(***************************************************************************)
LEMMA AgainType ==
  ASSUME Typed, NEW m \in Msgs
  PROVE  /\ Again(m) \in [Msgs -> Nat] /\ Again(m)[m] = waiting[m] + 1
         /\ \A n \in Msgs \ {m} : Again(m)[n] = waiting[n]
<1>1. waiting \in [Msgs -> Nat] /\ waiting[m] \in Nat
  BY DEF Typed
<1> QED BY <1>1 DEF Again

LEMMA RequeuedType ==
  ASSUME Typed
  PROVE  /\ Requeued \in [Msgs -> Nat]
         /\ \A m \in Msgs : /\ IsFiniteSet(Callbacks(m)) /\ Cardinality(Callbacks(m)) \in Nat
                            /\ server = "up" => Requeued[m] = waiting[m] + Cardinality(Callbacks(m))
                            /\ server # "up" => Requeued[m] = waiting[m]
<1>1. waiting \in [Msgs -> Nat] /\ \A m \in Msgs : waiting[m] \in Nat
  BY DEF Typed
<1>2. IsFiniteSet(Handlers)
  OBVIOUS
<1>3. \A m \in Msgs : IsFiniteSet(Callbacks(m)) /\ Cardinality(Callbacks(m)) \in Nat
  <2>1. \A m \in Msgs : Callbacks(m) \in SUBSET Handlers
    BY DEF Callbacks
  <2> QED BY <1>2, <2>1, FS_Subset, FS_CardinalityType
<1>4. CASE server = "up"
  <2> DEFINE C(m) == Cardinality(Callbacks(m))
  <2>1. \A m \in Msgs : C(m) \in Nat
    BY <1>3
  <2>2. Requeued = [m \in Msgs |-> waiting[m] + C(m)]
    BY <1>4 DEF Requeued
  <2> HIDE DEF C
  <2>3. Requeued \in [Msgs -> Nat] /\ \A m \in Msgs : Requeued[m] = waiting[m] + C(m)
    BY <1>1, <2>1, <2>2
  <2> QED BY <1>3, <1>4, <2>3 DEF C
<1>5. CASE server # "up"
  BY <1>1, <1>3, <1>5 DEF Requeued
<1> QED BY <1>4, <1>5

LEMMA PublishDoes ==
  ASSUME Base, NEW m \in Msgs, NEW c \in Content, Publish(m, c)
  PROVE  /\ Request /\ UNCHANGED <<done, server, table, mails, gateway, job>>
         /\ content[m] = NoContent
         /\ waiting' \in [Msgs -> Nat] /\ waiting'[m] = waiting[m] + 1
         /\ content' \in [Msgs -> Content \cup {NoContent}] /\ content'[m] = c /\ c # NoContent
         /\ \A n \in Msgs \ {m} : content'[n] = content[n] /\ waiting'[n] = waiting[n]
<1>1. content \in [Msgs -> Content \cup {NoContent}] /\ Typed
  BY DEF Base, Typed
<1>2. /\ Request /\ UNCHANGED <<done, server, table, mails, gateway, job>>
      /\ content[m] = NoContent /\ waiting' = Again(m)
      /\ content' = [content EXCEPT ![m] = c]
  BY DEF Publish
<1>3. c # NoContent
  BY DEF Content, NoContent
<1>4. waiting' \in [Msgs -> Nat] /\ waiting'[m] = waiting[m] + 1
      /\ \A n \in Msgs \ {m} : waiting'[n] = waiting[n]
  BY <1>1, <1>2, AgainType
<1> QED BY <1>1, <1>2, <1>3, <1>4

LEMMA ProcessDoes ==
  ASSUME Base, NEW h \in Handlers, NEW m \in Msgs, Process(h, m)
  PROVE  /\ UNCHANGED <<done, content, server, rows, mailed, refused, gateway, counters>>
         /\ server = "up" /\ waiting[m] > 0
         /\ waiting' \in [Msgs -> Nat] /\ waiting'[m] = waiting[m] - 1
         /\ \A n \in Msgs \ {m} : waiting'[n] = waiting[n]
         /\ Turns(h) /\ job[h].pc = "idle"
         /\ job'[h].kind = "Message" /\ job'[h].msg = m /\ job'[h].user = content[m].user
         /\ job'[h].socket = NoSocket /\ job'[h].pc \in {"save", "push", "ack"}
         /\ job'[h].pc = "save" <=> Addressed(m)
         /\ job'[h].pc = "save" => job'[h].user \in Users
         /\ began' \in Nat /\ mail' \in [Msgs -> Nat] /\ \A n \in Msgs : mail'[n] >= mail[n]
         /\ content[m].channel = "EMAIL" => mail'[m] > 0
<1> USE DEF Base
<1> DEFINE pc == Entry(content[m])
           j == [Idle EXCEPT !.pc = pc, !.kind = "Message", !.msg = m,
                             !.user = content[m].user, !.at = began]
<1>1. /\ server = "up" /\ waiting[m] > 0 /\ waiting' = [waiting EXCEPT ![m] = waiting[m] - 1]
      /\ Step(h, "idle", j)
      /\ UNCHANGED <<done, content, server, rows, mailed, refused, gateway, counters>>
      /\ began' = IF pc = "save" THEN began + 1 ELSE began
      /\ mail' = IF content[m].channel = "EMAIL" THEN [mail EXCEPT ![m] = mail[m] + 1] ELSE mail
  BY DEF Process
<1>2. /\ began \in Nat /\ mail \in [Msgs -> Nat] /\ waiting \in [Msgs -> Nat]
      /\ mail[m] \in Nat /\ waiting[m] \in Nat
  BY DEF Typed
<1>3. /\ pc \in {"save", "push", "ack"} /\ (pc = "save" <=> Addressed(m))
      /\ Addressed(m) => content[m].user \in Users
  BY ContentType DEF Entry, Addressed
<1> HIDE DEF pc
<1>4. /\ j \in Job /\ j.pc = pc /\ j.kind = "Message" /\ j.msg = m /\ j.user = content[m].user
      /\ j.socket = NoSocket
  BY <1>2, <1>3, ContentType, IdleParts DEF Job, Places
<1> HIDE DEF j
<1>5. Turns(h) /\ job[h].pc = "idle" /\ job'[h] = j
  BY <1>1, <1>3, <1>4, Stepped
<1>6. /\ waiting' \in [Msgs -> Nat] /\ waiting'[m] = waiting[m] - 1
      /\ \A n \in Msgs \ {m} : waiting'[n] = waiting[n]
  BY <1>1, <1>2
<1>7. /\ mail' \in [Msgs -> Nat] /\ \A n \in Msgs : mail'[n] >= mail[n]
      /\ content[m].channel = "EMAIL" => mail'[m] > 0
  <2>1. CASE content[m].channel = "EMAIL"
    BY <1>1, <1>2, <2>1
  <2>2. CASE content[m].channel # "EMAIL"
    BY <1>1, <1>2, <2>2
  <2> QED BY <2>1, <2>2
<1> QED BY <1>1, <1>2, <1>3, <1>4, <1>5, <1>6, <1>7

LEMMA AckDoes ==
  ASSUME Base, NEW h \in Handlers, Ack(h)
  PROVE  /\ UNCHANGED <<content, server, table, mails, gateway, counters>>
         /\ Turns(h) /\ job[h].pc = "ack" /\ job'[h] = Idle
         /\ job[h].kind = "Message" /\ job[h].msg \in Msgs
         /\ done' = done \cup {job[h].msg}
         /\ waiting' \in [Msgs -> Nat]
         /\ \/ waiting' = waiting
            \/ server # "up" /\ waiting' = Again(job[h].msg)
<1> USE DEF Base
<1>1. /\ Goto(h, "ack", "idle") /\ done' = done \cup {job[h].msg}
      /\ waiting' = waiting \/ (server # "up" /\ waiting' = Again(job[h].msg))
      /\ UNCHANGED <<content, server, table, mails, gateway, counters>>
  BY DEF Ack
<1>2. Turns(h) /\ job[h].pc = "ack" /\ job'[h] = Idle
  BY <1>1, Onward DEF Places
<1>3. job[h].kind = "Message" /\ job[h].msg \in Msgs
  BY <1>2, JobType DEF JobsMean, JobMeans
<1>4. waiting' \in [Msgs -> Nat]
  BY <1>1, <1>3, AgainType DEF Typed
<1> QED BY <1>1, <1>2, <1>3, <1>4

LEMMA AckRetriedDoes ==
  ASSUME Base, NEW h \in Handlers, AckRetried(h)
  PROVE  /\ UNCHANGED <<queue, table, mails, gateway, counters>>
         /\ Turns(h) /\ job[h].pc = "retried" /\ job'[h] = Idle
  BY Onward DEF Base, AckRetried, Places

LEMMA CreateDirectlyDoes ==
  ASSUME Base, NEW h \in Handlers, NEW u \in Users, CreateDirectly(h, u)
  PROVE  /\ Request /\ UNCHANGED <<queue, rows, mails, gateway>>
         /\ Turns(h) /\ job[h].pc = "idle" /\ began' \in Nat
         /\ job'[h].kind = "Direct" /\ job'[h].msg = NoMsg /\ job'[h].user = u
         /\ job'[h].socket = NoSocket /\ job'[h].pc = "save"
<1> USE DEF Base
<1> DEFINE j == [Idle EXCEPT !.pc = "save", !.kind = "Direct", !.user = u, !.at = began]
<1>1. Request /\ Step(h, "idle", j) /\ began' = began + 1 /\ UNCHANGED <<queue, rows, mails, gateway>>
  BY DEF CreateDirectly
<1>2. /\ j \in Job /\ j.pc = "save" /\ j.kind = "Direct" /\ j.msg = NoMsg /\ j.user = u
      /\ j.socket = NoSocket /\ began \in Nat
  BY IdleParts DEF Typed, Job, Places
<1> HIDE DEF j
<1> QED BY <1>1, <1>2, Stepped

\* A socket is what it was, but for rows that outran its counts.
SameSocket(s) ==
  /\ socket'[s].state = socket[s].state /\ socket'[s].user = socket[s].user
  /\ socket'[s].got = socket[s].got /\ socket'[s].shown = socket[s].shown

RowsKept ==
  /\ DOMAIN rows \subseteq DOMAIN rows'
  /\ \A i \in DOMAIN rows : /\ rows'[i].user = rows[i].user /\ rows'[i].msg = rows[i].msg
                            /\ rows'[i].at = rows[i].at

LEMMA SaveDoes ==
  ASSUME Base, NEW h \in Handlers, NEW u \in Users, u = job[h].user, Save(h)
  PROVE  /\ UNCHANGED <<queue, began, mails, userSockets, counters>>
         /\ Turns(h) /\ job[h].pc = "save" /\ Continues(h) /\ job'[h].pc = "saved"
         /\ job'[h].socket = job[h].socket /\ job'[h].row = Len(rows) + 1
         /\ rows' \in Seq(Row) /\ DOMAIN rows' = DOMAIN rows \cup {Len(rows) + 1}
         /\ Len(rows) + 1 \notin DOMAIN rows
         /\ \A i \in DOMAIN rows : rows'[i] = rows[i]
         /\ rows'[Len(rows) + 1].user = u /\ rows'[Len(rows) + 1].msg = job[h].msg
         /\ rows'[Len(rows) + 1].sent = FALSE
         /\ socket' \in [Sockets -> Socket] /\ \A s \in Sockets : SameSocket(s)
         /\ \A s \in Sockets : socket'[s].outrun =
              (socket[s].outrun \/ \E g \in Handlers : job[g].pc = "emit" /\ job[g].socket = s /\ job[g].user = u)
<1> USE DEF Base
<1> DEFINE n == Len(rows) + 1
           j == [job[h] EXCEPT !.pc = "saved", !.at = 0, !.row = n]
           r == [user |-> u, msg |-> job[h].msg, at |-> job[h].at, read |-> FALSE, sent |-> FALSE]
           o(s) == socket[s].outrun \/ \E g \in Handlers : /\ job[g].pc = "emit" /\ job[g].socket = s
                                                           /\ job[g].user = u
           x(s) == [socket[s] EXCEPT !.outrun = o(s)]
<1>1. /\ Step(h, "save", j) /\ rows' = Append(rows, r)
      /\ socket' = [s \in Sockets |-> x(s)] /\ UNCHANGED <<queue, began, mails, userSockets, counters>>
  BY DEF Save, Outrun
<1>2. /\ j \in Job /\ j.pc = "saved" /\ j.kind = job[h].kind /\ j.msg = job[h].msg /\ j.user = job[h].user
      /\ j.socket = job[h].socket /\ j.row = n
  <2>1. n \in Nat
    BY RowType
  <2> QED BY <2>1, JobType DEF Job, Places
<1>3. r \in Row /\ r.user = u /\ r.msg = job[h].msg /\ r.sent = FALSE
  BY JobType DEF Row
<1>4. ASSUME NEW s \in Sockets
      PROVE  /\ x(s) \in Socket /\ x(s).state = socket[s].state /\ x(s).user = socket[s].user
             /\ x(s).got = socket[s].got /\ x(s).shown = socket[s].shown /\ x(s).outrun = o(s)
  <2>1. o(s) \in BOOLEAN
    OBVIOUS
  <2> HIDE DEF o
  <2> QED BY <2>1, SocketType DEF Socket
<1> HIDE DEF j, r, x
<1>5. Turns(h) /\ job[h].pc = "save" /\ job'[h] = j
  BY <1>1, <1>2, Stepped
<1>6. socket' \in [Sockets -> Socket] /\ \A s \in Sockets : socket'[s] = x(s)
  BY <1>1, <1>4
<1>7. /\ rows' \in Seq(Row) /\ DOMAIN rows' = DOMAIN rows \cup {n} /\ n \notin DOMAIN rows
      /\ \A i \in DOMAIN rows : rows'[i] = rows[i]
      /\ rows'[n] = r
  <2> DEFINE R == Row
  <2>1. rows \in Seq(R) /\ r \in R
    BY <1>3 DEF Typed
  <2> HIDE DEF R
  <2>2. /\ rows' \in Seq(R) /\ DOMAIN rows' = DOMAIN rows \cup {n} /\ n \notin DOMAIN rows
        /\ \A i \in DOMAIN rows : rows'[i] = rows[i]
        /\ rows'[n] = r
    BY <1>1, <2>1
  <2> QED BY <2>2 DEF R
<1>8. \A s \in Sockets : SameSocket(s) /\ socket'[s].outrun = o(s)
  BY <1>4, <1>6 DEF SameSocket
<1> QED BY <1>1, <1>2, <1>3, <1>5, <1>6, <1>7, <1>8 DEF Continues

LEMMA SendNotificationDoes ==
  ASSUME Base, NEW h \in Handlers, NEW u \in Users, u = job[h].user,
         NEW i \in DOMAIN rows, i = job[h].row, SendNotification(h)
  PROVE  /\ UNCHANGED <<queue, began, mails, userSockets, counters>>
         /\ Turns(h) /\ job[h].pc = "saved"
         /\ \/ /\ userSockets[u] = NoSocket /\ UNCHANGED socket
               /\ \/ AfterCreate(h) = "idle" /\ job'[h] = Idle
                  \/ /\ AfterCreate(h) # "idle" /\ Continues(h) /\ job'[h].pc = AfterCreate(h)
                     /\ job'[h].socket = job[h].socket
            \/ /\ userSockets[u] # NoSocket
               /\ Continues(h) /\ job'[h].pc = "count" /\ job'[h].socket = userSockets[u]
               /\ socket' \in [Sockets -> Socket]
               /\ \A s \in Sockets \ {userSockets[u]} : socket'[s] = socket[s]
               /\ socket'[userSockets[u]].got = socket[userSockets[u]].got \cup {i}
               /\ socket'[userSockets[u]].state = socket[userSockets[u]].state
               /\ socket'[userSockets[u]].user = socket[userSockets[u]].user
               /\ socket'[userSockets[u]].shown = socket[userSockets[u]].shown
               /\ socket'[userSockets[u]].outrun = socket[userSockets[u]].outrun
         /\ rows' \in Seq(Row) /\ DOMAIN rows' = DOMAIN rows
         /\ \A k \in DOMAIN rows \ {i} : rows'[k] = rows[k]
         /\ rows'[i].user = rows[i].user /\ rows'[i].msg = rows[i].msg /\ rows'[i].at = rows[i].at
         /\ rows'[i].read = rows[i].read
<1> USE DEF Base
<1>0. PICK s \in Sockets \cup {NoSocket} : s = userSockets[u]
  BY DEF Typed
<1> DEFINE k == IF s = NoSocket THEN [job[h] EXCEPT !.pc = AfterCreate(h), !.row = 0]
                ELSE [job[h] EXCEPT !.pc = "count", !.row = 0, !.socket = s]
           r == [rows[i] EXCEPT !.sent = TRUE]
           x == [socket[s] EXCEPT !.got = socket[s].got \cup {i}]
<1>1. /\ Step(h, "saved", k) /\ rows' = [rows EXCEPT ![i] = r]
      /\ socket' = IF s = NoSocket THEN socket ELSE [socket EXCEPT ![s] = x]
      /\ UNCHANGED <<queue, began, mails, userSockets, counters>>
  BY <1>0 DEF SendNotification, Told
<1>2. AfterCreate(h) \in {"idle", "push", "ack"}
  BY DEF AfterCreate
<1>3. /\ k \in Job /\ k.kind = job[h].kind /\ k.msg = job[h].msg /\ k.user = job[h].user
      /\ k.pc = (IF s = NoSocket THEN AfterCreate(h) ELSE "count")
      /\ k.socket = (IF s = NoSocket THEN job[h].socket ELSE s)
  BY <1>2, JobType DEF Job, Places
<1>4. /\ r \in Row /\ r.user = rows[i].user /\ r.msg = rows[i].msg /\ r.at = rows[i].at
      /\ r.read = rows[i].read
  BY RowType DEF Row
<1> HIDE DEF k, r
<1>5. Turns(h) /\ job[h].pc = "saved" /\ job'[h] = IF k.pc = "idle" THEN Idle ELSE k
  BY <1>1, <1>3, Stepped
<1>6. /\ rows' \in Seq(Row) /\ DOMAIN rows' = DOMAIN rows /\ rows'[i] = r
      /\ \A l \in DOMAIN rows \ {i} : rows'[l] = rows[l]
  <2> DEFINE R == Row
  <2>1. rows \in Seq(R) /\ r \in R
    BY <1>4 DEF Typed
  <2> HIDE DEF R
  <2>2. rows' \in Seq(R) /\ DOMAIN rows' = DOMAIN rows /\ rows'[i] = r
        /\ \A l \in DOMAIN rows \ {i} : rows'[l] = rows[l]
    BY <1>1, <2>1
  <2> QED BY <2>2 DEF R
<1>7. CASE s = NoSocket
  BY <1>0, <1>1, <1>3, <1>4, <1>5, <1>6, <1>7, <1>2 DEF Continues
<1>8. CASE s # NoSocket
  <2>1. /\ s \in Sockets /\ x \in Socket /\ x.got = socket[s].got \cup {i} /\ x.state = socket[s].state
        /\ x.user = socket[s].user /\ x.shown = socket[s].shown /\ x.outrun = socket[s].outrun
    <3>1. i \in Nat /\ s \in Sockets
      BY <1>8, RowType
    <3> QED BY <3>1, SocketType DEF Socket
  <2> HIDE DEF x
  <2>2. /\ socket' \in [Sockets -> Socket] /\ socket'[s] = x
        /\ \A t \in Sockets \ {s} : socket'[t] = socket[t]
    BY <1>1, <1>8, <2>1 DEF Typed
  <2> QED BY <1>0, <1>1, <1>3, <1>4, <1>5, <1>6, <1>8, <2>1, <2>2 DEF Continues
<1> QED BY <1>7, <1>8

LEMMA RowsFinite ==
  ASSUME Typed, NEW S \in SUBSET DOMAIN rows
  PROVE  IsFiniteSet(S) /\ Cardinality(S) \in Nat /\ S \subseteq Nat
<1>1. IsFiniteSet(DOMAIN rows) /\ DOMAIN rows \subseteq Nat
  BY RowType, FS_Interval
<1> QED BY <1>1, FS_Subset, FS_CardinalityType

LEMMA OfFinite ==
  ASSUME Typed, NEW u
  PROVE  Unread(u) \in Nat /\ \A i : IsFiniteSet(Newer(u, i)) /\ Cardinality(Newer(u, i)) \in Nat
<1>1. {i \in Of(u) : ~rows[i].read} \in SUBSET DOMAIN rows /\ \A i : Newer(u, i) \in SUBSET DOMAIN rows
  BY DEF Of, Newer
<1> QED BY <1>1, RowsFinite DEF Unread

LEMMA GetUnreadCountDoes ==
  ASSUME Base, NEW h \in Handlers, GetUnreadCount(h)
  PROVE  /\ UNCHANGED <<queue, table, mails, gateway, counters>>
         /\ Turns(h) /\ job[h].pc = "count" /\ Continues(h) /\ job'[h].pc = "emit"
         /\ job'[h].socket = job[h].socket /\ job'[h].count = Unread(job[h].user)
<1> USE DEF Base
<1>0. PICK n \in Nat : n = Unread(job[h].user)
  BY OfFinite
<1> DEFINE j == [job[h] EXCEPT !.pc = "emit", !.count = n]
<1>1. Step(h, "count", j) /\ UNCHANGED <<queue, table, mails, gateway, counters>>
  BY <1>0 DEF GetUnreadCount
<1>2. /\ j \in Job /\ j.pc = "emit" /\ j.kind = job[h].kind /\ j.msg = job[h].msg /\ j.user = job[h].user
      /\ j.socket = job[h].socket /\ j.count = n
  BY JobType DEF Job, Places
<1> HIDE DEF j
<1> QED BY <1>0, <1>1, <1>2, Stepped DEF Continues

LEMMA EmitCountDoes ==
  ASSUME Base, NEW h \in Handlers, NEW s \in Sockets, s = job[h].socket, EmitCount(h)
  PROVE  /\ UNCHANGED <<queue, table, mails, userSockets, counters>>
         /\ Turns(h) /\ job[h].pc = "emit"
         /\ \/ AfterEmit(h) = "idle" /\ job'[h] = Idle
            \/ /\ AfterEmit(h) # "idle" /\ Continues(h) /\ job'[h].pc = AfterEmit(h)
               /\ job'[h].socket = s
         /\ socket' \in [Sockets -> Socket]
         /\ \A t \in Sockets \ {s} : socket'[t] = socket[t]
         /\ socket'[s].state = socket[s].state /\ socket'[s].user = socket[s].user
         /\ socket'[s].got = socket[s].got /\ socket'[s].outrun = socket[s].outrun
         /\ socket[s].state # "closed" => socket'[s].shown = job[h].count
<1> USE DEF Base
<1> DEFINE j == [job[h] EXCEPT !.pc = AfterEmit(h), !.count = 0]
           x == IF socket[s].state = "closed" THEN socket[s] ELSE [socket[s] EXCEPT !.shown = job[h].count]
<1>1. /\ Step(h, "emit", j) /\ UNCHANGED <<queue, table, mails, userSockets, counters>>
      /\ socket' = IF socket[s].state = "closed" THEN socket ELSE [socket EXCEPT ![s].shown = job[h].count]
  BY DEF EmitCount
<1>2. job[h].pc = "emit"
  BY <1>1 DEF Step
<1>3. AfterEmit(h) \in Places
  BY <1>2, AfterPlaces DEF Places
<1>4. /\ j \in Job /\ j.pc = AfterEmit(h) /\ j.kind = job[h].kind /\ j.msg = job[h].msg /\ j.user = job[h].user
      /\ j.socket = s
  BY <1>3, JobType DEF Job
<1> HIDE DEF j
<1>5. Turns(h) /\ job'[h] = IF j.pc = "idle" THEN Idle ELSE j
  BY <1>1, <1>4, Stepped
<1>6. socket' = [socket EXCEPT ![s] = x] /\ socket \in [Sockets -> Socket]
  BY <1>1 DEF Typed
<1>7. /\ x \in Socket /\ x.state = socket[s].state /\ x.user = socket[s].user
      /\ x.got = socket[s].got /\ x.outrun = socket[s].outrun
      /\ socket[s].state # "closed" => x.shown = job[h].count
  BY SocketType, JobType DEF Socket
<1> HIDE DEF x
<1>8. socket' \in [Sockets -> Socket] /\ socket'[s] = x /\ \A t \in Sockets \ {s} : socket'[t] = socket[t]
  BY <1>6, <1>7
<1> QED BY <1>1, <1>2, <1>4, <1>5, <1>7, <1>8 DEF Continues

LEMMA PushDoes ==
  ASSUME Base, NEW h \in Handlers, SendPush(h) \/ PushFails(h)
  PROVE  /\ UNCHANGED <<queue, table, mails, gateway, counters>>
         /\ Turns(h) /\ job[h].pc = "push" /\ Continues(h) /\ job'[h].pc \in {"push", "ack"}
         /\ job'[h].socket = job[h].socket
<1> USE DEF Base
<1>1. CASE SendPush(h)
  BY <1>1, Onward DEF SendPush, Places
<1>2. CASE PushFails(h)
  <2> DEFINE j == IF job[h].tries < MaxRetries THEN [job[h] EXCEPT !.tries = job[h].tries + 1]
                  ELSE [job[h] EXCEPT !.pc = "ack"]
  <2>1. Step(h, "push", j) /\ UNCHANGED <<queue, table, mails, gateway, counters>>
    BY <1>2 DEF PushFails
  <2>2. job[h].pc = "push"
    BY <2>1 DEF Step
  <2>3. /\ j \in Job /\ j.pc \in {"push", "ack"} /\ j.kind = job[h].kind /\ j.msg = job[h].msg
        /\ j.user = job[h].user /\ j.socket = job[h].socket
    <3>1. MaxRetries \in Nat
      OBVIOUS
    <3> QED BY <2>2, <3>1, JobType DEF Job, Places
  <2> HIDE DEF j
  <2>4. Turns(h) /\ job'[h] = j
    BY <2>1, <2>3, Stepped
  <2> QED BY <2>1, <2>2, <2>3, <2>4 DEF Continues
<1> QED BY <1>1, <1>2

LEMMA SendEmailDoes ==
  ASSUME Base, NEW m \in Msgs, SendEmail(m)
  PROVE  /\ UNCHANGED <<queue, table, gateway, job, counters>>
         /\ mail' \in [Msgs -> Nat] /\ mailed' \cup refused' \subseteq Msgs
         /\ \A n \in Msgs : HandedOver(n) => HandedOver(n)'
<1>1. mail \in [Msgs -> Nat] /\ mail[m] \in Nat /\ mailed \cup refused \subseteq Msgs
  BY DEF Base, Typed
<1>2. /\ mail[m] > 0 /\ mail' = [mail EXCEPT ![m] = mail[m] - 1]
      /\ UNCHANGED <<queue, table, gateway, job, counters>>
      /\ mailed \subseteq mailed' /\ refused \subseteq refused' /\ m \in mailed' \cup refused'
      /\ mailed' \cup refused' \subseteq Msgs
  BY <1>1 DEF SendEmail
<1>3. mail' \in [Msgs -> Nat] /\ \A n \in Msgs \ {m} : mail'[n] = mail[n]
  BY <1>1, <1>2
<1> QED BY <1>2, <1>3 DEF HandedOver

LEMMA ConnectDoes ==
  ASSUME Base, NEW h \in Handlers, NEW s \in Sockets, NEW u \in Users, Connect(h, s, u)
  PROVE  /\ Request /\ UNCHANGED <<queue, table, mails>>
         /\ Turns(h) /\ job[h].pc = "idle" /\ socket[s].state = "new"
         /\ job'[h].pc = "count" /\ job'[h].kind = "Connect" /\ job'[h].user = u /\ job'[h].socket = s
         /\ job'[h].msg = NoMsg
         /\ socket' \in [Sockets -> Socket]
         /\ \A t \in Sockets \ {s} : socket'[t] = socket[t]
         /\ socket'[s].state = "open" /\ socket'[s].user = u
         /\ userSockets' \in [Users -> Sockets \cup {NoSocket}] /\ userSockets'[u] = s
         /\ \A v \in Users \ {u} : userSockets'[v] = userSockets[v]
<1> USE DEF Base
<1> DEFINE j == [Idle EXCEPT !.pc = "count", !.kind = "Connect", !.user = u, !.socket = s]
           x == [socket[s] EXCEPT !.state = "open", !.user = u]
<1>1. /\ Request /\ UNCHANGED <<queue, table, mails>> /\ socket[s].state = "new" /\ Step(h, "idle", j)
      /\ socket' = [socket EXCEPT ![s].state = "open", ![s].user = u]
      /\ userSockets' = [userSockets EXCEPT ![u] = s]
  BY DEF Connect
<1>2. socket \in [Sockets -> Socket] /\ userSockets \in [Users -> Sockets \cup {NoSocket}]
  BY DEF Typed
<1>3. socket' = [socket EXCEPT ![s] = x]
  BY <1>1, <1>2
<1>4. j \in Job /\ j.pc = "count" /\ j.kind = "Connect" /\ j.user = u /\ j.socket = s /\ j.msg = NoMsg
  BY IdleParts DEF Job, Places
<1>5. x \in Socket /\ x.state = "open" /\ x.user = u
  BY SocketType DEF Socket
<1> HIDE DEF j, x
<1>6. Turns(h) /\ job[h].pc = "idle" /\ job'[h] = j
  BY <1>1, <1>4, Stepped
<1>7. /\ socket' \in [Sockets -> Socket] /\ socket'[s] = x
      /\ \A t \in Sockets \ {s} : socket'[t] = socket[t]
  BY <1>2, <1>3, <1>5
<1>8. /\ userSockets' \in [Users -> Sockets \cup {NoSocket}] /\ userSockets'[u] = s
      /\ \A v \in Users \ {u} : userSockets'[v] = userSockets[v]
  BY <1>1, <1>2
<1> QED BY <1>1, <1>4, <1>5, <1>6, <1>7, <1>8

LEMMA GetRecentDoes ==
  ASSUME Base, NEW h \in Handlers, GetRecent(h)
  PROVE  /\ UNCHANGED <<queue, table, mails, gateway, counters>>
         /\ Turns(h) /\ job[h].pc = "recent" /\ Continues(h) /\ job'[h].pc = "confirm"
         /\ job'[h].socket = job[h].socket /\ job'[h].got = MostRecent(job[h].user, Recent)
<1> USE DEF Base
<1>0. PICK S \in SUBSET Nat : S = MostRecent(job[h].user, Recent)
  <2>1. MostRecent(job[h].user, Recent) \in SUBSET DOMAIN rows
    BY DEF MostRecent, Of
  <2> QED BY <2>1, RowsFinite
<1> DEFINE j == [job[h] EXCEPT !.pc = "confirm", !.got = S]
<1>1. Step(h, "recent", j) /\ UNCHANGED <<queue, table, mails, gateway, counters>>
  BY <1>0 DEF GetRecent
<1>2. /\ j \in Job /\ j.pc = "confirm" /\ j.kind = job[h].kind /\ j.msg = job[h].msg /\ j.user = job[h].user
      /\ j.socket = job[h].socket /\ j.got = S
  BY JobType DEF Job, Places
<1> HIDE DEF j
<1> QED BY <1>0, <1>1, <1>2, Stepped DEF Continues

LEMMA ConfirmConnectionDoes ==
  ASSUME Base, NEW h \in Handlers, NEW s \in Sockets, s = job[h].socket, ConfirmConnection(h)
  PROVE  /\ UNCHANGED <<queue, table, mails, userSockets, counters>>
         /\ Turns(h) /\ job[h].pc = "confirm" /\ job'[h] = Idle
         /\ socket' \in [Sockets -> Socket]
         /\ \A t \in Sockets \ {s} : socket'[t] = socket[t]
         /\ socket[s].state = "closed" => socket'[s] = socket[s]
         /\ socket[s].state # "closed" => /\ socket'[s].state = "on"
                                          /\ socket'[s].got = socket[s].got \cup job[h].got
         /\ socket'[s].user = socket[s].user
         /\ socket'[s].shown = socket[s].shown /\ socket'[s].outrun = socket[s].outrun
<1> USE DEF Base
<1> DEFINE x == IF socket[s].state = "closed" THEN socket[s]
                ELSE [socket[s] EXCEPT !.state = "on", !.got = socket[s].got \cup job[h].got]
<1>1. /\ Goto(h, "confirm", "idle") /\ UNCHANGED <<queue, table, mails, userSockets, counters>>
      /\ socket' = IF socket[s].state = "closed" THEN socket
                   ELSE [Told(s, job[h].got) EXCEPT ![s].state = "on"]
  BY DEF ConfirmConnection
<1>2. socket \in [Sockets -> Socket]
  BY DEF Typed
<1>3. socket' = [socket EXCEPT ![s] = x]
  <2>1. CASE socket[s].state = "closed"
    BY <1>1, <1>2, <2>1
  <2>2. CASE socket[s].state # "closed"
    BY <1>1, <1>2, <2>2 DEF Told
  <2> QED BY <2>1, <2>2
<1>4. /\ x \in Socket /\ x.user = socket[s].user /\ x.shown = socket[s].shown /\ x.outrun = socket[s].outrun
      /\ socket[s].state = "closed" => x = socket[s]
      /\ socket[s].state # "closed" => x.state = "on" /\ x.got = socket[s].got \cup job[h].got
  <2>1. CASE socket[s].state = "closed"
    BY <2>1, SocketType
  <2>2. CASE socket[s].state # "closed"
    <3> DEFINE y == [socket[s] EXCEPT !.state = "on", !.got = socket[s].got \cup job[h].got]
    <3>1. socket[s].got \cup job[h].got \in SUBSET Nat
      BY SocketType, JobType
    <3>2. /\ y \in Socket /\ y.user = socket[s].user /\ y.shown = socket[s].shown
          /\ y.outrun = socket[s].outrun /\ y.state = "on" /\ y.got = socket[s].got \cup job[h].got
      BY <3>1, SocketType DEF Socket
    <3> HIDE DEF y
    <3>3. x = y
      BY <2>2 DEF y
    <3> HIDE DEF x
    <3> QED BY <2>2, <3>2, <3>3
  <2> QED BY <2>1, <2>2
<1> HIDE DEF x
<1>5. Turns(h) /\ job[h].pc = "confirm" /\ job'[h] = Idle
  BY <1>1, Onward DEF Places
<1>6. /\ socket' \in [Sockets -> Socket] /\ socket'[s] = x
      /\ \A t \in Sockets \ {s} : socket'[t] = socket[t]
  BY <1>2, <1>3, <1>4
<1> QED BY <1>1, <1>4, <1>5, <1>6

LEMMA CloseDoes ==
  ASSUME Base, NEW s \in Sockets, Close(s)
  PROVE  /\ socket' \in [Sockets -> Socket]
         /\ \A t \in Sockets \ {s} : socket'[t] = socket[t]
         /\ socket'[s].state = "closed"
         /\ userSockets' \in [Users -> Sockets \cup {NoSocket}]
         /\ \A u \in Users : userSockets'[u] = IF userSockets[u] = s THEN NoSocket ELSE userSockets[u]
  BY SocketParts DEF Close, Base, Typed

LEMMA RequestMarkDoes ==
  ASSUME Base, NEW h \in Handlers, NEW u \in Users, NEW s \in Sockets \cup {NoSocket},
         NEW i \in 0..Len(rows), RequestMark(h, u, s, i)
  PROVE  /\ Request /\ UNCHANGED <<queue, table, mails, gateway>>
         /\ s # NoSocket => socket[s].state \in {"open", "on"} /\ socket[s].user = u
         /\ Turns(h) /\ job[h].pc = "idle" /\ job'[h].pc = "mark" /\ job'[h].kind \in {"Mark", "MarkAll"}
         /\ job'[h].msg = NoMsg /\ job'[h].user = u /\ job'[h].socket = s
<1> USE DEF Base
<1> DEFINE j == [Idle EXCEPT !.pc = "mark", !.user = u, !.socket = s, !.row = i,
                             !.kind = IF i = 0 THEN "MarkAll" ELSE "Mark"]
<1>1. /\ Request /\ UNCHANGED <<queue, table, mails, gateway>> /\ Step(h, "idle", j)
      /\ s # NoSocket => socket[s].state \in {"open", "on"} /\ socket[s].user = u
  BY DEF RequestMark
<1>2. i \in Nat
  BY RowType
<1>3. /\ j \in Job /\ j.pc = "mark" /\ j.kind \in {"Mark", "MarkAll"} /\ j.msg = NoMsg
      /\ j.user = u /\ j.socket = s
  BY <1>2, IdleParts DEF Job, Places
<1> HIDE DEF j
<1> QED BY <1>1, <1>3, Stepped

LEMMA MarkDoes ==
  ASSUME Base, NEW h \in Handlers, Mark(h)
  PROVE  /\ UNCHANGED <<queue, began, mails, gateway, counters>>
         /\ Turns(h) /\ job[h].pc = "mark"
         /\ \/ job'[h] = Idle /\ job[h].socket = NoSocket
            \/ /\ Continues(h) /\ job'[h].socket = job[h].socket /\ job[h].socket # NoSocket
               /\ job'[h].pc \in {"count", "emit"}
               /\ job'[h].pc = "emit" => job[h].kind = "MarkAll"
         /\ rows' \in Seq(Row) /\ DOMAIN rows' = DOMAIN rows
         /\ \A i \in DOMAIN rows :
              /\ rows'[i].user = rows[i].user /\ rows'[i].msg = rows[i].msg /\ rows'[i].at = rows[i].at
              /\ rows'[i].sent = rows[i].sent
              /\ rows[i].read => rows'[i].read
              /\ job[h].kind = "MarkAll" /\ rows[i].user = job[h].user => rows'[i].read
<1> USE DEF Base
<1> DEFINE next == IF job[h].socket = NoSocket THEN "idle"
                   ELSE IF job[h].kind = "MarkAll" THEN "emit" ELSE "count"
           hit == Of(job[h].user) \cap (IF job[h].kind = "MarkAll" THEN DOMAIN rows ELSE {job[h].row})
           x(i) == IF i \in hit THEN [rows[i] EXCEPT !.read = TRUE] ELSE rows[i]
<1>1. /\ Goto(h, "mark", next) /\ UNCHANGED <<queue, began, mails, gateway, counters>>
      /\ rows' = [i \in DOMAIN rows |-> x(i)]
  BY DEF Mark
<1>2. job[h].pc = "mark"
  BY <1>1 DEF Goto, Step
<1>3. /\ next \in Places /\ next \in {"idle", "count", "emit"} /\ (next = "idle" <=> job[h].socket = NoSocket)
      /\ next = "emit" => job[h].kind = "MarkAll"
  BY <1>2, JobType DEF Places, JobsMean, JobMeans
<1>4. ASSUME NEW i \in DOMAIN rows
      PROVE  /\ x(i) \in Row /\ x(i).user = rows[i].user /\ x(i).msg = rows[i].msg /\ x(i).at = rows[i].at
             /\ x(i).sent = rows[i].sent
             /\ rows[i].read => x(i).read
             /\ job[h].kind = "MarkAll" /\ rows[i].user = job[h].user => x(i).read
  <2>1. job[h].kind = "MarkAll" /\ rows[i].user = job[h].user => i \in hit
    BY DEF Of
  <2> HIDE DEF hit
  <2> QED BY <2>1, RowType DEF Row
<1> HIDE DEF x, next
<1>5. Len(rows) \in Nat /\ DOMAIN rows = 1..Len(rows)
  BY RowType
<1>6. rows' \in Seq(Row)
  <2> DEFINE R == Row
  <2>1. rows' \in [1..Len(rows) -> R]
    BY <1>1, <1>4, <1>5
  <2> HIDE DEF R
  <2>2. rows' \in Seq(R)
    BY <1>5, <2>1
  <2> QED BY <2>2 DEF R
<1>7. DOMAIN rows' = DOMAIN rows /\ \A i \in DOMAIN rows : rows'[i] = x(i)
  BY <1>1
<1>8. /\ Turns(h)
      /\ next = "idle" => job'[h] = Idle
      /\ next # "idle" => Continues(h) /\ job'[h].pc = next /\ job'[h].socket = job[h].socket
  BY <1>1, <1>3, Onward
<1> QED BY <1>1, <1>2, <1>3, <1>4, <1>6, <1>7, <1>8

LEMMA FailSaveDoes ==
  ASSUME Base, NEW h \in Handlers, FailSave(h)
  PROVE  /\ Fault /\ UNCHANGED <<done, content, server, table, mails, userSockets>>
         /\ Turns(h) /\ job[h].pc \in {"save", "saved"}
         /\ waiting' \in [Msgs -> Nat]
         /\ \/ /\ job[h].kind = "Message" /\ job[h].msg \in Msgs
               /\ Continues(h) /\ job'[h].pc = "retried" /\ job'[h].socket = job[h].socket
               /\ waiting' = waiting \/ waiting' = Again(job[h].msg)
            \/ job[h].kind = "Direct" /\ job[h].msg = NoMsg /\ job'[h] = Idle /\ UNCHANGED waiting
         /\ socket' \in [Sockets -> Socket] /\ \A s \in Sockets : SameSocket(s)
         /\ \A s \in Sockets : socket'[s].outrun =
              (socket[s].outrun \/ (job[h].pc = "saved" /\ socket[s].user = job[h].user))
<1> USE DEF Base
<1> DEFINE o(s) == socket[s].outrun \/ (job[h].pc = "saved" /\ socket[s].user = job[h].user)
           x(s) == [socket[s] EXCEPT !.outrun = o(s)]
           next == IF job[h].kind = "Message" THEN "retried" ELSE "idle"
<1>1. /\ Fault /\ job[h].pc \in {"save", "saved"} /\ Goto(h, job[h].pc, next)
      /\ socket' = [s \in Sockets |-> x(s)]
      /\ UNCHANGED <<done, content, server, table, mails, userSockets>>
      /\ waiting' = waiting \/ (job[h].kind = "Message" /\ waiting' = Again(job[h].msg))
  BY DEF FailSave
<1>2. /\ Turns(h)
      /\ next = "idle" => job'[h] = Idle
      /\ next # "idle" => Continues(h) /\ job'[h].pc = next /\ job'[h].socket = job[h].socket
  BY <1>1, Onward DEF Places
<1>3. job[h].kind \in {"Message", "Direct"} /\ (job[h].kind = "Message" <=> job[h].msg \in Msgs)
      /\ (job[h].kind = "Direct" => job[h].msg = NoMsg)
  BY <1>1, JobType DEF JobsMean, JobMeans
<1>4. waiting' \in [Msgs -> Nat]
  BY <1>1, <1>3, AgainType DEF Typed
<1>5. ASSUME NEW s \in Sockets
      PROVE  /\ x(s) \in Socket /\ x(s).state = socket[s].state /\ x(s).user = socket[s].user
             /\ x(s).got = socket[s].got /\ x(s).shown = socket[s].shown /\ x(s).outrun = o(s)
  <2>1. o(s) \in BOOLEAN
    BY SocketType
  <2> HIDE DEF o
  <2> QED BY <2>1, SocketType DEF Socket
<1> HIDE DEF x, o
<1>6. socket' \in [Sockets -> Socket] /\ \A s \in Sockets : socket'[s] = x(s)
  BY <1>1, <1>5
<1>7. \A s \in Sockets : SameSocket(s) /\ socket'[s].outrun = o(s)
  BY <1>5, <1>6 DEF SameSocket
<1>8. \/ /\ job[h].kind = "Message" /\ job[h].msg \in Msgs
         /\ Continues(h) /\ job'[h].pc = "retried" /\ job'[h].socket = job[h].socket
         /\ waiting' = waiting \/ waiting' = Again(job[h].msg)
      \/ job[h].kind = "Direct" /\ job[h].msg = NoMsg /\ job'[h] = Idle /\ UNCHANGED waiting
  BY <1>1, <1>2, <1>3
<1> QED BY <1>1, <1>2, <1>4, <1>6, <1>7, <1>8 DEF o

LEMMA FailCountDoes ==
  ASSUME Base, NEW h \in Handlers, NEW s \in Sockets, s = job[h].socket, FailCount(h)
  PROVE  /\ Fault /\ UNCHANGED <<queue, table, mails, userSockets>>
         /\ Turns(h) /\ job[h].pc = "count" /\ job[h].kind # "Connect"
         /\ \/ AfterEmit(h) = "idle" /\ job'[h] = Idle
            \/ /\ AfterEmit(h) # "idle" /\ Continues(h) /\ job'[h].pc = AfterEmit(h)
               /\ job'[h].socket = s
         /\ socket' \in [Sockets -> Socket] /\ \A t \in Sockets : SameSocket(t)
         /\ \A t \in Sockets \ {s} : socket'[t] = socket[t]
         /\ socket'[s].outrun = TRUE
<1> USE DEF Base
<1> DEFINE x == [socket[s] EXCEPT !.outrun = TRUE]
<1>1. /\ Fault /\ job[h].kind # "Connect" /\ Goto(h, "count", AfterEmit(h))
      /\ socket' = [socket EXCEPT ![s] = x] /\ UNCHANGED <<queue, table, mails, userSockets>>
  BY DEF FailCount
<1>2. job[h].pc = "count" /\ socket \in [Sockets -> Socket]
  BY <1>1 DEF Goto, Step, Typed
<1>3. AfterEmit(h) \in Places
  BY <1>2, AfterPlaces DEF Places
<1>4. /\ Turns(h)
      /\ AfterEmit(h) = "idle" => job'[h] = Idle
      /\ AfterEmit(h) # "idle" => /\ Continues(h) /\ job'[h].pc = AfterEmit(h)
                                  /\ job'[h].socket = job[h].socket
  BY <1>1, <1>3, Onward
<1>5. /\ x \in Socket /\ x.state = socket[s].state /\ x.user = socket[s].user
      /\ x.got = socket[s].got /\ x.shown = socket[s].shown /\ x.outrun = TRUE
  BY SocketType DEF Socket
<1> HIDE DEF x
<1>6. socket' \in [Sockets -> Socket] /\ socket'[s] = x /\ \A t \in Sockets \ {s} : socket'[t] = socket[t]
  BY <1>1, <1>2, <1>5
<1>7. \A t \in Sockets : SameSocket(t)
  BY <1>5, <1>6 DEF SameSocket
<1> QED BY <1>1, <1>2, <1>4, <1>5, <1>6, <1>7

LEMMA FailConnectDoes ==
  ASSUME Base, NEW h \in Handlers, NEW s \in Sockets, s = job[h].socket, FailConnect(h)
  PROVE  /\ Fault /\ UNCHANGED <<queue, table, mails>> /\ Close(s)
         /\ Turns(h) /\ job[h].pc \in {"count", "recent"} /\ job[h].kind = "Connect" /\ job'[h] = Idle
<1> USE DEF Base
<1>1. /\ Fault /\ job[h].kind = "Connect" /\ job[h].pc \in {"count", "recent"}
      /\ Goto(h, job[h].pc, "idle") /\ Close(s) /\ UNCHANGED <<queue, table, mails>>
  BY DEF FailConnect
<1> QED BY <1>1, Onward DEF Places

LEMMA FailMarkDoes ==
  ASSUME Base, NEW h \in Handlers, FailMark(h)
  PROVE  /\ Fault /\ UNCHANGED <<queue, table, mails, gateway>>
         /\ Turns(h) /\ job[h].pc = "mark" /\ job'[h] = Idle
  BY Onward DEF Base, FailMark, Places

LEMMA CrashDoes ==
  ASSUME Base, Crash
  PROVE  /\ Fault /\ UNCHANGED <<content, table, mailed, refused, done>>
         /\ server # "down" /\ server' = "down"
         /\ waiting' = Requeued /\ waiting' \in [Msgs -> Nat]
         /\ \A h \in Handlers : job'[h] = Idle
         /\ job' \in [Handlers -> Job]
         /\ socket' \in [Sockets -> Socket]
         /\ \A s \in Sockets : IF socket[s].state = "new" THEN socket'[s] = socket[s]
                               ELSE socket'[s].state = "closed"
         /\ \A u \in Users : userSockets'[u] = NoSocket
         /\ userSockets' \in [Users -> Sockets \cup {NoSocket}]
         /\ mail' \in [Msgs -> Nat]
<1> USE DEF Base
<1> DEFINE x(s) == IF socket[s].state = "new" THEN socket[s] ELSE ClosedSocket
<1>1. /\ Fault /\ UNCHANGED <<content, table, mailed, refused, done>>
      /\ server # "down" /\ server' = "down" /\ waiting' = Requeued
      /\ job' = [h \in Handlers |-> Idle] /\ socket' = [s \in Sockets |-> x(s)]
      /\ userSockets' = [u \in Users |-> NoSocket] /\ mail' = [m \in Msgs |-> 0]
  BY DEF Crash
<1>2. ASSUME NEW s \in Sockets PROVE x(s) \in Socket
  BY SocketType, SocketParts
<1>3. socket' \in [Sockets -> Socket] /\ \A s \in Sockets : socket'[s] = x(s)
  BY <1>1, <1>2
<1>4. mail' \in [Msgs -> Nat] /\ waiting' \in [Msgs -> Nat]
  BY <1>1, RequeuedType
<1> QED BY <1>1, <1>3, <1>4, IdleParts, SocketParts

LEMMA LoseChannelDoes ==
  ASSUME Base, LoseChannel
  PROVE  /\ Fault /\ UNCHANGED <<done, content, table, mails, gateway, job>>
         /\ server = "up" /\ server' = "deaf" /\ waiting' = Requeued /\ waiting' \in [Msgs -> Nat]
  BY RequeuedType DEF Base, LoseChannel

LEMMA RestartDoes ==
  ASSUME Base, Restart
  PROVE  /\ UNCHANGED <<waiting, done, content, table, mails, gateway, job, counters>>
         /\ server = "down" /\ server' = "up" /\ waiting' \in [Msgs -> Nat]
  BY DEF Base, Typed, Restart
-----------------------------------------------------------------------------
(***************************************************************************)
(* A summary of Next.                                                      *)
(***************************************************************************)

\* Steps of a handler that write no table, ...
Reads(h) ==
  \/ GetUnreadCount(h) \/ SendPush(h) \/ PushFails(h) \/ GetRecent(h) \/ FailMark(h)
  \/ AckRetried(h)
  \/ \E u \in Users : CreateDirectly(h, u)
  \/ \E u \in Users, s \in Sockets \cup {NoSocket}, i \in 0..Len(rows) : RequestMark(h, u, s, i)

\* ... and those that change one socket, for what its handler has read.
Tells(h) ==
  \/ EmitCount(h) /\ job[h].socket \in Sockets
  \/ ConfirmConnection(h) /\ job[h].socket \in Sockets
  \/ FailCount(h) /\ job[h].socket \in Sockets

Saves(h) == Save(h) /\ job[h].user \in Users

Sends(h) == SendNotification(h) /\ job[h].user \in Users /\ job[h].row \in DOMAIN rows

Connects(h) == \E u \in Users, s \in Sockets : Connect(h, s, u)

Breaks(h) == FailConnect(h) /\ job[h].socket \in Sockets

Publishes == \E m \in Msgs, c \in Content : Publish(m, c)

Hangs == \E s \in Sockets : Disconnect(s)

\* The mail service answers, the channel is lost, the process is started.
Outside == (\E m \in Msgs : SendEmail(m)) \/ LoseChannel \/ Restart

LEMMA AnyStep ==
  ASSUME Base, Next
  PROVE  \/ \E h \in Handlers : \/ Reads(h) \/ (\E m \in Msgs : Process(h, m)) \/ Ack(h) \/ Tells(h)
                                \/ Saves(h) \/ Sends(h) \/ Mark(h) \/ Connects(h)
                                \/ FailSave(h) \/ Breaks(h)
         \/ Publishes \/ Hangs \/ Crash \/ Outside
<1>1. ASSUME NEW h \in Handlers, Work(h)
      PROVE  Reads(h) \/ Ack(h) \/ Tells(h) \/ Saves(h) \/ Sends(h) \/ Mark(h)
  <2>1. Save(h) => Saves(h)
    BY DEF Saves, Save, Step, Base, JobsMean, JobMeans
  <2>2. SendNotification(h) => Sends(h)
    BY DEF Sends, SendNotification, Step, Base, JobsMean, JobMeans
  <2>3. EmitCount(h) => Tells(h)
    BY DEF Tells, EmitCount, Step, Base, JobsMean, JobMeans
  <2>4. ConfirmConnection(h) => Tells(h)
    BY DEF Tells, ConfirmConnection, Goto, Step, Base, JobsMean, JobMeans
  <2> QED BY <1>1, <2>1, <2>2, <2>3, <2>4 DEF Work, Reads
<1>2. ASSUME NEW h \in Handlers, FailCount(h) PROVE Tells(h)
  BY <1>2 DEF Tells, FailCount, Goto, Step, Base, JobsMean, JobMeans
<1>3. ASSUME NEW h \in Handlers, FailConnect(h) PROVE Breaks(h)
  BY <1>3 DEF Breaks, FailConnect, Goto, Step, Base, JobsMean, JobMeans
<1>4. ASSUME NEW h \in Handlers,
             \/ \E m \in Msgs : Process(h, m)
             \/ FailSave(h) \/ FailCount(h) \/ FailConnect(h) \/ FailMark(h)
      PROVE  \/ Reads(h) \/ (\E m \in Msgs : Process(h, m)) \/ Tells(h)
             \/ FailSave(h) \/ Breaks(h)
  BY <1>2, <1>3, <1>4 DEF Reads
<1>5. ASSUME NEW h \in Handlers, NEW u \in Users,
             \/ CreateDirectly(h, u)
             \/ \E s \in Sockets : Connect(h, s, u)
             \/ \E s \in Sockets \cup {NoSocket}, i \in 0..Len(rows) : RequestMark(h, u, s, i)
      PROVE  Reads(h) \/ Connects(h)
  BY <1>5 DEF Reads, Connects
<1> QED BY <1>1, <1>4, <1>5 DEF Next, Publishes, Hangs, Outside, FailEmail

LEMMA ReadsDoes ==
  ASSUME Base, NEW h \in Handlers, Reads(h)
  PROVE  /\ UNCHANGED <<queue, rows, mails, gateway>> /\ began' \in Nat
         /\ Request \/ Fault \/ UNCHANGED counters
         /\ Turns(h)
<1>1. began \in Nat
  BY DEF Base, Typed
<1>2. CASE \/ GetUnreadCount(h) \/ SendPush(h) \/ PushFails(h) \/ GetRecent(h) \/ FailMark(h) \/ AckRetried(h)
  BY <1>1, <1>2, GetUnreadCountDoes, PushDoes, GetRecentDoes, FailMarkDoes, AckRetriedDoes DEF table
<1>3. CASE \E u \in Users : CreateDirectly(h, u)
  BY <1>3, CreateDirectlyDoes
<1>4. CASE \E u \in Users, s \in Sockets \cup {NoSocket}, i \in 0..Len(rows) : RequestMark(h, u, s, i)
  BY <1>1, <1>4, RequestMarkDoes DEF table
<1> QED BY <1>2, <1>3, <1>4 DEF Reads

LEMMA OutsideDoes ==
  ASSUME Base, Outside
  PROVE  /\ UNCHANGED <<done, content, table, gateway, job>> /\ (Fault \/ UNCHANGED counters)
         /\ waiting' \in [Msgs -> Nat] /\ server' \in {"up", "deaf"} \cup {server}
         /\ mail' \in [Msgs -> Nat] /\ mailed' \cup refused' \subseteq Msgs
         /\ \A m \in Msgs : HandedOver(m) => HandedOver(m)'
<1>1. mail \in [Msgs -> Nat] /\ mailed \cup refused \subseteq Msgs /\ waiting \in [Msgs -> Nat]
  BY DEF Base, Typed
<1>2. CASE \E m \in Msgs : SendEmail(m)
  BY <1>1, <1>2, SendEmailDoes DEF queue
<1>3. CASE LoseChannel
  BY <1>1, <1>3, LoseChannelDoes DEF mails, HandedOver
<1>4. CASE Restart
  BY <1>1, <1>4, RestartDoes DEF mails, HandedOver
<1> QED BY <1>2, <1>3, <1>4 DEF Outside

LEMMA TellsDoes ==
  ASSUME Base, NEW h \in Handlers, Tells(h)
  PROVE  /\ UNCHANGED <<queue, table, mails, userSockets>>
         /\ Fault \/ UNCHANGED counters
         /\ Turns(h) /\ job[h].pc \in {"emit", "confirm", "count"}
         /\ \/ job'[h] = Idle
            \/ /\ Continues(h) /\ job'[h].socket = job[h].socket /\ job'[h].pc = AfterEmit(h)
               /\ job[h].pc # "confirm"
         /\ socket' \in [Sockets -> Socket]
         /\ \A t \in Sockets :
              /\ socket'[t].user = socket[t].user /\ socket[t].got \subseteq socket'[t].got
              /\ \/ socket'[t].state = socket[t].state
                 \/ socket'[t].state = "on" /\ socket[t].state # "closed" /\ t = job[h].socket
<1>0. PICK s \in Sockets : s = job[h].socket
  BY DEF Tells
<1>1. CASE EmitCount(h)
  BY <1>0, <1>1, EmitCountDoes
<1>2. CASE ConfirmConnection(h)
  BY <1>0, <1>2, ConfirmConnectionDoes
<1>3. CASE FailCount(h)
  BY <1>0, <1>3, FailCountDoes DEF SameSocket
<1> QED BY <1>1, <1>2, <1>3 DEF Tells
-----------------------------------------------------------------------------
LEMMA TypedStep ==
  ASSUME Base, Next
  PROVE  Typed'
<1> USE DEF Base
<1>0. /\ waiting \in [Msgs -> Nat] /\ done \subseteq Msgs
      /\ server \in {"up", "deaf", "down"} /\ content \in [Msgs -> Content \cup {NoContent}]
      /\ rows \in Seq(Row) /\ began \in Nat /\ mail \in [Msgs -> Nat] /\ mailed \cup refused \subseteq Msgs
      /\ socket \in [Sockets -> Socket] /\ userSockets \in [Users -> Sockets \cup {NoSocket}]
      /\ job \in [Handlers -> Job]
  BY DEF Typed
<1> DEFINE N == requests' \in 0..MaxRequests /\ faults' \in 0..MaxFaults
           Q == /\ waiting' \in [Msgs -> Nat] /\ done' \subseteq Msgs
                /\ server' \in {"up", "deaf", "down"} /\ content' \in [Msgs -> Content \cup {NoContent}]
           T == /\ rows' \in Seq(Row) /\ began' \in Nat
                /\ mail' \in [Msgs -> Nat] /\ mailed' \cup refused' \subseteq Msgs
           G == /\ socket' \in [Sockets -> Socket] /\ userSockets' \in [Users -> Sockets \cup {NoSocket}]
                /\ job' \in [Handlers -> Job]
<1>1. ASSUME NEW h \in Handlers, Reads(h) PROVE N /\ Q /\ T /\ G
  <2>1. UNCHANGED <<queue, rows, mails, gateway>> /\ began' \in Nat /\ Turns(h)
    BY <1>1, ReadsDoes
  <2>2. N
    BY <1>1, ReadsDoes, Counted
  <2> QED BY <1>0, <2>1, <2>2 DEF queue, mails, gateway, Turns
<1>2. ASSUME NEW h \in Handlers, NEW m \in Msgs, Process(h, m) PROVE N /\ Q /\ T /\ G
  <2>1. N
    BY <1>2, ProcessDoes, Counted
  <2>2. /\ UNCHANGED <<done, content, server, rows, mailed, refused, gateway>>
        /\ waiting' \in [Msgs -> Nat] /\ Turns(h) /\ began' \in Nat /\ mail' \in [Msgs -> Nat]
    BY <1>2, ProcessDoes
  <2> QED BY <1>0, <2>1, <2>2 DEF gateway, Turns
<1>3. ASSUME NEW h \in Handlers, Ack(h) PROVE N /\ Q /\ T /\ G
  <2>1. N
    BY <1>3, AckDoes, Counted
  <2>2. /\ UNCHANGED <<content, server, table, mails, gateway>> /\ Turns(h)
        /\ done' \subseteq Msgs /\ waiting' \in [Msgs -> Nat]
    BY <1>0, <1>3, AckDoes
  <2> QED BY <1>0, <2>1, <2>2 DEF table, mails, gateway, Turns
<1>4. ASSUME NEW h \in Handlers, Tells(h) PROVE N /\ Q /\ T /\ G
  <2>1. N
    BY <1>4, TellsDoes, Counted
  <2> QED BY <1>0, <1>4, <2>1, TellsDoes DEF queue, table, mails, Turns
<1>5. ASSUME NEW h \in Handlers, NEW u \in Users, u = job[h].user, Save(h) PROVE N /\ Q /\ T /\ G
  <2>1. N
    BY <1>5, SaveDoes, Counted
  <2> QED BY <1>0, <1>5, <2>1, SaveDoes DEF queue, mails, Turns
<1>6. ASSUME NEW h \in Handlers, NEW u \in Users, u = job[h].user,
             NEW i \in DOMAIN rows, i = job[h].row, SendNotification(h)
      PROVE  N /\ Q /\ T /\ G
  <2>1. N
    BY <1>6, SendNotificationDoes, Counted
  <2>2. /\ UNCHANGED <<queue, began, mails, userSockets>> /\ Turns(h) /\ rows' \in Seq(Row)
        /\ socket' \in [Sockets -> Socket]
    BY <1>0, <1>6, SendNotificationDoes
  <2> QED BY <1>0, <2>1, <2>2 DEF queue, mails, Turns
<1>7. ASSUME NEW h \in Handlers, Mark(h) PROVE N /\ Q /\ T /\ G
  <2>1. N
    BY <1>7, MarkDoes, Counted
  <2> QED BY <1>0, <1>7, <2>1, MarkDoes DEF queue, mails, gateway, Turns
<1>8. ASSUME NEW h \in Handlers, NEW u \in Users, NEW s \in Sockets, Connect(h, s, u) PROVE N /\ Q /\ T /\ G
  <2>1. N
    BY <1>8, ConnectDoes, Counted
  <2> QED BY <1>0, <1>8, <2>1, ConnectDoes DEF queue, table, mails, Turns
<1>9. ASSUME NEW h \in Handlers, FailSave(h) PROVE N /\ Q /\ T /\ G
  <2>1. N
    BY <1>9, FailSaveDoes, Counted
  <2> QED BY <1>0, <1>9, <2>1, FailSaveDoes DEF table, mails, Turns
<1>10. ASSUME NEW h \in Handlers, NEW s \in Sockets, s = job[h].socket, FailConnect(h) PROVE N /\ Q /\ T /\ G
  <2>1. N
    BY <1>10, FailConnectDoes, Counted
  <2> QED BY <1>0, <1>10, <2>1, FailConnectDoes, CloseDoes DEF queue, table, mails, Turns
<1>11. ASSUME NEW m \in Msgs, NEW c \in Content, Publish(m, c) PROVE N /\ Q /\ T /\ G
  <2>1. N
    BY <1>11, PublishDoes, Counted
  <2> QED BY <1>0, <1>11, <2>1, PublishDoes DEF table, mails, gateway
<1>12. ASSUME NEW s \in Sockets, Disconnect(s) PROVE N /\ Q /\ T /\ G
  <2>1. N
    BY <1>12, Counted DEF Disconnect
  <2>2. Close(s) /\ UNCHANGED <<queue, table, mails, job>>
    BY <1>12 DEF Disconnect
  <2> QED BY <1>0, <2>1, <2>2, CloseDoes DEF queue, table, mails
<1>13. ASSUME Crash PROVE N /\ Q /\ T /\ G
  <2>1. N
    BY <1>13, CrashDoes, Counted
  <2> QED BY <1>0, <1>13, <2>1, CrashDoes DEF table
<1>14. ASSUME Outside PROVE N /\ Q /\ T /\ G
  <2>1. N
    BY <1>14, OutsideDoes, Counted
  <2> QED BY <1>0, <1>14, <2>1, OutsideDoes DEF table, gateway
<1> HIDE DEF N, Q, T, G
<1>15. N /\ Q /\ T /\ G
  BY <1>1, <1>2, <1>3, <1>4, <1>5, <1>6, <1>7, <1>8, <1>9, <1>10, <1>11, <1>12, <1>13, <1>14, AnyStep
     DEF Saves, Sends, Connects, Breaks, Publishes, Hangs
<1> QED BY <1>15 DEF N, Q, T, G, Typed
-----------------------------------------------------------------------------
(***************************************************************************)
(* What no step takes back.                                                *)
(***************************************************************************)
SocketsKept ==
  \A s \in Sockets :
    socket[s].state # "new" =>
      /\ socket'[s].state # "new"
      /\ socket'[s].state # "closed" => socket[s].state # "closed" /\ socket'[s].user = socket[s].user

MessagesKept ==
  /\ \A m \in Msgs : content[m] # NoContent => content'[m] = content[m]
  /\ faults > 0 => faults' > 0
  /\ (\A m \in Msgs : HandedOver(m) => HandedOver(m)') \/ faults' > 0

Kept == RowsKept /\ SocketsKept /\ MessagesKept

LEMMA RowsKeptStep ==
  ASSUME Base, Next
  PROVE  RowsKept
<1> USE DEF Base
<1>1. UNCHANGED rows => RowsKept
  BY DEF RowsKept
<1>2. ASSUME NEW h \in Handlers, NEW u \in Users, u = job[h].user, Save(h) PROVE RowsKept
  BY <1>2, SaveDoes DEF RowsKept
<1>3. ASSUME NEW h \in Handlers, NEW u \in Users, u = job[h].user,
             NEW i \in DOMAIN rows, i = job[h].row, SendNotification(h)
      PROVE  RowsKept
  <2>1. /\ DOMAIN rows' = DOMAIN rows /\ \A k \in DOMAIN rows \ {i} : rows'[k] = rows[k]
        /\ rows'[i].user = rows[i].user /\ rows'[i].msg = rows[i].msg /\ rows'[i].at = rows[i].at
    BY <1>3, SendNotificationDoes
  <2> QED BY <2>1 DEF RowsKept
<1>4. ASSUME NEW h \in Handlers, Mark(h) PROVE RowsKept
  BY <1>4, MarkDoes DEF RowsKept
<1>5. ASSUME NEW h \in Handlers, Reads(h) \/ Ack(h) \/ Tells(h) PROVE UNCHANGED rows
  BY <1>5, ReadsDoes, AckDoes, TellsDoes DEF table
<1>6. ASSUME NEW h \in Handlers, NEW m \in Msgs, Process(h, m) PROVE UNCHANGED rows
  BY <1>6, ProcessDoes
<1>7. ASSUME NEW h \in Handlers, Connects(h) \/ FailSave(h) \/ Breaks(h) PROVE UNCHANGED rows
  BY <1>7, ConnectDoes, FailSaveDoes, FailConnectDoes DEF table, Connects, Breaks
<1>8. Publishes \/ Hangs \/ Crash \/ Outside => UNCHANGED rows
  BY PublishDoes, CrashDoes, OutsideDoes DEF table, Publishes, Hangs, Disconnect
<1> QED BY <1>1, <1>2, <1>3, <1>4, <1>5, <1>6, <1>7, <1>8, AnyStep DEF Saves, Sends

LEMMA SocketsKeptStep ==
  ASSUME Base, Next
  PROVE  SocketsKept
<1> USE DEF Base
<1>1. UNCHANGED socket => SocketsKept
  BY DEF SocketsKept
<1>2. ASSUME NEW h \in Handlers, NEW u \in Users, u = job[h].user, Save(h) PROVE SocketsKept
  BY <1>2, SaveDoes DEF SocketsKept, SameSocket
<1>3. ASSUME NEW h \in Handlers, NEW u \in Users, u = job[h].user,
             NEW i \in DOMAIN rows, i = job[h].row, SendNotification(h)
      PROVE  SocketsKept
  <2>1. \A s \in Sockets : socket'[s].state = socket[s].state /\ socket'[s].user = socket[s].user
    BY <1>3, SendNotificationDoes
  <2> QED BY <2>1 DEF SocketsKept
<1>4. ASSUME NEW h \in Handlers, Tells(h) PROVE SocketsKept
  <2>1. \A s \in Sockets : /\ socket'[s].user = socket[s].user
                           /\ \/ socket'[s].state = socket[s].state
                              \/ socket'[s].state = "on" /\ socket[s].state # "closed"
    BY <1>4, TellsDoes
  <2> QED BY <2>1 DEF SocketsKept
<1>5. ASSUME NEW h \in Handlers, NEW u \in Users, NEW s \in Sockets, Connect(h, s, u) PROVE SocketsKept
  BY <1>5, ConnectDoes DEF SocketsKept
<1>6. ASSUME NEW h \in Handlers, FailSave(h) PROVE SocketsKept
  BY <1>6, FailSaveDoes DEF SocketsKept, SameSocket
<1>7. ASSUME NEW s \in Sockets, Close(s) PROVE SocketsKept
  BY <1>7, CloseDoes DEF SocketsKept
<1>8. ASSUME NEW h \in Handlers, Breaks(h) PROVE SocketsKept
  BY <1>7, <1>8, FailConnectDoes DEF Breaks
<1>9. CASE Hangs
  BY <1>7, <1>9 DEF Hangs, Disconnect
<1>10. CASE Crash
  BY <1>10, CrashDoes DEF SocketsKept
<1>11. ASSUME NEW h \in Handlers, Reads(h) \/ Ack(h) \/ Mark(h) PROVE UNCHANGED socket
  BY <1>11, ReadsDoes, AckDoes, MarkDoes DEF gateway
<1>12. ASSUME NEW h \in Handlers, NEW m \in Msgs, Process(h, m) PROVE UNCHANGED socket
  BY <1>12, ProcessDoes DEF gateway
<1>13. Publishes \/ Outside => UNCHANGED socket
  BY PublishDoes, OutsideDoes DEF gateway, Publishes
<1> QED BY <1>1, <1>2, <1>3, <1>4, <1>5, <1>6, <1>8, <1>9, <1>10, <1>11, <1>12, <1>13, AnyStep
        DEF Saves, Sends, Connects

LEMMA MessagesKeptStep ==
  ASSUME Base, Next
  PROVE  MessagesKept
<1> USE DEF Base
<1>0. faults \in 0..MaxFaults /\ (Fault => faults' > 0)
  BY DEF Typed, Fault
<1>1. ASSUME Fault \/ Request \/ UNCHANGED counters PROVE faults > 0 => faults' > 0
  BY <1>0, <1>1 DEF Request, Fault, counters
<1>m. UNCHANGED mails => \A m \in Msgs : HandedOver(m) => HandedOver(m)'
  BY DEF mails, HandedOver
<1>2. UNCHANGED <<content, mails>> /\ (Fault \/ Request \/ UNCHANGED counters) => MessagesKept
  BY <1>1, <1>m DEF MessagesKept
<1>3. ASSUME NEW h \in Handlers, Reads(h) \/ Tells(h) \/ Mark(h) PROVE MessagesKept
  BY <1>2, <1>3, ReadsDoes, TellsDoes, MarkDoes DEF queue
<1>4. ASSUME NEW h \in Handlers, Saves(h) \/ Sends(h) PROVE MessagesKept
  BY <1>2, <1>4, SaveDoes, SendNotificationDoes DEF Saves, Sends, queue
<1>5. ASSUME NEW h \in Handlers, Connects(h) \/ Breaks(h) PROVE MessagesKept
  BY <1>2, <1>5, ConnectDoes, FailConnectDoes DEF Connects, Breaks, queue
<1>6. ASSUME NEW h \in Handlers, NEW m \in Msgs, Process(h, m) PROVE MessagesKept
  <2>1. /\ UNCHANGED <<content, mailed, refused, counters>>
        /\ mail \in [Msgs -> Nat] /\ mail' \in [Msgs -> Nat] /\ \A n \in Msgs : mail'[n] >= mail[n]
    BY <1>6, ProcessDoes DEF Typed
  <2>2. \A n \in Msgs : HandedOver(n) => HandedOver(n)'
    BY <2>1 DEF HandedOver
  <2> QED BY <1>1, <2>1, <2>2 DEF MessagesKept
<1>7. ASSUME NEW h \in Handlers, Ack(h) \/ FailSave(h) PROVE MessagesKept
  BY <1>2, <1>7, AckDoes, FailSaveDoes
<1>9. ASSUME NEW m \in Msgs, NEW c \in Content, Publish(m, c) PROVE MessagesKept
  BY <1>0, <1>1, <1>9, <1>m, PublishDoes DEF MessagesKept
<1>10. CASE Hangs
  BY <1>2, <1>10 DEF Hangs, Disconnect, queue
<1>11. CASE Crash
  BY <1>0, <1>11, CrashDoes DEF MessagesKept
<1>12. CASE Outside
  BY <1>1, <1>12, OutsideDoes DEF MessagesKept
<1> QED BY <1>3, <1>4, <1>5, <1>6, <1>7, <1>9, <1>10, <1>11, <1>12, AnyStep DEF Publishes

LEMMA KeptStep ==
  ASSUME Base, Next
  PROVE  Kept
  BY RowsKeptStep, SocketsKeptStep, MessagesKeptStep DEF Kept
-----------------------------------------------------------------------------
(***************************************************************************)
(* What handlers hold.                                                     *)
(***************************************************************************)

\* JobMeans, the message and the rest.
CarriesMessage(h) ==
  job[h].kind = "Message" =>
    /\ job[h].user = content[job[h].msg].user
    /\ Addressed(job[h].msg) => job[h].pc \in {"save", "retried"} \/ Stored(job[h].msg)
    /\ content[job[h].msg].channel = "EMAIL" => HandedOver(job[h].msg) \/ faults > 0

KindFits(h) ==
  LET j == job[h] IN
  /\ j.kind = "None" <=> j.pc = "idle"
  /\ j.kind = "Message" <=> j.msg # NoMsg
  /\ j.pc \in {"save", "saved", "count", "emit", "recent", "confirm", "mark"} => j.user \in Users
  /\ j.pc \in {"save", "saved"} => j.kind \in {"Message", "Direct"}
  /\ j.pc \in {"push", "ack", "retried"} => j.kind = "Message"
  /\ j.pc \in {"recent", "confirm"} => j.kind = "Connect"
  /\ j.pc = "mark" => j.kind \in {"Mark", "MarkAll"}
  /\ j.pc \in {"count", "emit", "recent", "confirm"} => j.socket \in Sockets
  /\ j.kind = "Connect" => j.pc \in {"count", "emit", "recent", "confirm"}

HoldsRow(h) == job[h].pc = "saved" => job[h].row \in DOMAIN rows /\ rows[job[h].row].user = job[h].user

HoldsSocket(h) ==
  job[h].socket \in Sockets =>
    /\ socket[job[h].socket].state # "new"
    /\ socket[job[h].socket].state # "closed" => socket[job[h].socket].user = job[h].user

LEMMA JobParts ==
  ASSUME NEW h \in Handlers
  PROVE  JobMeans(h) <=> CarriesMessage(h) /\ KindFits(h) /\ HoldsRow(h) /\ HoldsSocket(h)
  BY DEF JobMeans, CarriesMessage, KindFits, HoldsRow, HoldsSocket

LEMMA IdleMeans ==
  ASSUME NEW h \in Handlers, job'[h] = Idle
  PROVE  JobMeans(h)'
  BY IdleParts DEF JobMeans

\* A message under way stays as it was published, with its row and its e-mail.
LEMMA CarriesOn ==
  ASSUME Base, Kept, NEW h \in Handlers, Continues(h),
         job[h].pc \in {"save", "retried"} => job'[h].pc \in {"save", "retried"}
  PROVE  CarriesMessage(h)'
<1> SUFFICES ASSUME job[h].kind = "Message", job'[h].kind = "Message" PROVE CarriesMessage(h)'
  BY DEF CarriesMessage, Continues
<1>1. PICK m \in Msgs : m = job[h].msg /\ m = job'[h].msg
  BY JobType DEF Base, JobsMean, JobMeans, Continues
<1>2. content[m] # NoContent
  BY <1>1 DEF Base, QueueMeans
<1>3. content'[m] = content[m]
  BY <1>2 DEF Kept, MessagesKept
<1>4. job'[h].user = content'[m].user
  BY <1>1, <1>3 DEF Base, JobsMean, JobMeans, Continues
<1>5. Stored(m) => Stored(m)'
  BY <1>3 DEF Kept, RowsKept, Stored
<1>6. Addressed(m)' => job'[h].pc \in {"save", "retried"} \/ Stored(m)'
  <2>1. Addressed(m) => job[h].pc \in {"save", "retried"} \/ Stored(m)
    BY <1>1, JobParts DEF Base, JobsMean, CarriesMessage
  <2>2. Addressed(m)' <=> Addressed(m)
    BY <1>3 DEF Addressed
  <2> QED BY <1>5, <2>1, <2>2
<1>7. content'[m].channel = "EMAIL" => HandedOver(m)' \/ faults' > 0
  <2>1. content[m].channel = "EMAIL" => HandedOver(m) \/ faults > 0
    BY <1>1, JobParts DEF Base, JobsMean, CarriesMessage
  <2> QED BY <1>3, <2>1 DEF Kept, MessagesKept
<1> QED BY <1>1, <1>4, <1>6, <1>7 DEF CarriesMessage

LEMMA SocketHeld ==
  ASSUME Base, Kept, NEW h \in Handlers, job'[h].socket = job[h].socket, job'[h].user = job[h].user
  PROVE  HoldsSocket(h)'
  BY DEF Base, Kept, JobsMean, JobMeans, SocketsKept, HoldsSocket

LEMMA JobStays ==
  ASSUME Base, Kept, NEW h \in Handlers, job'[h] = job[h]
  PROVE  JobMeans(h)'
<1>1. JobMeans(h)
  BY DEF Base, JobsMean
<1>2. CarriesMessage(h)' /\ HoldsSocket(h)'
  BY CarriesOn, SocketHeld DEF Continues
<1>3. KindFits(h)' /\ HoldsRow(h)'
  BY <1>1, JobParts DEF KindFits, HoldsRow, Kept, RowsKept
<1> QED BY <1>2, <1>3 DEF JobMeans, CarriesMessage, KindFits, HoldsRow, HoldsSocket

\* The handler that moves: on with what it has, or on with something new.
LEMMA GoesOn ==
  ASSUME Base, Kept, NEW h \in Handlers, Continues(h), HoldsSocket(h)',
         job'[h].pc = "retried" \/ job[h].pc \notin {"save", "retried"},
         \/ job'[h].pc \in {"push", "ack", "retried"} /\ job[h].kind = "Message"
         \/ job'[h].pc \in {"recent", "confirm"} /\ job[h].kind = "Connect" /\ job'[h].socket \in Sockets
         \/ /\ job'[h].pc \in {"count", "emit"} /\ job'[h].socket \in Sockets
            /\ job[h].user \in Users /\ job[h].pc # "idle"
  PROVE  JobMeans(h)'
<1>1. CarriesMessage(h)'
  BY CarriesOn
<1>2. job[h].kind = "None" <=> job[h].pc = "idle"
  BY DEF Base, JobsMean, JobMeans
<1>3. job[h].kind = "Message" <=> job[h].msg # NoMsg
  BY DEF Base, JobsMean, JobMeans
<1>4. job[h].pc # "idle"
  BY DEF Base, JobsMean, JobMeans, Continues
<1>5. job[h].kind = "Connect" => job[h].user \in Users
  BY DEF Base, JobsMean, JobMeans
<1>6. KindFits(h)' /\ HoldsRow(h)'
  BY <1>2, <1>3, <1>4, <1>5 DEF KindFits, HoldsRow, Continues
<1> QED BY <1>1, <1>6 DEF JobMeans, CarriesMessage, KindFits, HoldsRow, HoldsSocket

LEMMA BeginsAnew ==
  ASSUME Base, NEW h \in Handlers, job'[h].kind \in {"Direct", "Connect", "Mark", "MarkAll"},
         job'[h].msg = NoMsg, job'[h].user \in Users, HoldsSocket(h)',
         \/ job'[h].kind = "Direct" /\ job'[h].pc = "save"
         \/ job'[h].kind = "Connect" /\ job'[h].pc = "count" /\ job'[h].socket \in Sockets
         \/ job'[h].kind \in {"Mark", "MarkAll"} /\ job'[h].pc = "mark"
  PROVE  JobMeans(h)'
<1>1. CarriesMessage(h)' /\ HoldsRow(h)'
  BY DEF CarriesMessage, HoldsRow
<1>2. KindFits(h)'
  BY DEF KindFits
<1> QED BY <1>1, <1>2 DEF JobMeans, CarriesMessage, KindFits, HoldsRow, HoldsSocket

LEMMA MoverMeans ==
  ASSUME Base, Next, NEW h \in Handlers,
         \/ Reads(h) \/ (\E m \in Msgs : Process(h, m)) \/ Tells(h) \/ Saves(h) \/ Sends(h) \/ Mark(h)
         \/ Connects(h) \/ FailSave(h)
  PROVE  JobMeans(h)'
<1> USE DEF Base
<1>0. Kept
  BY KeptStep
<1>k. JobMeans(h) /\ job[h].user \in Users \cup {NoUser} /\ job[h].socket \in Sockets \cup {NoSocket}
  BY JobType DEF JobsMean
<1>1. CASE GetUnreadCount(h)
  <2>1. /\ Continues(h) /\ job[h].pc = "count" /\ job'[h].pc = "emit" /\ job'[h].socket = job[h].socket
    BY <1>1, GetUnreadCountDoes
  <2>2. HoldsSocket(h)' /\ job[h].user \in Users /\ job[h].socket \in Sockets
    BY <1>0, <1>k, <2>1, SocketHeld DEF Continues, JobMeans
  <2> QED BY <1>0, <2>1, <2>2, GoesOn
<1>2. CASE SendPush(h) \/ PushFails(h)
  <2>1. /\ Continues(h) /\ job[h].pc = "push" /\ job'[h].pc \in {"push", "ack"} /\ job'[h].socket = job[h].socket
    BY <1>2, PushDoes
  <2>2. HoldsSocket(h)' /\ job[h].kind = "Message"
    BY <1>0, <1>k, <2>1, SocketHeld DEF Continues, JobMeans
  <2> QED BY <1>0, <2>1, <2>2, GoesOn
<1>3. CASE GetRecent(h)
  <2>1. /\ Continues(h) /\ job[h].pc = "recent" /\ job'[h].pc = "confirm" /\ job'[h].socket = job[h].socket
    BY <1>3, GetRecentDoes
  <2>2. HoldsSocket(h)' /\ job[h].kind = "Connect" /\ job[h].socket \in Sockets
    BY <1>0, <1>k, <2>1, SocketHeld DEF Continues, JobMeans
  <2> QED BY <1>0, <2>1, <2>2, GoesOn
<1>4. CASE FailMark(h) \/ AckRetried(h)
  BY <1>4, FailMarkDoes, AckRetriedDoes, IdleMeans
<1>5. ASSUME NEW u \in Users, CreateDirectly(h, u) PROVE JobMeans(h)'
  <2>1. /\ job'[h].kind = "Direct" /\ job'[h].msg = NoMsg /\ job'[h].user = u
        /\ job'[h].socket = NoSocket /\ job'[h].pc = "save"
    BY <1>5, CreateDirectlyDoes
  <2> QED BY <2>1, BeginsAnew DEF HoldsSocket
<1>6. ASSUME NEW u \in Users, NEW s \in Sockets \cup {NoSocket}, NEW i \in 0..Len(rows), RequestMark(h, u, s, i)
      PROVE  JobMeans(h)'
  <2>1. /\ UNCHANGED gateway /\ job'[h].kind \in {"Mark", "MarkAll"} /\ job'[h].msg = NoMsg
        /\ job'[h].user = u /\ job'[h].socket = s /\ job'[h].pc = "mark"
        /\ s # NoSocket => socket[s].state \in {"open", "on"} /\ socket[s].user = u
    BY <1>6, RequestMarkDoes
  <2>2. HoldsSocket(h)'
    BY <2>1 DEF HoldsSocket, gateway
  <2> QED BY <2>1, <2>2, BeginsAnew
<1>7. ASSUME NEW m \in Msgs, Process(h, m) PROVE JobMeans(h)'
  <2>1. /\ UNCHANGED content
        /\ job'[h].kind = "Message" /\ job'[h].msg = m /\ job'[h].user = content[m].user
        /\ job'[h].socket = NoSocket /\ job'[h].pc \in {"save", "push", "ack"}
        /\ job'[h].pc = "save" <=> Addressed(m)
        /\ job'[h].pc = "save" => job'[h].user \in Users
        /\ content[m].channel = "EMAIL" => HandedOver(m)'
    BY <1>7, ProcessDoes DEF HandedOver
  <2>2. CarriesMessage(h)'
    BY <2>1 DEF CarriesMessage, Addressed
  <2>3. KindFits(h)' /\ HoldsRow(h)' /\ HoldsSocket(h)'
    BY <2>1 DEF KindFits, HoldsRow, HoldsSocket
  <2> QED BY <2>2, <2>3 DEF JobMeans, CarriesMessage, KindFits, HoldsRow, HoldsSocket
<1>8. CASE Tells(h)
  <2>1. job'[h] = Idle => JobMeans(h)'
    BY IdleMeans
  <2>2. ASSUME job'[h] # Idle PROVE JobMeans(h)'
    <3>1. /\ Continues(h) /\ job[h].pc \in {"emit", "count"} /\ job'[h].pc = AfterEmit(h)
          /\ job'[h].socket = job[h].socket
      BY <1>8, <2>2, TellsDoes
    <3>2. HoldsSocket(h)' /\ job[h].socket \in Sockets
      BY <1>0, <1>k, <3>1, SocketHeld DEF Continues, JobMeans
    <3>3. AfterEmit(h) # "idle"
      <4>1. CASE EmitCount(h)
        BY <1>8, <2>2, <4>1, EmitCountDoes DEF Tells
      <4>2. CASE FailCount(h)
        BY <1>8, <2>2, <4>2, FailCountDoes DEF Tells
      <4>3. CASE ConfirmConnection(h)
        BY <1>8, <2>2, <4>3, ConfirmConnectionDoes DEF Tells
      <4> QED BY <1>8, <4>1, <4>2, <4>3 DEF Tells
    <3>4. /\ AfterEmit(h) \in {"push", "ack", "recent"}
          /\ AfterEmit(h) \in {"push", "ack"} => job[h].kind = "Message"
          /\ AfterEmit(h) = "recent" => job[h].kind = "Connect"
      BY <3>1, <3>3, AfterPlaces
    <3> QED BY <1>0, <3>1, <3>2, <3>4, GoesOn
  <2> QED BY <2>1, <2>2
<1>9. ASSUME NEW u \in Users, u = job[h].user, Save(h) PROVE JobMeans(h)'
  <2>0. PICK n : n = Len(rows) + 1
    OBVIOUS
  <2>1. /\ UNCHANGED <<queue, mails, counters>>
        /\ job[h].pc = "save" /\ Continues(h) /\ job'[h].pc = "saved"
        /\ job'[h].socket = job[h].socket /\ job'[h].row = n
        /\ DOMAIN rows' = DOMAIN rows \cup {n}
        /\ rows'[n].user = u /\ rows'[n].msg = job[h].msg
    BY <1>9, <2>0, SaveDoes
  <2>2. HoldsSocket(h)'
    BY <1>0, <2>1, SocketHeld DEF Continues
  <2>3. HoldsRow(h)' /\ KindFits(h)'
    BY <1>k, <1>9, <2>1 DEF HoldsRow, KindFits, JobMeans, Continues
  <2>4. CarriesMessage(h)'
    <3> SUFFICES ASSUME job[h].kind = "Message" PROVE CarriesMessage(h)'
      BY <2>1 DEF CarriesMessage, Continues
    <3>1. PICK m \in Msgs : m = job[h].msg /\ m = job'[h].msg
      BY <1>k, <2>1, JobType DEF JobMeans, Continues
    <3>2. content' = content /\ (HandedOver(m) => HandedOver(m)') /\ faults' = faults
      BY <2>1 DEF queue, mails, counters, HandedOver
    <3>3. content[m].user = u
      BY <1>k, <1>9, <3>1 DEF JobMeans
    <3>4. Stored(m)'
      BY <2>1, <3>1, <3>2, <3>3 DEF Stored
    <3>5. content[m].channel = "EMAIL" => HandedOver(m) \/ faults > 0
      BY <1>k, <3>1 DEF JobMeans
    <3> QED BY <1>9, <2>1, <3>1, <3>2, <3>3, <3>4, <3>5 DEF CarriesMessage, Continues
  <2> QED BY <2>2, <2>3, <2>4 DEF JobMeans, CarriesMessage, KindFits, HoldsRow, HoldsSocket
<1>10. ASSUME NEW u \in Users, u = job[h].user, NEW i \in DOMAIN rows, i = job[h].row, SendNotification(h)
       PROVE  JobMeans(h)'
  <2>0. PICK s \in Sockets \cup {NoSocket} : s = userSockets[u]
    BY DEF Typed
  <2>1. job[h].pc = "saved" /\ job[h].kind \in {"Message", "Direct"}
    BY <1>k, <1>10, SendNotificationDoes DEF JobMeans
  <2>2. CASE s = NoSocket
    <3>1. \/ job'[h] = Idle
          \/ /\ AfterCreate(h) # "idle" /\ Continues(h) /\ job'[h].pc = AfterCreate(h)
             /\ job'[h].socket = job[h].socket
      <4>1. userSockets[u] = NoSocket
        BY <2>0, <2>2
      <4> QED BY <1>10, <4>1, SendNotificationDoes
    <3>2. ASSUME AfterCreate(h) # "idle", Continues(h), job'[h].pc = AfterCreate(h),
                 job'[h].socket = job[h].socket
          PROVE  JobMeans(h)'
      <4>1. AfterCreate(h) \in {"push", "ack"} /\ job[h].kind = "Message"
        <5>1. job[h].pc # "idle"
          BY <2>1
        <5>2. AfterCreate(h) \in {"push", "ack"}
          BY <3>2, <5>1, AfterPlaces
        <5> QED BY <2>1, <3>2, <5>1, <5>2, AfterPlaces
      <4>2. HoldsSocket(h)'
        BY <1>0, <3>2, SocketHeld DEF Continues
      <4> QED BY <1>0, <2>1, <3>2, <4>1, <4>2, GoesOn
    <3> QED BY <3>1, <3>2, IdleMeans
  <2>3. CASE s # NoSocket
    <3>1. /\ Continues(h) /\ job'[h].pc = "count" /\ job'[h].socket = s
          /\ socket'[s].state = socket[s].state /\ socket'[s].user = socket[s].user
      BY <1>10, <2>0, <2>3, SendNotificationDoes
    <3>2. socket[s].state \in {"open", "on"} /\ socket[s].user = u
      BY <2>0, <2>3 DEF SocketsMean
    <3>3. HoldsSocket(h)'
      BY <1>10, <3>1, <3>2 DEF HoldsSocket, Continues
    <3> QED BY <1>0, <1>10, <2>1, <2>3, <3>1, <3>3, GoesOn
  <2> QED BY <2>2, <2>3
<1>11. CASE Mark(h)
  <2>1. /\ job[h].pc = "mark"
        /\ \/ job'[h] = Idle
           \/ /\ Continues(h) /\ job'[h].socket = job[h].socket /\ job[h].socket # NoSocket
              /\ job'[h].pc \in {"count", "emit"}
    BY <1>11, MarkDoes
  <2>2. job[h].user \in Users
    BY <1>k, <2>1 DEF JobMeans
  <2>3. ASSUME Continues(h), job'[h].socket = job[h].socket PROVE HoldsSocket(h)'
    BY <1>0, <2>3, SocketHeld DEF Continues
  <2> QED BY <1>0, <1>k, <2>1, <2>2, <2>3, GoesOn, IdleMeans
<1>12. ASSUME NEW u \in Users, NEW s \in Sockets, Connect(h, s, u) PROVE JobMeans(h)'
  <2>1. /\ job'[h].pc = "count" /\ job'[h].kind = "Connect" /\ job'[h].user = u /\ job'[h].socket = s
        /\ job'[h].msg = NoMsg /\ socket'[s].state = "open" /\ socket'[s].user = u
    BY <1>12, ConnectDoes
  <2>2. HoldsSocket(h)'
    BY <2>1 DEF HoldsSocket
  <2> QED BY <2>1, <2>2, BeginsAnew
<1>13. CASE FailSave(h)
  <2>1. \/ job'[h] = Idle
        \/ /\ Continues(h) /\ job'[h].pc = "retried" /\ job'[h].socket = job[h].socket
           /\ job[h].kind = "Message"
    BY <1>13, FailSaveDoes
  <2>2. ASSUME Continues(h), job'[h].pc = "retried", job'[h].socket = job[h].socket, job[h].kind = "Message"
        PROVE  JobMeans(h)'
    <3>1. HoldsSocket(h)'
      BY <1>0, <2>2, SocketHeld DEF Continues
    <3> QED BY <1>0, <2>2, <3>1, GoesOn
  <2> QED BY <2>1, <2>2, IdleMeans
<1> QED BY <1>1, <1>2, <1>3, <1>4, <1>5, <1>6, <1>7, <1>8, <1>9, <1>10, <1>11, <1>12, <1>13
        DEF Reads, Saves, Sends, Connects

LEMMA JobsMeanStep ==
  ASSUME Base, Next
  PROVE  JobsMean'
<1> USE DEF Base
<1>0. Kept
  BY KeptStep
<1>1. ASSUME NEW h \in Handlers, JobMeans(h)', \A g \in Handlers \ {h} : job'[g] = job[g] PROVE JobsMean'
  <2>1. \A g \in Handlers \ {h} : JobMeans(g)'
    BY <1>0, <1>1, JobStays
  <2> QED BY <1>1, <2>1 DEF JobsMean
<1>2. UNCHANGED job => JobsMean'
  BY <1>0, JobStays DEF JobsMean
<1>3. ASSUME NEW h \in Handlers, Reads(h) \/ (\E m \in Msgs : Process(h, m)) \/ Tells(h) PROVE JobsMean'
  <2>1. JobMeans(h)'
    BY <1>3, MoverMeans
  <2>2. Turns(h)
    BY <1>3, ReadsDoes, ProcessDoes, TellsDoes
  <2> QED BY <1>1, <2>1, <2>2 DEF Turns
<1>4. ASSUME NEW h \in Handlers, Saves(h) \/ Sends(h) \/ Mark(h) \/ Connects(h) \/ FailSave(h)
      PROVE  JobsMean'
  <2>1. JobMeans(h)'
    BY <1>4, MoverMeans
  <2>2. Turns(h)
    BY <1>4, SaveDoes, SendNotificationDoes, MarkDoes, ConnectDoes, FailSaveDoes DEF Saves, Sends, Connects
  <2> QED BY <1>1, <2>1, <2>2 DEF Turns
<1>5. ASSUME NEW h \in Handlers, Ack(h) \/ Breaks(h) PROVE JobsMean'
  <2>1. Turns(h) /\ job'[h] = Idle
    BY <1>5, AckDoes, FailConnectDoes DEF Breaks
  <2>2. JobMeans(h)'
    BY <2>1, IdleMeans
  <2> QED BY <1>1, <2>1, <2>2 DEF Turns
<1>6. CASE Crash
  BY <1>6, CrashDoes, IdleMeans DEF JobsMean
<1>7. Publishes \/ Hangs \/ Outside => UNCHANGED job
  BY PublishDoes, OutsideDoes DEF Publishes, Hangs, Disconnect
<1> QED BY <1>2, <1>3, <1>4, <1>5, <1>6, <1>7, AnyStep

\* Only a copy that waits comes to a handler, only a handler's message comes into
\* the table, and nothing begins in a process that is down.
HeldFrom(m) ==
  /\ \A h \in Handlers : job'[h].msg = m => job[h].msg = m \/ waiting[m] > 0
  /\ \A i \in DOMAIN rows' : rows'[i].msg = m =>
       \/ i \in DOMAIN rows /\ rows[i].msg = m
       \/ \E h \in Handlers : job[h].msg = m
  /\ m \in done' => m \in done \/ \E h \in Handlers : job[h].msg = m
  /\ waiting'[m] > 0 => waiting[m] > 0 \/ content'[m] # NoContent \/ \E h \in Handlers : job[h].msg = m

LEMMA MessagesFrom ==
  ASSUME Base, Next, NEW m \in Msgs
  PROVE  HeldFrom(m)
<1> USE DEF Base
<1>0. waiting \in [Msgs -> Nat] /\ m # NoMsg
  BY DEF Typed
<1>1. ASSUME NEW h \in Handlers, Turns(h), job'[h].msg \in {job[h].msg, NoMsg}
      PROVE  \A g \in Handlers : job'[g].msg = m => job[g].msg = m
  BY <1>0, <1>1 DEF Turns
<1>2. ASSUME UNCHANGED <<queue, rows>>, \A g \in Handlers : job'[g].msg = m => job[g].msg = m PROVE HeldFrom(m)
  BY <1>2 DEF HeldFrom, queue
<1>3. ASSUME NEW h \in Handlers, Reads(h) PROVE HeldFrom(m)
  <2>1. UNCHANGED <<queue, rows>> /\ Turns(h)
    BY <1>3, ReadsDoes
  <2>2. CASE GetUnreadCount(h) \/ SendPush(h) \/ PushFails(h) \/ GetRecent(h)
    BY <1>1, <1>2, <2>1, <2>2, GetUnreadCountDoes, PushDoes, GetRecentDoes DEF Continues
  <2>3. CASE FailMark(h) \/ AckRetried(h)
    BY <1>1, <1>2, <2>1, <2>3, FailMarkDoes, AckRetriedDoes, IdleParts
  <2>4. CASE \E u \in Users : CreateDirectly(h, u)
    BY <1>1, <1>2, <2>1, <2>4, CreateDirectlyDoes
  <2>5. CASE \E u \in Users, s \in Sockets \cup {NoSocket}, i \in 0..Len(rows) : RequestMark(h, u, s, i)
    BY <1>1, <1>2, <2>1, <2>5, RequestMarkDoes
  <2> QED BY <1>3, <2>2, <2>3, <2>4, <2>5 DEF Reads
<1>4. ASSUME NEW h \in Handlers, NEW n \in Msgs, Process(h, n) PROVE HeldFrom(m)
  <2>1. /\ UNCHANGED <<done, content, rows>> /\ waiting[n] > 0 /\ waiting'[n] = waiting[n] - 1
        /\ \A k \in Msgs \ {n} : waiting'[k] = waiting[k]
        /\ Turns(h) /\ job'[h].msg = n
    BY <1>4, ProcessDoes
  <2> QED BY <2>1 DEF HeldFrom, Turns
<1>5. ASSUME NEW h \in Handlers, Ack(h) PROVE HeldFrom(m)
  <2>1. /\ UNCHANGED table /\ Turns(h) /\ job'[h].msg = NoMsg /\ job[h].msg \in Msgs
        /\ done' = done \cup {job[h].msg} /\ (waiting' = waiting \/ waiting' = Again(job[h].msg))
    BY <1>5, AckDoes, IdleParts
  <2>2. m # job[h].msg => waiting'[m] = waiting[m]
    BY <2>1, AgainType
  <2> QED BY <1>1, <2>1, <2>2 DEF HeldFrom, table
<1>6. ASSUME NEW h \in Handlers, FailSave(h) PROVE HeldFrom(m)
  <2>1. /\ UNCHANGED <<done, table>> /\ Turns(h) /\ job'[h].msg \in {job[h].msg, NoMsg}
        /\ \/ waiting' = waiting
           \/ job[h].msg \in Msgs /\ waiting' = Again(job[h].msg)
    BY <1>6, FailSaveDoes, IdleParts DEF Continues
  <2>2. m # job[h].msg => waiting'[m] = waiting[m]
    BY <2>1, AgainType
  <2> QED BY <1>1, <2>1, <2>2 DEF HeldFrom, table
<1>7. ASSUME NEW h \in Handlers, Tells(h) PROVE HeldFrom(m)
  <2>1. UNCHANGED <<queue, table>> /\ Turns(h) /\ job'[h].msg \in {job[h].msg, NoMsg}
    BY <1>7, TellsDoes, IdleParts DEF Continues
  <2> QED BY <1>1, <1>2, <2>1 DEF table
<1>8. ASSUME NEW h \in Handlers, NEW u \in Users, u = job[h].user, Save(h) PROVE HeldFrom(m)
  <2>1. /\ UNCHANGED queue /\ Turns(h) /\ Continues(h)
        /\ DOMAIN rows' = DOMAIN rows \cup {Len(rows) + 1}
        /\ \A i \in DOMAIN rows : rows'[i] = rows[i]
        /\ rows'[Len(rows) + 1].msg = job[h].msg
    BY <1>8, SaveDoes
  <2>2. \A g \in Handlers : job'[g].msg = m => job[g].msg = m
    BY <2>1 DEF Turns, Continues
  <2>3. \A i \in DOMAIN rows' : rows'[i].msg = m =>
          (i \in DOMAIN rows /\ rows[i].msg = m) \/ \E g \in Handlers : job[g].msg = m
    BY <2>1
  <2> QED BY <2>1, <2>2, <2>3 DEF HeldFrom, queue
<1>9. ASSUME NEW h \in Handlers, NEW u \in Users, u = job[h].user,
             NEW i \in DOMAIN rows, i = job[h].row, SendNotification(h)
      PROVE  HeldFrom(m)
  <2>1. /\ UNCHANGED queue /\ Turns(h) /\ (job'[h] = Idle \/ Continues(h))
        /\ DOMAIN rows' = DOMAIN rows /\ \A k \in DOMAIN rows \ {i} : rows'[k] = rows[k]
        /\ rows'[i].msg = rows[i].msg
    BY <1>9, SendNotificationDoes
  <2>2. \A g \in Handlers : job'[g].msg = m => job[g].msg = m
    BY <1>1, <2>1, IdleParts DEF Continues
  <2> QED BY <2>1, <2>2 DEF HeldFrom, queue
<1>10. ASSUME NEW h \in Handlers, Mark(h) PROVE HeldFrom(m)
  <2>1. /\ UNCHANGED queue /\ Turns(h) /\ (job'[h] = Idle \/ Continues(h))
        /\ DOMAIN rows' = DOMAIN rows /\ \A k \in DOMAIN rows : rows'[k].msg = rows[k].msg
    BY <1>10, MarkDoes
  <2>2. \A g \in Handlers : job'[g].msg = m => job[g].msg = m
    BY <1>1, <2>1, IdleParts DEF Continues
  <2> QED BY <2>1, <2>2 DEF HeldFrom, queue
<1>11. ASSUME NEW h \in Handlers, Connects(h) \/ Breaks(h) PROVE HeldFrom(m)
  <2>1. UNCHANGED <<queue, table>> /\ Turns(h) /\ job'[h].msg = NoMsg
    BY <1>11, ConnectDoes, FailConnectDoes, IdleParts DEF Connects, Breaks
  <2> QED BY <1>1, <1>2, <2>1 DEF table
<1>12. ASSUME NEW n \in Msgs, NEW c \in Content, Publish(n, c) PROVE HeldFrom(m)
  BY <1>12, PublishDoes DEF HeldFrom, table
<1>13. CASE Crash
  <2>1. /\ UNCHANGED <<done, table>> /\ waiting' = Requeued /\ \A g \in Handlers : job'[g].msg = NoMsg
    BY <1>13, CrashDoes, IdleParts
  <2>2. waiting'[m] > 0 => waiting[m] > 0 \/ \E h \in Handlers : job[h].msg = m
    <3> SUFFICES ASSUME \A h \in Handlers : job[h].msg # m PROVE waiting'[m] = waiting[m]
      BY <1>0, <2>1
    <3>1. Callbacks(m) = {}
      BY DEF Callbacks
    <3>2. Cardinality(Callbacks(m)) = 0
      BY <3>1, FS_EmptySet
    <3> QED BY <1>0, <2>1, <3>2, RequeuedType
  <2> QED BY <1>0, <2>1, <2>2 DEF HeldFrom, table
<1>14. CASE Hangs
  BY <1>2, <1>14 DEF Hangs, Disconnect, table
<1>15. CASE Outside
  <2>1. UNCHANGED <<done, content, table, job>>
    BY <1>15, OutsideDoes
  <2>2. waiting'[m] > 0 => waiting[m] > 0 \/ \E h \in Handlers : job[h].msg = m
    <3>1. (\E n \in Msgs : SendEmail(n)) \/ Restart => UNCHANGED waiting
      BY SendEmailDoes, RestartDoes DEF queue
    <3>2. ASSUME LoseChannel, \A h \in Handlers : job[h].msg # m PROVE waiting'[m] = waiting[m]
      <4>1. Callbacks(m) = {}
        BY <3>2 DEF Callbacks
      <4>2. Cardinality(Callbacks(m)) = 0 /\ waiting' = Requeued
        BY <3>2, <4>1, FS_EmptySet, LoseChannelDoes
      <4> QED BY <1>0, <4>2, RequeuedType
    <3> QED BY <1>0, <1>15, <3>1, <3>2 DEF Outside
  <2> QED BY <2>1, <2>2 DEF HeldFrom, table
<1> QED BY <1>3, <1>4, <1>5, <1>6, <1>7, <1>8, <1>9, <1>10, <1>11, <1>12, <1>13, <1>14, <1>15, AnyStep
        DEF Saves, Sends, Publishes

\* Nobody works in a process that is down.
LEMMA DownIsIdle ==
  ASSUME Base, Next, server' = "down", NEW h \in Handlers
  PROVE  job'[h] = Idle
<1> USE DEF Base
<1>1. CASE server # "down"
  <2>1. ASSUME NEW g \in Handlers, Reads(g) \/ Tells(g) \/ Mark(g) \/ Connects(g) \/ Breaks(g) PROVE FALSE
    BY <1>1, <2>1, ReadsDoes, TellsDoes, MarkDoes, ConnectDoes, FailConnectDoes DEF queue, Connects, Breaks
  <2>2. ASSUME NEW g \in Handlers, Saves(g) \/ Sends(g) \/ Ack(g) \/ FailSave(g) PROVE FALSE
    BY <1>1, <2>2, SaveDoes, SendNotificationDoes, AckDoes, FailSaveDoes DEF queue, Saves, Sends
  <2>3. ASSUME NEW g \in Handlers, NEW m \in Msgs, Process(g, m) PROVE FALSE
    BY <1>1, <2>3, ProcessDoes
  <2>4. ~Publishes /\ ~Hangs /\ ~Outside
    BY <1>1, PublishDoes, OutsideDoes DEF Publishes, Hangs, Disconnect, queue
  <2>5. Crash
    BY <2>1, <2>2, <2>3, <2>4, AnyStep
  <2> QED BY <2>5, CrashDoes
<1>2. CASE server = "down"
  <2>1. \A g \in Handlers : job[g] = Idle
    BY <1>2 DEF QueueMeans
  <2>2. ASSUME NEW g \in Handlers, Tells(g) \/ Mark(g) \/ Breaks(g) \/ Ack(g) \/ FailSave(g) PROVE FALSE
    BY <2>1, <2>2, TellsDoes, MarkDoes, FailConnectDoes, AckDoes, FailSaveDoes, IdleParts DEF Breaks
  <2>3. ASSUME NEW g \in Handlers, Saves(g) \/ Sends(g) PROVE FALSE
    BY <2>1, <2>3, SaveDoes, SendNotificationDoes, IdleParts DEF Saves, Sends
  <2>4. ASSUME NEW g \in Handlers, NEW m \in Msgs, Process(g, m) PROVE FALSE
    BY <1>2, <2>4, ProcessDoes
  <2>5. ASSUME NEW g \in Handlers, Connects(g) PROVE FALSE
    BY <1>2, <2>5, ConnectDoes DEF Connects, Request
  <2>6. ASSUME NEW g \in Handlers, Reads(g) PROVE FALSE
    <3>1. ~GetUnreadCount(g) /\ ~SendPush(g) /\ ~PushFails(g) /\ ~GetRecent(g) /\ ~FailMark(g) /\ ~AckRetried(g)
      BY <2>1, GetUnreadCountDoes, PushDoes, GetRecentDoes, FailMarkDoes, AckRetriedDoes, IdleParts
    <3>2. ~\E u \in Users : CreateDirectly(g, u)
      BY <1>2, CreateDirectlyDoes DEF Request
    <3>3. ~\E u \in Users, s \in Sockets \cup {NoSocket}, i \in 0..Len(rows) : RequestMark(g, u, s, i)
      BY <1>2, RequestMarkDoes DEF Request
    <3> QED BY <2>6, <3>1, <3>2, <3>3 DEF Reads
  <2>7. ~Crash
    BY <1>2, CrashDoes
  <2>8. Publishes \/ Hangs \/ Outside
    BY <2>2, <2>3, <2>4, <2>5, <2>6, <2>7, AnyStep
  <2>9. UNCHANGED job
    BY <2>8, PublishDoes, OutsideDoes DEF Publishes, Hangs, Disconnect
  <2> QED BY <2>1, <2>9
<1> QED BY <1>1, <1>2

LEMMA QueueMeansStep ==
  ASSUME Base, Next
  PROVE  QueueMeans'
<1>1. ASSUME NEW m \in Msgs, content'[m] = NoContent
      PROVE  /\ waiting'[m] = 0 /\ m \notin done'
             /\ \A h \in Handlers : job'[h].msg # m
             /\ \A i \in DOMAIN rows' : rows'[i].msg # m
  <2>1. content[m] = NoContent
    BY <1>1, KeptStep DEF Kept, MessagesKept
  <2>2. /\ waiting[m] = 0 /\ m \notin done
        /\ \A h \in Handlers : job[h].msg # m
        /\ \A i \in DOMAIN rows : rows[i].msg # m
    BY <2>1 DEF Base, QueueMeans
  <2>3. HeldFrom(m)
    BY MessagesFrom
  <2>4. ~(waiting'[m] > 0) /\ waiting'[m] \in Nat
    BY <1>1, <2>2, <2>3, TypedStep DEF HeldFrom, Typed
  <2> QED BY <2>2, <2>3, <2>4 DEF HeldFrom
<1>2. server' = "down" => \A h \in Handlers : job'[h] = Idle
  BY DownIsIdle
<1> QED BY <1>1, <1>2, IdleParts DEF QueueMeans, NoContent, Idle

LEMMA SocketsMeanStep ==
  ASSUME Base, Next
  PROVE  SocketsMean'
<1> USE DEF Base
<1>0. userSockets \in [Users -> Sockets \cup {NoSocket}] /\ SocketsKept
  BY SocketsKeptStep DEF Typed
<1>1. ASSUME UNCHANGED userSockets,
             \A s \in Sockets : socket[s].state \in {"open", "on"} => socket'[s].state \in {"open", "on"}
      PROVE  SocketsMean'
  BY <1>0, <1>1 DEF SocketsMean, SocketsKept
<1>2. UNCHANGED gateway => SocketsMean'
  BY DEF SocketsMean, gateway
<1>3. ASSUME NEW h \in Handlers, Tells(h) PROVE SocketsMean'
  BY <1>1, <1>3, TellsDoes
<1>4. ASSUME NEW h \in Handlers, NEW u \in Users, u = job[h].user, Save(h) PROVE SocketsMean'
  BY <1>1, <1>4, SaveDoes DEF SameSocket
<1>5. ASSUME NEW h \in Handlers, NEW u \in Users, u = job[h].user,
             NEW i \in DOMAIN rows, i = job[h].row, SendNotification(h)
      PROVE  SocketsMean'
  <2>1. UNCHANGED userSockets /\ \A s \in Sockets : socket'[s].state = socket[s].state
    BY <1>5, SendNotificationDoes
  <2> QED BY <1>1, <2>1
<1>6. ASSUME NEW h \in Handlers, NEW u \in Users, NEW s \in Sockets, Connect(h, s, u) PROVE SocketsMean'
  <2>1. /\ socket[s].state = "new" /\ \A t \in Sockets \ {s} : socket'[t] = socket[t]
        /\ socket'[s].state = "open" /\ socket'[s].user = u /\ userSockets'[u] = s
        /\ \A v \in Users \ {u} : userSockets'[v] = userSockets[v]
    BY <1>6, ConnectDoes
  <2> QED BY <1>0, <2>1 DEF SocketsMean
<1>7. ASSUME NEW h \in Handlers, FailSave(h) PROVE SocketsMean'
  BY <1>1, <1>7, FailSaveDoes DEF SameSocket
<1>8. ASSUME NEW s \in Sockets, Close(s) PROVE SocketsMean'
  BY <1>0, <1>8, CloseDoes DEF SocketsMean
<1>9. ASSUME NEW h \in Handlers, Breaks(h) PROVE SocketsMean'
  BY <1>8, <1>9, FailConnectDoes DEF Breaks
<1>10. CASE Hangs
  BY <1>8, <1>10 DEF Hangs, Disconnect
<1>11. CASE Crash
  BY <1>11, CrashDoes DEF SocketsMean
<1>12. ASSUME NEW h \in Handlers, Reads(h) \/ Ack(h) \/ Mark(h) PROVE UNCHANGED gateway
  BY <1>12, ReadsDoes, AckDoes, MarkDoes
<1>13. ASSUME NEW h \in Handlers, NEW m \in Msgs, Process(h, m) PROVE UNCHANGED gateway
  BY <1>13, ProcessDoes
<1>14. Publishes \/ Outside => UNCHANGED gateway
  BY PublishDoes, OutsideDoes DEF Publishes
<1> QED BY <1>2, <1>3, <1>4, <1>5, <1>6, <1>7, <1>9, <1>10, <1>11, <1>12, <1>13, <1>14, AnyStep
        DEF Saves, Sends, Connects

LEMMA BaseStep ==
  ASSUME Base, Next
  PROVE  Base'
  BY TypedStep, JobsMeanStep, QueueMeansStep, SocketsMeanStep DEF Base

LEMMA BaseInit ==
  ASSUME Init
  PROVE  Base
<1>0. MaxRequests \in Nat /\ MaxFaults \in Nat
  OBVIOUS
<1>1. Typed
  <2> DEFINE R == Row
  <2> HIDE DEF R
  <2>1. rows \in Seq(R)
    BY DEF Init
  <2>2. rows \in Seq(Row)
    BY <2>1 DEF R
  <2> QED BY <1>0, <2>2, IdleParts, SocketParts DEF Init, Typed
<1>2. JobsMean
  BY IdleParts DEF Init, JobsMean, JobMeans
<1>3. QueueMeans
  BY IdleParts DEF Init, QueueMeans
<1>4. SocketsMean
  BY DEF Init, SocketsMean
<1> QED BY <1>1, <1>2, <1>3, <1>4 DEF Base

LEMMA BaseStutter ==
  ASSUME Base, UNCHANGED vars
  PROVE  Base'
<1> USE DEF vars, queue, table, mails, gateway, counters
<1>1. Typed'
  BY DEF Base, Typed
<1>2. JobsMean'
  <2>1. RowsKept /\ SocketsKept
    BY DEF RowsKept, SocketsKept
  <2>2. MessagesKept
    BY DEF MessagesKept, HandedOver
  <2>3. Kept
    BY <2>1, <2>2 DEF Kept
  <2> QED BY <2>3, JobStays DEF JobsMean
<1>3. QueueMeans' /\ SocketsMean'
  BY DEF Base, QueueMeans, SocketsMean
<1> QED BY <1>1, <1>2, <1>3 DEF Base
-----------------------------------------------------------------------------
(***************************************************************************)
(* Acknowledged messages and the gateway's map.                            *)
(***************************************************************************)
LEMMA DoneStep ==
  ASSUME Base, Next, NEW m \in done', m \notin done
  PROVE  \E h \in Handlers : Ack(h) /\ job[h].msg = m
<1>1. ASSUME NEW h \in Handlers, Reads(h) \/ Tells(h) \/ Mark(h) \/ FailSave(h) PROVE UNCHANGED done
  BY <1>1, ReadsDoes, TellsDoes, MarkDoes, FailSaveDoes DEF queue
<1>2. ASSUME NEW h \in Handlers, Saves(h) \/ Sends(h) \/ Connects(h) \/ Breaks(h) PROVE UNCHANGED done
  BY <1>2, SaveDoes, SendNotificationDoes, ConnectDoes, FailConnectDoes
     DEF Saves, Sends, Connects, Breaks, queue
<1>3. ASSUME NEW h \in Handlers, NEW n \in Msgs, Process(h, n) PROVE UNCHANGED done
  BY <1>3, ProcessDoes
<1>4. Publishes \/ Hangs \/ Crash \/ Outside => UNCHANGED done
  BY PublishDoes, CrashDoes, OutsideDoes DEF Publishes, Hangs, Disconnect, queue
<1>5. ASSUME NEW h \in Handlers, Ack(h) PROVE job[h].msg = m
  BY <1>5, AckDoes
<1> QED BY <1>1, <1>2, <1>3, <1>4, <1>5, AnyStep

LEMMA DoneIsStoredStep ==
  ASSUME Base, Next, DoneIsStored
  PROVE  DoneIsStored'
<1>0. Kept /\ done \subseteq Msgs /\ done' \subseteq Msgs
  BY KeptStep, TypedStep DEF Base, Typed
<1>1. ASSUME NEW m \in done'
      PROVE  /\ Addressed(m)' => Stored(m)'
             /\ content'[m].channel = "EMAIL" => HandedOver(m)' \/ faults' > 0
  <2>1. PICK k \in Msgs : k = m
    BY <1>0
  <2>2. /\ content[k] # NoContent
        /\ Addressed(k) => Stored(k)
        /\ content[k].channel = "EMAIL" => HandedOver(k) \/ faults > 0
    <3>1. CASE m \in done
      BY <2>1, <3>1 DEF DoneIsStored, Base, QueueMeans
    <3>2. CASE m \notin done
      <4>1. PICK h \in Handlers : Ack(h) /\ job[h].msg = k
        BY <2>1, <3>2, DoneStep
      <4>2. job[h].pc = "ack" /\ job[h].kind = "Message" /\ CarriesMessage(h)
        BY <4>1, AckDoes, JobParts DEF Base, JobsMean
      <4> QED BY <4>1, <4>2 DEF CarriesMessage, Base, QueueMeans
    <3> QED BY <3>1, <3>2
  <2>3. content'[k] = content[k]
    BY <1>0, <2>2 DEF Kept, MessagesKept
  <2>4. (Addressed(k)' <=> Addressed(k)) /\ (Stored(k) => Stored(k)')
    BY <1>0, <2>3 DEF Addressed, Stored, Kept, RowsKept
  <2>5. content'[k].channel = "EMAIL" => HandedOver(k)' \/ faults' > 0
    BY <1>0, <2>2, <2>3 DEF Kept, MessagesKept
  <2> QED BY <2>1, <2>2, <2>4, <2>5
<1> QED BY <1>1 DEF DoneIsStored

EntriesKept ==
  \A u \in Users :
    LET s == userSockets[u] IN
    s # NoSocket /\ userSockets'[u] # s =>
      \/ socket'[s].state = "closed"
      \/ \E n \in Sockets : userSockets'[u] = n /\ socket[n].state = "new"

LEMMA EntriesKeptStep ==
  ASSUME Base, Next
  PROVE  EntriesKept
<1> USE DEF Base
<1>0. \A u \in Users : userSockets[u] # NoSocket =>
        userSockets[u] \in Sockets /\ socket[userSockets[u]].state \in {"open", "on"}
  BY DEF Typed, SocketsMean
<1>1. UNCHANGED userSockets => EntriesKept
  BY DEF EntriesKept
<1>2. ASSUME NEW h \in Handlers, Reads(h) \/ Ack(h) \/ Tells(h) \/ Mark(h) \/ FailSave(h)
      PROVE  UNCHANGED userSockets
  BY <1>2, ReadsDoes, AckDoes, TellsDoes, MarkDoes, FailSaveDoes DEF gateway
<1>3. ASSUME NEW h \in Handlers, Saves(h) \/ Sends(h) PROVE UNCHANGED userSockets
  BY <1>3, SaveDoes, SendNotificationDoes DEF Saves, Sends
<1>4. ASSUME NEW h \in Handlers, NEW m \in Msgs, Process(h, m) PROVE UNCHANGED userSockets
  BY <1>4, ProcessDoes DEF gateway
<1>5. Publishes \/ Outside => UNCHANGED userSockets
  BY PublishDoes, OutsideDoes DEF gateway, Publishes
<1>6. ASSUME NEW h \in Handlers, NEW u \in Users, NEW s \in Sockets, Connect(h, s, u) PROVE EntriesKept
  <2>1. /\ socket[s].state = "new" /\ userSockets'[u] = s
        /\ \A v \in Users \ {u} : userSockets'[v] = userSockets[v]
    BY <1>6, ConnectDoes
  <2> QED BY <2>1 DEF EntriesKept
<1>7. ASSUME NEW s \in Sockets, Close(s) PROVE EntriesKept
  BY <1>7, CloseDoes DEF EntriesKept
<1>8. ASSUME NEW h \in Handlers, Breaks(h) PROVE EntriesKept
  BY <1>7, <1>8, FailConnectDoes DEF Breaks
<1>9. Hangs => EntriesKept
  BY <1>7 DEF Hangs, Disconnect
<1>10. CASE Crash
  <2>1. ASSUME NEW u \in Users, userSockets[u] # NoSocket PROVE socket'[userSockets[u]].state = "closed"
    <3>1. PICK s \in Sockets : s = userSockets[u] /\ socket[s].state # "new"
      BY <1>0, <2>1
    <3>2. socket'[s].state = "closed"
      BY <1>10, <3>1, CrashDoes
    <3> QED BY <3>1, <3>2
  <2> QED BY <2>1 DEF EntriesKept
<1> QED BY <1>1, <1>2, <1>3, <1>4, <1>5, <1>6, <1>8, <1>9, <1>10, AnyStep DEF Connects
-----------------------------------------------------------------------------
(***************************************************************************)
(* Rows of a message.  Copies of it wait, are in a handler before the      *)
(* insert, past it, or given up for a copy that was published.  While the  *)
(* broker delivers, every copy that waits or is before its insert may      *)
(* become a row, and every delivery that is not over may come back with    *)
(* the channel: a fault at most doubles the rows there can be.             *)
(***************************************************************************)
RowsOf(m) == {i \in DOMAIN rows : rows[i].msg = m}

Saving(m) == {h \in Handlers : job[h].msg = m /\ job[h].pc = "save"}

Past(m) == {h \in Handlers : job[h].msg = m /\ job[h].pc \notin {"save", "retried"}}

GivenUp(m) == {h \in Handlers : job[h].msg = m /\ job[h].pc = "retried"}

Bounded(state, r, w, u, p, g, n) ==
  /\ state = "up" => r + w + u <= n /\ r + 2 * w + 2 * u + p + g <= 2 * n
  /\ state = "deaf" => r + u <= n /\ r + w + 2 * u + p <= 2 * n
  /\ state = "down" => r + w <= n

Chance(m) ==
  Bounded(server, Cardinality(RowsOf(m)), waiting[m], Cardinality(Saving(m)), Cardinality(Past(m)),
          Cardinality(GivenUp(m)), 2 ^ faults)

Chances == \A m \in Msgs : Chance(m)

\* 2 ^ n is the number of subsets of a set of n, and one more member doubles it.
LEMMA Doubles ==
  ASSUME NEW n \in Nat
  PROVE  2 ^ n \in Nat /\ 2 ^ n >= 1 /\ 2 ^ (n + 1) = 2 * 2 ^ n
<1> DEFINE A == 1..n
           B == 1..(n + 1)
           X == SUBSET A
           Y == {S \cup {n + 1} : S \in X}
<1>1. IsFiniteSet(A) /\ Cardinality(A) = n /\ IsFiniteSet(B) /\ Cardinality(B) = n + 1
  <2>1. n + 1 \in Nat
    OBVIOUS
  <2> QED BY <2>1, Interval
<1>2. B = A \cup {n + 1} /\ n + 1 \notin A
  OBVIOUS
<1> HIDE DEF A, B
<1>3. IsFiniteSet(X) /\ Cardinality(X) = 2 ^ n /\ Cardinality(X) \in Nat
  <2>1. IsFiniteSet(SUBSET A) /\ Cardinality(SUBSET A) = 2 ^ Cardinality(A)
    BY <1>1, FS_SUBSET
  <2>2. IsFiniteSet(X) /\ Cardinality(X) = 2 ^ n
    BY <1>1, <2>1
  <2> QED BY <2>2, FS_CardinalityType
<1>4. IsFiniteSet(SUBSET B) /\ Cardinality(SUBSET B) = 2 ^ (n + 1)
  <2>1. IsFiniteSet(SUBSET B) /\ Cardinality(SUBSET B) = 2 ^ Cardinality(B)
    BY <1>1, FS_SUBSET
  <2> QED BY <1>1, <2>1
<1>5. SUBSET B = X \cup Y /\ X \cap Y = {}
  <2>1. ASSUME NEW S \in SUBSET B PROVE S \in X \cup Y
    <3>1. CASE n + 1 \in S
      <4>1. S = (S \ {n + 1}) \cup {n + 1} /\ S \ {n + 1} \in X
        BY <1>2, <3>1
      <4> QED BY <4>1
    <3>2. CASE n + 1 \notin S
      BY <1>2, <3>2
    <3> QED BY <3>1, <3>2
  <2>2. X \cup Y \subseteq SUBSET B
    BY <1>2
  <2>3. X \cap Y = {}
    BY <1>2
  <2> QED BY <2>1, <2>2, <2>3
<1>6. IsFiniteSet(Y) /\ Cardinality(Y) = Cardinality(X)
  <2> DEFINE f == [S \in X |-> S \cup {n + 1}]
  <2>1. f \in Bijection(X, Y)
    <3>1. f \in [X -> Y] /\ \A T \in Y : \E S \in X : f[S] = T
      OBVIOUS
    <3>2. ASSUME NEW S \in X, NEW T \in X, f[S] = f[T] PROVE S = T
      <4>1. S \cup {n + 1} = T \cup {n + 1} /\ n + 1 \notin S /\ n + 1 \notin T
        BY <1>2, <3>2
      <4> QED BY <4>1
    <3> HIDE DEF f, X, Y
    <3> QED BY <3>1, <3>2 DEF Bijection, Injection, Surjection, IsInjective
  <2> HIDE DEF f, X, Y
  <2>2. ExistsBijection(X, Y)
    BY <2>1 DEF ExistsBijection
  <2> QED BY <1>3, <2>2, FS_Bijection
<1> HIDE DEF X, Y
<1>7. Cardinality(X \cup Y) = Cardinality(X) + Cardinality(Y) - Cardinality(X \cap Y)
  BY <1>3, <1>6, FS_Union
<1>8. Cardinality(X \cap Y) = 0
  BY <1>5, FS_EmptySet
<1>9. 2 ^ (n + 1) = 2 * 2 ^ n
  <2>1. PICK c \in Nat : c = 2 ^ n /\ Cardinality(X) = c
    BY <1>3
  <2>2. Cardinality(SUBSET B) = c + c - 0
    BY <1>5, <1>6, <1>7, <1>8, <2>1
  <2>3. Cardinality(SUBSET B) = 2 * c
    BY <2>2
  <2> QED BY <1>4, <2>1, <2>3
<1>10. Cardinality(X) # 0
  <2>1. {} \in X
    BY DEF X
  <2> QED BY <1>3, <2>1, FS_EmptySet
<1> QED BY <1>3, <1>9, <1>10

LEMMA FaultsGrow ==
  ASSUME Base, Fault \/ Request \/ UNCHANGED counters
  PROVE  /\ 2 ^ faults \in Nat /\ 2 ^ faults >= 1 /\ 2 ^ faults' \in Nat
         /\ 2 ^ faults' = 2 ^ faults \/ 2 ^ faults' = 2 * 2 ^ faults
         /\ Fault => 2 ^ faults' = 2 * 2 ^ faults
         /\ UNCHANGED counters => 2 ^ faults' = 2 ^ faults
<1>1. faults \in Nat
  BY DEF Base, Typed
<1>2. faults' = faults \/ faults' = faults + 1
  BY DEF Fault, Request, counters
<1>3. 2 ^ faults \in Nat /\ 2 ^ faults >= 1 /\ 2 ^ (faults + 1) = 2 * 2 ^ faults
  BY <1>1, Doubles
<1>4. (Fault => faults' = faults + 1) /\ (UNCHANGED counters => faults' = faults)
  BY DEF Fault, counters
<1>5. CASE faults' = faults
  <2>1. ~Fault
    BY <1>1, <1>4, <1>5
  <2> QED BY <1>3, <1>5, <2>1
<1>6. CASE faults' = faults + 1
  <2>1. 2 ^ faults' = 2 ^ (faults + 1)
    BY <1>6
  <2>2. 2 ^ faults' = 2 * 2 ^ faults
    BY <1>3, <2>1
  <2>3. ~UNCHANGED counters
    BY <1>1, <1>4, <1>6
  <2>4. PICK c \in Nat : c = 2 ^ faults
    BY <1>3
  <2>5. 2 ^ faults' \in Nat
    BY <2>2, <2>4
  <2> QED BY <1>3, <2>2, <2>3, <2>5
<1> QED BY <1>2, <1>5, <1>6

LEMMA RowsOfFinite ==
  ASSUME Typed, NEW m
  PROVE  IsFiniteSet(RowsOf(m)) /\ Cardinality(RowsOf(m)) \in Nat
<1>1. RowsOf(m) \in SUBSET DOMAIN rows
  BY DEF RowsOf
<1> QED BY <1>1, RowsFinite

LEMMA HandlersFinite ==
  ASSUME NEW S \in SUBSET Handlers
  PROVE  IsFiniteSet(S) /\ Cardinality(S) \in Nat
<1>1. IsFiniteSet(Handlers)
  OBVIOUS
<1> QED BY <1>1, FS_Subset, FS_CardinalityType

LEMMA HoldersFinite ==
  ASSUME NEW m
  PROVE  /\ IsFiniteSet(Saving(m)) /\ Cardinality(Saving(m)) \in Nat
         /\ IsFiniteSet(Past(m)) /\ Cardinality(Past(m)) \in Nat
         /\ IsFiniteSet(GivenUp(m)) /\ Cardinality(GivenUp(m)) \in Nat
         /\ IsFiniteSet(Saving(m)') /\ Cardinality(Saving(m)') \in Nat
         /\ IsFiniteSet(Past(m)') /\ Cardinality(Past(m)') \in Nat
         /\ IsFiniteSet(GivenUp(m)') /\ Cardinality(GivenUp(m)') \in Nat
<1>1. Saving(m) \in SUBSET Handlers /\ Past(m) \in SUBSET Handlers /\ GivenUp(m) \in SUBSET Handlers
  BY DEF Saving, Past, GivenUp
<1>2. Saving(m)' \in SUBSET Handlers /\ Past(m)' \in SUBSET Handlers /\ GivenUp(m)' \in SUBSET Handlers
  BY DEF Saving, Past, GivenUp
<1> QED BY <1>1, <1>2, HandlersFinite

LEMMA Holders ==
  ASSUME Typed, NEW m \in Msgs
  PROVE  Cardinality(Callbacks(m)) = Cardinality(Saving(m)) + Cardinality(Past(m)) + Cardinality(GivenUp(m))
<1> DEFINE X == Saving(m)
           Y == Past(m)
           Z == GivenUp(m)
<1>1. IsFiniteSet(X) /\ IsFiniteSet(Y) /\ IsFiniteSet(Z)
      /\ Cardinality(X) \in Nat /\ Cardinality(Y) \in Nat /\ Cardinality(Z) \in Nat
  BY HoldersFinite
<1>2. Callbacks(m) = (X \cup Y) \cup Z /\ X \cap Y = {} /\ (X \cup Y) \cap Z = {}
  BY DEF Callbacks, Saving, Past, GivenUp
<1> HIDE DEF X, Y, Z
<1>3. IsFiniteSet(X \cup Y) /\ Cardinality(X \cup Y) = Cardinality(X) + Cardinality(Y) - Cardinality(X \cap Y)
  BY <1>1, FS_Union
<1>e. Cardinality(X \cap Y) = 0 /\ Cardinality((X \cup Y) \cap Z) = 0
  BY <1>2, FS_EmptySet
<1>4. Cardinality(X \cup Y) = Cardinality(X) + Cardinality(Y)
  BY <1>1, <1>3, <1>e
<1>5. Cardinality((X \cup Y) \cup Z)
        = Cardinality(X \cup Y) + Cardinality(Z) - Cardinality((X \cup Y) \cap Z)
  BY <1>1, <1>3, FS_Union
<1>6. Cardinality((X \cup Y) \cup Z) = Cardinality(X) + Cardinality(Y) + Cardinality(Z)
  BY <1>1, <1>4, <1>5, <1>e
<1>7. Cardinality(Callbacks(m)) = Cardinality(X) + Cardinality(Y) + Cardinality(Z)
  BY <1>2, <1>6
<1> QED BY <1>7 DEF X, Y, Z

\* Fewer deliveries and more faults leave the bound alone.
LEMMA BoundStays ==
  ASSUME NEW state, NEW r \in Nat, NEW w \in Nat, NEW u \in Nat, NEW p \in Nat, NEW g \in Nat, NEW n \in Nat,
         NEW u1 \in Nat, NEW p1 \in Nat, NEW g1 \in Nat, NEW n1 \in Nat,
         Bounded(state, r, w, u, p, g, n), u1 <= u, p1 <= p, g1 <= g, n <= n1
  PROVE  Bounded(state, r, w, u1, p1, g1, n1)
  BY DEF Bounded

LEMMA ChanceStays ==
  ASSUME Base, NEW m \in Msgs, Chance(m), RowsOf(m)' = RowsOf(m), Saving(m)' \subseteq Saving(m),
         Past(m)' \subseteq Past(m), GivenUp(m)' \subseteq GivenUp(m),
         waiting'[m] = waiting[m], server' = server, Fault \/ Request \/ UNCHANGED counters
  PROVE  Chance(m)'
<1>1. /\ Cardinality(RowsOf(m)) \in Nat /\ waiting[m] \in Nat
      /\ Cardinality(Saving(m)) \in Nat /\ Cardinality(Past(m)) \in Nat /\ Cardinality(GivenUp(m)) \in Nat
      /\ Cardinality(Saving(m)') \in Nat /\ Cardinality(Past(m)') \in Nat /\ Cardinality(GivenUp(m)') \in Nat
  BY RowsOfFinite, HoldersFinite DEF Base, Typed
<1>2. /\ Cardinality(Saving(m)') <= Cardinality(Saving(m)) /\ Cardinality(Past(m)') <= Cardinality(Past(m))
      /\ Cardinality(GivenUp(m)') <= Cardinality(GivenUp(m))
  BY HoldersFinite, FS_Subset
<1>3. PICK n \in Nat, n1 \in Nat : n = 2 ^ faults /\ n1 = 2 ^ faults' /\ n <= n1
  <2>1. /\ 2 ^ faults \in Nat /\ 2 ^ faults' \in Nat
        /\ 2 ^ faults' = 2 ^ faults \/ 2 ^ faults' = 2 * 2 ^ faults
    BY FaultsGrow
  <2>2. PICK n \in Nat, n1 \in Nat : n = 2 ^ faults /\ n1 = 2 ^ faults' /\ (n1 = n \/ n1 = 2 * n)
    BY <2>1
  <2> QED BY <2>2
<1>4. Bounded(server, Cardinality(RowsOf(m)), waiting[m], Cardinality(Saving(m)), Cardinality(Past(m)),
              Cardinality(GivenUp(m)), n)
  BY <1>3 DEF Chance
<1>5. Bounded(server, Cardinality(RowsOf(m)), waiting[m], Cardinality(Saving(m)'), Cardinality(Past(m)'),
              Cardinality(GivenUp(m)'), n1)
  BY <1>1, <1>2, <1>3, <1>4, BoundStays
<1> QED BY <1>3, <1>5 DEF Chance

SameRows ==
  DOMAIN rows' = DOMAIN rows /\ \A i \in DOMAIN rows : rows'[i].msg = rows[i].msg

\* A handler that gets on, or ends.
LEMMA QuietChances ==
  ASSUME Base, Chances, NEW h \in Handlers, Turns(h), SameRows, UNCHANGED <<waiting, server>>,
         Fault \/ Request \/ UNCHANGED counters, job[h].pc # "save",
         \/ job'[h].msg = NoMsg
         \/ /\ job'[h].msg = job[h].msg
            /\ job[h].pc # "retried" /\ job'[h].pc \notin {"save", "retried"}
  PROVE  Chances'
<1> SUFFICES ASSUME NEW m \in Msgs PROVE Chance(m)'
  BY DEF Chances
<1>1. RowsOf(m)' = RowsOf(m)
  BY DEF RowsOf, SameRows
<1>2. m # NoMsg
  OBVIOUS
<1>3. Saving(m)' \subseteq Saving(m)
  BY <1>2 DEF Saving, Turns
<1>4. Past(m)' \subseteq Past(m)
  BY <1>2 DEF Past, Turns
<1>5. GivenUp(m)' \subseteq GivenUp(m)
  BY <1>2 DEF GivenUp, Turns
<1> QED BY <1>1, <1>3, <1>4, <1>5, ChanceStays DEF Chances

\* The steps of a handler h with m that is not with it before and after: nothing changes.
LEMMA OtherChance ==
  ASSUME Base, Chances, NEW h \in Handlers, Turns(h), NEW m \in Msgs, job[h].msg # m, job'[h].msg # m,
         RowsOf(m)' = RowsOf(m), waiting'[m] = waiting[m], server' = server,
         Fault \/ Request \/ UNCHANGED counters
  PROVE  Chance(m)'
<1>1. Saving(m)' = Saving(m)
  BY DEF Saving, Turns
<1>2. Past(m)' = Past(m)
  BY DEF Past, Turns
<1>3. GivenUp(m)' = GivenUp(m)
  BY DEF GivenUp, Turns
<1> QED BY <1>1, <1>2, <1>3, ChanceStays DEF Chances

\* The numbers of a message before a step, for the arithmetic.
LEMMA ChanceNumbers ==
  ASSUME Base, Chances, NEW m \in Msgs
  PROVE  \E r \in Nat, w \in Nat, u \in Nat, p \in Nat, g \in Nat, n \in Nat :
           /\ r = Cardinality(RowsOf(m)) /\ w = waiting[m] /\ u = Cardinality(Saving(m))
           /\ p = Cardinality(Past(m)) /\ g = Cardinality(GivenUp(m)) /\ n = 2 ^ faults /\ n >= 1
           /\ Bounded(server, r, w, u, p, g, n)
<1>1. /\ Cardinality(RowsOf(m)) \in Nat /\ waiting[m] \in Nat
      /\ Cardinality(Saving(m)) \in Nat /\ Cardinality(Past(m)) \in Nat /\ Cardinality(GivenUp(m)) \in Nat
  BY RowsOfFinite, HoldersFinite DEF Base, Typed
<1>2. 2 ^ faults \in Nat /\ 2 ^ faults >= 1
  BY Doubles DEF Base, Typed
<1> QED BY <1>1, <1>2 DEF Chances, Chance

LEMMA ChancesSave ==
  ASSUME Base, Chances, NEW h \in Handlers, NEW u \in Users, u = job[h].user, Save(h)
  PROVE  Chances'
<1> USE DEF Base
<1> SUFFICES ASSUME NEW m \in Msgs PROVE Chance(m)'
  BY DEF Chances
<1>0. PICK i : i = Len(rows) + 1
  OBVIOUS
<1>1. /\ UNCHANGED <<waiting, server, counters>> /\ Turns(h) /\ job[h].pc = "save"
      /\ Continues(h) /\ job'[h].pc = "saved"
      /\ DOMAIN rows' = DOMAIN rows \cup {i} /\ i \notin DOMAIN rows
      /\ \A k \in DOMAIN rows : rows'[k] = rows[k]
      /\ rows'[i].msg = job[h].msg
  BY <1>0, SaveDoes DEF queue
<1>2. CASE job[h].msg # m
  <2>1. RowsOf(m)' = RowsOf(m) /\ job'[h].msg # m
    BY <1>1, <1>2 DEF RowsOf, Continues
  <2> QED BY <1>1, <1>2, <2>1, OtherChance
<1>3. CASE job[h].msg = m
  <2>1. RowsOf(m)' = RowsOf(m) \cup {i} /\ i \notin RowsOf(m)
    BY <1>1, <1>3 DEF RowsOf
  <2>2. Saving(m)' = Saving(m) \ {h} /\ h \in Saving(m)
    BY <1>1, <1>3 DEF Saving, Turns
  <2>3. Past(m)' = Past(m) \cup {h} /\ h \notin Past(m)
    BY <1>1, <1>3 DEF Past, Turns, Continues
  <2>4. GivenUp(m)' = GivenUp(m)
    BY <1>1, <1>3 DEF GivenUp, Turns
  <2>5. PICK r \in Nat, w \in Nat, v \in Nat, p \in Nat, g \in Nat, n \in Nat :
           /\ r = Cardinality(RowsOf(m)) /\ w = waiting[m] /\ v = Cardinality(Saving(m))
           /\ p = Cardinality(Past(m)) /\ g = Cardinality(GivenUp(m)) /\ n = 2 ^ faults /\ n >= 1
           /\ Bounded(server, r, w, v, p, g, n)
    BY ChanceNumbers
  <2>6. Cardinality(RowsOf(m)') = r + 1
    BY <2>1, <2>5, RowsOfFinite, FS_AddElement
  <2>7. Cardinality(Saving(m)') = v - 1 /\ v - 1 \in Nat
    BY <2>2, <2>5, HoldersFinite, OneLess
  <2>8. Cardinality(Past(m)') = p + 1
    BY <2>3, <2>5, HoldersFinite, FS_AddElement
  <2>9. Bounded(server, r + 1, w, v - 1, p + 1, g, n) \/ server = "down"
    BY <2>5 DEF Bounded
  <2>10. server # "down"
    BY <1>1, IdleParts DEF QueueMeans
  <2>11. faults' = faults
    BY <1>1 DEF counters
  <2> QED BY <1>1, <2>4, <2>5, <2>6, <2>7, <2>8, <2>9, <2>10, <2>11 DEF Chance
<1> QED BY <1>2, <1>3

LEMMA ChancesProcess ==
  ASSUME Base, Chances, NEW h \in Handlers, NEW m \in Msgs, Process(h, m)
  PROVE  Chances'
<1> USE DEF Base
<1>1. /\ UNCHANGED <<server, rows, counters>> /\ server = "up"
      /\ waiting[m] > 0 /\ waiting'[m] = waiting[m] - 1 /\ \A k \in Msgs \ {m} : waiting'[k] = waiting[k]
      /\ Turns(h) /\ job[h].pc = "idle" /\ job'[h].msg = m /\ job'[h].pc \in {"save", "push", "ack"}
  BY ProcessDoes
<1>2. job[h].msg = NoMsg
  BY <1>1 DEF JobsMean, JobMeans
<1>3. ASSUME NEW k \in Msgs, k # m PROVE Chance(k)'
  <2>1. RowsOf(k)' = RowsOf(k) /\ job[h].msg # k
    BY <1>1, <1>2 DEF RowsOf
  <2> QED BY <1>1, <1>3, <2>1, OtherChance
<1>4. Chance(m)'
  <2>1. RowsOf(m)' = RowsOf(m) /\ job[h].msg # m
    BY <1>1, <1>2 DEF RowsOf
  <2>2. GivenUp(m)' = GivenUp(m)
    BY <1>1, <2>1 DEF GivenUp, Turns
  <2>3. PICK r \in Nat, w \in Nat, u \in Nat, p \in Nat, g \in Nat, n \in Nat :
           /\ r = Cardinality(RowsOf(m)) /\ w = waiting[m] /\ u = Cardinality(Saving(m))
           /\ p = Cardinality(Past(m)) /\ g = Cardinality(GivenUp(m)) /\ n = 2 ^ faults /\ n >= 1
           /\ Bounded(server, r, w, u, p, g, n)
    BY ChanceNumbers
  <2>4. faults' = faults
    BY <1>1 DEF counters
  <2>5. CASE job'[h].pc = "save"
    <3>1. Past(m)' = Past(m)
      BY <1>1, <2>1, <2>5 DEF Past, Turns
    <3>2. Saving(m)' = Saving(m) \cup {h} /\ h \notin Saving(m)
      BY <1>1, <2>1, <2>5 DEF Saving, Turns
    <3>3. Cardinality(Saving(m)') = u + 1
      BY <2>3, <3>2, HoldersFinite, FS_AddElement
    <3>4. Bounded(server, r, w - 1, u + 1, p, g, n)
      BY <1>1, <2>3 DEF Bounded
    <3> QED BY <1>1, <2>1, <2>2, <2>3, <2>4, <3>1, <3>3, <3>4 DEF Chance
  <2>6. CASE job'[h].pc # "save"
    <3>1. Saving(m)' = Saving(m)
      BY <1>1, <2>1, <2>6 DEF Saving, Turns
    <3>2. Past(m)' = Past(m) \cup {h} /\ h \notin Past(m)
      BY <1>1, <2>1, <2>6 DEF Past, Turns
    <3>3. Cardinality(Past(m)') = p + 1
      BY <2>3, <3>2, HoldersFinite, FS_AddElement
    <3>4. Bounded(server, r, w - 1, u, p + 1, g, n)
      BY <1>1, <2>3 DEF Bounded
    <3> QED BY <1>1, <2>1, <2>2, <2>3, <2>4, <3>1, <3>3, <3>4 DEF Chance
  <2> QED BY <2>5, <2>6
<1> QED BY <1>3, <1>4 DEF Chances

\* Without a channel, an acknowledgement may leave a copy behind.
LEMMA ChancesAck ==
  ASSUME Base, Chances, NEW h \in Handlers, Ack(h)
  PROVE  Chances'
<1> USE DEF Base
<1>0. PICK m \in Msgs : m = job[h].msg
  BY AckDoes
<1>1. /\ UNCHANGED <<server, rows, counters>> /\ Turns(h) /\ job[h].pc = "ack" /\ job'[h].msg = NoMsg
      /\ \/ waiting' = waiting
         \/ server # "up" /\ waiting' = Again(m)
  BY <1>0, AckDoes, IdleParts DEF table
<1>2. CASE waiting' = waiting
  BY <1>1, <1>2, QuietChances DEF SameRows
<1>3. CASE server # "up" /\ waiting' = Again(m)
  <2>1. waiting'[m] = waiting[m] + 1 /\ \A k \in Msgs \ {m} : waiting'[k] = waiting[k]
    BY <1>3, AgainType
  <2>2. ASSUME NEW k \in Msgs, k # m PROVE Chance(k)'
    <3>1. RowsOf(k)' = RowsOf(k) /\ job'[h].msg # k
      BY <1>1 DEF RowsOf
    <3> QED BY <1>0, <1>1, <2>1, <2>2, <3>1, OtherChance
  <2>3. Chance(m)'
    <3>1. RowsOf(m)' = RowsOf(m) /\ m # NoMsg
      BY <1>1 DEF RowsOf
    <3>2. Saving(m)' = Saving(m) /\ GivenUp(m)' = GivenUp(m)
      BY <1>0, <1>1, <3>1 DEF Saving, GivenUp, Turns
    <3>3. Past(m)' = Past(m) \ {h} /\ h \in Past(m)
      BY <1>0, <1>1, <3>1 DEF Past, Turns
    <3>4. PICK r \in Nat, w \in Nat, u \in Nat, p \in Nat, g \in Nat, n \in Nat :
           /\ r = Cardinality(RowsOf(m)) /\ w = waiting[m] /\ u = Cardinality(Saving(m))
           /\ p = Cardinality(Past(m)) /\ g = Cardinality(GivenUp(m)) /\ n = 2 ^ faults /\ n >= 1
           /\ Bounded(server, r, w, u, p, g, n)
      BY ChanceNumbers
    <3>5. Cardinality(Past(m)') = p - 1 /\ p - 1 \in Nat
      BY <3>3, <3>4, HoldersFinite, OneLess
    <3>6. server # "down"
      BY <1>1, IdleParts DEF QueueMeans
    <3>7. Bounded(server, r, w + 1, u, p - 1, g, n)
      BY <1>3, <3>4, <3>6 DEF Bounded
    <3>8. faults' = faults
      BY <1>1 DEF counters
    <3> QED BY <1>1, <2>1, <3>1, <3>2, <3>4, <3>5, <3>7, <3>8 DEF Chance
  <2> QED BY <2>2, <2>3 DEF Chances
<1> QED BY <1>1, <1>2, <1>3

\* A failing insert: the message waits once more, though it may have its row.
LEMMA ChancesFail ==
  ASSUME Base, Chances, NEW h \in Handlers, FailSave(h)
  PROVE  Chances'
<1> USE DEF Base
<1>1. /\ Fault /\ UNCHANGED <<server, rows>> /\ Turns(h) /\ job[h].pc \in {"save", "saved"}
  BY FailSaveDoes DEF table
<1>2. server # "down"
  BY <1>1, IdleParts DEF QueueMeans
<1>3. CASE job[h].msg = NoMsg
  <2>1. waiting' = waiting /\ job'[h].msg = NoMsg
    BY <1>3, FailSaveDoes, IdleParts
  <2> SUFFICES ASSUME NEW k \in Msgs PROVE Chance(k)'
    BY DEF Chances
  <2>2. RowsOf(k)' = RowsOf(k) /\ k # NoMsg
    BY <1>1 DEF RowsOf
  <2> QED BY <1>1, <1>3, <2>1, <2>2, OtherChance
<1>4. CASE job[h].msg # NoMsg
  <2>1. PICK m \in Msgs : m = job[h].msg
    BY <1>4, FailSaveDoes
  <2>2. /\ job'[h].msg = m /\ job'[h].pc = "retried"
        /\ waiting' = waiting \/ waiting' = Again(m)
    BY <1>4, <2>1, FailSaveDoes DEF Continues
  <2>3. /\ waiting'[m] = waiting[m] \/ waiting'[m] = waiting[m] + 1
        /\ \A k \in Msgs \ {m} : waiting'[k] = waiting[k]
    BY <2>2, AgainType
  <2>4. ASSUME NEW k \in Msgs, k # m PROVE Chance(k)'
    <3>1. RowsOf(k)' = RowsOf(k)
      BY <1>1 DEF RowsOf
    <3> QED BY <1>1, <2>1, <2>2, <2>3, <2>4, <3>1, OtherChance
  <2>5. Chance(m)'
    <3>1. RowsOf(m)' = RowsOf(m)
      BY <1>1 DEF RowsOf
    <3>2. GivenUp(m)' = GivenUp(m) \cup {h} /\ h \notin GivenUp(m)
      BY <1>1, <2>1, <2>2 DEF GivenUp, Turns
    <3>3. PICK r \in Nat, w \in Nat, u \in Nat, p \in Nat, g \in Nat, n \in Nat :
           /\ r = Cardinality(RowsOf(m)) /\ w = waiting[m] /\ u = Cardinality(Saving(m))
           /\ p = Cardinality(Past(m)) /\ g = Cardinality(GivenUp(m)) /\ n = 2 ^ faults /\ n >= 1
           /\ Bounded(server, r, w, u, p, g, n)
      BY ChanceNumbers
    <3>4. Cardinality(GivenUp(m)') = g + 1
      BY <3>2, <3>3, HoldersFinite, FS_AddElement
    <3>5. 2 ^ faults' = 2 * n
      BY <1>1, <3>3, FaultsGrow
    <3>6. PICK w1 \in Nat : w1 = waiting'[m] /\ (w1 = w \/ w1 = w + 1)
      BY <2>3, <3>3
    <3>7. server \in {"up", "deaf"}
      BY <1>2 DEF Typed
    <3>8. CASE job[h].pc = "save"
      <4>1. Saving(m)' = Saving(m) \ {h} /\ h \in Saving(m)
        BY <2>1, <2>2, <3>8, <1>1 DEF Saving, Turns
      <4>2. Past(m)' = Past(m)
        BY <2>1, <2>2, <3>8, <1>1 DEF Past, Turns
      <4>3. Cardinality(Saving(m)') = u - 1 /\ u - 1 \in Nat
        BY <3>3, <4>1, HoldersFinite, OneLess
      <4>4. Bounded(server, r, w1, u - 1, p, g + 1, 2 * n)
        BY <3>3, <3>6, <3>7, <4>3 DEF Bounded
      <4> QED BY <1>1, <3>1, <3>3, <3>4, <3>5, <3>6, <4>2, <4>3, <4>4 DEF Chance
    <3>9. CASE job[h].pc = "saved"
      <4>1. Past(m)' = Past(m) \ {h} /\ h \in Past(m)
        BY <2>1, <2>2, <3>9, <1>1 DEF Past, Turns
      <4>2. Saving(m)' = Saving(m)
        BY <2>1, <2>2, <3>9, <1>1 DEF Saving, Turns
      <4>3. Cardinality(Past(m)') = p - 1 /\ p - 1 \in Nat
        BY <3>3, <4>1, HoldersFinite, OneLess
      <4>4. Bounded(server, r, w1, u, p - 1, g + 1, 2 * n)
        BY <3>3, <3>6, <3>7, <4>3 DEF Bounded
      <4> QED BY <1>1, <3>1, <3>3, <3>4, <3>5, <3>6, <4>2, <4>3, <4>4 DEF Chance
    <3> QED BY <1>1, <3>8, <3>9
  <2> QED BY <2>4, <2>5 DEF Chances
<1> QED BY <1>3, <1>4

\* All deliveries of a message that are not over come back with the channel.
LEMMA ChancesEnd ==
  ASSUME Base, Chances, Crash \/ LoseChannel
  PROVE  Chances'
<1> USE DEF Base
<1> SUFFICES ASSUME NEW m \in Msgs PROVE Chance(m)'
  BY DEF Chances
<1>1. /\ Fault /\ UNCHANGED rows /\ waiting' = Requeued
      /\ \/ server # "down" /\ server' = "down" /\ \A h \in Handlers : job'[h] = Idle
         \/ server = "up" /\ server' = "deaf" /\ UNCHANGED job
  BY CrashDoes, LoseChannelDoes DEF table
<1>2. PICK r \in Nat, w \in Nat, u \in Nat, p \in Nat, g \in Nat, n \in Nat :
        /\ r = Cardinality(RowsOf(m)) /\ w = waiting[m] /\ u = Cardinality(Saving(m))
        /\ p = Cardinality(Past(m)) /\ g = Cardinality(GivenUp(m)) /\ n = 2 ^ faults /\ n >= 1
        /\ Bounded(server, r, w, u, p, g, n)
  BY ChanceNumbers
<1>3. /\ server = "up" => waiting'[m] = w + (u + p + g)
      /\ server # "up" => waiting'[m] = w
  BY <1>1, <1>2, RequeuedType, Holders
<1>4. 2 ^ faults' = 2 * n
  BY <1>1, <1>2, FaultsGrow
<1>5. RowsOf(m)' = RowsOf(m) /\ server \in {"up", "deaf", "down"}
  BY <1>1 DEF RowsOf, Typed
<1>6. CASE server' = "down"
  <2>1. r + waiting'[m] <= 2 * n
    BY <1>1, <1>2, <1>3, <1>5, <1>6 DEF Bounded
  <2> QED BY <1>2, <1>4, <1>5, <1>6, <2>1 DEF Chance, Bounded
<1>7. CASE server = "up" /\ server' = "deaf" /\ UNCHANGED job
  <2>1. Saving(m)' = Saving(m) /\ Past(m)' = Past(m) /\ GivenUp(m)' = GivenUp(m)
    BY <1>7 DEF Saving, Past, GivenUp
  <2>2. r + u <= 2 * n /\ r + (w + (u + p + g)) + 2 * u + p <= 2 * (2 * n)
    BY <1>2, <1>7 DEF Bounded
  <2>3. Bounded("deaf", r, w + (u + p + g), u, p, g, 2 * n)
    BY <2>2 DEF Bounded
  <2> QED BY <1>2, <1>3, <1>4, <1>5, <1>7, <2>1, <2>3 DEF Chance
<1> QED BY <1>1, <1>6, <1>7

LEMMA ChancesRestart ==
  ASSUME Base, Chances, Restart
  PROVE  Chances'
<1> USE DEF Base
<1> SUFFICES ASSUME NEW m \in Msgs PROVE Chance(m)'
  BY DEF Chances
<1>1. UNCHANGED <<waiting, rows, job, faults>> /\ server = "down" /\ server' = "up"
  BY RestartDoes DEF table, counters
<1>2. PICK r \in Nat, w \in Nat, u \in Nat, p \in Nat, g \in Nat, n \in Nat :
        /\ r = Cardinality(RowsOf(m)) /\ w = waiting[m] /\ u = Cardinality(Saving(m))
        /\ p = Cardinality(Past(m)) /\ g = Cardinality(GivenUp(m)) /\ n = 2 ^ faults /\ n >= 1
        /\ Bounded(server, r, w, u, p, g, n)
  BY ChanceNumbers
<1>3. \A h \in Handlers : job[h].msg # m
  BY <1>1, IdleParts DEF QueueMeans
<1>4. Saving(m) = {} /\ Past(m) = {} /\ GivenUp(m) = {}
  BY <1>3 DEF Saving, Past, GivenUp
<1>5. u = 0 /\ p = 0 /\ g = 0
  BY <1>2, <1>4, FS_EmptySet
<1>6. Bounded("up", r, w, u, p, g, n)
  BY <1>1, <1>2, <1>5 DEF Bounded
<1>7. /\ RowsOf(m)' = RowsOf(m) /\ Saving(m)' = Saving(m) /\ Past(m)' = Past(m)
      /\ GivenUp(m)' = GivenUp(m)
  BY <1>1 DEF RowsOf, Saving, Past, GivenUp
<1> QED BY <1>1, <1>2, <1>6, <1>7 DEF Chance

LEMMA ChancesPublish ==
  ASSUME Base, Chances, NEW m \in Msgs, NEW c \in Content, Publish(m, c)
  PROVE  Chances'
<1> USE DEF Base
<1>1. /\ Request /\ UNCHANGED <<server, table, job>> /\ content[m] = NoContent
      /\ waiting'[m] = waiting[m] + 1 /\ \A k \in Msgs \ {m} : waiting'[k] = waiting[k]
  BY PublishDoes
<1>2. ASSUME NEW k \in Msgs
      PROVE  RowsOf(k)' = RowsOf(k) /\ Saving(k)' = Saving(k) /\ Past(k)' = Past(k) /\ GivenUp(k)' = GivenUp(k)
  BY <1>1 DEF RowsOf, Saving, Past, GivenUp, table
<1>3. \A k \in Msgs \ {m} : Chance(k)'
  BY <1>1, <1>2, ChanceStays DEF Chances
<1>4. Chance(m)'
  <2>1. waiting'[m] = 1 /\ \A h \in Handlers : job[h].msg # m /\ \A i \in DOMAIN rows : rows[i].msg # m
    BY <1>1 DEF QueueMeans
  <2>2. RowsOf(m) = {} /\ Saving(m) = {} /\ Past(m) = {} /\ GivenUp(m) = {}
    <3>1. RowsOf(m) = {}
      BY <1>1 DEF RowsOf, QueueMeans
    <3> QED BY <2>1, <3>1 DEF Saving, Past, GivenUp
  <2>3. /\ Cardinality(RowsOf(m)') = 0 /\ Cardinality(Saving(m)') = 0 /\ Cardinality(Past(m)') = 0
        /\ Cardinality(GivenUp(m)') = 0
    BY <1>2, <2>2, FS_EmptySet
  <2>4. PICK n \in Nat : n = 2 ^ faults' /\ n >= 1
    <3>1. faults' = faults /\ faults \in Nat
      BY <1>1 DEF Request, Typed
    <3> QED BY <3>1, Doubles
  <2>5. Bounded(server', 0, 1, 0, 0, 0, n)
    BY <2>4 DEF Bounded
  <2> QED BY <2>1, <2>3, <2>4, <2>5 DEF Chance
<1> QED BY <1>3, <1>4 DEF Chances

LEMMA ChancesStep ==
  ASSUME Base, Chances, Next
  PROVE  Chances'
<1> USE DEF Base
<1>1. ASSUME NEW h \in Handlers, Reads(h) PROVE Chances'
  <2>1. /\ Turns(h) /\ SameRows /\ UNCHANGED <<waiting, server>>
        /\ Fault \/ Request \/ UNCHANGED counters
    BY <1>1, ReadsDoes DEF queue, SameRows
  <2>2. /\ job[h].pc # "save"
        /\ \/ job'[h].msg = NoMsg
           \/ /\ job'[h].msg = job[h].msg
              /\ job[h].pc # "retried" /\ job'[h].pc \notin {"save", "retried"}
    <3>1. CASE GetUnreadCount(h) \/ SendPush(h) \/ PushFails(h) \/ GetRecent(h)
      BY <3>1, GetUnreadCountDoes, PushDoes, GetRecentDoes DEF Continues
    <3>2. CASE FailMark(h) \/ AckRetried(h)
      BY <3>2, FailMarkDoes, AckRetriedDoes, IdleParts
    <3>3. CASE \E u \in Users : CreateDirectly(h, u)
      BY <3>3, CreateDirectlyDoes
    <3>4. CASE \E u \in Users, s \in Sockets \cup {NoSocket}, i \in 0..Len(rows) : RequestMark(h, u, s, i)
      BY <3>4, RequestMarkDoes
    <3> QED BY <1>1, <3>1, <3>2, <3>3, <3>4 DEF Reads
  <2> QED BY <2>1, <2>2, QuietChances
<1>2. ASSUME NEW h \in Handlers, Tells(h) PROVE Chances'
  <2>1. /\ Turns(h) /\ SameRows /\ UNCHANGED <<waiting, server>>
        /\ Fault \/ UNCHANGED counters
        /\ job[h].pc \in {"emit", "confirm", "count"}
        /\ job'[h] = Idle \/ (Continues(h) /\ job'[h].pc = AfterEmit(h))
    BY <1>2, TellsDoes DEF queue, table, SameRows
  <2>2. job[h].pc \notin {"save", "retried"} /\ AfterEmit(h) \notin {"save", "retried"}
    BY <2>1, AfterPlaces
  <2> QED BY <2>1, <2>2, IdleParts, QuietChances DEF Continues
<1>3. ASSUME NEW h \in Handlers, NEW u \in Users, u = job[h].user,
             NEW i \in DOMAIN rows, i = job[h].row, SendNotification(h)
      PROVE  Chances'
  <2>1. /\ Turns(h) /\ UNCHANGED <<queue, counters>> /\ job[h].pc = "saved"
        /\ DOMAIN rows' = DOMAIN rows /\ \A k \in DOMAIN rows \ {i} : rows'[k] = rows[k]
        /\ rows'[i].msg = rows[i].msg
        /\ job'[h] = Idle \/ (Continues(h) /\ job'[h].pc \in {AfterCreate(h), "count"})
    BY <1>3, SendNotificationDoes
  <2>2. AfterCreate(h) \notin {"save", "retried"}
    BY <2>1, AfterPlaces
  <2>3. SameRows /\ UNCHANGED <<waiting, server>>
    BY <2>1 DEF SameRows, queue
  <2> QED BY <2>1, <2>2, <2>3, IdleParts, QuietChances DEF Continues
<1>4. ASSUME NEW h \in Handlers, Mark(h) PROVE Chances'
  <2>1. /\ Turns(h) /\ UNCHANGED <<queue, counters>> /\ job[h].pc = "mark" /\ SameRows
        /\ job'[h] = Idle \/ (Continues(h) /\ job'[h].pc \in {"count", "emit"})
    BY <1>4, MarkDoes DEF SameRows
  <2> QED BY <2>1, IdleParts, QuietChances DEF queue, Continues
<1>5. ASSUME NEW h \in Handlers, Connects(h) \/ Breaks(h) PROVE Chances'
  <2>1. /\ Turns(h) /\ UNCHANGED <<queue, table>> /\ (Fault \/ Request)
        /\ job[h].pc \in {"idle", "count", "recent"} /\ job'[h].msg = NoMsg
    BY <1>5, ConnectDoes, FailConnectDoes, IdleParts DEF Connects, Breaks
  <2>2. SameRows
    BY <2>1 DEF SameRows, table
  <2> QED BY <2>1, <2>2, QuietChances DEF queue
<1>6. CASE Hangs \/ \E m \in Msgs : SendEmail(m)
  <2> SUFFICES ASSUME NEW k \in Msgs PROVE Chance(k)'
    BY DEF Chances
  <2>1. UNCHANGED <<queue, table, job, counters>>
    BY <1>6, SendEmailDoes DEF Hangs, Disconnect
  <2>2. RowsOf(k)' = RowsOf(k) /\ Saving(k)' = Saving(k) /\ Past(k)' = Past(k) /\ GivenUp(k)' = GivenUp(k)
    BY <2>1 DEF RowsOf, Saving, Past, GivenUp, table
  <2> QED BY <2>1, <2>2, ChanceStays DEF Chances, queue
<1> QED BY <1>1, <1>2, <1>3, <1>4, <1>5, <1>6, AnyStep, ChancesSave, ChancesProcess, ChancesAck, ChancesFail,
           ChancesEnd, ChancesRestart, ChancesPublish
        DEF Saves, Sends, Publishes, Outside
-----------------------------------------------------------------------------
(***************************************************************************)
(* Who moved, and what a step does to a socket.                            *)
(***************************************************************************)
LEMMA WhoMoves ==
  ASSUME Base, Next, NEW g \in Handlers, job'[g] # job[g]
  PROVE  \/ Reads(g) \/ (\E m \in Msgs : Process(g, m)) \/ Ack(g) \/ Tells(g) \/ Saves(g) \/ Sends(g)
         \/ Mark(g) \/ Connects(g) \/ FailSave(g) \/ Breaks(g) \/ Crash
<1>1. ASSUME NEW h \in Handlers, Turns(h) PROVE g = h
  BY <1>1 DEF Turns
<1>2. ASSUME NEW h \in Handlers, Reads(h) \/ Ack(h) \/ Tells(h) \/ Mark(h) \/ FailSave(h) PROVE Turns(h)
  BY <1>2, ReadsDoes, AckDoes, TellsDoes, MarkDoes, FailSaveDoes
<1>3. ASSUME NEW h \in Handlers, Saves(h) \/ Sends(h) \/ Connects(h) \/ Breaks(h) PROVE Turns(h)
  BY <1>3, SaveDoes, SendNotificationDoes, ConnectDoes, FailConnectDoes DEF Saves, Sends, Connects, Breaks
<1>4. ASSUME NEW h \in Handlers, NEW m \in Msgs, Process(h, m) PROVE Turns(h)
  BY <1>4, ProcessDoes
<1>5. ~Publishes /\ ~Hangs /\ ~Outside
  BY PublishDoes, OutsideDoes DEF Publishes, Hangs, Disconnect
<1> QED BY <1>1, <1>2, <1>3, <1>4, <1>5, AnyStep

LEMMA WhoConfirms ==
  ASSUME Base, Next, NEW g \in Handlers, job'[g] # job[g], job'[g].pc = "confirm"
  PROVE  GetRecent(g)
<1> USE IdleParts
<1>1. ~Ack(g) /\ ~FailSave(g) /\ ~Breaks(g) /\ ~Crash /\ ~\E m \in Msgs : Process(g, m)
  BY AckDoes, FailSaveDoes, FailConnectDoes, CrashDoes, ProcessDoes DEF Breaks
<1>2. ~Tells(g)
  BY TellsDoes, AfterPlaces
<1>3. ~Saves(g) /\ ~Mark(g) /\ ~Connects(g)
  BY SaveDoes, MarkDoes, ConnectDoes DEF Saves, Connects
<1>4. ~Sends(g)
  BY SendNotificationDoes, AfterPlaces DEF Sends
<1>5. Reads(g) => GetRecent(g)
  BY GetUnreadCountDoes, PushDoes, FailMarkDoes, AckRetriedDoes, CreateDirectlyDoes, RequestMarkDoes DEF Reads
<1> QED BY <1>1, <1>2, <1>3, <1>4, <1>5, WhoMoves

LEMMA WhoEmits ==
  ASSUME Base, Next, NEW g \in Handlers, job'[g] # job[g], job'[g].pc = "emit"
  PROVE  GetUnreadCount(g) \/ (Mark(g) /\ job[g].kind = "MarkAll" /\ Continues(g))
<1> USE IdleParts
<1>1. ~Ack(g) /\ ~FailSave(g) /\ ~Breaks(g) /\ ~Crash /\ ~\E m \in Msgs : Process(g, m)
  BY AckDoes, FailSaveDoes, FailConnectDoes, CrashDoes, ProcessDoes DEF Breaks
<1>2. ~Tells(g)
  BY TellsDoes, AfterPlaces
<1>3. ~Saves(g) /\ ~Connects(g) /\ (Mark(g) => job[g].kind = "MarkAll" /\ Continues(g))
  BY SaveDoes, MarkDoes, ConnectDoes DEF Saves, Connects
<1>4. ~Sends(g)
  BY SendNotificationDoes, AfterPlaces DEF Sends
<1>5. Reads(g) => GetUnreadCount(g)
  BY GetRecentDoes, PushDoes, FailMarkDoes, AckRetriedDoes, CreateDirectlyDoes, RequestMarkDoes DEF Reads
<1> QED BY <1>1, <1>2, <1>3, <1>4, <1>5, WhoMoves

\* A connection that stays keeps its user and what it was told.
Emitted(s) ==
  \E h \in Handlers : /\ EmitCount(h) /\ job[h].socket = s /\ job[h].pc = "emit"
                      /\ socket'[s].shown = job[h].count

Confirmed(s) ==
  \E h \in Handlers : /\ ConfirmConnection(h) /\ job[h].socket = s /\ job[h].pc = "confirm"
                      /\ socket'[s].got = socket[s].got \cup job[h].got

Grows(s) ==
  /\ socket[s].got \subseteq socket'[s].got
  /\ socket[s].outrun => socket'[s].outrun
  /\ socket'[s].shown = socket[s].shown \/ Emitted(s)
  /\ socket'[s].state = socket[s].state \/ (socket'[s].state = "on" /\ Confirmed(s))

SocketsGrow ==
  \A s \in Sockets :
    /\ socket[s].state # "new" /\ socket'[s].state # "closed" => Grows(s)
    /\ socket[s].state = "new" => socket'[s].state \in {"new", "closed"} \/ socket'[s].user \in Users

LEMMA SocketsGrowStep ==
  ASSUME Base, Next
  PROVE  SocketsGrow
<1> USE DEF Base
<1>1. UNCHANGED socket => SocketsGrow
  BY DEF SocketsGrow, Grows
<1>2. ASSUME NEW h \in Handlers, NEW u \in Users, u = job[h].user, Save(h) PROVE SocketsGrow
  BY <1>2, SaveDoes DEF SocketsGrow, Grows, SameSocket
<1>3. ASSUME NEW h \in Handlers, NEW u \in Users, u = job[h].user,
             NEW i \in DOMAIN rows, i = job[h].row, SendNotification(h)
      PROVE  SocketsGrow
  <2>1. \/ UNCHANGED socket
        \/ /\ \A s \in Sockets \ {userSockets[u]} : socket'[s] = socket[s]
           /\ socket'[userSockets[u]].got = socket[userSockets[u]].got \cup {i}
           /\ socket'[userSockets[u]].state = socket[userSockets[u]].state
           /\ socket'[userSockets[u]].shown = socket[userSockets[u]].shown
           /\ socket'[userSockets[u]].outrun = socket[userSockets[u]].outrun
    BY <1>3, SendNotificationDoes, SMTT(60)
  <2>2. CASE UNCHANGED socket
    BY <2>2 DEF SocketsGrow, Grows
  <2>3. ASSUME NEW t, t = userSockets[u],
               \A s \in Sockets \ {t} : socket'[s] = socket[s],
               socket'[t].got = socket[t].got \cup {i}, socket'[t].state = socket[t].state,
               socket'[t].shown = socket[t].shown, socket'[t].outrun = socket[t].outrun,
               NEW s \in Sockets
        PROVE  Grows(s)
    <3>1. CASE s = t
      <4>1. socket[t].got \subseteq socket'[t].got
        BY <2>3
      <4> QED BY <2>3, <3>1, <4>1 DEF Grows
    <3>2. CASE s # t
      BY <2>3, <3>2 DEF Grows
    <3> QED BY <3>1, <3>2
  <2> QED BY <2>1, <2>2, <2>3 DEF SocketsGrow
<1>4. ASSUME NEW h \in Handlers, NEW s \in Sockets, s = job[h].socket, Tells(h) PROVE SocketsGrow
  <2>0. socket[s].state # "new"
    BY <1>4 DEF JobsMean, JobMeans
  <2>1. \A t \in Sockets \ {s} : socket'[t] = socket[t]
    <3>1. CASE EmitCount(h)
      BY <1>4, <3>1, EmitCountDoes
    <3>2. CASE ConfirmConnection(h)
      BY <1>4, <3>2, ConfirmConnectionDoes
    <3>3. CASE FailCount(h)
      BY <1>4, <3>3, FailCountDoes
    <3> QED BY <1>4, <3>1, <3>2, <3>3 DEF Tells
  <2>2. ASSUME socket'[s].state # "closed" PROVE Grows(s)
    <3>1. CASE EmitCount(h)
      <4>1. /\ socket'[s].state = socket[s].state /\ socket'[s].got = socket[s].got
            /\ socket'[s].outrun = socket[s].outrun /\ job[h].pc = "emit"
            /\ socket[s].state # "closed" => socket'[s].shown = job[h].count
        BY <1>4, <3>1, EmitCountDoes
      <4>2. Emitted(s)
        BY <1>4, <2>2, <3>1, <4>1 DEF Emitted
      <4> QED BY <4>1, <4>2 DEF Grows
    <3>2. CASE ConfirmConnection(h)
      <4>1. /\ socket'[s].shown = socket[s].shown /\ socket'[s].outrun = socket[s].outrun
            /\ socket[s].state = "closed" => socket'[s] = socket[s]
            /\ socket[s].state # "closed" => socket'[s].state = "on"
            /\ socket[s].state # "closed" => socket'[s].got = socket[s].got \cup job[h].got
            /\ job[h].pc = "confirm"
        BY <1>4, <3>2, ConfirmConnectionDoes
      <4>2. Confirmed(s)
        BY <1>4, <2>2, <3>2, <4>1 DEF Confirmed
      <4> QED BY <2>2, <4>1, <4>2 DEF Grows
    <3>3. CASE FailCount(h)
      BY <1>4, <3>3, FailCountDoes DEF Grows, SameSocket
    <3> QED BY <1>4, <3>1, <3>2, <3>3 DEF Tells
  <2>3. \A t \in Sockets \ {s} : Grows(t)
    BY <2>1 DEF Grows
  <2> QED BY <2>0, <2>1, <2>2, <2>3 DEF SocketsGrow
<1>5. ASSUME NEW h \in Handlers, NEW u \in Users, NEW s \in Sockets, Connect(h, s, u) PROVE SocketsGrow
  <2>1. /\ socket[s].state = "new" /\ \A t \in Sockets \ {s} : socket'[t] = socket[t]
        /\ socket'[s].user = u
    BY <1>5, ConnectDoes
  <2> QED BY <2>1 DEF SocketsGrow, Grows
<1>6. ASSUME NEW h \in Handlers, FailSave(h) PROVE SocketsGrow
  BY <1>6, FailSaveDoes DEF SocketsGrow, Grows, SameSocket
<1>7. ASSUME NEW s \in Sockets, Close(s) PROVE SocketsGrow
  <2>1. socket'[s].state = "closed" /\ \A t \in Sockets \ {s} : socket'[t] = socket[t]
    BY <1>7, CloseDoes
  <2> QED BY <2>1 DEF SocketsGrow, Grows
<1>8. ASSUME NEW h \in Handlers, Breaks(h) PROVE SocketsGrow
  BY <1>7, <1>8, FailConnectDoes DEF Breaks
<1>9. Hangs => SocketsGrow
  BY <1>7 DEF Hangs, Disconnect
<1>10. CASE Crash
  BY <1>10, CrashDoes DEF SocketsGrow
<1>11. ASSUME NEW h \in Handlers, Reads(h) \/ Ack(h) \/ Mark(h) PROVE UNCHANGED socket
  BY <1>11, ReadsDoes, AckDoes, MarkDoes DEF gateway
<1>12. ASSUME NEW h \in Handlers, NEW m \in Msgs, Process(h, m) PROVE UNCHANGED socket
  BY <1>12, ProcessDoes DEF gateway
<1>13. Publishes \/ Outside => UNCHANGED socket
  BY PublishDoes, OutsideDoes DEF gateway, Publishes
<1>14. ASSUME NEW h \in Handlers, Tells(h) PROVE job[h].socket \in Sockets
  BY <1>14 DEF Tells
<1> QED BY <1>1, <1>2, <1>3, <1>4, <1>5, <1>6, <1>8, <1>9, <1>10, <1>11, <1>12, <1>13, <1>14, AnyStep
        DEF Saves, Sends, Connects

\* An entry of the map was there, or its client has just connected.
LEMMA EntriesFrom ==
  ASSUME Base, Next, NEW u \in Users, userSockets'[u] # NoSocket, userSockets'[u] # userSockets[u]
  PROVE  \E h \in Handlers, s \in Sockets : Connect(h, s, u) /\ userSockets'[u] = s
<1>1. ASSUME NEW h \in Handlers, Reads(h) \/ Ack(h) \/ Tells(h) \/ Mark(h) \/ FailSave(h) PROVE FALSE
  BY <1>1, ReadsDoes, AckDoes, TellsDoes, MarkDoes, FailSaveDoes DEF gateway
<1>2. ASSUME NEW h \in Handlers, Saves(h) \/ Sends(h) PROVE FALSE
  BY <1>2, SaveDoes, SendNotificationDoes DEF Saves, Sends
<1>3. ASSUME NEW h \in Handlers, NEW m \in Msgs, Process(h, m) PROVE FALSE
  BY <1>3, ProcessDoes DEF gateway
<1>4. ~Publishes /\ ~Outside /\ ~Crash
  BY PublishDoes, OutsideDoes, CrashDoes DEF gateway, Publishes
<1>5. ASSUME NEW s \in Sockets, Close(s) PROVE FALSE
  BY <1>5, CloseDoes
<1>6. ASSUME NEW h \in Handlers, Breaks(h) PROVE FALSE
  BY <1>5, <1>6, FailConnectDoes DEF Breaks
<1>7. ~Hangs
  BY <1>5 DEF Hangs, Disconnect
<1>8. ASSUME NEW h \in Handlers, NEW v \in Users, NEW s \in Sockets, Connect(h, s, v)
      PROVE  v = u /\ userSockets'[u] = s
  BY <1>8, ConnectDoes
<1> QED BY <1>1, <1>2, <1>3, <1>4, <1>6, <1>7, <1>8, AnyStep DEF Connects
-----------------------------------------------------------------------------
(***************************************************************************)
(* What registered clients know of rows.                                   *)
(***************************************************************************)

\* Sockets that are connected are some user's.
Owned == \A s \in Sockets : socket[s].state \in {"open", "on"} => socket[s].user \in Users

\* Of the rows the gateway was called for, a client knows all, with extra to
\* come, but those that have Recent newer ones.
Informed(s, extra) ==
  \A i \in DOMAIN rows :
    rows[i].user = socket[s].user /\ rows[i].sent =>
      i \in socket[s].got \cup extra \/ Cardinality(Newer(socket[s].user, i)) >= Recent

\* The rows are read after the socket is in the map: what comes after is told.
Informing ==
  \A u \in Users :
    userSockets[u] # NoSocket =>
      /\ socket[userSockets[u]].state = "on" => Informed(userSockets[u], {})
      /\ \A h \in Handlers :
           job[h].pc = "confirm" /\ job[h].socket = userSockets[u] => Informed(userSockets[u], job[h].got)

LEMMA OwnedStep ==
  ASSUME Base, Owned, Next
  PROVE  Owned'
<1>1. SocketsKept /\ SocketsGrow
  BY SocketsKeptStep, SocketsGrowStep
<1> QED BY <1>1, SocketType DEF Owned, SocketsKept, SocketsGrow, Base

LEMMA NewerGrows ==
  ASSUME Base, Typed', RowsKept, NEW u \in Users, NEW i \in DOMAIN rows, NEW n \in Nat,
         Cardinality(Newer(u, i)) >= n
  PROVE  Cardinality(Newer(u, i)') >= n
<1>1. Newer(u, i) \subseteq Newer(u, i)'
  BY DEF Newer, Of, RowsKept
<1>2. Newer(u, i)' \in SUBSET DOMAIN rows'
  BY DEF Newer, Of
<1>3. IsFiniteSet(Newer(u, i)') /\ Cardinality(Newer(u, i)') \in Nat
  <2> DEFINE R == Row
  <2>1. rows' \in Seq(R)
    BY DEF Typed
  <2> HIDE DEF R
  <2>2. DOMAIN rows' = 1..Len(rows') /\ Len(rows') \in Nat
    BY <2>1
  <2>3. IsFiniteSet(DOMAIN rows')
    BY <2>2, FS_Interval
  <2> QED BY <1>2, <2>3, FS_Subset, FS_CardinalityType
<1>4. Cardinality(Newer(u, i)) \in Nat /\ Cardinality(Newer(u, i)) <= Cardinality(Newer(u, i)')
  BY <1>1, <1>3, FS_Subset, OfFinite DEF Base
<1> QED BY <1>3, <1>4

\* The gateway is called for a row: its user's client is told, if it has one.
LEMMA SentTold ==
  ASSUME Base, Next, NEW u \in Users, NEW s \in Sockets, s = userSockets[u],
         NEW i \in DOMAIN rows', rows'[i].sent, rows'[i].user = u
  PROVE  (i \in DOMAIN rows /\ rows[i].sent) \/ i \in socket'[s].got
<1> USE DEF Base
<1>1. UNCHANGED rows => i \in DOMAIN rows /\ rows[i].sent
  OBVIOUS
<1>2. ASSUME NEW h \in Handlers, NEW v \in Users, v = job[h].user, Save(h)
      PROVE  i \in DOMAIN rows /\ rows[i].sent
  <2>1. /\ DOMAIN rows' = DOMAIN rows \cup {Len(rows) + 1} /\ \A k \in DOMAIN rows : rows'[k] = rows[k]
        /\ rows'[Len(rows) + 1].sent = FALSE
    BY <1>2, SaveDoes
  <2> QED BY <2>1
<1>3. ASSUME NEW h \in Handlers, NEW v \in Users, v = job[h].user,
             NEW k \in DOMAIN rows, k = job[h].row, SendNotification(h)
      PROVE  (i \in DOMAIN rows /\ rows[i].sent) \/ i \in socket'[s].got
  <2>1. /\ DOMAIN rows' = DOMAIN rows /\ \A l \in DOMAIN rows \ {k} : rows'[l] = rows[l]
        /\ rows'[k].user = rows[k].user /\ job[h].pc = "saved"
    BY <1>3, SendNotificationDoes
  <2>2. CASE i # k
    BY <2>1, <2>2
  <2>3. CASE i = k
    <3>1. rows[k].user = v
      BY <1>3, <2>1 DEF JobsMean, JobMeans
    <3>2. userSockets[v] = s /\ s # NoSocket
      BY <2>1, <2>3, <3>1
    <3>3. k \in socket'[userSockets[v]].got
      <4>1. userSockets[v] # NoSocket
        BY <3>2
      <4>2. socket'[userSockets[v]].got = socket[userSockets[v]].got \cup {k}
        BY <1>3, <4>1, SendNotificationDoes, SMTT(60)
      <4> QED BY <4>2
    <3> QED BY <2>3, <3>2, <3>3
  <2> QED BY <2>2, <2>3
<1>4. ASSUME NEW h \in Handlers, Mark(h) PROVE i \in DOMAIN rows /\ rows[i].sent
  BY <1>4, MarkDoes
<1>5. ASSUME NEW h \in Handlers, Reads(h) \/ Ack(h) \/ Tells(h) PROVE UNCHANGED rows
  BY <1>5, ReadsDoes, AckDoes, TellsDoes DEF table
<1>6. ASSUME NEW h \in Handlers, NEW m \in Msgs, Process(h, m) PROVE UNCHANGED rows
  BY <1>6, ProcessDoes
<1>7. ASSUME NEW h \in Handlers, Connects(h) \/ FailSave(h) \/ Breaks(h) PROVE UNCHANGED rows
  BY <1>7, ConnectDoes, FailSaveDoes, FailConnectDoes DEF table, Connects, Breaks
<1>8. Publishes \/ Hangs \/ Crash \/ Outside => UNCHANGED rows
  BY PublishDoes, CrashDoes, OutsideDoes DEF table, Publishes, Hangs, Disconnect
<1> QED BY <1>1, <1>2, <1>3, <1>4, <1>5, <1>6, <1>7, <1>8, AnyStep DEF Saves, Sends

LEMMA InformedStays ==
  ASSUME Base, Next, NEW u \in Users, NEW s \in Sockets, s = userSockets[u], userSockets'[u] = s,
         NEW extra, Informed(s, extra)
  PROVE  Informed(s, extra)'
<1> USE DEF Base
<1>1. Base' /\ RowsKept /\ SocketsKept /\ SocketsGrow /\ Typed'
  BY BaseStep, RowsKeptStep, SocketsKeptStep, SocketsGrowStep
<1>2. socket[s].user = u /\ socket[s].state # "new" /\ s # NoSocket
  BY DEF SocketsMean
<1>3. socket'[s].user = u /\ socket'[s].state # "closed"
  BY <1>1, <1>2 DEF SocketsMean
<1>4. socket[s].got \subseteq socket'[s].got
  BY <1>1, <1>2, <1>3 DEF SocketsGrow, Grows
<1>5. ASSUME NEW i \in DOMAIN rows', rows'[i].user = u, rows'[i].sent
      PROVE  i \in socket'[s].got \cup extra \/ Cardinality(Newer(u, i)') >= Recent
  <2>1. CASE i \in socket'[s].got
    BY <2>1
  <2>2. CASE i \in DOMAIN rows /\ rows[i].sent
    <3>1. rows[i].user = u
      BY <1>1, <1>5, <2>2 DEF RowsKept
    <3>2. i \in socket[s].got \cup extra \/ Cardinality(Newer(u, i)) >= Recent
      BY <1>2, <2>2, <3>1 DEF Informed
    <3>3. Cardinality(Newer(u, i)) >= Recent => Cardinality(Newer(u, i)') >= Recent
      <4>1. Recent \in Nat
        OBVIOUS
      <4> QED BY <1>1, <2>2, <4>1, NewerGrows
    <3> QED BY <1>4, <3>2, <3>3
  <2> QED BY <1>5, <2>1, <2>2, SentTold
<1>6. ASSUME NEW i \in DOMAIN rows' PROVE Newer(socket[s].user, i)' = Newer(u, i)'
  BY <1>3
<1> QED BY <1>3, <1>5, <1>6 DEF Informed

LEMMA InformingStep ==
  ASSUME Base, Informing, Next
  PROVE  Informing'
<1> USE DEF Base
<1>0. SocketsKept /\ SocketsGrow /\ userSockets' \in [Users -> Sockets \cup {NoSocket}] /\ Typed'
  BY BaseStep, SocketsKeptStep, SocketsGrowStep DEF Typed
<1>1. ASSUME NEW u \in Users, NEW s \in Sockets, userSockets'[u] = s, userSockets[u] # s
      PROVE  /\ socket'[s].state # "on"
             /\ \A h \in Handlers : ~(job'[h].pc = "confirm" /\ job'[h].socket = s)
  <2>1. s # NoSocket
    OBVIOUS
  <2>2. PICK h \in Handlers : Connect(h, s, u)
    BY <1>1, <2>1, EntriesFrom
  <2>3. /\ Turns(h) /\ job'[h].pc = "count" /\ socket[s].state = "new" /\ socket'[s].state = "open"
    BY <2>2, ConnectDoes
  <2>4. ASSUME NEW g \in Handlers, g # h PROVE job'[g].socket # s
    BY <2>3, <2>4 DEF Turns, JobsMean, JobMeans
  <2> QED BY <2>3, <2>4
<1>2. ASSUME NEW u \in Users, NEW s \in Sockets, s = userSockets[u], userSockets'[u] = s,
             socket'[s].state = "on"
      PROVE  Informed(s, {})'
  <2>0. s # NoSocket
    OBVIOUS
  <2>1. socket[s].state # "new"
    BY <1>2, <2>0 DEF SocketsMean
  <2>2. Grows(s)
    BY <1>0, <1>2, <2>1 DEF SocketsGrow
  <2>3. CASE socket[s].state = "on"
    <3>1. Informed(s, {})
      BY <1>2, <2>0, <2>3 DEF Informing
    <3> QED BY <1>2, <3>1, InformedStays
  <2>4. CASE Confirmed(s)
    <3>1. PICK h \in Handlers : /\ job[h].socket = s /\ job[h].pc = "confirm"
                                /\ socket'[s].got = socket[s].got \cup job[h].got
      BY <2>4 DEF Confirmed
    <3>2. PICK e : e = job[h].got
      OBVIOUS
    <3>3. Informed(s, e)
      BY <1>2, <2>0, <3>1, <3>2 DEF Informing
    <3>4. Informed(s, e)'
      BY <1>2, <3>3, InformedStays
    <3>5. e \subseteq socket'[s].got
      BY <3>1, <3>2
    <3> QED BY <3>4, <3>5 DEF Informed
  <2> QED BY <1>2, <2>2, <2>3, <2>4 DEF Grows
<1>3. ASSUME NEW u \in Users, NEW s \in Sockets, s = userSockets[u], userSockets'[u] = s,
             NEW h \in Handlers, job'[h].pc = "confirm", job'[h].socket = s, NEW e, e = job'[h].got
      PROVE  Informed(s, e)'
  <2>0. s # NoSocket
    OBVIOUS
  <2>1. CASE job'[h] = job[h]
    <3>1. Informed(s, e)
      BY <1>3, <2>0, <2>1 DEF Informing
    <3> QED BY <1>3, <3>1, InformedStays
  <2>2. CASE job'[h] # job[h]
    <3>1. GetRecent(h)
      BY <1>3, <2>2, WhoConfirms
    <3>2. /\ UNCHANGED <<rows, socket>> /\ job[h].socket = s /\ e = MostRecent(job[h].user, Recent)
      BY <1>3, <3>1, GetRecentDoes DEF table, gateway
    <3>3. socket[s].user = u /\ job[h].user = u
      BY <1>3, <2>0, <3>2 DEF SocketsMean, JobsMean, JobMeans
    <3>4. ASSUME NEW i \in DOMAIN rows, rows[i].user = u
          PROVE  i \in e \/ Cardinality(Newer(u, i)) >= Recent
      <4>1. Cardinality(Newer(u, i)) \in Nat /\ Recent \in Nat
        BY OfFinite
      <4> QED BY <3>2, <3>3, <3>4, <4>1 DEF MostRecent, Of
    <3>5. Informed(s, e)
      BY <3>3, <3>4 DEF Informed
    <3> QED BY <3>2, <3>5 DEF Informed, Newer, Of
  <2> QED BY <2>1, <2>2
<1> SUFFICES ASSUME NEW u \in Users, NEW s \in Sockets, userSockets'[u] = s
             PROVE  /\ socket'[s].state = "on" => Informed(s, {})'
                    /\ \A h \in Handlers : job'[h].pc = "confirm" /\ job'[h].socket = s
                                             => Informed(s, job[h].got)'
  BY <1>0 DEF Informing, Informed
<1>4. ASSUME NEW h \in Handlers, job'[h].pc = "confirm", job'[h].socket = s
      PROVE  Informed(s, job[h].got)'
  <2>1. PICK e : e = job'[h].got
    OBVIOUS
  <2>2. Informed(s, e)'
    BY <1>1, <1>3, <1>4, <2>1
  <2> QED BY <2>1, <2>2 DEF Informed
<1> QED BY <1>1, <1>2, <1>4
-----------------------------------------------------------------------------
(***************************************************************************)
(* Counts are at least what is unread, unless they are outrun.             *)
(***************************************************************************)
UnreadRows(u) == {i \in Of(u) : ~rows[i].read}

\* A count that is about to be emitted.
CountsHold ==
  \A h \in Handlers :
    LET s == job[h].socket IN
    job[h].pc = "emit" /\ socket[s].state # "closed" /\ ~socket[s].outrun
      => job[h].count >= Unread(job[h].user)

\* A handler that is going to count for u on socket s.
Due(u, s) ==
  \E h \in Handlers :
    /\ job[h].user = u
    /\ job[h].pc = "saved" \/ (job[h].pc \in {"count", "emit"} /\ job[h].socket = s)

\* The count that was emitted last, or that is to come.
CountsCome ==
  \A u \in Users :
    LET s == userSockets[u] IN
    s # NoSocket /\ ~socket[s].outrun => socket[s].shown >= Unread(u) \/ Due(u, s)

LEMMA UnreadShrinks ==
  ASSUME Typed, Typed', NEW u, UnreadRows(u)' \subseteq UnreadRows(u)
  PROVE  Unread(u)' <= Unread(u)
<1>1. UnreadRows(u) \in SUBSET DOMAIN rows
  BY DEF UnreadRows, Of
<1>2. IsFiniteSet(UnreadRows(u)) /\ Cardinality(UnreadRows(u)) \in Nat
  BY <1>1, RowsFinite
<1>3. Cardinality(UnreadRows(u)') <= Cardinality(UnreadRows(u))
  BY <1>2, FS_Subset
<1> QED BY <1>3 DEF Unread, UnreadRows

LEMMA UnreadNext ==
  ASSUME NEW u
  PROVE  Typed' => Unread(u)' \in Nat
<1>1. Typed => Unread(u) \in Nat
  BY OfFinite
<1>2. (Typed => Unread(u) \in Nat)'
  BY <1>1, PTL
<1> QED BY <1>2

LEMMA UnreadStep ==
  ASSUME Base, Next, NEW u \in Users
  PROVE  Unread(u)' <= Unread(u) \/ \E h \in Handlers : Save(h) /\ job[h].user = u
<1> USE DEF Base
<1>0. Typed'
  BY BaseStep
<1>1. UNCHANGED rows => UnreadRows(u)' \subseteq UnreadRows(u)
  BY DEF UnreadRows, Of
<1>2. ASSUME NEW h \in Handlers, NEW v \in Users, v = job[h].user, v # u, Save(h)
      PROVE  UnreadRows(u)' \subseteq UnreadRows(u)
  <2>1. /\ DOMAIN rows' = DOMAIN rows \cup {Len(rows) + 1} /\ \A k \in DOMAIN rows : rows'[k] = rows[k]
        /\ rows'[Len(rows) + 1].user = v
    BY <1>2, SaveDoes
  <2> QED BY <1>2, <2>1 DEF UnreadRows, Of
<1>3. ASSUME NEW h \in Handlers, NEW v \in Users, v = job[h].user,
             NEW k \in DOMAIN rows, k = job[h].row, SendNotification(h)
      PROVE  UnreadRows(u)' \subseteq UnreadRows(u)
  <2>1. /\ DOMAIN rows' = DOMAIN rows /\ \A l \in DOMAIN rows \ {k} : rows'[l] = rows[l]
        /\ rows'[k].user = rows[k].user /\ rows'[k].read = rows[k].read
    BY <1>3, SendNotificationDoes
  <2> QED BY <2>1 DEF UnreadRows, Of
<1>4. ASSUME NEW h \in Handlers, Mark(h) PROVE UnreadRows(u)' \subseteq UnreadRows(u)
  <2>1. /\ DOMAIN rows' = DOMAIN rows
        /\ \A i \in DOMAIN rows : rows'[i].user = rows[i].user /\ (rows[i].read => rows'[i].read)
    BY <1>4, MarkDoes
  <2> QED BY <2>1 DEF UnreadRows, Of
<1>5. ASSUME NEW h \in Handlers, Reads(h) \/ Ack(h) \/ Tells(h) PROVE UNCHANGED rows
  BY <1>5, ReadsDoes, AckDoes, TellsDoes DEF table
<1>6. ASSUME NEW h \in Handlers, NEW m \in Msgs, Process(h, m) PROVE UNCHANGED rows
  BY <1>6, ProcessDoes
<1>7. ASSUME NEW h \in Handlers, Connects(h) \/ FailSave(h) \/ Breaks(h) PROVE UNCHANGED rows
  BY <1>7, ConnectDoes, FailSaveDoes, FailConnectDoes DEF table, Connects, Breaks
<1>8. Publishes \/ Hangs \/ Crash \/ Outside => UNCHANGED rows
  BY PublishDoes, CrashDoes, OutsideDoes DEF table, Publishes, Hangs, Disconnect
<1>9. UnreadRows(u)' \subseteq UnreadRows(u) \/ \E h \in Handlers : Save(h) /\ job[h].user = u
  BY <1>1, <1>2, <1>3, <1>4, <1>5, <1>6, <1>7, <1>8, AnyStep DEF Saves, Sends
<1> QED BY <1>0, <1>9, UnreadShrinks

LEMMA AllMarked ==
  ASSUME Base, NEW h \in Handlers, Mark(h), job[h].kind = "MarkAll", NEW u, u = job[h].user
  PROVE  Unread(u)' = 0
<1>1. /\ DOMAIN rows' = DOMAIN rows
      /\ \A i \in DOMAIN rows : /\ rows'[i].user = rows[i].user
                                /\ rows[i].user = u => rows'[i].read
  BY MarkDoes
<1>2. UnreadRows(u)' = {}
  BY <1>1 DEF UnreadRows, Of
<1> QED BY <1>2, FS_EmptySet DEF Unread, UnreadRows

LEMMA CountsHoldStep ==
  ASSUME Base, CountsHold, Next
  PROVE  CountsHold'
<1> USE DEF Base
<1>0. Base' /\ SocketsKept /\ SocketsGrow
  BY BaseStep, SocketsKeptStep, SocketsGrowStep
<1>1. ASSUME NEW h \in Handlers, NEW u, u = job'[h].user, job'[h].pc = "emit", job'[h] # job[h]
      PROVE  job'[h].count >= Unread(u)'
  <2>1. CASE GetUnreadCount(h)
    <3>1. UNCHANGED rows /\ Continues(h) /\ job'[h].count = Unread(job[h].user)
      BY <2>1, GetUnreadCountDoes DEF table
    <3>2. u = job[h].user
      BY <1>1, <3>1 DEF Continues
    <3>3. Unread(u)' = Unread(u) /\ Unread(u) \in Nat /\ job'[h].count = Unread(u)
      BY <3>1, <3>2, OfFinite DEF Unread, Of
    <3> QED BY <3>3
  <2>2. CASE Mark(h) /\ job[h].kind = "MarkAll" /\ Continues(h)
    <3>1. Unread(u)' = 0
      BY <1>1, <2>2, AllMarked DEF Continues
    <3>2. job'[h].count \in Nat
      BY <1>0 DEF Typed, Job
    <3> QED BY <3>1, <3>2
  <2> QED BY <1>1, <2>1, <2>2, WhoEmits
<1>2. ASSUME NEW h \in Handlers, NEW u, u = job[h].user, job'[h] = job[h], job[h].pc = "emit",
             socket'[job[h].socket].state # "closed", ~socket'[job[h].socket].outrun
      PROVE  job[h].count >= Unread(u)'
  <2>1. PICK s \in Sockets : s = job[h].socket /\ socket[s].state # "new" /\ u \in Users
    BY <1>2 DEF JobsMean, JobMeans
  <2>2. socket'[s].state # "closed" /\ ~socket'[s].outrun
    BY <1>2, <2>1
  <2>3. socket[s].state # "closed" /\ ~socket[s].outrun
    BY <1>0, <2>1, <2>2 DEF SocketsKept, SocketsGrow, Grows
  <2>4. job[h].count >= Unread(u)
    BY <1>2, <2>1, <2>3 DEF CountsHold
  <2>5. ASSUME NEW g \in Handlers, Save(g), job[g].user = u PROVE FALSE
    <3>1. \E k \in Handlers : job[k].pc = "emit" /\ job[k].socket = s /\ job[k].user = u
      BY <1>2, <2>1
    <3> HIDE <1>2
    <3>2. (\E k \in Handlers : job[k].pc = "emit" /\ job[k].socket = s /\ job[k].user = u)
            => socket'[s].outrun
      BY <2>1, <2>5, SaveDoes
    <3> QED BY <2>2, <3>1, <3>2
  <2>6. Unread(u)' <= Unread(u) /\ Unread(u) \in Nat /\ Unread(u)' \in Nat /\ job[h].count \in Nat
    BY <1>0, <2>1, <2>5, UnreadNext, UnreadStep, OfFinite, JobType
  <2> QED BY <2>4, <2>6
<1>3. ASSUME NEW h \in Handlers, NEW u, u = job'[h].user, job'[h].pc = "emit",
             socket'[job'[h].socket].state # "closed", ~socket'[job'[h].socket].outrun
      PROVE  job'[h].count >= Unread(u)'
  BY <1>1, <1>2, <1>3
<1> QED BY <1>3 DEF CountsHold, Unread, Of

\* A handler that was going to count still is, has counted, or the count is lost.
LEMMA DueMoves ==
  ASSUME Base, Next, NEW u \in Users, NEW s \in Sockets, s = userSockets[u], NEW g \in Handlers,
         job[g].user = u, job[g].pc = "saved" \/ (job[g].pc \in {"count", "emit"} /\ job[g].socket = s),
         job'[g] # job[g]
  PROVE  Due(u, s)' \/ Emitted(s) \/ socket'[s].outrun \/ socket'[s].state = "closed"
<1> USE DEF Base
<1>0. s # NoSocket /\ socket[s].state \in {"open", "on"} /\ socket[s].user = u
  BY DEF SocketsMean
<1>1. CASE Reads(g)
  <2>1. GetUnreadCount(g)
    BY <1>1, PushDoes, GetRecentDoes, FailMarkDoes, AckRetriedDoes, CreateDirectlyDoes, RequestMarkDoes DEF Reads
  <2>2. /\ Continues(g) /\ job'[g].pc = "emit" /\ job'[g].socket = job[g].socket /\ job[g].pc = "count"
    BY <2>1, GetUnreadCountDoes
  <2> QED BY <2>2 DEF Due, Continues
<1>2. CASE (\E m \in Msgs : Process(g, m)) \/ Ack(g) \/ Saves(g) \/ Mark(g) \/ Connects(g)
  BY <1>2, ProcessDoes, AckDoes, SaveDoes, MarkDoes, ConnectDoes DEF Saves, Connects
<1>3. CASE EmitCount(g) /\ job[g].socket \in Sockets
  <2>1. job[g].pc = "emit"
    BY <1>3, EmitCountDoes
  <2>2. job[g].socket = s
    BY <2>1
  <2>3. socket'[s].shown = job[g].count
    BY <1>0, <1>3, <2>2, EmitCountDoes
  <2> QED BY <1>3, <2>1, <2>2, <2>3 DEF Emitted
<1>4. CASE FailCount(g) /\ job[g].socket \in Sockets
  <2>1. job[g].pc = "count"
    BY <1>4, FailCountDoes
  <2>2. job[g].socket = s
    BY <2>1
  <2> QED BY <1>4, <2>2, FailCountDoes
<1>5. ~ConfirmConnection(g)
  BY DEF ConfirmConnection, Goto, Step
<1>6. CASE Sends(g)
  <2>1. job[g].pc = "saved"
    BY <1>6 DEF Sends, SendNotification, Step
  <2>2. userSockets[u] # NoSocket
    BY <1>0
  <2>3. Continues(g) /\ job'[g].pc = "count" /\ job'[g].socket = userSockets[u]
    BY <1>6, <2>2, SendNotificationDoes, SMTT(60) DEF Sends
  <2> QED BY <2>3 DEF Due, Continues
<1>7. CASE FailSave(g)
  <2>1. job[g].pc = "saved"
    BY <1>7, FailSaveDoes
  <2>2. job[g].pc = "saved" /\ socket[s].user = job[g].user => socket'[s].outrun
    BY <1>7, FailSaveDoes
  <2> QED BY <1>0, <2>1, <2>2
<1>8. CASE Breaks(g)
  <2>1. job[g].pc \in {"count", "recent"} /\ Close(job[g].socket)
    BY <1>8, FailConnectDoes DEF Breaks
  <2>2. job[g].socket = s
    BY <2>1
  <2> QED BY <2>1, <2>2, CloseDoes
<1>9. CASE Crash
  BY <1>0, <1>9, CrashDoes
<1> QED BY <1>1, <1>2, <1>3, <1>4, <1>5, <1>6, <1>7, <1>8, <1>9, WhoMoves DEF Tells

LEMMA CountsComeStep ==
  ASSUME Base, CountsHold, CountsCome, Next
  PROVE  CountsCome'
<1> USE DEF Base
<1>0. Base' /\ SocketsKept /\ SocketsGrow
  BY BaseStep, SocketsKeptStep, SocketsGrowStep
<1> SUFFICES ASSUME NEW u \in Users, NEW s \in Sockets, userSockets'[u] = s, ~socket'[s].outrun
             PROVE  socket'[s].shown >= Unread(u)' \/ Due(u, s)'
  <2>1. userSockets' \in [Users -> Sockets \cup {NoSocket}]
    BY <1>0 DEF Typed
  <2> QED BY <2>1 DEF CountsCome, Due, Unread, Of
<1>1. s # NoSocket /\ socket'[s].state # "closed"
  BY <1>0 DEF SocketsMean
<1>2. CASE userSockets[u] # s
  <2>1. PICK h \in Handlers : Connect(h, s, u)
    BY <1>1, <1>2, EntriesFrom
  <2>2. job'[h].pc = "count" /\ job'[h].user = u /\ job'[h].socket = s
    BY <2>1, ConnectDoes
  <2> QED BY <2>2 DEF Due
<1>3. CASE userSockets[u] = s
  <2>1. socket[s].state \in {"open", "on"} /\ socket[s].user = u
    BY <1>1, <1>3 DEF SocketsMean
  <2>2. ~socket[s].outrun /\ (socket'[s].shown = socket[s].shown \/ Emitted(s))
    BY <1>0, <1>1, <2>1 DEF SocketsGrow, Grows
  <2>3. /\ socket[s].shown \in Nat /\ socket'[s].shown \in Nat /\ Unread(u) \in Nat /\ Unread(u)' \in Nat
    BY <1>0, SocketType, OfFinite, UnreadNext DEF Typed, Socket
  <2>4. CASE Emitted(s)
    <3>1. PICK h \in Handlers : /\ EmitCount(h) /\ job[h].socket = s /\ job[h].pc = "emit"
                                /\ socket'[s].shown = job[h].count
      BY <2>4 DEF Emitted
    <3>2. job[h].user = u
      BY <2>1, <3>1 DEF JobsMean, JobMeans
    <3>3. job[h].count >= Unread(u)
      BY <2>1, <2>2, <3>1, <3>2 DEF CountsHold
    <3>4. UNCHANGED rows
      BY <3>1, EmitCountDoes DEF table
    <3>5. Unread(u)' = Unread(u)
      BY <3>4 DEF Unread, Of
    <3> QED BY <3>1, <3>3, <3>5
  <2>5. CASE ~Emitted(s) /\ socket[s].shown >= Unread(u)
    <3>1. ASSUME NEW g \in Handlers, Save(g), job[g].user = u PROVE Due(u, s)'
      <4>1. Continues(g) /\ job'[g].pc = "saved"
        BY <3>1, SaveDoes
      <4> QED BY <3>1, <4>1 DEF Due, Continues
    <3> QED BY <2>2, <2>3, <2>5, <3>1, UnreadStep
  <2>6. CASE ~Emitted(s) /\ Due(u, s)
    <3>1. PICK g \in Handlers : /\ job[g].user = u
                                /\ job[g].pc = "saved" \/ (job[g].pc \in {"count", "emit"} /\ job[g].socket = s)
      BY <2>6 DEF Due
    <3>2. CASE job'[g] = job[g]
      BY <3>1, <3>2 DEF Due
    <3>3. CASE job'[g] # job[g]
      BY <1>1, <1>3, <2>6, <3>1, <3>3, DueMoves
    <3> QED BY <3>2, <3>3
  <2>7. socket[s].shown >= Unread(u) \/ Due(u, s)
    BY <1>1, <1>3, <2>2 DEF CountsCome
  <2> QED BY <2>4, <2>5, <2>6, <2>7
<1> QED BY <1>2, <1>3
-----------------------------------------------------------------------------
(***************************************************************************)
(* The invariant and what follows from it.                                 *)
(***************************************************************************)
Feeding == Owned /\ Informing /\ CountsHold /\ CountsCome

NotificationsInv == Base /\ DoneIsStored /\ Chances /\ Feeding

LEMMA StartsFree ==
  ASSUME Init
  PROVE  Chances
<1> SUFFICES ASSUME NEW m \in Msgs PROVE Chance(m)
  BY DEF Chances
<1>1. RowsOf(m) = {} /\ Saving(m) = {} /\ Past(m) = {} /\ GivenUp(m) = {}
  BY IdleParts DEF Init, RowsOf, Saving, Past, GivenUp
<1>2. PICK n \in Nat : n = 2 ^ faults /\ n >= 1
  BY Doubles DEF Init
<1>3. waiting[m] = 0 /\ server = "up"
  BY DEF Init
<1>4. Bounded("up", 0, 0, 0, 0, 0, n)
  BY <1>2 DEF Bounded
<1> QED BY <1>1, <1>2, <1>3, <1>4, FS_EmptySet DEF Chance

LEMMA NotificationsInit ==
  ASSUME Init
  PROVE  NotificationsInv
<1>1. Base /\ Chances
  BY BaseInit, StartsFree
<1>2. DoneIsStored
  BY DEF Init, DoneIsStored
<1>3. (\A s \in Sockets : socket[s].state = "new") /\ \A u \in Users : userSockets[u] = NoSocket
  BY SocketParts DEF Init
<1>4. Owned /\ Informing /\ CountsCome
  BY <1>3 DEF Owned, Informing, CountsCome
<1>5. CountsHold
  BY IdleParts DEF Init, CountsHold
<1> QED BY <1>1, <1>2, <1>4, <1>5 DEF NotificationsInv, Feeding

LEMMA NotificationsStutter ==
  ASSUME NotificationsInv, UNCHANGED vars
  PROVE  NotificationsInv'
<1> USE DEF vars, queue, table, mails, gateway, counters
<1>1. Base'
  BY BaseStutter DEF NotificationsInv
<1>2. DoneIsStored'
  BY DEF NotificationsInv, DoneIsStored, Addressed, Stored, HandedOver
<1>3. Chances'
  BY DEF NotificationsInv, Chances, Chance, RowsOf, Saving, Past, GivenUp
<1>4. Owned' /\ Informing'
  BY DEF NotificationsInv, Feeding, Owned, Informing, Informed, Newer, Of
<1>5. CountsHold' /\ CountsCome'
  BY DEF NotificationsInv, Feeding, CountsHold, CountsCome, Due, Unread, Of
<1> QED BY <1>1, <1>2, <1>3, <1>4, <1>5 DEF NotificationsInv, Feeding

LEMMA NotificationsStep ==
  ASSUME NotificationsInv, [Next]_vars
  PROVE  NotificationsInv'
<1>1. CASE Next
  BY <1>1, BaseStep, DoneIsStoredStep, ChancesStep, OwnedStep, InformingStep, CountsHoldStep, CountsComeStep
     DEF NotificationsInv, Feeding
<1> QED BY <1>1, NotificationsStutter

\* Whatever users, messages, sockets and handlers there are, however many rows
\* are sent on connection and however many faults: places and their message,
\* user, row and socket, the map and its sockets, rows and the copies that may
\* become one, what clients know and the counts that come fit.
THEOREM NotificationsInvariance == Spec => []NotificationsInv
  BY NotificationsInit, NotificationsStep, PTL DEF Spec

\* Every variable keeps its type; a row in the table is one its handler built.
THEOREM NotificationsTypeCorrect == Spec => []TypeOK
<1>1. NotificationsInv => TypeOK
  BY RowType DEF NotificationsInv, Base, Typed, TypeOK
<1> QED BY <1>1, NotificationsInvariance, PTL

\* A message is acknowledged with its row in the table, or its e-mail handed to
\* the mail service, if no fault came.
THEOREM DoneMessagesAreStored == Spec => []DoneIsStored
<1>1. NotificationsInv => DoneIsStored
  BY DEF NotificationsInv
<1> QED BY <1>1, NotificationsInvariance, PTL

\* A message has one row, and each failing insert, lost channel or crash at most
\* doubles them.
THEOREM DuplicatesNeedFaults == Spec => []DuplicatesAreFaults
<1>1. NotificationsInv => DuplicatesAreFaults
  <2> SUFFICES ASSUME NotificationsInv, NEW m \in Msgs PROVE Cardinality(RowsOf(m)) <= 2 ^ faults
    BY DEF DuplicatesAreFaults, RowsOf
  <2>1. PICK r \in Nat, w \in Nat, u \in Nat, p \in Nat, g \in Nat, n \in Nat :
          /\ r = Cardinality(RowsOf(m)) /\ w = waiting[m] /\ u = Cardinality(Saving(m))
          /\ p = Cardinality(Past(m)) /\ g = Cardinality(GivenUp(m)) /\ n = 2 ^ faults /\ n >= 1
          /\ Bounded(server, r, w, u, p, g, n)
    BY ChanceNumbers DEF NotificationsInv
  <2>2. server \in {"up", "deaf", "down"}
    BY DEF NotificationsInv, Base, Typed
  <2>3. r <= n
    BY <2>1, <2>2 DEF Bounded
  <2> QED BY <2>1, <2>3
<1> QED BY <1>1, NotificationsInvariance, PTL

\* A registered client knows every row the gateway was called for, but those that
\* have Recent newer ones, whatever came between its lookup and its queries.
THEOREM NothingIsMissed == Spec => []NothingMissed
<1>1. NotificationsInv => NothingMissed
  <2> SUFFICES ASSUME NotificationsInv, NEW s \in Sockets, Registered(s),
                      NEW i \in Of(socket[s].user), rows[i].sent
               PROVE  i \in socket[s].got \/ Cardinality(Newer(socket[s].user, i)) >= Recent
    BY DEF NothingMissed
  <2>1. socket[s].user \in Users /\ userSockets[socket[s].user] = s /\ socket[s].state = "on" /\ s # NoSocket
    BY DEF Registered, NotificationsInv, Feeding, Owned
  <2>2. Informed(s, {})
    BY <2>1 DEF NotificationsInv, Feeding, Informing
  <2> QED BY <2>2 DEF Informed, Of
<1> QED BY <1>1, NotificationsInvariance, PTL

\* A registered client whose counts are done and not outrun is shown at least as
\* many unread rows as there are.
THEOREM CountsAreNeverUnderstated == Spec => []NeverUnderstated
<1>1. NotificationsInv => NeverUnderstated
  <2> SUFFICES ASSUME NotificationsInv, NEW s \in Sockets, NEW u, u = socket[s].user, Registered(s),
                      ~socket[s].outrun,
                      \A h \in Handlers : job[h].user = u => job[h].pc \notin {"saved", "count", "emit"}
               PROVE  socket[s].shown >= Unread(u)
    BY DEF NeverUnderstated
  <2>1. u \in Users /\ userSockets[u] = s /\ s # NoSocket
    BY DEF Registered, NotificationsInv, Feeding, Owned
  <2>2. ~Due(u, s)
    BY DEF Due
  <2> QED BY <2>1, <2>2 DEF NotificationsInv, Feeding, CountsCome
<1> QED BY <1>1, NotificationsInvariance, PTL

\* The map gives an entry up only for a newer connection, or when its socket closes.
THEOREM EntriesAreKept == Spec => EntryKept
<1>1. NotificationsInv /\ [Next]_vars => [EntriesKept]_vars
  BY EntriesKeptStep DEF NotificationsInv
<1>2. [EntriesKept]_vars =>
        [\A u \in Users :
           LET s == userSockets[u] IN
           s # NoSocket /\ userSockets'[u] # s =>
             \/ socket'[s].state = "closed"
             \/ \E n \in Sockets : userSockets'[u] = n /\ socket[n].state = "new"]_vars
  BY DEF EntriesKept
<1> QED BY <1>1, <1>2, NotificationsInvariance, PTL DEF Spec, EntryKept
=============================================================================
