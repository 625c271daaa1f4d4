---------------------------- MODULE Notifications ----------------------------
(***************************************************************************)
(* src/app/notification: messages of the notification queue and the jobs'  *)
(* direct calls become rows, pushes and e-mails; the gateway keeps one     *)
(* socket for each user in memory, tells it of new rows and sends it       *)
(* counts and the most recent rows when it connects.                       *)
(*                                                                         *)
(* Handlers are split at their awaits.  The queue is abstracted to counts  *)
(* of waiting copies; RabbitQueue has their retry counts, the dead letters *)
(* and the reconnection.                                                   *)
(***************************************************************************)
EXTENDS Integers, Sequences, FiniteSets

CONSTANTS
  Users, Msgs, Sockets,
  Handlers,    \* slots for handlers that run at the same time
  NoUser, NoMsg, NoSocket,
  Channels,    \* channels of the messages that are queued
  Recent,      \* rows sent on connection: 5 in handleConnection
  Limit,       \* rows on a page of the feed
  MaxRetries,  \* MAX_RETRIES of a push
  MaxRequests, \* bound on messages, jobs' notifications, connections and marks
  MaxFaults    \* bound on failing queries, lost channels and crashes

ASSUME NotificationsAssumption ==
  /\ NoUser \notin Users /\ NoMsg \notin Msgs /\ NoSocket \notin Sockets
  /\ Channels \subseteq {"EMAIL", "SMS", "IN_APP", "PUSH", "IN_APP_PUSH"}
  /\ {Recent, Limit} \subseteq Nat \ {0}
  /\ {MaxRetries, MaxRequests, MaxFaults} \subseteq Nat
  /\ IsFiniteSet(Handlers)

VARIABLES
  waiting,      \* copies of each message in the queue, dead letters included
  done,         \* messages a callback has succeeded for
  server,       \* the process: consuming, running without a consumer, or down
  content,      \* what each queued message says
  rows,         \* the notifications table; an id is a place in it
  began,        \* inserts begun so far, which orders createdAt
  mail,         \* e-mails under way, for each message
  mailed, refused, \* messages the mail service has sent, or refused, an e-mail of
  socket,       \* the clients' connections
  userSockets,  \* the gateway's map, in memory
  job,          \* the handlers under way
  requests, faults

queue == <<waiting, done, content, server>>
table == <<rows, began>>
mails == <<mail, mailed, refused>>
gateway == <<socket, userSockets>>
counters == <<requests, faults>>
vars == <<queue, table, mails, gateway, job, counters>>
-----------------------------------------------------------------------------
\* token: the user has a valid Expo push token.
Content == [channel: Channels, user: Users \cup {NoUser}, token: BOOLEAN]

NoContent == [channel |-> "none", user |-> NoUser, token |-> FALSE]

\* at: createdAt, the time the insert began.  sent: the gateway was called for it.
Row == [user: Users, msg: Msgs \cup {NoMsg}, at: Nat, read: BOOLEAN, sent: BOOLEAN]

\* got: rows the client was told of; shown: the unread count it was told last;
\* outrun: a row came while a count for this socket was under way, or one failed.
Socket == [state: {"new", "open", "on", "closed"}, user: Users \cup {NoUser},
           got: SUBSET Nat, shown: Nat, outrun: BOOLEAN]

NewSocket == [state |-> "new", user |-> NoUser, got |-> {}, shown |-> 0, outrun |-> FALSE]

ClosedSocket == [NewSocket EXCEPT !.state = "closed"]

Places == {"idle", "save", "saved", "count", "emit", "recent", "confirm", "push", "mark", "ack",
           "retried"}

Job == [pc: Places, kind: {"None", "Message", "Direct", "Connect", "Mark", "MarkAll"},
        msg: Msgs \cup {NoMsg}, user: Users \cup {NoUser}, socket: Sockets \cup {NoSocket},
        at: Nat, row: Nat, count: Nat, tries: 0..MaxRetries, got: SUBSET Nat]

Idle == [pc |-> "idle", kind |-> "None", msg |-> NoMsg, user |-> NoUser, socket |-> NoSocket,
         at |-> 0, row |-> 0, count |-> 0, tries |-> 0, got |-> {}]

Of(u) == {i \in DOMAIN rows : rows[i].user = u}

Newer(u, i) == {k \in Of(u) : rows[k].at > rows[i].at}

\* Mutant: the oldest rows instead of the newest.
LeastRecent(u, n) == {i \in Of(u) : Cardinality(Of(u) \ Newer(u, i)) <= n}

\* getUserNotifications: by createdAt, whether read or not.
MostRecent(u, n) == {i \in Of(u) : Cardinality(Newer(u, i)) < n}

\* Mutant: the id next to the cursor is skipped.
PageSkippingOne(u, cursor) ==
  LET rest == {i \in Of(u) : cursor = 0 \/ i < cursor - 1}
  IN  {i \in rest : Cardinality(Newer(u, i) \cap rest) < Limit}

\* getUserNotificationsWithCursor: the first Limit rows by createdAt of those
\* whose id is below the cursor; no cursor is 0.
Page(u, cursor) ==
  LET rest == {i \in Of(u) : cursor = 0 \/ i < cursor}
  IN  {i \in rest : Cardinality(Newer(u, i) \cap rest) < Limit}

\* The id of the last row of a page.
NextCursor(page) == CHOOSE i \in page : \A k \in page : rows[i].at <= rows[k].at

\* What a client sees that follows nextCursor until a page is empty.
Feed(u) ==
  LET from[cursor \in 0..Len(rows)] ==
        LET page == Page(u, cursor)
        IN  IF page = {} THEN {} ELSE page \cup from[NextCursor(page)]
  IN  from[0]

Unread(u) == Cardinality({i \in Of(u) : ~rows[i].read})

Init ==
  /\ waiting = [m \in Msgs |-> 0]
  /\ done = {}
  /\ server = "up"
  /\ content = [m \in Msgs |-> NoContent]
  /\ rows = <<>>
  /\ began = 0
  /\ mail = [m \in Msgs |-> 0]
  /\ mailed = {}
  /\ refused = {}
  /\ socket = [s \in Sockets |-> NewSocket]
  /\ userSockets = [u \in Users |-> NoSocket]
  /\ job = [h \in Handlers |-> Idle]
  /\ requests = 0
  /\ faults = 0
-----------------------------------------------------------------------------
Request ==
  /\ server # "down"
  /\ requests < MaxRequests
  /\ requests' = requests + 1
  /\ UNCHANGED faults

\* Slot h gets on from place pc with job j; j.pc = "idle" ends the handler.
Step(h, pc, j) ==
  /\ job[h].pc = pc
  /\ job' = [job EXCEPT ![h] = IF j.pc = "idle" THEN Idle ELSE j]

Goto(h, pc, next) == Step(h, pc, [job[h] EXCEPT !.pc = next])

\* Where a message's handler is after createNotification, and any after its emits.
AfterCreate(h) ==
  IF job[h].kind = "Direct" THEN "idle"
  ELSE LET c == content[job[h].msg]
       IN  IF c.channel = "IN_APP_PUSH" /\ c.token THEN "push" ELSE "ack"

AfterEmit(h) ==
  CASE job[h].kind \in {"Message", "Direct"} -> AfterCreate(h)
    [] job[h].kind = "Connect" -> "recent"
    [] OTHER -> "idle"

\* The first await of process.  createNotification returns without a user,
\* handlePushNotificationInQueue without a token; an e-mail is not awaited.
Entry(c) ==
  CASE c.channel \in {"IN_APP", "IN_APP_PUSH"} /\ c.user # NoUser -> "save"
    [] c.channel = "PUSH" /\ c.token -> "push"
    [] OTHER -> "ack"

\* One more copy of m waits.
Again(m) == [waiting EXCEPT ![m] = @ + 1]

\* pushToQueue by createOTPLog (EMAIL) or by handleDebitTransaction (IN_APP_PUSH).
Publish(m, c) ==
  /\ c.user = NoUser => ~c.token
  /\ c.channel = "EMAIL" => c.user = NoUser
  /\ Request
  /\ content[m] = NoContent
  /\ content' = [content EXCEPT ![m] = c]
  /\ waiting' = Again(m)
  /\ UNCHANGED <<done, server, table, mails, gateway, job>>

\* The broker delivers a copy and holds the delivery until it is acknowledged or
\* the channel ends.
Process(h, m) ==
  LET c == content[m] IN
  /\ server = "up"
  /\ waiting[m] > 0
  /\ waiting' = [waiting EXCEPT ![m] = @ - 1]
  /\ Step(h, "idle", [Idle EXCEPT !.pc = Entry(c), !.kind = "Message", !.msg = m,
                                  !.user = c.user, !.at = began])
  /\ began' = IF Entry(c) = "save" THEN began + 1 ELSE began
  /\ mail' = IF c.channel = "EMAIL" THEN [mail EXCEPT ![m] = @ + 1] ELSE mail
  /\ UNCHANGED <<done, content, server, rows, mailed, refused, gateway, counters>>

\* On a lost channel, whose deliveries wait again, the acknowledgement throws,
\* and a copy of the message that succeeded may be published.
Ack(h) ==
  LET m == job[h].msg IN
  /\ Goto(h, "ack", "idle")
  /\ done' = done \cup {m}
  /\ \/ waiting' = waiting
     \/ server # "up" /\ waiting' = Again(m)
  /\ UNCHANGED <<content, server, table, mails, gateway, counters>>

\* The failed delivery goes, after its copy was published.
AckRetried(h) ==
  /\ Goto(h, "retried", "idle")
  /\ UNCHANGED <<queue, table, mails, gateway, counters>>

\* A scheduled job calls createNotification itself.
CreateDirectly(h, u) ==
  /\ Request
  /\ Step(h, "idle", [Idle EXCEPT !.pc = "save", !.kind = "Direct", !.user = u, !.at = began])
  /\ began' = began + 1
  /\ UNCHANGED <<queue, rows, mails, gateway>>
-----------------------------------------------------------------------------
\* The counts under way for a socket of u do not include the new row.
Outrun(u) ==
  [s \in Sockets |->
     [socket[s] EXCEPT !.outrun = @ \/ \E h \in Handlers : /\ job[h].pc = "emit" /\ job[h].socket = s
                                                           /\ job[h].user = u]]

Save(h) ==
  LET j == job[h] IN
  /\ Step(h, "save", [j EXCEPT !.pc = "saved", !.at = 0, !.row = Len(rows) + 1])
  /\ rows' = Append(rows, [user |-> j.user, msg |-> j.msg, at |-> j.at, read |-> FALSE, sent |-> FALSE])
  /\ socket' = Outrun(j.user)
  /\ UNCHANGED <<queue, began, mails, userSockets, counters>>

Told(s, ids) == [socket EXCEPT ![s].got = @ \cup ids]

\* Mutant: the client is told of the row and not of the new count.
SendNotificationOnly(h) ==
  LET j == job[h]
      s == userSockets[j.user]
  IN  /\ Step(h, "saved", [j EXCEPT !.pc = AfterCreate(h), !.row = 0])
      /\ rows' = [rows EXCEPT ![j.row].sent = TRUE]
      /\ socket' = IF s = NoSocket THEN socket ELSE Told(s, {j.row})
      /\ UNCHANGED <<queue, began, mails, userSockets, counters>>

\* sendNotificationToUser looks the socket up and emits to it without an await.
SendNotification(h) ==
  LET j == job[h]
      s == userSockets[j.user]
  IN  /\ Step(h, "saved", IF s = NoSocket THEN [j EXCEPT !.pc = AfterCreate(h), !.row = 0]
                          ELSE [j EXCEPT !.pc = "count", !.row = 0, !.socket = s])
      /\ rows' = [rows EXCEPT ![j.row].sent = TRUE]
      /\ socket' = IF s = NoSocket THEN socket ELSE Told(s, {j.row})
      /\ UNCHANGED <<queue, began, mails, userSockets, counters>>

GetUnreadCount(h) ==
  /\ Step(h, "count", [job[h] EXCEPT !.pc = "emit", !.count = Unread(job[h].user)])
  /\ UNCHANGED <<queue, table, mails, gateway, counters>>

\* Mutant: the client has to acknowledge the count.
EmitCountWithAck(h) ==
  LET j == job[h] IN
  /\ Step(h, "emit", [j EXCEPT !.pc = AfterEmit(h), !.count = 0])
  /\ socket[j.socket].state # "closed"
  /\ socket' = [socket EXCEPT ![j.socket].shown = j.count]
  /\ UNCHANGED <<queue, table, mails, userSockets, counters>>

\* What is emitted to a closed socket is lost.
EmitCount(h) ==
  LET j == job[h] IN
  /\ Step(h, "emit", [j EXCEPT !.pc = AfterEmit(h), !.count = 0])
  /\ socket' = IF socket[j.socket].state = "closed" THEN socket
               ELSE [socket EXCEPT ![j.socket].shown = j.count]
  /\ UNCHANGED <<queue, table, mails, userSockets, counters>>

SendPush(h) ==
  /\ Goto(h, "push", "ack")
  /\ UNCHANGED <<queue, table, mails, gateway, counters>>

\* Mutants: the last failure throws, and the message comes back; one retry more.
PushFailsThrowing(h) ==
  LET j == job[h] IN
  /\ IF j.tries < MaxRetries
     THEN Step(h, "push", [j EXCEPT !.tries = @ + 1]) /\ UNCHANGED queue
     ELSE Goto(h, "push", "retried") /\ waiting' = Again(j.msg) /\ UNCHANGED <<done, content, server>>
  /\ UNCHANGED <<table, mails, gateway, counters>>

PushFailsOnceMore(h) ==
  /\ Step(h, "push", IF job[h].tries <= MaxRetries THEN [job[h] EXCEPT !.tries = @ + 1]
                     ELSE [job[h] EXCEPT !.pc = "ack"])
  /\ UNCHANGED <<queue, table, mails, gateway, counters>>

\* After MAX_RETRIES the push is given up: sendPushNotification returns false,
\* which nobody looks at.
PushFails(h) ==
  /\ Step(h, "push", IF job[h].tries < MaxRetries THEN [job[h] EXCEPT !.tries = @ + 1]
                     ELSE [job[h] EXCEPT !.pc = "ack"])
  /\ UNCHANGED <<queue, table, mails, gateway, counters>>

\* The mail service answers with an error instead of an exception where it
\* refuses an e-mail or cannot be reached: nobody looks at it.
SendEmail(m) ==
  /\ mail[m] > 0
  /\ mail' = [mail EXCEPT ![m] = @ - 1]
  /\ \/ mailed' = mailed \cup {m} /\ UNCHANGED refused
     \/ refused' = refused \cup {m} /\ UNCHANGED mailed
  /\ UNCHANGED <<queue, table, gateway, job, counters>>
-----------------------------------------------------------------------------
\* handleConnection of an authenticated client: the map first, then the queries.
Connect(h, s, u) ==
  /\ Request
  /\ socket[s].state = "new"
  /\ Step(h, "idle", [Idle EXCEPT !.pc = "count", !.kind = "Connect", !.user = u, !.socket = s])
  /\ socket' = [socket EXCEPT ![s].state = "open", ![s].user = u]
  /\ userSockets' = [userSockets EXCEPT ![u] = s]
  /\ UNCHANGED <<queue, table, mails>>

GetRecent(h) ==
  /\ Step(h, "recent", [job[h] EXCEPT !.pc = "confirm", !.got = MostRecent(job[h].user, Recent)])
  /\ UNCHANGED <<queue, table, mails, gateway, counters>>

ConfirmConnection(h) ==
  LET s == job[h].socket IN
  /\ Goto(h, "confirm", "idle")
  /\ socket' = IF socket[s].state = "closed" THEN socket
               ELSE [Told(s, job[h].got) EXCEPT ![s].state = "on"]
  /\ UNCHANGED <<queue, table, mails, userSockets, counters>>

\* Mutant: the entry of the socket's user goes, whose ever it is now.
CloseByUser(s) ==
  /\ socket' = [socket EXCEPT ![s] = ClosedSocket]
  /\ userSockets' = [u \in Users |-> IF u = socket[s].user THEN NoSocket ELSE userSockets[u]]

\* handleDisconnect finds the entry of this socket, not of its user.
Close(s) ==
  /\ socket' = [socket EXCEPT ![s] = ClosedSocket]
  /\ userSockets' = [u \in Users |-> IF userSockets[u] = s THEN NoSocket ELSE userSockets[u]]

Disconnect(s) ==
  /\ socket[s].state \in {"open", "on"}
  /\ Close(s)
  /\ UNCHANGED <<queue, table, mails, job, counters>>

\* markAsRead and markAllAsRead, of the gateway or (NoSocket) of the controller,
\* which sends no count.
RequestMark(h, u, s, i) ==
  /\ Request
  /\ s # NoSocket => socket[s].state \in {"open", "on"} /\ socket[s].user = u
  /\ Step(h, "idle", [Idle EXCEPT !.pc = "mark", !.user = u, !.socket = s, !.row = i,
                                  !.kind = IF i = 0 THEN "MarkAll" ELSE "Mark"])
  /\ UNCHANGED <<queue, table, mails, gateway>>

\* One UPDATE; "mark all" answers with a count of 0 it has not read.
Mark(h) ==
  LET j == job[h]
      hit == Of(j.user) \cap (IF j.kind = "MarkAll" THEN DOMAIN rows ELSE {j.row})
  IN  /\ Goto(h, "mark", IF j.socket = NoSocket THEN "idle"
                         ELSE IF j.kind = "MarkAll" THEN "emit" ELSE "count")
      /\ rows' = [i \in DOMAIN rows |-> IF i \in hit THEN [rows[i] EXCEPT !.read = TRUE] ELSE rows[i]]
      /\ UNCHANGED <<queue, began, mails, gateway, counters>>
-----------------------------------------------------------------------------
Fault == faults < MaxFaults /\ faults' = faults + 1 /\ UNCHANGED requests

\* Mutant: createNotification swallows the error, and the message is acknowledged.
SwallowSave(h) ==
  LET j == job[h] IN
  /\ Fault
  /\ j.pc \in {"save", "saved"}
  /\ Goto(h, j.pc, IF j.kind = "Message" THEN "ack" ELSE "idle")
  /\ socket' = [s \in Sockets |-> [socket[s] EXCEPT !.outrun = @ \/ (j.pc = "saved" /\ socket[s].user = j.user)]]
  /\ UNCHANGED <<queue, table, mails, userSockets>>

\* The insert fails, or its answer is lost: createNotification throws, to the
\* scheduled job or to the queue's callback, which publishes a copy; on a lost
\* channel that may fail.
FailSave(h) ==
  LET j == job[h] IN
  /\ Fault
  /\ j.pc \in {"save", "saved"}
  /\ Goto(h, j.pc, IF j.kind = "Message" THEN "retried" ELSE "idle")
  /\ \/ waiting' = IF j.kind = "Message" THEN Again(j.msg) ELSE waiting
     \/ server # "up" /\ waiting' = waiting
  /\ socket' = [s \in Sockets |-> [socket[s] EXCEPT !.outrun = @ \/ (j.pc = "saved" /\ socket[s].user = j.user)]]
  /\ UNCHANGED <<done, content, server, table, mails, userSockets>>

\* A count fails: the gateway catches it and createNotification goes on.
FailCount(h) ==
  /\ Fault
  /\ job[h].kind # "Connect"
  /\ Goto(h, "count", AfterEmit(h))
  /\ socket' = [socket EXCEPT ![job[h].socket].outrun = TRUE]
  /\ UNCHANGED <<queue, table, mails, userSockets>>

\* A query of handleConnection fails: the client is disconnected.
FailConnect(h) ==
  /\ Fault
  /\ job[h].kind = "Connect" /\ job[h].pc \in {"count", "recent"}
  /\ Goto(h, job[h].pc, "idle")
  /\ Close(job[h].socket)
  /\ UNCHANGED <<queue, table, mails>>

FailMark(h) ==
  /\ Fault
  /\ Goto(h, "mark", "idle")
  /\ UNCHANGED <<queue, table, mails, gateway>>

Callbacks(m) == {h \in Handlers : job[h].msg = m}

\* The broker takes back what it holds on the consumer's channel.
Requeued ==
  IF server = "up" THEN [m \in Msgs |-> waiting[m] + Cardinality(Callbacks(m))] ELSE waiting

\* The channel is lost: a new one is made, but nothing consumes on it
\* (ReconnectionResumes of RabbitQueue).
LoseChannel ==
  /\ Fault
  /\ server = "up"
  /\ server' = "deaf"
  /\ waiting' = Requeued
  /\ UNCHANGED <<done, content, table, mails, gateway, job>>

\* The process dies: connections, the map and e-mails under way are gone.
Crash ==
  /\ Fault
  /\ server # "down"
  /\ server' = "down"
  /\ waiting' = Requeued
  /\ job' = [h \in Handlers |-> Idle]
  /\ socket' = [s \in Sockets |-> IF socket[s].state = "new" THEN socket[s]
                                  ELSE ClosedSocket]
  /\ userSockets' = [u \in Users |-> NoSocket]
  /\ mail' = [m \in Msgs |-> 0]
  /\ UNCHANGED <<done, content, table, mailed, refused>>

\* Somebody starts it again.
Restart ==
  /\ server = "down"
  /\ server' = "up"
  /\ UNCHANGED <<waiting, done, content, table, mails, gateway, job, counters>>

\* The call itself or the rendering throws and nobody awaits it: an unhandled
\* rejection ends the process.
FailEmail == (\E m \in Msgs : mail[m] > 0) /\ Crash
-----------------------------------------------------------------------------
Work(h) ==
  \/ Ack(h) \/ AckRetried(h) \/ Save(h) \/ SendNotification(h) \/ GetUnreadCount(h) \/ EmitCount(h)
  \/ SendPush(h) \/ PushFails(h) \/ GetRecent(h) \/ ConfirmConnection(h) \/ Mark(h)

Next ==
  \/ \E m \in Msgs : SendEmail(m) \/ \E c \in Content : Publish(m, c)
  \/ \E h \in Handlers :
       \/ Work(h)
       \/ \E m \in Msgs : Process(h, m)
       \/ FailSave(h) \/ FailCount(h) \/ FailConnect(h) \/ FailMark(h)
  \/ \E h \in Handlers, u \in Users :
       \/ CreateDirectly(h, u)
       \/ \E s \in Sockets : Connect(h, s, u)
       \/ \E s \in Sockets \cup {NoSocket}, i \in 0..Len(rows) : RequestMark(h, u, s, i)
  \/ \E s \in Sockets : Disconnect(s)
  \/ FailEmail \/ LoseChannel \/ Crash \/ Restart

Spec == Init /\ [][Next]_vars

\* An awaited call is answered or fails, the queue delivers while there is a
\* consumer, the mail service answers.  Clients, jobs and faults come as they
\* like, and nothing has to start a process that died again.
Fairness ==
  /\ \A h \in Handlers : WF_vars(Work(h))
  /\ \A m \in Msgs : WF_vars(\E h \in Handlers : Process(h, m)) /\ WF_vars(SendEmail(m))

FairSpec == Spec /\ Fairness
-----------------------------------------------------------------------------
TypeOK ==
  /\ waiting \in [Msgs -> Nat]
  /\ done \subseteq Msgs
  /\ server \in {"up", "deaf", "down"}
  /\ content \in [Msgs -> Content \cup {NoContent}]
  /\ \A i \in DOMAIN rows : rows[i] \in Row
  /\ began \in Nat
  /\ mail \in [Msgs -> Nat]
  /\ mailed \cup refused \subseteq Msgs
  /\ \A s \in Sockets : socket[s] \in Socket
  /\ userSockets \in [Users -> Sockets \cup {NoSocket}]
  /\ \A h \in Handlers : job[h] \in Job
  /\ requests \in 0..MaxRequests
  /\ faults \in 0..MaxFaults

\* A socket the gateway has in its map and has confirmed.
Registered(s) == socket[s].state = "on" /\ userSockets[socket[s].user] = s

\* No notification falls between the lookup of a socket and the queries of its
\* connection: a registered client has every row the gateway was called for, but
\* those that already had Recent newer ones when it connected (the code's
\* "notification will be delivered when user reconnects" goes no further).
NothingMissed ==
  \A s \in Sockets : Registered(s) =>
    \A i \in Of(socket[s].user) :
      rows[i].sent => i \in socket[s].got \/ Cardinality(Newer(socket[s].user, i)) >= Recent

\* With its emits done, a registered client is shown at least as many unread
\* notifications as there are, unless a row came while a count for it was under
\* way: counts are emitted in the order their queries end.
NeverUnderstated ==
  \A s \in Sockets :
    LET u == socket[s].user IN
    Registered(s) /\ ~socket[s].outrun
      /\ (\A h \in Handlers : job[h].user = u => job[h].pc \notin {"saved", "count", "emit"})
      => socket[s].shown >= Unread(u)

\* createNotification is not idempotent, and copies of a message that live at the
\* same time come back together: a message has one row, and each failing insert,
\* lost channel or crash may double them.  Nothing else does: a push that is
\* given up does not bring the message back.
DuplicatesAreFaults ==
  \A m \in Msgs : Cardinality({i \in DOMAIN rows : rows[i].msg = m}) <= 2 ^ faults

Addressed(m) == content[m].channel \in {"IN_APP", "IN_APP_PUSH"} /\ content[m].user # NoUser

Stored(m) == \E i \in DOMAIN rows : rows[i].msg = m /\ rows[i].user = content[m].user

\* An e-mail of m was handed to the mail service, which sent it, refused it or
\* has not answered.
HandedOver(m) == mail[m] > 0 \/ m \in mailed \cup refused

\* A message is acknowledged only with its row in the table; its e-mail, which is
\* not awaited, was at least handed to the mail service, but for a crash.
DoneIsStored ==
  \A m \in done :
    /\ Addressed(m) => Stored(m)
    /\ content[m].channel = "EMAIL" => HandedOver(m) \/ faults > 0

\* A client that follows nextCursor to the end has seen all its notifications,
\* but one that an older row (by id, the cursor) with a later createdAt (the
\* order) hides: inserts that ended in another order than they began.
FeedComplete ==
  \A u \in Users : \A i \in Of(u) \ Feed(u) : \E k \in Newer(u, i) : k < i

\* The map gives an entry up only for a newer connection of the user, or when
\* that very socket closes: a late disconnect of an old one leaves it alone.
EntryKept ==
  [][\A u \in Users :
       LET s == userSockets[u] IN
       s # NoSocket /\ userSockets'[u] # s =>
         \/ socket'[s].state = "closed"
         \/ \E n \in Sockets : userSockets'[u] = n /\ socket[n].state = "new"]_vars

\* As long as the process consumes, an accepted message is processed to the end
\* whatever its client and the push service do and though a query fails: its row
\* is there and, without a crash, the mail service has answered for its e-mail,
\* if only to refuse it.
EachIsDelivered ==
  \A m \in Msgs :
    content[m] # NoContent ~>
      \/ server # "up"
      \/ /\ m \in done
         /\ Addressed(m) => Stored(m)
         /\ content[m].channel = "EMAIL" => m \in mailed \cup refused \/ faults > 0
=============================================================================
