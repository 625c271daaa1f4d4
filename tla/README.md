# TLA+ models of percher-backend

Percher is a rental marketplace: a NestJS application over one Postgres
database (TypeORM), RabbitMQ, Paystack and a scheduler.  Nothing in it runs in
a database transaction, and every `await` lets another request, message or job
in.  The models split each handler at its awaits and let handlers interleave,
fail and die anywhere in between.

Contents: [inventory](#inventory), [modules](#modules), [runs](#runs),
[what the code does wrong](#where-code-and-documentation-differ),
[proofs](#proofs), [what is only model-checked](#limits), [plan](#plan).

## Inventory

| Component | State | Operations that change it | Correct when |
|---|---|---|---|
| Payments, ledger, wallet balances (`src/app/payment`) | `payments`, `transactions`, `wallets.balance` | `createPayment`, `verifyPayment` (queues), `processPayment` (from the queue), `handleBookingApproval`, `handleBookingRejection`, `handleBookingCancellation` | nothing is recorded as paid, posted or paid out before the step it rests on; a charged payment ends up posted; no ledger row is added twice |
| Bookings (`src/app/booking`) | `bookings`, `invoices` | `create`, `remove`, `review` | status and payment status follow the money |
| Queues (`src/rabbitmq`) | connection, channel, consumers, queue and dead letter queue at the broker | `connect`, `reconnect`, `registerQueue`, `pushToQueue`, `consumeMessages` and the consumer's ack, retry, nack | no accepted message is lost, each is processed |
| Scheduled jobs (`src/cron`) | `bookings.status` | `checkBookingArrivalDates`, `checkBookingEndDates` | stays start and end on their dates |
| Accounts (`src/app/auth`, `src/app/user`) | `users`, `wallets` (existence), `refreshToken`, `otp_log` | `register`, `login`, `loginWithOAuth`, `refreshTokens`, `resetPassword`, `createOTPLog`, `verifyOTP`, `update`, `updateUserPushToken`, `remove` | one wallet per user, bounded sessions, codes used once, one user per device |
| Notifications (`src/app/notification`) | `notifications`, `userSockets` in memory | `process`, `createNotification`, connect, disconnect, `markAsRead`, `markAllAsRead`, the paged feed (read), pushes, e-mails | each is stored once and reaches its user, counts agree, pages leave nothing out |
| Properties (`src/app/property`) | `properties`, their status | `create`, `review`, `findAll` and `checkAvailability` (read) | no two stays of one property overlap, a search is complete |
| Wallet bank details, waitlist, uploads, guards, wiring | single rows or none | single statements | not modelled, see `PROJECT.json` |

How they interact: a client creates a draft payment and a booking whose invoice
points at it, pays at Paystack, and asks for `verifyPayment`, which pushes a
message.  The booking's body carries the invoice whole, and its save cascades to
the payment in it, so the client may write the payment's columns too.  The
consumer calls `processPayment`: it asks Paystack, marks the booking as paid and
pending, saves the payment, inserts a deposit (and adds it to the wallet) or a
debit that awaits review (and queues a notification for the host).  A review
overwrites the booking's status and then completes the debit and credits the
host or refunds the guest.  The jobs move reviewed bookings to CURRENT and
COMPLETED and call `createNotification` themselves; payments and one-time
passwords reach the notifications through a queue.  A new notification is a row,
and then an event and an unread count on the socket the gateway holds for its
user.  A guest searches, asks whether a period is free, and books, each in a
request of its own.  A user without a wallet (registration failed half way)
makes payment handlers throw after their first writes.

What is hard: reads used after awaits (`processPayment` keeps the payment it
read first, a client sends back the draft it was given, `updateWalletBalance`
reads, adds and writes, `save(entity)` writes stale columns back); retries of
half-done work; at-least-once delivery with callbacks running at once; a process
dying between two writes; the jobs' lists going stale; sessions and codes
checked and then written; sockets that come and go between a notification's row
and its event; dates checked and then booked.  `PROJECT.json` lists each hazard
at its line with the properties aimed at it.

## Modules

**`Settlement`** models payments, ledger, balances, bookings and their review.
`payment`, `booking`, `ledger` are the tables; `balance[w]` is the set of
ledger rows whose amounts have been added into wallet `w`'s balance column, so
that an amount lost or taken from the wrong row can be told apart without
numbers.  `pending[r]` counts queued verifications, `server` says whether the
process consumes them ("up"), runs without a consumer ("deaf") or is "down".
`job[h]` is one handler: its place (`pc`) is the await it stands at, and its
other fields are the local variables that survive it.  `processPayment` is `Receive`, `Verify`,
`MarkBookingPaid`, `SavePayment`, `InsertDeposit` or `InsertDebit`,
`ReadWallet`, `WriteWallet`, `Ack`; a review is `Review`, `FindDebit`,
`CompleteDebit`, `InsertPayout`, `ReadWallet`, `WriteWallet`.  Approval and
cancellation differ in the wallet and the row's type only and share actions.
`CreateBooking` inserts a booking whose invoice names a payment as it is, or
none; `CreateBookingWith` one whose body gives the payment columns, which the
cascade writes over a payment that exists or inserts.  `rewritten` is history:
the payments whose columns a body has changed so.  `Throw` is an exception of the
code, `Fail` a failing await, `LoseChannel` the loss of the consumer's channel,
after which nothing consumes (`queue_reconnect`) while handlers go on, and `Crash`
the death of the process; a message of a handler that ends so comes back, which is
what `RabbitQueue` shows of the queue.  `Restart` is somebody starting the process
again.  Two simplifications: `verifyPayment`'s read
and push are one step, and `review`'s read and update are one step (a removal
in between ends alike).  A removed booking's invoice stays linked to its
payment.  The webhook only calls `verifyPayment`.

**`Books`** is the abstract specification: money is collected, confirmed,
posted, completed and added to balances, in that order and without handlers.
`Settlement!ImplementsBooks` instantiates it with `confirmed` the set of
references saved as a success whose payment no booking's body has changed; a
change takes the confirmation back (`Retract`), and never the rows.  Books lets a
balance lack rows, because the code loses updates; `NoLostCredit` says when it
does not.

**`RabbitQueue`** models one queue of the singleton.  A message is a set of
copies `<<message, retryCount>>`; `ready` and `dlq` count them, `cb` holds the
callbacks under way and whether the broker still waits for their
acknowledgement, `chan`, `consumer` and `listener` say which channel exists,
which one consumes and which one has the close handlers.  The broker
(requeueing, expiry) is external.

**`BookingCalendar`** models the two jobs over bookings with dates, in half
days; an even tick is a midnight.  Each job finds (`Arriving`, `Ended`), then
updates one by one, while reviews, payments and removals update the same
column.  The jobs run hourly; the model runs each once per half day, and
`Tick` waits for both, so nothing is missed because the scheduler is slow.

**`Accounts`** models registration, login, sessions, one-time passwords,
password reset, profile and push tokens.  A job that holds an entity keeps its
columns as they were read, because TypeORM's `save` writes back every column
that differs from the row.  Refresh tokens are counted per user, since nothing
else of them matters; times are steps of five minutes; the token of a push token
request may be null.  A user whose row a stale save inserts again after its
removal is "revived".  `overlapped` records
whether two requests have ever been in progress together: the properties say
what holds without overlap, and how far it can go with it.

**`AtLeastOnce`** is the abstract queue: a message that was accepted is pending
until a callback has succeeded for it, may be run by several callbacks and may
come again.  `RabbitQueue!ImplementsAtLeastOnce` instantiates it with `pending`
the messages of which a copy waits or is unacknowledged and `running` the
callbacks before their success or failure.  Republishing, dead letters and
reconnections are stutters, or repeat a message that is done.  It keeps one
message where the queue may hold several copies, so it bounds nothing that
depends on their number: `Settlement` and `Notifications` count copies
themselves.

**`Notifications`** models the service, the gateway, the queue's consumer and
the retries of a push.  `rows` is the table (the id is the place), `began`
orders `createdAt`; `socket[s]` is what a client has been told (`got`, `shown`)
and `userSockets` the gateway's map.  `job[h]` is one handler at one of its
awaits: `createNotification` is `Save`, `SendNotification` (which looks the
socket up and emits without an await), `GetUnreadCount`, `EmitCount`;
`handleConnection` is `Connect`, `GetUnreadCount`, `EmitCount`, `GetRecent`,
`ConfirmConnection`; a message is `Process`, the above or `SendPush` and
`PushFails`, and `Ack`.  Jobs enter at `CreateDirectly`.  `waiting[m]` counts the
copies of a message in the queue.  A callback that fails publishes one and stands
at "retried" until its own delivery is acknowledged (`AckRetried`); a lost channel
or a crash requeues the deliveries under way, whether a copy of them was published
or not.  `server` is as in `Settlement`.  `SendEmail` is the mail service's answer,
which may be an error that nobody looks at; `FailEmail` an exception, which ends
the process.  `sent`, `outrun`, `mailed` and `refused` are history: the gateway was
called for a row; a row was saved while a count for the socket was under way, or a
count failed; an e-mail went out, or was refused.  Simplifications: ids are given
in the order of the inserts' ends, `createdAt` values differ, a connection that is not authenticated is none.

**`Availability`** models listing, review, search and booking of properties.
Bookings are seen through the one question both queries ask, whether they are
UPCOMING or CURRENT (`Reserved`): all other statuses are "Free", and
`ChangeStatus` is any payment, review or job of the other modules.
`Conflicting` is the overlap the queries compute, `Matching` the conditions of
`findAll` for guests, hosts, admins and requests that do not say for whom, to
which no condition on owner or status applies.  A query with joins and a limit is
two in TypeORM, first the ids and then their rows: `FindIds` and `LoadPage`.  `answer[b]` keeps the check a guest
made before booking `b`, with the bookings that were reserved at that time;
checks that no booking follows change nothing and are left out.

`MCSettlement`, `MCAccounts` and `MCAvailability` hold the instances'
definitions (owners of wallets, periods, searches, symmetry).  The proofs of a
module are in one of its own: `SettlementProofs` and, on top of it,
`OneHandlerProofs`; `RabbitQueueProofs`; `CalendarProofs`; `AccountsProofs`;
`NotificationsProofs` and, on top of it, `FeedProofs`; `AvailabilityProofs`.
Operators that begin with a comment `Mutant` are plausible bugs; replacing the
mapped definition next to them by them breaks the property `PROJECT.json` names,
which shows that the property speaks about that code.

## Runs

| Run | Bounds | Shows |
|---|---|---|
| `settles` | 1 payment of any type, with and without wallet, 1 booking that may write it, 2 handlers, 2 verifications, 1 fault | liveness: `ChargedIsConfirmed`, `ChargedIsPosted`; `AddedOnce`, `BalanceBackedByLedger` |
| `bookings` | 1 payment, 1 booking that may write it, 2 handlers, 4 verifications or reviews, 1 fault | the inductive invariant `Inv`, `RecordsKept`, refinement of `Books` |
| `one_at_a_time` | 1 payment, 2 bookings (one host without wallet), 1 handler, 4 requests, 1 fault | `NoLostCredit`, `OnePayoutPerDebit` |
| `queue` | 2 messages, 2 callbacks, 1 retry, 3 failing callbacks, 1 lost connection, 1 crash | nothing lost, nothing multiplied, all processed; refinement of `AtLeastOnce` |
| `calendar` | 1 booking of any dates, 7 half days, 1 failing run | statuses and dates agree as far as the queries make them; one-day stays start, current ones end |
| `accounts` | 2 users, 1 device, 2 handlers, 4 requests, 2 codes, 1 fault | seven properties of accounts |
| `notifications` | 1 user, 1 queued message, 2 sockets, 2 handlers, 3 requests (messages, jobs, connections, marks), 1 push retry, 1 fault, 1 recent row, pages of 1 | what clients are told: `NothingMissed`, `NeverUnderstated`, `EntryKept`; what is stored: `DoneIsStored`, `DuplicatesAreFaults`, `EachIsDelivered`; `FeedComplete`.  A fault is a failing query, a lost channel or a crash |
| `availability` | 2 users, 2 properties, 2 bookings of 3 periods (two that touch, one reversed), searches of 4 kinds, pages of 1, 6 requests | `DoubleStayNeedsRace`, `SearchComplete` |
| `queue_prefetch`, `queue_reconnect`, `calendar_long_stay`, `otp_lifetime` | smallest that reach it | expected violations, below |

Why the bounds are enough: races here are between two handlers (one reads, the
other writes), and the third request finds what they left; a fault matters
between two writes of one handler, so one is enough to reach every half-done
state, and the retry after it is a further request.  Two retries and the dead
letter queue are reached with `MaxRetries = 1`, since the code compares the
count only with its limit.  Seven half days cover the day before, of and after
a stay, and the day the ending job looks back on.  In `notifications` two rows
exceed the one recent row a connection brings and the one row of a page, and two
sockets of one user are what an entry of the map can be fought over by; a second
user would share nothing with the first but the handlers.  One fault makes two
copies of a message; more faults make more, up to four rows for two, and that
n faults never leave more than 2^n is the theorem `DuplicatesNeedFaults`.  One payment is enough in
`Settlement`, where payments share nothing but wallets and handlers, and one
wallet is what two handlers of one payment fight over.  In `availability` two
bookings make a collision, and two properties with pages of one make a search
that goes on while things change.  What does not depend on the
bounds is proved (below).  Deadlock is not checked: every model stops when its
requests are used up, and the application may be idle.

Fairness.  In `Settlement` an awaited call is answered or fails, so a started
handler moves on (WF of each handler's step); while the process consumes, a
waiting message is delivered whatever others do, because the consumer sets no
prefetch limit and the slots are the model's own bound (SF of `Receive`, which
needs `server = "up"`).  Nothing in the repository consumes again after a lost
channel or starts a process that died, so `Restart` is not fair, and
`ChargedIsConfirmed` and `ChargedIsPosted` promise nothing past the point where
the process stops consuming; after a restart they apply to what waits.  The
customer, reviews, bodies and faults are not fair.  In `RabbitQueue` callbacks
settle, the broker delivers and expires, an attached handler does reconnect, a
pending retry does too; nothing restarts a dead process.  In `BookingCalendar`
the scheduler starts the jobs and time passes.  In `Notifications` an awaited
call is answered or fails, the queue delivers while the process consumes, and
the mail service answers, if only with an error, unless the process dies;
connections, jobs, marks and faults are not fair, and neither is a restart:
`EachIsDelivered` excuses a process that no longer consumes.  `Accounts` and
`Availability` have safety properties only.

## Where code and documentation differ

* `queue_prefetch`: the configuration says one message at a time, the consumer
  never sets a prefetch.  That is what makes the lost updates of
  `updateWalletBalance` possible between two messages.
* `queue_reconnect`: after a reconnection the process publishes but does not
  consume, and no handler is attached to the new channel.
* `calendar_long_stay`: stays that end after tomorrow's midnight never become
  CURRENT.
* `otp_lifetime`: a code lives ten minutes; the comment says five.

Behaviour no document denies, but a maintainer should know, because the
properties had to be stated around it: two verifications queued for one deposit
post it twice, under two ledger rows (`AddedOnce` holds per row); two credits
to one wallet at a time may lose one; two reviews at a time may both pay out of
one debit; a rejection refunds nobody (the push of the refund message is
commented out); the arrivals job overwrites a cancellation that comes between
its query and its update; two verifications at a time may both accept one code;
a password reset or profile update may take back referral points credited, and
restore a push token nullified, since it read the user.

A booking's body writes its payment (the DTO asks of `invoice` only that it is
not empty, and `Booking.invoice` and `Invoice.payment` cascade).  A client that
sends the draft back after the payment was processed sets it to pending again,
under ledger rows that stay, and it may then be verified and posted once more.  A
body that says success makes a success of a payment nobody has charged, which
`verifyPayment` then never queues: the booking is not marked as paid.  Hence
`rewritten` in `PaidOnlyIfCharged`, `RowsBelongToPaid`, `RecordsKept`,
`ChargedIsPosted` and the mapping to `Books`; that only charged money is posted,
and only a charged booking marked as paid, holds without it.

Booking dates are not checked to be in order.  `StatusMatchesDates` therefore
speaks of stays that end after they start; a stay of no length at tomorrow's
midnight meets both conditions of the arrivals query today and becomes CURRENT
the day before its arrival, which the job's comment
(`src/src/cron/cron.service.ts`, line 25) does not mean; a stay that ends
before it starts may become CURRENT at any time before.

A user who is removed while a request holds the entity it read is inserted again
by that request's save, without a wallet and without any failure; this is the
exception of `WalletForEveryUser`.

Of notifications: the gateway logs that what is not delivered comes when the user
reconnects, which holds for the five newest rows only (`NothingMissed`); a second
connection of a user takes the map's entry, and once it closes the first one,
still open, gets nothing; a count read before a row came and emitted after it, or
the 0 `markAllAsRead` emits without reading, understates (`outrun`); the feed
pages by id and sorts by `createdAt`, so a row saved out of order may be skipped
(`FeedComplete` names the row that hides it); a message delivered again makes a
second row, and since copies that live at the same time are requeued together, two
faults may make four rows of one message; a push is given up in silence after its
retries.  An e-mail is not awaited, so an exception ends the process and a crash
loses it; and Resend's `emails.send` answers a refusal or an unreachable service
with an error it does not throw, so the e-mail is lost while the log says it was
sent (`notification.service.ts`, line 227).

Of properties: nothing looks at the dates again after `checkAvailability`, which
is why `DoubleStayNeedsRace` has to speak of the time of the check; a booking
needs no check, and none of the property's status; reversed periods are in
nobody's way; the CANCEL review of a property has no status to set and throws; a
search stops early when all rows of a page stop matching between its two
queries.

## Proofs

`SettlementProofs` proves, for every set of references, bookings, wallets and
handlers and all bounds, under the named assumptions `NullsAssumption` (null
values are not elements), `OwnersAssumption` (owners are wallets or none) and
`BoundsAssumption` (finitely many handlers, natural bounds):

* `Invariance`: `Spec => []Inv`, and from it `TypeCorrect`, `PaidIsCharged`,
  `RowsArePaid`, `PayoutsAreBacked`, `BalancesAreBacked` (with `AddedOnce`);
* `HistoryKept`: `Spec => RecordsKept`;
* `Refinement`: `Spec => ImplementsBooks`.

The safety properties are not inductive: that a row belongs to a paid payment
depends on what the handler that inserts it believed when it was last at an
await.  `Inv` adds `JobOK`, which says for each place what the handler may still
rely on though everything may have changed since (at "debit" its payment is
saved or was written over by a body; at "payout" a debit of its payment is
completed; at "write" all it has seen are credits of its wallet), and
`SeenApart`: a row about to be added was in no balance that another handler has
read and will write back.  These facts are stable because the money of a
reference stays collected, a payment that leaves success is in `rewritten` for
good, rows are never removed and only a debit's status changes.  Each part of
`Inv` has a lemma that goes through the actions that can disturb it; `AddedOnce`
and `SeenApart` rest on a
new row's index being greater than every index in use.  The refinement maps each
action to one step of Books or a stutter, using `Inv` in the pre-state.

`OneHandlerProofs` proves what holds when handlers do not overlap, which is what
the run `one_at_a_time` checks.  No setting gives that: a prefetch count of one
would keep messages apart, but reviews are HTTP requests and overlap with them and
with each other.  `OneHandler` says of the constants that all handlers are equal:

* `NoCreditIsLost`: `Spec => [](OneHandler => NoLostCredit)`;
* `DebitsPayOnce`: `Spec => [](OneHandler => OnePayoutPerDebit)`;
* `RowsAreAddedOnce`: `Spec => []AddedOnce`, for any handlers.

`OneHandlerInv` adds to `Inv` that a credit is in its balance or on its way
there with a balance that is not stale (`CreditsArrive`), and that completed
debits cover the payouts and the one that is owed: a handler at "payout" has
completed a debit it has not paid out of yet (`DebitsCover`).  Without
`OneHandler` both are false, and `Settlement`'s other runs reach such states.

`RabbitQueueProofs` proves, for all messages and slots (finitely many) and all
bounds (`QueueAssumption`):

* `QueueTypeCorrect` and `QueueLosesNoMessage`: `Spec => []NoMessageLost`;
* `QueueImplementsAtLeastOnce`: `Spec => ImplementsAtLeastOnce`;
* `RetriesDoNotMultiply`: `Spec => []OneCopyWithoutFaults`.

`NoMessageLost` alone is not inductive: an acknowledgement drops a delivery, and
that is safe only because the copy that replaces it was published before.
`QueueInv` adds `PublishedBeforeAck`: a delivery about to be acknowledged has a
copy with a greater retry count that does not itself rest on an acknowledgement
under way (`Lasting`), or its message is done.  The retry count is what keeps two
such deliveries from vouching for each other.  `AcceptedOnly` says whose copies
there are.  Each action has a lemma on what it does to copies (`Same`: alive as
before, and as lasting) and one on the invariant.  The refinement uses
`QueueInv` on both sides of a step: republishing repeats a message only if it is
done, and an acknowledgement that removes a message's last copy forgets a
message that is done.  `FaultlessInv` says of histories without drops and crashes
that the channel is up and holds every delivery under way; without that a late
acknowledgement would close it and bring deliveries back.  Each action then moves
the one living copy of a message (`Moves`) or ends it.

`AvailabilityProofs` proves under `AvailabilityAssumption` and
`SearchesAssumption` `AvailabilityTypeCorrect` and `DoubleStayIsARace`:
`Spec => []DoubleStayNeedsRace`, for any users, bookings, periods and bounds.
`StayInv` adds that a booking keeps the stay it was checked for and that one
seen at the check (`SeenIsClear`) keeps its dates whatever happens to its
status, so that it never comes into the way again; a removed one stays removed.
`SearchIsComplete` proves `Spec => SearchComplete`, for any page size.
`SearchInv` says that what matched all along has been sent if the cursor has
passed it, and, between the two queries of a page, that the ids found leave no
gap (`Gapless`): the ids of a page are upward closed (`FirstIsUpwardClosed`), so
a row that stopped matching may shorten the page but not make the cursor jump.

`CalendarProofs` proves under `CalendarAssumption` `CalendarTypeCorrect` and
`StatusFollowsDates`: `Spec => []StatusMatchesDates`.  A job updates from a list
that other requests have outdated; `ArrivalsDue` and `EndingsDue` say what stays
true of it: dates do not change, and time only makes a booking more due.  What is
`Due` for arrival depends on the order of its dates as the query's two conditions
do.

`AccountsProofs` proves, for any users, devices, codes and finitely many handlers
(`AccountsAssumption`), every property of the run `accounts`:
`AccountsTypeCorrect`, `TokensAreBounded`, `CodeUsesAreBounded`,
`PushTokensAreUnique`, `ReferralsAreCounted`, `WalletsForAll` and
`PasswordsAreKept`.  The bounds become inductive when what handlers are about to
do counts as done: tokens and the handlers about to store one (`TokensBacked`),
uses of a code and the handlers about to mark it (`UsesBacked`).  Without overlap
what a handler has read of a user is what the row still says (`PointsBacked`,
`PushBacked`); that is what the stale `save` breaks otherwise.  `RowsGetWallets`
says of inserted users who their wallet comes from, and `RevivedByOverlap` that a
user is inserted again only where requests overlapped.  `Basics` has the
types, the meaning of `overlapped` and the foreign key of the referrer.

`NotificationsProofs` proves, for any users, messages, sockets, handlers and
sizes (`NotificationsAssumption`), all safety properties of the run
`notifications` but the feed's: `NotificationsTypeCorrect`,
`DoneMessagesAreStored`, `DuplicatesNeedFaults`, `NothingIsMissed`,
`CountsAreNeverUnderstated` and `EntriesAreKept`.  `NotificationsInv` adds `Base`
(what the place of a handler says of its message, row and socket; the queue's
callbacks are handlers; the map's entries are open sockets of their users);
`Chances`: with n faults so far, rows of a message, waiting copies and handlers
before their insert are 2^n at most while the process consumes, and what may come
back with the channel is within twice that, so that a fault at most doubles what
there can be (one failing insert, lost channel or crash brings back every copy
that lives, not just one);
`Informing`: the recent rows a connection has read, with those its socket was
told of since it was put into the map, leave none out; and `CountsHold` with
`CountsCome`: a count that is not outrun is not below what is unread, and where
the last one shown is, another is due.  Handlers are finitely many, since a crash
counts the copies they hold; the library knows of 2^(n + 1) only as the number of
subsets of n + 1 elements, which `Doubles` uses.

`FeedProofs` proves `FeedsAreComplete`: `Spec => []FeedComplete`, for any table
and page size.  `Feed` is a recursive function; the induction over its cursors is
made by the smallest counterexample, which needs no induction theorem: first
that a function with these values exists (`FeedExists`), then that the pages from
a cursor on leave out only what an older row hides (`PageThenRest`).  A page is
not empty while rows are left (`PageShowsSome`), and a row left out by a page
though its id is above the next cursor is hidden by the row of that cursor.

## Limits

Only model-checked: liveness (`ChargedIsConfirmed`, `ChargedIsPosted`,
`AcceptedIsProcessed`, `OneDayArrivalIsNoticed`, `CurrentEnds`,
`EachIsDelivered`), which rests on fairness and ENABLED and is beyond the prover.
Every invariant, action property and refinement that a passing run checks is
also proved.  `NoLostCredit` and `OnePayoutPerDebit` are proved for handlers that
do not overlap and false otherwise.

Not modelled:

* amounts: that a retried deposit takes the amount saved by the first run rather
  than the declared one is not visible;
* logout: its route has no guard, so it deletes the tokens of no user;
* receipts of pushes, which are only logged; bulk pushes and `assignCategory`,
  which nothing calls; the contact form, which sends one e-mail and keeps nothing;
* wallet bank details, the waitlist and uploads: single statements on rows
  nothing else reads, or requests to an external store;
* guards and middleware: stateless, the actions are those of requests that pass;
* a booking's body may write the payment its invoice names and no more: rows it
  could reach further (a payment's own relations), a payment named without its
  reference and a change of the reference are left out;
* a push token request whose body has no token at all (null is modelled);
* `Settlement` and `Notifications` state their own queue (counts of waiting
  copies, what a failing handler, a lost channel and a crash bring back) rather
  than instantiating `AtLeastOnce`, because the number of copies matters to them.
  That these counts are what `RabbitQueue` does is not proved.

## Plan

1. Done: `Settlement`, `Books`, `RabbitQueue`, `AtLeastOnce`, `BookingCalendar`,
   `Accounts`, `Notifications`, `Availability`; the proofs above.
2. Done: the proofs of every invariant and action property above.
3. Left to a reader who wants more: how many payouts two overlapping reviews can
   make out of one debit, and how many credits they can lose.
