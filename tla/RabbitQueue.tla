---------------------------- MODULE RabbitQueue -----------------------------
(***************************************************************************)
(* One queue of src/rabbitmq/rabbitmq.singleton.ts: the connection and its *)
(* reconnection, publishing, consuming, the retries a failing callback     *)
(* gets, and the dead letter queue whose messages expire back into the     *)
(* queue.  The broker itself is external: durable, and it delivers again   *)
(* what a lost channel held.                                               *)
(*                                                                         *)
(* A message exists in copies <<m, k>>, k being the retryCount it carries. *)
(* Node runs one callback at a time between awaits, so a publish and the   *)
(* acknowledgement after it are separate steps only for the network.       *)
(***************************************************************************)
EXTENDS Integers, FiniteSets

CONSTANTS
  Msgs,         \* messages pushed by the application
  Slots,        \* bound on deliveries being processed at the same time
  MaxRetries,   \* DEFAULT_OPTIONS.maxRetries
  MaxFailures,  \* bound on failing callbacks
  MaxDrops,     \* bound on lost connections
  MaxCrashes    \* bound on dying processes

ASSUME QueueAssumption ==
  /\ IsFiniteSet(Slots)
  /\ {MaxRetries, MaxFailures, MaxDrops, MaxCrashes} \subseteq Nat

VARIABLES
  ready,     \* copies waiting in the queue, counted
  dlq,       \* copies waiting in the dead letter queue, counted
  accepted,  \* messages the broker has taken from the application
  done,      \* messages whose callback has succeeded at least once
  alive,     \* the process is running
  up,        \* this.channel is usable
  chan,      \* which channel this.channel is
  consumer,  \* the channel consume was called on
  listener,  \* the channel the close and error handlers are attached to
  cb,        \* the consumer callbacks under way
  failures, drops, crashes

broker == <<ready, dlq, accepted>>
process == <<alive, up, chan, consumer, listener>>
counters == <<failures, drops, crashes>>
vars == <<broker, done, process, cb, counters>>
-----------------------------------------------------------------------------
Copies == Msgs \X (0..MaxRetries)

\* held: the broker still waits for the acknowledgement of this delivery.
Callback == [pc: {"run", "retry", "ack"}, copy: Copies, held: BOOLEAN]

NoCallback == [pc |-> "idle"]

Active == {s \in Slots : cb[s].pc # "idle"}

Holding(c) == {s \in Active : cb[s].held /\ cb[s].copy = c}

TypeOK ==
  /\ ready \in [Copies -> Nat]
  /\ dlq \in [Copies -> Nat]
  /\ accepted \in SUBSET Msgs
  /\ done \in SUBSET accepted
  /\ alive \in BOOLEAN
  /\ up \in BOOLEAN
  /\ chan \in Nat
  /\ consumer \in 0..chan
  /\ listener \in 0..chan
  /\ cb \in [Slots -> Callback \cup {NoCallback}]
  /\ failures \in 0..MaxFailures
  /\ drops \in 0..MaxDrops
  /\ crashes \in 0..MaxCrashes

\* onModuleInit has connected, the queue is registered and consumed.
Init ==
  /\ ready = [c \in Copies |-> 0]
  /\ dlq = [c \in Copies |-> 0]
  /\ accepted = {}
  /\ done = {}
  /\ alive = TRUE
  /\ up = TRUE
  /\ chan = 1
  /\ consumer = 1
  /\ listener = 1
  /\ cb = [s \in Slots |-> NoCallback]
  /\ failures = 0
  /\ drops = 0
  /\ crashes = 0
-----------------------------------------------------------------------------
(***************************************************************************)
(* Losing the channel: the broker puts back what it held unacknowledged.   *)
(***************************************************************************)
Requeued == [c \in Copies |-> ready[c] + Cardinality(Holding(c))]

Released == [s \in Slots |-> IF cb[s].pc = "idle" THEN cb[s] ELSE [cb[s] EXCEPT !.held = FALSE]]

Drop ==
  /\ up
  /\ drops < MaxDrops
  /\ up' = FALSE
  /\ ready' = Requeued
  /\ cb' = Released
  /\ drops' = drops + 1
  /\ UNCHANGED <<dlq, accepted, done, alive, chan, consumer, listener, failures, crashes>>

\* The process dies, with its callbacks.
Die ==
  /\ alive
  /\ crashes < MaxCrashes
  /\ alive' = FALSE
  /\ up' = FALSE
  /\ ready' = Requeued
  /\ cb' = [s \in Slots |-> NoCallback]
  /\ crashes' = crashes + 1
  /\ UNCHANGED <<dlq, accepted, done, chan, consumer, listener, failures, drops>>

\* A new process: connect, registerQueue, consumeMessages, and the handlers.
Restart ==
  /\ ~alive
  /\ alive' = TRUE
  /\ up' = TRUE
  /\ chan' = chan + 1
  /\ consumer' = chan + 1
  /\ listener' = chan + 1
  /\ UNCHANGED <<broker, done, cb, counters>>

\* reconnect makes a channel and asserts the queues.  It neither consumes again
\* nor attaches the handlers again: the callbacks go on with the new channel.
Reconnect ==
  /\ alive
  /\ ~up
  /\ up' = TRUE
  /\ chan' = chan + 1
  /\ UNCHANGED <<broker, done, alive, consumer, listener, cb, counters>>

\* It is called by the handlers of a channel, if that channel has them, ...
AutoReconnect == listener = chan /\ Reconnect

\* ... and by pushToQueue when its check of the connection fails.
PushReconnect ==
  /\ accepted # Msgs \/ \E s \in Active : cb[s].pc = "retry"
  /\ Reconnect
-----------------------------------------------------------------------------
(***************************************************************************)
(* pushToQueue by the application.  The channel has no publisher confirms: *)
(* a message lost with the connection is one that was never accepted.      *)
(***************************************************************************)
Push(m) ==
  /\ alive /\ up
  /\ m \notin accepted
  /\ accepted' = accepted \cup {m}
  /\ ready' = [ready EXCEPT ![<<m, 0>>] = @ + 1]
  /\ UNCHANGED <<dlq, done, process, cb, counters>>

\* Mutant: one delivery more than there are messages.
DeliverOneMore(s, c) ==
  /\ alive /\ up
  /\ consumer = chan
  /\ s \notin Active
  /\ ready' = [ready EXCEPT ![c] = @ - 1]
  /\ cb' = [cb EXCEPT ![s] = [pc |-> "run", copy |-> c, held |-> TRUE]]
  /\ UNCHANGED <<dlq, accepted, done, process, counters>>

\* consumeMessages never calls prefetch: whatever is ready is delivered.
Deliver(s, c) ==
  /\ alive /\ up
  /\ consumer = chan
  /\ s \notin Active
  /\ ready[c] > 0
  /\ ready' = [ready EXCEPT ![c] = @ - 1]
  /\ cb' = [cb EXCEPT ![s] = [pc |-> "run", copy |-> c, held |-> TRUE]]
  /\ UNCHANGED <<dlq, accepted, done, process, counters>>

\* Acknowledging a delivery of an earlier channel on this.channel is an error
\* for which the broker closes the channel.
Settle(s) ==
  /\ cb' = [cb EXCEPT ![s] = NoCallback]
  /\ up' = cb[s].held

\* The callback resolves.  On a closed channel ack throws, inside the same try:
\* the success is then treated like a failure of the callback.
Succeed(s) ==
  /\ s \in Active /\ cb[s].pc = "run"
  /\ done' = done \cup {cb[s].copy[1]}
  /\ IF up THEN Settle(s)
     ELSE cb' = [cb EXCEPT ![s].pc = "retry"] /\ UNCHANGED up
  /\ UNCHANGED <<broker, alive, chan, consumer, listener, counters>>

\* Mutant: the delivery is acknowledged before its copy is published.
RejectAndAck(s) ==
  /\ s \in Active /\ cb[s].pc = "run"
  /\ failures < MaxFailures
  /\ cb' = [cb EXCEPT ![s].pc = "retry", ![s].held = FALSE]
  /\ failures' = failures + 1
  /\ UNCHANGED <<broker, done, process, drops, crashes>>

Reject(s) ==
  /\ s \in Active /\ cb[s].pc = "run"
  /\ failures < MaxFailures
  /\ cb' = [cb EXCEPT ![s].pc = "retry"]
  /\ failures' = failures + 1
  /\ UNCHANGED <<broker, done, process, drops, crashes>>

\* retryCount < maxRetries: a copy that counts one more is published ...
Republish(s) ==
  /\ s \in Active /\ cb[s].pc = "retry"
  /\ up
  /\ cb[s].copy[2] < MaxRetries
  /\ ready' = [ready EXCEPT ![<<cb[s].copy[1], cb[s].copy[2] + 1>>] = @ + 1]
  /\ cb' = [cb EXCEPT ![s].pc = "ack"]
  /\ UNCHANGED <<dlq, accepted, done, process, counters>>

\* Mutant: nack with requeue where ack is meant.
NackRetried(s) ==
  /\ s \in Active /\ cb[s].pc = "ack"
  /\ ready' = IF cb[s].held THEN [ready EXCEPT ![cb[s].copy] = @ + 1] ELSE ready
  /\ IF up THEN Settle(s)
     ELSE cb' = [cb EXCEPT ![s] = NoCallback] /\ UNCHANGED up
  /\ UNCHANGED <<dlq, accepted, done, alive, chan, consumer, listener, counters>>

\* ... and then the delivery is acknowledged.
AckRetried(s) ==
  /\ s \in Active /\ cb[s].pc = "ack"
  /\ IF up THEN Settle(s)
     ELSE cb' = [cb EXCEPT ![s] = NoCallback] /\ UNCHANGED up
  /\ UNCHANGED <<broker, done, alive, chan, consumer, listener, counters>>

\* Mutant: the queue has no dead letter exchange and the message is dropped.
DropOutOfRetries(s) ==
  /\ s \in Active /\ cb[s].pc = "retry"
  /\ up
  /\ cb[s].copy[2] = MaxRetries
  /\ Settle(s)
  /\ UNCHANGED <<broker, done, alive, chan, consumer, listener, counters>>

\* Out of retries, nack without requeue dead-letters the delivery as it is.
DeadLetter(s) ==
  /\ s \in Active /\ cb[s].pc = "retry"
  /\ up
  /\ cb[s].copy[2] = MaxRetries
  /\ dlq' = IF cb[s].held THEN [dlq EXCEPT ![cb[s].copy] = @ + 1] ELSE dlq
  /\ Settle(s)
  /\ UNCHANGED <<ready, accepted, done, alive, chan, consumer, listener, counters>>

\* x-message-ttl: the dead letter queue's own dead letter exchange is the queue's.
Expire(c) ==
  /\ dlq[c] > 0
  /\ dlq' = [dlq EXCEPT ![c] = @ - 1]
  /\ ready' = [ready EXCEPT ![c] = @ + 1]
  /\ UNCHANGED <<accepted, done, process, cb, counters>>

\* The channel is closed and reconnecting fails: publish or nack throws out of
\* the consumer's last catch, and an unhandled rejection ends the process.
RejectUnhandled(s) ==
  /\ s \in Active /\ cb[s].pc = "retry"
  /\ ~up
  /\ Die
-----------------------------------------------------------------------------
Work(s) == \/ Succeed(s) \/ Reject(s) \/ Republish(s) \/ AckRetried(s) \/ DeadLetter(s)

Next ==
  \/ \E m \in Msgs : Push(m)
  \/ \E s \in Slots, c \in Copies : Deliver(s, c)
  \/ \E s \in Slots : Work(s) \/ RejectUnhandled(s)
  \/ \E c \in Copies : Expire(c)
  \/ AutoReconnect \/ PushReconnect
  \/ Drop \/ Die \/ Restart

Spec == Init /\ [][Next]_vars

(***************************************************************************)
(* Callbacks settle, the broker delivers to a consumer and expires dead    *)
(* letters, and a handler that is attached does reconnect (every 5 s).     *)
(* Slots bound the model only, hence strong fairness of each copy.         *)
(* Failing callbacks, drops and crashes are bounded by the counters;       *)
(* nothing restarts a dead process by itself.                              *)
(***************************************************************************)
Fairness ==
  /\ \A s \in Slots : WF_vars(Work(s))
  /\ \A c \in Copies : SF_vars(\E s \in Slots : Deliver(s, c)) /\ WF_vars(Expire(c))
  /\ WF_vars(AutoReconnect)
  /\ WF_vars((\E s \in Active : cb[s].pc = "retry") /\ Reconnect)

FairSpec == Spec /\ Fairness
-----------------------------------------------------------------------------
CopiesOf(m) == {c \in Copies : c[1] = m}

\* A message the broker has accepted is never lost before a callback has
\* succeeded for it: it waits in a queue or a delivery is unacknowledged,
\* whatever drops, crashes and failed callbacks happened.
NoMessageLost ==
  \A m \in accepted \ done :
    \E c \in CopiesOf(m) : ready[c] > 0 \/ dlq[c] > 0 \/ Holding(c) # {}

\* The messages some copy of which is still to be processed.
Pending == {m \in Msgs : \E c \in CopiesOf(m) : ready[c] > 0 \/ dlq[c] > 0 \/ Holding(c) # {}}

Running == {<<s, cb[s].copy[1]>> : s \in {t \in Active : cb[t].pc = "run"}}

Delivery == INSTANCE AtLeastOnce WITH pending <- Pending, running <- Running

\* Through retries, dead letters, lost channels and dying processes the queue is
\* an at-least-once queue: a message leaves it only after a success.
ImplementsAtLeastOnce == Delivery!Spec

\* Without drops and crashes retrying never multiplies a message: at most one
\* copy is alive, and none once its callback succeeded.
Living(m) == {<<"ready", c>> : c \in {d \in CopiesOf(m) : ready[d] > 0}}
             \cup {<<"dlq", c>> : c \in {d \in CopiesOf(m) : dlq[d] > 0}}
             \cup {<<"held", s>> : s \in {t \in Active : cb[t].copy[1] = m /\ cb[t].pc # "ack"}}

OneCopyWithoutFaults ==
  drops = 0 /\ crashes = 0 =>
    \A m \in Msgs : /\ Cardinality(Living(m)) <= (IF m \in done THEN 0 ELSE 1)
                    /\ \A c \in CopiesOf(m) : ready[c] + dlq[c] <= 1

\* A message that keeps failing beyond maxRetries is not given up: as long as
\* the channel and the process last, its dead letter expires back into the
\* queue until a callback succeeds.
AcceptedIsProcessed ==
  \A m \in Msgs : m \in accepted ~> m \in done \/ drops > 0 \/ crashes > 0

\* "Process one message at a time" (rabbitmq.config.ts, prefetch).
OneMessageAtATime == Cardinality(Active) <= 1

\* "Enable automatic reconnection" (rabbitmq.config.ts): a running process that
\* loses its channel gets one back on which it consumes.
ReconnectionResumes == alive /\ ~up ~> up /\ consumer = chan
=============================================================================
