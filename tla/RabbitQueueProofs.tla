------------------------- MODULE RabbitQueueProofs --------------------------
(***************************************************************************)
(* Proofs that no accepted message is lost, that the queue is an           *)
(* at-least-once queue and that without faults retries multiply nothing,   *)
(* for any messages, slots, retries and faults.                            *)
(***************************************************************************)
EXTENDS RabbitQueue, FiniteSetTheorems, TLAPS

USE QueueAssumption

\* Some copy waits, or a delivery of it is unacknowledged.
Alive(c) == ready[c] > 0 \/ dlq[c] > 0 \/ Holding(c) # {}

\* And it does not rest on an acknowledgement that is on its way.
Lasting(c) ==
  \/ ready[c] > 0 \/ dlq[c] > 0
  \/ \E s \in Active : cb[s].held /\ cb[s].copy = c /\ cb[s].pc # "ack"

\* A copy of m that outlives the acknowledgement of a delivery with count k.
Replaced(m, k) == \E c \in CopiesOf(m) : c[2] > k /\ Lasting(c)

\* Copies exist of accepted messages only, and a failed delivery is acknowledged
\* only when its copy is published.
AcceptedOnly ==
  /\ \A c \in Copies : ready[c] > 0 \/ dlq[c] > 0 => c[1] \in accepted
  /\ \A s \in Active : cb[s].copy[1] \in accepted

PublishedBeforeAck ==
  \A s \in Active : cb[s].pc = "ack" =>
    cb[s].copy[1] \in done \/ Replaced(cb[s].copy[1], cb[s].copy[2])

\* What a step may do to a copy without endangering anything.
Same(c) == (Alive(c)' <=> Alive(c)) /\ (Lasting(c) => Lasting(c)')

QueueInv == TypeOK /\ AcceptedOnly /\ PublishedBeforeAck /\ NoMessageLost
-----------------------------------------------------------------------------
LEMMA InitType == Init => TypeOK
  BY DEF Init, TypeOK, Copies, NoCallback

LEMMA ActiveCallback ==
  ASSUME TypeOK, NEW s \in Active
  PROVE  /\ s \in Slots /\ cb[s] \in Callback
         /\ cb[s].copy \in Copies /\ cb[s].held \in BOOLEAN
         /\ cb[s].pc \in {"run", "retry", "ack"}
<1>1. s \in Slots /\ cb[s] \in Callback \cup {NoCallback} /\ cb[s].pc # "idle"
  BY DEF TypeOK, Active
<1>2. cb[s] \in Callback
  BY <1>1 DEF NoCallback
<1> QED BY <1>1, <1>2 DEF Callback

LEMMA CopyParts ==
  ASSUME NEW c \in Copies
  PROVE  c[1] \in Msgs /\ c[2] \in 0..MaxRetries /\ c = <<c[1], c[2]>> /\ c \in CopiesOf(c[1])
  BY DEF Copies, CopiesOf

\* Losing a channel turns what was held into what is ready.
LEMMA RequeuedMeans ==
  ASSUME TypeOK, NEW c \in Copies
  PROVE  Requeued[c] \in Nat /\ (Requeued[c] > 0 <=> ready[c] > 0 \/ Holding(c) # {})
<1>1. IsFiniteSet(Holding(c))
  <2>1. Holding(c) \subseteq Slots
    BY DEF Holding, Active
  <2> QED BY <2>1, FS_Subset
<1>2. Cardinality(Holding(c)) \in Nat /\ (Cardinality(Holding(c)) = 0 <=> Holding(c) = {})
  BY <1>1, FS_CardinalityType, FS_EmptySet
<1>3. ready[c] \in Nat
  BY DEF TypeOK
<1>4. Requeued[c] = ready[c] + Cardinality(Holding(c))
  BY DEF Requeued
<1> QED BY <1>2, <1>3, <1>4

LEMMA RequeuedType == TypeOK => Requeued \in [Copies -> Nat]
<1>1. TypeOK => \A c \in Copies : Requeued[c] \in Nat
  BY RequeuedMeans
<1>2. Requeued = [c \in Copies |-> Requeued[c]]
  BY DEF Requeued
<1> QED BY <1>1, <1>2

LEMMA SettleType ==
  ASSUME TypeOK, NEW s \in Active, Settle(s)
  PROVE  cb' \in [Slots -> Callback \cup {NoCallback}] /\ up' \in BOOLEAN
  BY ActiveCallback DEF Settle, TypeOK

LEMMA PlaceType ==
  ASSUME TypeOK, NEW s \in Active, NEW p \in {"run", "retry", "ack"}, cb' = [cb EXCEPT ![s].pc = p]
  PROVE  cb' \in [Slots -> Callback \cup {NoCallback}]
<1>1. [cb[s] EXCEPT !.pc = p] \in Callback
  BY ActiveCallback DEF Callback
<1>2. cb' = [cb EXCEPT ![s] = [cb[s] EXCEPT !.pc = p]]
  OBVIOUS
<1> QED BY <1>1, <1>2 DEF TypeOK

LEMMA ReleasedType == TypeOK => Released \in [Slots -> Callback \cup {NoCallback}]
<1>1. ASSUME TypeOK, NEW s \in Slots, cb[s].pc = "idle" PROVE Released[s] \in Callback \cup {NoCallback}
  BY <1>1 DEF Released, TypeOK
<1>2. ASSUME TypeOK, NEW s \in Slots, cb[s].pc # "idle" PROVE Released[s] \in Callback \cup {NoCallback}
  <2>1. [cb[s] EXCEPT !.held = FALSE] \in Callback
    BY <1>2, ActiveCallback DEF Active, Callback
  <2> QED BY <1>2, <2>1 DEF Released
<1>3. Released = [s \in Slots |-> Released[s]]
  BY DEF Released
<1> QED BY <1>1, <1>2, <1>3

\* A message whose callback succeeds is one that was accepted.
LEMMA SucceedDone ==
  ASSUME TypeOK, AcceptedOnly, NEW s \in Slots, Succeed(s)
  PROVE  done' \in SUBSET accepted
<1>1. s \in Active /\ done' = done \cup {cb[s].copy[1]}
  BY DEF Succeed
<1> QED BY <1>1 DEF AcceptedOnly, TypeOK

LEMMA DieType == TypeOK /\ Die => TypeOK'
<1> SUFFICES ASSUME TypeOK, Die PROVE TypeOK'
  OBVIOUS
<1>1. ready' \in [Copies -> Nat]
  BY RequeuedType DEF Die
<1>2. cb' \in [Slots -> Callback \cup {NoCallback}] /\ crashes' \in 0..MaxCrashes
  BY DEF Die, TypeOK
<1> QED BY <1>1, <1>2 DEF Die, TypeOK

LEMMA TypeStep == TypeOK /\ AcceptedOnly /\ [Next]_vars => TypeOK'
<1> SUFFICES ASSUME TypeOK, AcceptedOnly, [Next]_vars PROVE TypeOK'
  OBVIOUS
<1> USE DEF broker, process, counters
<1>1. ASSUME NEW m \in Msgs, Push(m) PROVE TypeOK'
  <2>1. <<m, 0>> \in Copies /\ ready \in [Copies -> Nat]
    BY DEF Copies, TypeOK
  <2> QED BY <1>1, <2>1 DEF Push, TypeOK
<1>2. ASSUME NEW s \in Slots, NEW c \in Copies, Deliver(s, c) PROVE TypeOK'
  <2>1. [pc |-> "run", copy |-> c, held |-> TRUE] \in Callback
    BY DEF Callback
  <2>2. ready' \in [Copies -> Nat]
    BY <1>2 DEF Deliver, TypeOK
  <2>3. cb' \in [Slots -> Callback \cup {NoCallback}]
    BY <1>2, <2>1 DEF Deliver, TypeOK
  <2> QED BY <1>2, <2>2, <2>3 DEF Deliver, TypeOK
<1>3. ASSUME NEW s \in Slots, Succeed(s) PROVE TypeOK'
  <2>1. s \in Active
    BY <1>3 DEF Succeed
  <2>2. cb' \in [Slots -> Callback \cup {NoCallback}] /\ up' \in BOOLEAN
    <3>1. CASE up
      BY <1>3, <2>1, <3>1, SettleType DEF Succeed
    <3>2. CASE ~up
      <4>1. cb' = [cb EXCEPT ![s].pc = "retry"] /\ up' = up
        BY <1>3, <3>2 DEF Succeed
      <4> QED BY <2>1, <4>1, PlaceType DEF TypeOK
    <3> QED BY <3>1, <3>2
  <2>3. UNCHANGED <<broker, alive, chan, consumer, listener, counters>>
    BY <1>3 DEF Succeed
  <2> QED BY <1>3, <2>2, <2>3, SucceedDone DEF TypeOK
<1>4. ASSUME NEW s \in Slots, Reject(s) PROVE TypeOK'
  <2>1. s \in Active /\ cb' = [cb EXCEPT ![s].pc = "retry"]
    BY <1>4 DEF Reject
  <2>2. cb' \in [Slots -> Callback \cup {NoCallback}]
    BY <2>1, PlaceType
  <2>3. failures' \in 0..MaxFailures /\ UNCHANGED <<broker, done, process, drops, crashes>>
    BY <1>4 DEF Reject, TypeOK
  <2> QED BY <2>2, <2>3 DEF TypeOK
<1>5. ASSUME NEW s \in Slots, Republish(s) PROVE TypeOK'
  <2>1. s \in Active /\ cb' = [cb EXCEPT ![s].pc = "ack"] /\ cb[s].copy[2] < MaxRetries
        /\ ready' = [ready EXCEPT ![<<cb[s].copy[1], cb[s].copy[2] + 1>>] = @ + 1]
        /\ UNCHANGED <<dlq, accepted, done, process, counters>>
    BY <1>5 DEF Republish
  <2>2. cb' \in [Slots -> Callback \cup {NoCallback}]
    BY <2>1, PlaceType
  <2>3. ready' \in [Copies -> Nat]
    BY <2>1, ActiveCallback DEF TypeOK, Copies
  <2> QED BY <2>1, <2>2, <2>3 DEF TypeOK
<1>6. ASSUME NEW s \in Slots, AckRetried(s) PROVE TypeOK'
  <2>1. s \in Active /\ UNCHANGED <<broker, done, alive, chan, consumer, listener, counters>>
    BY <1>6 DEF AckRetried
  <2>2. cb' \in [Slots -> Callback \cup {NoCallback}] /\ up' \in BOOLEAN
    <3>1. CASE up
      BY <1>6, <2>1, <3>1, SettleType DEF AckRetried
    <3>2. CASE ~up
      BY <1>6, <3>2 DEF AckRetried, TypeOK
    <3> QED BY <3>1, <3>2
  <2> QED BY <2>1, <2>2 DEF TypeOK
<1>7. ASSUME NEW s \in Slots, DeadLetter(s) PROVE TypeOK'
  <2>1. s \in Active /\ Settle(s) /\ UNCHANGED <<ready, accepted, done, alive, chan, consumer, listener, counters>>
        /\ dlq' = IF cb[s].held THEN [dlq EXCEPT ![cb[s].copy] = @ + 1] ELSE dlq
    BY <1>7 DEF DeadLetter
  <2>2. dlq' \in [Copies -> Nat]
    BY <2>1, ActiveCallback DEF TypeOK
  <2>3. cb' \in [Slots -> Callback \cup {NoCallback}] /\ up' \in BOOLEAN
    BY <2>1, SettleType
  <2>4. UNCHANGED <<ready, accepted, done, alive, chan, consumer, listener, counters>>
    BY <2>1
  <2> QED BY <2>2, <2>3, <2>4 DEF TypeOK
<1>8. ASSUME NEW c \in Copies, Expire(c) PROVE TypeOK'
  <2>1. dlq' \in [Copies -> Nat] /\ ready' \in [Copies -> Nat]
    BY <1>8 DEF Expire, TypeOK
  <2> QED BY <1>8, <2>1 DEF Expire, TypeOK
<1>9. ASSUME Reconnect PROVE TypeOK'
  BY <1>9 DEF Reconnect, TypeOK
<1>10. ASSUME Drop PROVE TypeOK'
  <2>1. ready' \in [Copies -> Nat] /\ cb' \in [Slots -> Callback \cup {NoCallback}]
    BY <1>10, RequeuedType, ReleasedType DEF Drop
  <2>2. /\ up' = FALSE /\ drops' \in 0..MaxDrops
        /\ UNCHANGED <<dlq, accepted, done, alive, chan, consumer, listener, failures, crashes>>
    BY <1>10 DEF Drop, TypeOK
  <2> QED BY <2>1, <2>2 DEF TypeOK
<1>11. ASSUME Restart PROVE TypeOK'
  BY <1>11 DEF Restart, TypeOK
<1>12. ASSUME UNCHANGED vars PROVE TypeOK'
  BY <1>12 DEF vars, TypeOK
<1> QED
  BY <1>1, <1>2, <1>3, <1>4, <1>5, <1>6, <1>7, <1>8, <1>9, <1>10, <1>11, <1>12, DieType
  DEF Next, Work, AutoReconnect, PushReconnect, RejectUnhandled
-----------------------------------------------------------------------------
\* What each action does to the copies.
LEMMA AliveMeans ==
  ASSUME NEW c
  PROVE  /\ Alive(c) <=> \/ ready[c] > 0 \/ dlq[c] > 0
                         \/ \E s \in Slots : cb[s].pc # "idle" /\ cb[s].held /\ cb[s].copy = c
         /\ Lasting(c) <=> \/ ready[c] > 0 \/ dlq[c] > 0
                           \/ \E s \in Slots : /\ cb[s].pc \notin {"idle", "ack"}
                                               /\ cb[s].held /\ cb[s].copy = c
  BY DEF Alive, Lasting, Holding, Active

LEMMA AliveMeansNext ==
  ASSUME NEW c
  PROVE  /\ Alive(c)' <=> \/ ready'[c] > 0 \/ dlq'[c] > 0
                          \/ \E s \in Slots : cb'[s].pc # "idle" /\ cb'[s].held /\ cb'[s].copy = c
         /\ Lasting(c)' <=> \/ ready'[c] > 0 \/ dlq'[c] > 0
                            \/ \E s \in Slots : /\ cb'[s].pc \notin {"idle", "ack"}
                                                /\ cb'[s].held /\ cb'[s].copy = c
  BY DEF Alive, Lasting, Holding, Active

LEMMA PushEffect ==
  ASSUME TypeOK, NEW m \in Msgs, Push(m)
  PROVE  /\ \A c \in Copies : c # <<m, 0>> => Same(c)
         /\ Lasting(<<m, 0>>)'
<1>1. <<m, 0>> \in Copies /\ ready \in [Copies -> Nat]
  BY DEF Copies, TypeOK
<1>2. ready' = [ready EXCEPT ![<<m, 0>>] = @ + 1] /\ dlq' = dlq /\ cb' = cb
  BY DEF Push
<1>3. ready'[<<m, 0>>] > 0 /\ \A c \in Copies : c # <<m, 0>> => ready'[c] = ready[c]
  BY <1>1, <1>2
<1> QED BY <1>2, <1>3, AliveMeans, AliveMeansNext DEF Same

LEMMA DeliverEffect ==
  ASSUME TypeOK, NEW s \in Slots, NEW c \in Copies, Deliver(s, c), NEW d \in Copies
  PROVE  Same(d)
<1>1. s \notin Active /\ cb[s].pc = "idle"
  BY DEF Deliver, Active
<1>2. ready' = [ready EXCEPT ![c] = @ - 1] /\ dlq' = dlq /\ ready[c] > 0
  BY DEF Deliver
<1>3. cb'[s] = [pc |-> "run", copy |-> c, held |-> TRUE] /\ \A t \in Slots : t # s => cb'[t] = cb[t]
  BY DEF Deliver, TypeOK
<1>4. d # c => ready'[d] = ready[d]
  BY <1>2 DEF TypeOK
<1>5. CASE d = c
  <2>1. Alive(d)' /\ Lasting(d)'
    BY <1>3, <1>5, AliveMeansNext
  <2> QED BY <1>2, <1>5, <2>1, AliveMeans DEF Same
<1>6. CASE d # c
  BY <1>1, <1>2, <1>3, <1>4, <1>6, AliveMeans, AliveMeansNext DEF Same
<1> QED BY <1>5, <1>6

\* A slot that lets its delivery go: other copies are not concerned.
LEMMA LetGoEffect ==
  ASSUME TypeOK, NEW s \in Active, cb' = [cb EXCEPT ![s] = NoCallback],
         ready' = ready, dlq' = dlq, NEW d \in Copies
  PROVE  /\ Alive(d)' => Alive(d)
         /\ d # cb[s].copy \/ ~cb[s].held => Same(d)
         /\ cb[s].pc = "ack" => (Lasting(d) => Lasting(d)')
<1>1. s \in Slots /\ cb'[s].pc = "idle" /\ \A t \in Slots : t # s => cb'[t] = cb[t]
  BY ActiveCallback DEF TypeOK, NoCallback
<1>2. Alive(d)' => Alive(d)
  BY <1>1, AliveMeans, AliveMeansNext
<1>3. ASSUME d # cb[s].copy \/ ~cb[s].held PROVE Same(d)
  <2>1. Alive(d) => Alive(d)'
    BY <1>1, <1>3, AliveMeans, AliveMeansNext
  <2>2. Lasting(d) => Lasting(d)'
    BY <1>1, <1>3, AliveMeans, AliveMeansNext
  <2> QED BY <1>2, <2>1, <2>2 DEF Same
<1>4. ASSUME cb[s].pc = "ack", Lasting(d) PROVE Lasting(d)'
  BY <1>1, <1>4, AliveMeans, AliveMeansNext
<1> QED BY <1>2, <1>3, <1>4

\* A slot that goes on with what it holds.
LEMMA GoOnEffect ==
  ASSUME TypeOK, NEW s \in Active, NEW p \in {"retry", "ack"}, cb' = [cb EXCEPT ![s].pc = p],
         ready' = ready, dlq' = dlq, NEW d \in Copies
  PROVE  /\ Alive(d)' <=> Alive(d)
         /\ d # cb[s].copy \/ p = "retry" => Same(d)
<1>1. s \in Slots /\ cb[s].pc # "idle"
  BY ActiveCallback
<1>2. cb'[s] = [cb[s] EXCEPT !.pc = p] /\ \A t \in Slots : t # s => cb'[t] = cb[t]
  BY <1>1 DEF TypeOK
<1>3. cb'[s].pc = p /\ cb'[s].held = cb[s].held /\ cb'[s].copy = cb[s].copy
  BY <1>2, ActiveCallback DEF Callback
<1>4. Alive(d)' <=> Alive(d)
  BY <1>1, <1>2, <1>3, AliveMeans, AliveMeansNext
<1>5. ASSUME d # cb[s].copy \/ p = "retry", Lasting(d) PROVE Lasting(d)'
  BY <1>1, <1>2, <1>3, <1>5, AliveMeans, AliveMeansNext
<1> QED BY <1>4, <1>5 DEF Same

LEMMA SucceedEffect ==
  ASSUME TypeOK, NEW s \in Slots, Succeed(s)
  PROVE  /\ s \in Active /\ cb[s].pc = "run" /\ accepted' = accepted
         /\ done' = done \cup {cb[s].copy[1]}
         /\ cb' = [cb EXCEPT ![s] = NoCallback] \/ cb' = [cb EXCEPT ![s].pc = "retry"]
         /\ \A d \in Copies : (Alive(d)' => Alive(d)) /\ (d # cb[s].copy => Same(d))
<1>1. /\ s \in Active /\ cb[s].pc = "run" /\ done' = done \cup {cb[s].copy[1]}
      /\ ready' = ready /\ dlq' = dlq /\ accepted' = accepted
  BY DEF Succeed, broker
<1>2. cb' = [cb EXCEPT ![s] = NoCallback] \/ cb' = [cb EXCEPT ![s].pc = "retry"]
  BY DEF Succeed, Settle
<1>3. CASE cb' = [cb EXCEPT ![s] = NoCallback]
  BY <1>1, <1>3, LetGoEffect
<1>4. CASE cb' = [cb EXCEPT ![s].pc = "retry"]
  BY <1>1, <1>4, GoOnEffect
<1> QED BY <1>1, <1>2, <1>3, <1>4

LEMMA RejectEffect ==
  ASSUME TypeOK, NEW s \in Slots, Reject(s), NEW d \in Copies
  PROVE  Same(d)
<1>1. s \in Active /\ cb' = [cb EXCEPT ![s].pc = "retry"] /\ ready' = ready /\ dlq' = dlq
  BY DEF Reject, broker
<1> QED BY <1>1, GoOnEffect

\* The copy that is published takes the place of the one that was delivered.
NextCopy(c) == <<c[1], c[2] + 1>>

LEMMA RepublishEffect ==
  ASSUME TypeOK, NEW s \in Slots, Republish(s), NEW c \in Copies, c = cb[s].copy
  PROVE  /\ NextCopy(c) \in Copies /\ c[2] < MaxRetries
         /\ Lasting(NextCopy(c))'
         /\ \A d \in Copies : d # NextCopy(c) => (Alive(d)' <=> Alive(d))
         /\ \A d \in Copies : d \notin {c, NextCopy(c)} => Same(d)
<1>1. /\ s \in Active /\ cb' = [cb EXCEPT ![s].pc = "ack"] /\ c[2] < MaxRetries
      /\ ready' = [ready EXCEPT ![NextCopy(c)] = @ + 1] /\ dlq' = dlq
  BY DEF Republish, NextCopy
<1>2. NextCopy(c) \in Copies
  BY <1>1, CopyParts DEF Copies, NextCopy
<1>3. ready'[NextCopy(c)] > 0 /\ \A d \in Copies : d # NextCopy(c) => ready'[d] = ready[d]
  BY <1>1, <1>2 DEF TypeOK
<1>4. s \in Slots /\ cb[s].pc # "idle"
  BY <1>1, ActiveCallback
<1>5. cb'[s] = [cb[s] EXCEPT !.pc = "ack"] /\ \A t \in Slots : t # s => cb'[t] = cb[t]
  BY <1>1, <1>4 DEF TypeOK
<1>6. cb'[s].pc = "ack" /\ cb'[s].held = cb[s].held /\ cb'[s].copy = c
  BY <1>1, <1>5, ActiveCallback DEF Callback
<1>7. Lasting(NextCopy(c))'
  <2> DEFINE n == NextCopy(c)
  <2> HIDE DEF n
  <2>1. ready'[n] > 0
    BY <1>3 DEF n
  <2>2. n = <<c[1], c[2] + 1>>
    BY DEF n, NextCopy
  <2> QED BY <2>1, <2>2, AliveMeansNext DEF n, NextCopy
<1>8. ASSUME NEW d \in Copies, d # NextCopy(c) PROVE Alive(d)' <=> Alive(d)
  BY <1>1, <1>3, <1>4, <1>5, <1>6, <1>8, AliveMeans, AliveMeansNext
<1>9. ASSUME NEW d \in Copies, d # NextCopy(c), d # c, Lasting(d) PROVE Lasting(d)'
  BY <1>1, <1>3, <1>4, <1>5, <1>6, <1>9, AliveMeans, AliveMeansNext
<1>10. \A d \in Copies : d \notin {c, NextCopy(c)} => Same(d)
  BY <1>8, <1>9 DEF Same
<1> QED BY <1>1, <1>2, <1>7, <1>8, <1>10

LEMMA AckEffect ==
  ASSUME TypeOK, NEW s \in Slots, AckRetried(s)
  PROVE  /\ s \in Active /\ cb[s].pc = "ack" /\ cb' = [cb EXCEPT ![s] = NoCallback]
         /\ accepted' = accepted /\ done' = done
         /\ \A d \in Copies : /\ Alive(d)' => Alive(d)
                              /\ d # cb[s].copy => Same(d)
                              /\ Lasting(d) => Lasting(d)'
<1>1. /\ s \in Active /\ cb[s].pc = "ack" /\ ready' = ready /\ dlq' = dlq
      /\ accepted' = accepted /\ done' = done
  BY DEF AckRetried, broker
<1>2. cb' = [cb EXCEPT ![s] = NoCallback]
  BY DEF AckRetried, Settle
<1> QED BY <1>1, <1>2, LetGoEffect

LEMMA DeadLetterEffect ==
  ASSUME TypeOK, NEW s \in Slots, DeadLetter(s), NEW d \in Copies
  PROVE  Same(d)
<1>1. /\ s \in Active /\ cb[s].pc = "retry" /\ ready' = ready /\ cb' = [cb EXCEPT ![s] = NoCallback]
      /\ dlq' = IF cb[s].held THEN [dlq EXCEPT ![cb[s].copy] = @ + 1] ELSE dlq
  BY DEF DeadLetter, Settle
<1>2. s \in Slots /\ cb[s].copy \in Copies /\ cb[s].held \in BOOLEAN
  BY <1>1, ActiveCallback
<1>3. CASE ~cb[s].held
  <2>1. dlq' = dlq
    BY <1>1, <1>3
  <2> QED BY <1>1, <1>3, <2>1, LetGoEffect
<1>4. CASE cb[s].held
  <2>1. cb'[s].pc = "idle" /\ \A t \in Slots : t # s => cb'[t] = cb[t]
    BY <1>1, <1>2 DEF TypeOK, NoCallback
  <2>2. dlq'[cb[s].copy] > 0 /\ \A e \in Copies : e # cb[s].copy => dlq'[e] = dlq[e]
    BY <1>1, <1>2, <1>4 DEF TypeOK
  <2>3. CASE d = cb[s].copy
    <3>1. Alive(d)' /\ Lasting(d)'
      BY <2>2, <2>3, AliveMeansNext
    <3>2. Alive(d)
      BY <1>1, <1>2, <1>4, <2>3, AliveMeans
    <3> QED BY <3>1, <3>2 DEF Same
  <2>4. CASE d # cb[s].copy
    <3>1. Alive(d)' <=> Alive(d)
      BY <1>1, <2>1, <2>2, <2>4, AliveMeans, AliveMeansNext
    <3>2. Lasting(d) => Lasting(d)'
      BY <1>1, <2>1, <2>2, <2>4, AliveMeans, AliveMeansNext
    <3> QED BY <3>1, <3>2 DEF Same
  <2> QED BY <2>3, <2>4
<1> QED BY <1>2, <1>3, <1>4

LEMMA ExpireEffect ==
  ASSUME TypeOK, NEW c \in Copies, Expire(c), NEW d \in Copies
  PROVE  Same(d)
<1>1. /\ dlq[c] > 0 /\ dlq' = [dlq EXCEPT ![c] = @ - 1]
      /\ ready' = [ready EXCEPT ![c] = @ + 1] /\ cb' = cb
  BY DEF Expire
<1>2. CASE d = c
  <2>1. ready'[d] > 0
    BY <1>1, <1>2 DEF TypeOK
  <2> QED BY <1>1, <1>2, <2>1, AliveMeans, AliveMeansNext DEF Same
<1>3. CASE d # c
  <2>1. ready'[d] = ready[d] /\ dlq'[d] = dlq[d]
    BY <1>1, <1>3 DEF TypeOK
  <2> QED BY <1>1, <2>1, AliveMeans, AliveMeansNext DEF Same
<1> QED BY <1>2, <1>3

\* Whatever was held is ready again, and nothing is held any more.
LEMMA LoseEffect ==
  ASSUME TypeOK, ready' = Requeued, dlq' = dlq, NEW d \in Copies,
         \A t \in Slots : cb'[t].pc = "idle" \/ cb'[t].held = FALSE
  PROVE  Same(d)
<1>1. Alive(d)' <=> ready'[d] > 0 \/ dlq'[d] > 0
  BY AliveMeansNext
<1>2. Alive(d)' <=> Alive(d)
  BY <1>1, RequeuedMeans DEF Alive
<1>3. Lasting(d) => Alive(d)
  BY AliveMeans
<1>4. Alive(d)' => Lasting(d)'
  BY <1>1, AliveMeansNext
<1> QED BY <1>2, <1>3, <1>4 DEF Same

LEMMA SlotsAfterDrop ==
  ASSUME TypeOK, Drop
  PROVE  /\ Active' = Active
         /\ \A t \in Active : cb'[t].pc = cb[t].pc /\ cb'[t].copy = cb[t].copy
         /\ \A t \in Slots : cb'[t].pc = "idle" \/ cb'[t].held = FALSE
<1>1. cb' = Released
  BY DEF Drop
<1>2. ASSUME NEW t \in Slots, cb[t].pc = "idle" PROVE cb'[t] = cb[t]
  BY <1>1, <1>2 DEF Released
<1>3. ASSUME NEW t \in Active
      PROVE  cb'[t].held = FALSE /\ cb'[t].pc = cb[t].pc /\ cb'[t].copy = cb[t].copy
  <2>1. t \in Slots /\ cb[t] \in Callback /\ cb[t].pc # "idle"
    BY <1>3, ActiveCallback DEF Active
  <2>2. cb'[t] = [cb[t] EXCEPT !.held = FALSE]
    BY <1>1, <2>1 DEF Released
  <2> QED BY <2>1, <2>2 DEF Callback
<1> QED BY <1>2, <1>3 DEF Active

LEMMA DropEffect ==
  ASSUME TypeOK, Drop, NEW d \in Copies
  PROVE  Same(d)
<1>1. ready' = Requeued /\ dlq' = dlq
  BY DEF Drop
<1> QED BY <1>1, SlotsAfterDrop, LoseEffect

LEMMA DieEffect ==
  ASSUME TypeOK, Die, NEW d \in Copies
  PROVE  Same(d) /\ Active' = {} /\ accepted' = accepted /\ done' = done
<1>1. ready' = Requeued /\ dlq' = dlq /\ accepted' = accepted /\ done' = done
  BY DEF Die
<1>2. \A t \in Slots : cb'[t].pc = "idle"
  BY DEF Die, NoCallback
<1> QED BY <1>1, <1>2, LoseEffect DEF Active

\* Connections come and go without touching copies.
LEMMA QuietEffect ==
  ASSUME UNCHANGED <<broker, done, cb>>
  PROVE  /\ \A d \in Copies : Same(d)
         /\ Active' = Active /\ cb' = cb /\ accepted' = accepted /\ done' = done
<1>1. ready' = ready /\ dlq' = dlq /\ cb' = cb /\ accepted' = accepted /\ done' = done
  BY DEF broker
<1> QED BY <1>1, AliveMeans, AliveMeansNext DEF Same, Active
-----------------------------------------------------------------------------
LEMMA LastingAlive == \A c : (Lasting(c) => Alive(c)) /\ (Lasting(c)' => Alive(c)')
  BY AliveMeans, AliveMeansNext

LEMMA AliveAccepted ==
  ASSUME TypeOK, AcceptedOnly, NEW c \in Copies, Alive(c)
  PROVE  c[1] \in accepted
  BY DEF Alive, Holding, AcceptedOnly

LEMMA InitInv == Init => QueueInv
<1> SUFFICES ASSUME Init PROVE QueueInv
  OBVIOUS
<1>1. Active = {} /\ accepted = {} /\ \A c \in Copies : ready[c] = 0 /\ dlq[c] = 0
  BY DEF Init, Active, NoCallback
<1>2. AcceptedOnly /\ PublishedBeforeAck /\ NoMessageLost
  BY <1>1 DEF AcceptedOnly, PublishedBeforeAck, NoMessageLost
<1> QED BY <1>2, InitType DEF QueueInv

\* What a step must see to, for each of the parts of the invariant.
LEMMA AcceptedStep ==
  ASSUME TypeOK, AcceptedOnly, accepted \subseteq accepted',
         \A d \in Copies : Alive(d)' => Alive(d) \/ d[1] \in accepted',
         \A s \in Active' : cb'[s].copy[1] \in accepted'
  PROVE  AcceptedOnly'
<1>1. ASSUME NEW d \in Copies, ready'[d] > 0 \/ dlq'[d] > 0 PROVE d[1] \in accepted'
  BY <1>1, AliveMeansNext, AliveAccepted
<1> QED BY <1>1 DEF AcceptedOnly

LEMMA PublishedStep ==
  ASSUME TypeOK, PublishedBeforeAck, done \subseteq done',
         \A d \in Copies : Lasting(d) =>
           d[1] \in done' \/ \E e \in CopiesOf(d[1]) : e[2] >= d[2] /\ Lasting(e)',
         \A s \in Active' : cb'[s].pc = "ack" =>
           s \in Active /\ cb[s].pc = "ack" /\ cb'[s].copy = cb[s].copy
  PROVE  PublishedBeforeAck'
<1> SUFFICES ASSUME NEW s \in Active', cb'[s].pc = "ack", cb[s].copy[1] \notin done'
             PROVE  \E e \in CopiesOf(cb[s].copy[1]) : e[2] > cb[s].copy[2] /\ Lasting(e)'
  BY DEF PublishedBeforeAck, Replaced
<1>1. s \in Active /\ cb[s].pc = "ack" /\ cb[s].copy \in Copies
  BY ActiveCallback
<1>2. PICK c \in CopiesOf(cb[s].copy[1]) : c[2] > cb[s].copy[2] /\ Lasting(c)
  BY <1>1 DEF PublishedBeforeAck, Replaced
<1>3. c \in Copies /\ c[1] = cb[s].copy[1] /\ c[2] \in Int /\ cb[s].copy[2] \in Int
  BY <1>1, CopyParts DEF CopiesOf
<1>4. PICK e \in CopiesOf(cb[s].copy[1]) : e[2] >= c[2] /\ Lasting(e)'
  BY <1>2, <1>3
<1>5. e[2] \in Int
  BY CopyParts DEF CopiesOf
<1> QED BY <1>2, <1>3, <1>4, <1>5

LEMMA LostStep ==
  ASSUME NoMessageLost, done \subseteq done',
         \A m \in accepted' \ accepted : \E c \in CopiesOf(m) : Alive(c)',
         \A d \in Copies : Alive(d) =>
           d[1] \in done' \/ \E e \in CopiesOf(d[1]) : Alive(e)'
  PROVE  NoMessageLost'
<1> SUFFICES ASSUME NEW m \in accepted' \ done' PROVE \E c \in CopiesOf(m) : Alive(c)'
  BY DEF NoMessageLost, Alive
<1>1. CASE m \notin accepted
  BY <1>1
<1>2. CASE m \in accepted
  <2>1. PICK c \in CopiesOf(m) : Alive(c)
    BY <1>2 DEF NoMessageLost, Alive
  <2> QED BY <2>1 DEF CopiesOf
<1> QED BY <1>1, <1>2

\* A step that is harmless to every copy, accepts nothing, completes nothing and
\* starts no acknowledgement.
LEMMA HarmlessStep ==
  ASSUME QueueInv, TypeOK', \A d \in Copies : Same(d), accepted' = accepted, done' = done,
         \A s \in Active' : /\ cb'[s].copy[1] \in accepted
                            /\ cb'[s].pc = "ack" =>
                                 s \in Active /\ cb[s].pc = "ack" /\ cb'[s].copy = cb[s].copy
  PROVE  QueueInv'
<1> USE DEF QueueInv
<1>1. AcceptedOnly'
  BY AcceptedStep DEF Same
<1>2. \A d \in Copies : d \in CopiesOf(d[1]) /\ d[2] >= d[2]
  BY CopyParts
<1>3. PublishedBeforeAck'
  BY <1>2, PublishedStep DEF Same
<1>4. NoMessageLost'
  BY <1>2, LostStep DEF Same
<1> QED BY <1>1, <1>3, <1>4
-----------------------------------------------------------------------------
LEMMA PushInv == ASSUME QueueInv, TypeOK', NEW m \in Msgs, Push(m) PROVE QueueInv'
<1> USE DEF QueueInv
<1>1. accepted' = accepted \cup {m} /\ done' = done /\ cb' = cb /\ Active' = Active
  BY DEF Push, Active
<1>2. <<m, 0>> \in CopiesOf(m) /\ <<m, 0>> \in Copies /\ Alive(<<m, 0>>)'
  BY PushEffect, LastingAlive DEF Copies, CopiesOf
<1>3. AcceptedOnly'
  <2>1. \A d \in Copies : Alive(d)' => Alive(d) \/ d[1] \in accepted'
    <3>1. <<m, 0>>[1] \in accepted'
      BY <1>1
    <3> QED BY <3>1, PushEffect DEF Same
  <2>2. \A s \in Active' : cb'[s].copy[1] \in accepted'
    BY <1>1 DEF AcceptedOnly
  <2> QED BY <1>1, <2>1, <2>2, AcceptedStep
<1>4. \A d \in Copies : /\ d \in CopiesOf(d[1]) /\ d[2] >= d[2]
                        /\ Lasting(d) => Lasting(d)'
                        /\ Alive(d) => Alive(d)'
  BY <1>2, CopyParts, PushEffect DEF Same
<1>5. PublishedBeforeAck'
  BY <1>1, <1>4, PublishedStep
<1>6. NoMessageLost'
  BY <1>1, <1>2, <1>4, LostStep
<1> QED BY <1>3, <1>5, <1>6

LEMMA DeliverInv ==
  ASSUME QueueInv, TypeOK', NEW s \in Slots, NEW c \in Copies, Deliver(s, c)
  PROVE  QueueInv'
<1>1. /\ ready[c] > 0 /\ accepted' = accepted /\ done' = done
      /\ cb' = [cb EXCEPT ![s] = [pc |-> "run", copy |-> c, held |-> TRUE]]
  BY DEF Deliver
<1>2. c[1] \in accepted
  BY <1>1 DEF QueueInv, AcceptedOnly
<1>3. cb'[s] = [pc |-> "run", copy |-> c, held |-> TRUE] /\ \A t \in Slots : t # s => cb'[t] = cb[t]
  BY <1>1 DEF QueueInv, TypeOK
<1>4. ASSUME NEW t \in Active'
      PROVE  /\ cb'[t].copy[1] \in accepted
             /\ cb'[t].pc = "ack" => t \in Active /\ cb[t].pc = "ack" /\ cb'[t].copy = cb[t].copy
  <2>1. CASE t = s
    BY <1>2, <1>3, <2>1
  <2>2. CASE t # s
    BY <1>3, <2>2 DEF Active, QueueInv, AcceptedOnly
  <2> QED BY <2>1, <2>2
<1> QED BY <1>1, <1>4, DeliverEffect, HarmlessStep DEF QueueInv

\* The slot that changes keeps its copy or becomes idle; the others stay.
LEMMA SlotStep ==
  ASSUME TypeOK, NEW s \in Active, NEW p \in {"retry", "ack"},
         cb' = [cb EXCEPT ![s] = NoCallback] \/ cb' = [cb EXCEPT ![s].pc = p]
  PROVE  /\ \A t \in Active' : t \in Active /\ cb'[t].copy = cb[t].copy
         /\ \A t \in Active' : t # s => cb'[t].pc = cb[t].pc
         /\ s \in Active' => cb'[s].pc = p
<1>1. s \in Slots /\ cb[s] \in Callback /\ \A t \in Slots : t # s => cb'[t] = cb[t]
  BY ActiveCallback DEF TypeOK
<1>2. CASE cb' = [cb EXCEPT ![s] = NoCallback]
  <2>1. cb'[s].pc = "idle"
    BY <1>1, <1>2 DEF TypeOK, NoCallback
  <2> QED BY <1>1, <2>1 DEF Active
<1>3. CASE cb' = [cb EXCEPT ![s].pc = p]
  <2>1. cb'[s] = [cb[s] EXCEPT !.pc = p]
    BY <1>1, <1>3 DEF TypeOK
  <2>2. cb'[s].pc = p /\ cb'[s].copy = cb[s].copy
    BY <1>1, <2>1 DEF Callback
  <2> QED BY <1>1, <2>2 DEF Active
<1> QED BY <1>2, <1>3

LEMMA SucceedInv == ASSUME QueueInv, TypeOK', NEW s \in Slots, Succeed(s) PROVE QueueInv'
<1> USE DEF QueueInv
<1>1. /\ s \in Active /\ accepted' = accepted /\ done' = done \cup {cb[s].copy[1]}
      /\ \A d \in Copies : (Alive(d)' => Alive(d)) /\ (d # cb[s].copy => Same(d))
      /\ cb' = [cb EXCEPT ![s] = NoCallback] \/ cb' = [cb EXCEPT ![s].pc = "retry"]
  BY SucceedEffect
<1>2. /\ \A t \in Active' : t \in Active /\ cb'[t].copy = cb[t].copy
      /\ \A t \in Active' : cb'[t].pc = "ack" => cb[t].pc = "ack"
  BY <1>1, SlotStep
<1>3. AcceptedOnly'
  <2>1. \A t \in Active' : cb'[t].copy[1] \in accepted'
    BY <1>1, <1>2 DEF AcceptedOnly
  <2> QED BY <1>1, <2>1, AcceptedStep
<1>4. \A d \in Copies : /\ d \in CopiesOf(d[1]) /\ d[2] >= d[2]
                        /\ d[1] \in done' \/ Same(d)
  BY <1>1, CopyParts
<1>5. PublishedBeforeAck'
  BY <1>1, <1>2, <1>4, PublishedStep DEF Same
<1>6. NoMessageLost'
  BY <1>1, <1>4, LostStep DEF Same
<1> QED BY <1>3, <1>5, <1>6

LEMMA RejectInv == ASSUME QueueInv, TypeOK', NEW s \in Slots, Reject(s) PROVE QueueInv'
<1>1. /\ s \in Active /\ cb' = [cb EXCEPT ![s].pc = "retry"]
      /\ accepted' = accepted /\ done' = done
  BY DEF Reject, broker
<1>2. /\ \A t \in Active' : t \in Active /\ cb'[t].copy = cb[t].copy
      /\ \A t \in Active' : cb'[t].pc = "ack" => cb[t].pc = "ack"
  BY <1>1, SlotStep DEF QueueInv
<1>3. \A t \in Active' : cb'[t].copy[1] \in accepted
  BY <1>2 DEF QueueInv, AcceptedOnly
<1> QED BY <1>1, <1>2, <1>3, RejectEffect, HarmlessStep DEF QueueInv

LEMMA RepublishInv == ASSUME QueueInv, TypeOK', NEW s \in Slots, Republish(s) PROVE QueueInv'
<1> USE DEF QueueInv
<1>1. /\ s \in Active /\ cb' = [cb EXCEPT ![s].pc = "ack"]
      /\ accepted' = accepted /\ done' = done
  BY DEF Republish
<1>2. PICK c \in Copies : c = cb[s].copy
  BY <1>1, ActiveCallback
<1>3. /\ \A t \in Active' : t \in Active /\ cb'[t].copy = cb[t].copy
      /\ \A t \in Active' : t # s => cb'[t].pc = cb[t].pc
  BY <1>1, SlotStep
<1>4. PICK n \in Copies : n = NextCopy(c)
  BY <1>2, RepublishEffect
<1>5. /\ n \in CopiesOf(c[1]) /\ n[1] = c[1] /\ n[2] = c[2] + 1 /\ c[2] \in Int
  BY <1>4, CopyParts DEF CopiesOf, NextCopy
<1>6. Lasting(n)' /\ Alive(n)'
  BY <1>2, <1>4, RepublishEffect, LastingAlive
<1>7. \A d \in Copies : d # n => (Alive(d)' <=> Alive(d))
  BY <1>2, <1>4, RepublishEffect
<1>8. \A d \in Copies : d \notin {c, n} => Same(d)
  BY <1>2, <1>4, RepublishEffect
<1>9. c[1] \in accepted
  BY <1>1, <1>2 DEF AcceptedOnly
<1>10. AcceptedOnly'
  <2>1. \A d \in Copies : Alive(d)' => Alive(d) \/ d[1] \in accepted'
    BY <1>1, <1>5, <1>7, <1>9
  <2>2. \A t \in Active' : cb'[t].copy[1] \in accepted'
    BY <1>1, <1>3 DEF AcceptedOnly
  <2> QED BY <1>1, <2>1, <2>2, AcceptedStep
<1>11. \A d \in Copies : d \in CopiesOf(d[1]) /\ d[2] \in Int
  BY CopyParts
<1>12. PublishedBeforeAck'
  <2> SUFFICES ASSUME NEW t \in Active', cb'[t].pc = "ack", cb[t].copy[1] \notin done
               PROVE  \E e \in CopiesOf(cb[t].copy[1]) : e[2] > cb[t].copy[2] /\ Lasting(e)'
    BY <1>1, <1>3 DEF PublishedBeforeAck, Replaced
  <2>1. CASE t = s
    <3>1. n[2] > c[2]
      BY <1>5
    <3> QED BY <1>2, <1>5, <1>6, <2>1, <3>1
  <2>2. CASE t # s
    <3>1. t \in Active /\ cb[t].pc = "ack" /\ cb[t].copy \in Copies
      BY <1>3, <2>2, ActiveCallback
    <3>2. PICK e \in CopiesOf(cb[t].copy[1]) : e[2] > cb[t].copy[2] /\ Lasting(e)
      BY <3>1 DEF PublishedBeforeAck, Replaced
    <3>3. e \in Copies /\ e[1] = cb[t].copy[1] /\ cb[t].copy[2] \in Int /\ e[2] \in Int
      BY <1>11, <3>1, <3>2 DEF CopiesOf
    <3>4. CASE e = c \/ e = n
      <4>1. n[2] > cb[t].copy[2] /\ n \in CopiesOf(cb[t].copy[1])
        BY <1>5, <3>2, <3>3, <3>4
      <4> QED BY <1>6, <4>1
    <3>5. CASE e # c /\ e # n
      BY <1>8, <3>2, <3>3, <3>5 DEF Same
    <3> QED BY <3>4, <3>5
  <2> QED BY <2>1, <2>2
<1>13. NoMessageLost'
  <2>1. \A d \in Copies : Alive(d) => Alive(d)'
    BY <1>6, <1>7
  <2> QED BY <1>1, <1>11, <2>1, LostStep
<1> QED BY <1>10, <1>12, <1>13

LEMMA AckInv == ASSUME QueueInv, TypeOK', NEW s \in Slots, AckRetried(s) PROVE QueueInv'
<1> USE DEF QueueInv
<1>1. /\ s \in Active /\ cb[s].pc = "ack" /\ cb' = [cb EXCEPT ![s] = NoCallback]
      /\ accepted' = accepted /\ done' = done
      /\ \A d \in Copies : /\ Alive(d)' => Alive(d)
                           /\ d # cb[s].copy => Same(d)
                           /\ Lasting(d) => Lasting(d)'
  BY AckEffect
<1>2. \A t \in Active' : t \in Active /\ cb'[t].copy = cb[t].copy /\ cb'[t].pc = cb[t].pc
  <2>1. \A t \in Slots : t # s => cb'[t] = cb[t]
    BY <1>1 DEF TypeOK
  <2>2. s \notin Active'
    BY <1>1 DEF Active, TypeOK, NoCallback
  <2> QED BY <2>1, <2>2 DEF Active
<1>3. AcceptedOnly'
  <2>1. \A t \in Active' : cb'[t].copy[1] \in accepted'
    BY <1>1, <1>2 DEF AcceptedOnly
  <2> QED BY <1>1, <2>1, AcceptedStep
<1>4. \A d \in Copies : d \in CopiesOf(d[1]) /\ d[2] >= d[2]
  BY CopyParts
<1>5. PublishedBeforeAck'
  BY <1>1, <1>2, <1>4, PublishedStep
<1>6. NoMessageLost'
  <2>1. ASSUME NEW d \in Copies, Alive(d)
        PROVE  d[1] \in done' \/ \E e \in CopiesOf(d[1]) : Alive(e)'
    <3>1. CASE d # cb[s].copy
      BY <1>1, <1>4, <2>1, <3>1 DEF Same
    <3>2. CASE d = cb[s].copy
      <4>1. d[1] \in done \/ \E e \in CopiesOf(d[1]) : Lasting(e)
        BY <1>1, <3>2 DEF PublishedBeforeAck, Replaced
      <4>2. \A e \in CopiesOf(d[1]) : Lasting(e) => Alive(e)'
        BY <1>1, LastingAlive DEF CopiesOf
      <4> QED BY <1>1, <4>1, <4>2
    <3> QED BY <3>1, <3>2
  <2> QED BY <1>1, <2>1, LostStep
<1> QED BY <1>3, <1>5, <1>6

LEMMA DeadLetterInv == ASSUME QueueInv, TypeOK', NEW s \in Slots, DeadLetter(s) PROVE QueueInv'
<1>1. /\ s \in Active /\ cb' = [cb EXCEPT ![s] = NoCallback]
      /\ accepted' = accepted /\ done' = done
  BY DEF DeadLetter, Settle
<1>2. \A t \in Active' : t \in Active /\ cb'[t].copy = cb[t].copy /\ cb'[t].pc = cb[t].pc
  <2>1. \A t \in Slots : t # s => cb'[t] = cb[t]
    BY <1>1 DEF QueueInv, TypeOK
  <2>2. s \notin Active'
    BY <1>1 DEF Active, QueueInv, TypeOK, NoCallback
  <2> QED BY <2>1, <2>2 DEF Active
<1>3. \A t \in Active' : cb'[t].copy[1] \in accepted
  BY <1>2 DEF QueueInv, AcceptedOnly
<1> QED BY <1>1, <1>2, <1>3, DeadLetterEffect, HarmlessStep DEF QueueInv

\* Nothing is accepted, completed or processed by the other actions.
LEMMA ExpireInv == ASSUME QueueInv, TypeOK', NEW c \in Copies, Expire(c) PROVE QueueInv'
<1>1. accepted' = accepted /\ done' = done /\ cb' = cb /\ Active' = Active
  BY DEF Expire, Active
<1> QED BY <1>1, ExpireEffect, HarmlessStep DEF QueueInv, AcceptedOnly

LEMMA QuietInv == ASSUME QueueInv, TypeOK', UNCHANGED <<broker, done, cb>> PROVE QueueInv'
  BY QuietEffect, HarmlessStep DEF QueueInv, AcceptedOnly

LEMMA DropInv == ASSUME QueueInv, TypeOK', Drop PROVE QueueInv'
<1>1. accepted' = accepted /\ done' = done
  BY DEF Drop
<1>2. \A d \in Copies : Same(d)
  BY DropEffect DEF QueueInv
<1>3. Active' = Active /\ \A t \in Active : cb'[t].pc = cb[t].pc /\ cb'[t].copy = cb[t].copy
  BY SlotsAfterDrop DEF QueueInv
<1>4. \A t \in Active' : cb'[t].copy[1] \in accepted
  BY <1>3 DEF QueueInv, AcceptedOnly
<1> QED BY <1>1, <1>2, <1>3, <1>4, HarmlessStep DEF QueueInv

LEMMA DieInv == ASSUME QueueInv, TypeOK', Die PROVE QueueInv'
<1>1. /\ accepted' = accepted /\ done' = done /\ Active' = {}
  BY DEF Die, Active, NoCallback
<1> QED BY <1>1, DieEffect, HarmlessStep DEF QueueInv

LEMMA InvStep == QueueInv /\ [Next]_vars => QueueInv'
<1> SUFFICES ASSUME QueueInv, [Next]_vars PROVE QueueInv'
  OBVIOUS
<1>1. TypeOK'
  BY TypeStep DEF QueueInv
<1>2. CASE \E m \in Msgs : Push(m)
  BY <1>1, <1>2, PushInv
<1>3. CASE \E s \in Slots, c \in Copies : Deliver(s, c)
  BY <1>1, <1>3, DeliverInv
<1>4. CASE \E s \in Slots : Work(s)
  BY <1>1, <1>4, SucceedInv, RejectInv, RepublishInv, AckInv, DeadLetterInv DEF Work
<1>5. CASE \E c \in Copies : Expire(c)
  BY <1>1, <1>5, ExpireInv
<1>6. CASE AutoReconnect \/ PushReconnect \/ Restart \/ UNCHANGED vars
  <2>1. UNCHANGED <<broker, done, cb>>
    BY <1>6 DEF AutoReconnect, PushReconnect, Reconnect, Restart, vars
  <2> QED BY <1>1, <2>1, QuietInv
<1>7. CASE Drop
  BY <1>1, <1>7, DropInv
<1>8. CASE Die \/ \E s \in Slots : RejectUnhandled(s)
  BY <1>1, <1>8, DieInv DEF RejectUnhandled
<1> QED BY <1>2, <1>3, <1>4, <1>5, <1>6, <1>7, <1>8 DEF Next
-----------------------------------------------------------------------------
\* Every accepted message is waited for or was processed, and the state is well
\* typed, whatever connections and processes (rabbitmq.singleton.ts) do.
THEOREM QueueTypeCorrect == Spec => []TypeOK
<1>1. QueueInv => TypeOK
  BY DEF QueueInv
<1> QED BY <1>1, InitInv, InvStep, PTL DEF Spec

\* pushToQueue's message is in a queue or unacknowledged until its callback has
\* succeeded, for any retries, lost channels and crashes.
THEOREM QueueLosesNoMessage == Spec => []NoMessageLost
<1>1. QueueInv => NoMessageLost
  BY DEF QueueInv
<1> QED BY <1>1, InitInv, InvStep, PTL DEF Spec
-----------------------------------------------------------------------------
\* The refinement: how the abstract queue sees the steps.
LEMMA PendingMeans ==
  ASSUME NEW m \in Msgs
  PROVE  /\ m \in Pending <=> \E c \in CopiesOf(m) : Alive(c)
         /\ m \in Pending' <=> \E c \in CopiesOf(m) : Alive(c)'
  BY DEF Pending, Alive, Holding

LEMMA RunningMeans ==
  /\ Running = {x \in Slots \X {cb[s].copy[1] : s \in Slots} :
                  cb[x[1]].pc = "run" /\ x[2] = cb[x[1]].copy[1]}
  /\ Running' = {x \in Slots \X {cb'[s].copy[1] : s \in Slots} :
                  cb'[x[1]].pc = "run" /\ x[2] = cb'[x[1]].copy[1]}
  BY DEF Running, Active

LEMMA SamePending ==
  ASSUME \A d \in Copies : Alive(d)' <=> Alive(d)
  PROVE  Pending' = Pending
<1>1. \A m \in Msgs : m \in Pending' <=> m \in Pending
  BY PendingMeans DEF CopiesOf
<1> QED BY <1>1 DEF Pending

LEMMA SameRunning ==
  ASSUME \A t \in Slots : \/ cb'[t] = cb[t]
                          \/ cb[t].pc # "run" /\ cb'[t].pc # "run"
                          \/ cb'[t].pc = cb[t].pc /\ cb'[t].copy = cb[t].copy
  PROVE  Running' = Running
  BY RunningMeans

\* A step that concerns one message's copies leaves the others pending or not.
LEMMA OtherPending ==
  ASSUME NEW s \in Slots, NEW m, m = cb[s].copy[1],
         \A d \in Copies : (Alive(d)' => Alive(d)) /\ (d # cb[s].copy => Same(d))
  PROVE  Pending' \subseteq Pending /\ \A n \in Msgs : n # m => (n \in Pending' <=> n \in Pending)
<1>1. \A n \in Msgs : n \in Pending' => n \in Pending
  BY PendingMeans DEF CopiesOf
<1>2. ASSUME NEW n \in Msgs, n # m PROVE n \in Pending' <=> n \in Pending
  <2>1. \A d \in CopiesOf(n) : d \in Copies /\ d # cb[s].copy
    BY <1>2 DEF CopiesOf
  <2> QED BY <2>1, PendingMeans DEF Same
<1> QED BY <1>1, <1>2 DEF Pending

\* A slot that stops running its callback.
LEMMA StopsRunning ==
  ASSUME TypeOK, NEW s \in Active, cb[s].pc = "run", NEW m, m = cb[s].copy[1],
         cb' = [cb EXCEPT ![s] = NoCallback] \/ cb' = [cb EXCEPT ![s].pc = "retry"]
  PROVE  <<s, m>> \in Running /\ m \in Msgs /\ Running' = Running \ {<<s, m>>}
<1>1. s \in Slots /\ m \in Msgs
  BY ActiveCallback, CopyParts
<1>2. \A t \in Slots : t # s => cb'[t] = cb[t]
  BY <1>1 DEF TypeOK
<1>3. cb'[s].pc # "run"
  BY <1>1, SlotStep DEF Active
<1>4. <<s, m>> \in Running
  BY <1>1, RunningMeans
<1>5. Running' = Running \ {<<s, m>>}
  BY <1>1, <1>2, <1>3, RunningMeans
<1> QED BY <1>1, <1>4, <1>5

LEMMA PushAccepts ==
  ASSUME QueueInv, NEW m \in Msgs, Push(m)
  PROVE  Delivery!Accept(m)
<1> USE DEF QueueInv
<1>1. m \notin accepted /\ done' = done /\ cb' = cb
  BY DEF Push
<1>2. m \notin Pending /\ m \notin done
  <2>1. \A c \in CopiesOf(m) : c \in Copies /\ c[1] = m
    BY DEF CopiesOf
  <2> QED BY <1>1, <2>1, PendingMeans, AliveAccepted DEF TypeOK
<1>3. <<m, 0>> \in CopiesOf(m) /\ Alive(<<m, 0>>)'
  BY PushEffect, LastingAlive DEF Copies, CopiesOf
<1>4. \A n \in Msgs : n \in Pending' <=> n \in Pending \/ n = m
  <2>1. m \in Pending'
    BY <1>3, PendingMeans
  <2>2. ASSUME NEW n \in Msgs, n # m PROVE n \in Pending' <=> n \in Pending
    <3>1. \A c \in CopiesOf(n) : c \in Copies /\ c[1] = n
      BY DEF CopiesOf
    <3>2. \A c \in CopiesOf(n) : c # <<m, 0>>
      BY <2>2, <3>1
    <3>3. \A c \in CopiesOf(n) : Alive(c)' <=> Alive(c)
      BY <3>1, <3>2, PushEffect DEF Same
    <3> QED BY <3>3, PendingMeans
  <2> QED BY <2>1, <2>2
<1>5. Pending' = Pending \cup {m}
  BY <1>4 DEF Pending
<1>6. Running' = Running
  BY <1>1, SameRunning
<1> QED BY <1>1, <1>2, <1>5, <1>6 DEF Delivery!Accept

LEMMA DeliverStarts ==
  ASSUME QueueInv, NEW s \in Slots, NEW c \in Copies, Deliver(s, c)
  PROVE  Delivery!Start(s, c[1])
<1> USE DEF QueueInv
<1>1. /\ cb[s].pc = "idle" /\ ready[c] > 0 /\ done' = done
      /\ cb' = [cb EXCEPT ![s] = [pc |-> "run", copy |-> c, held |-> TRUE]]
  BY DEF Deliver, Active
<1>2. c[1] \in Pending
  BY <1>1, CopyParts, PendingMeans DEF Alive
<1>3. Pending' = Pending
  BY DeliverEffect, SamePending DEF Same
<1>4. cb'[s] = [pc |-> "run", copy |-> c, held |-> TRUE] /\ \A t \in Slots : t # s => cb'[t] = cb[t]
  BY <1>1 DEF TypeOK
<1>5. cb'[s].pc = "run" /\ cb'[s].copy[1] = c[1]
  BY <1>4
<1>6. \A n \in Msgs : <<s, n>> \notin Running
  BY <1>1, RunningMeans
<1>7. Running' = Running \cup {<<s, c[1]>>}
  BY <1>1, <1>4, <1>5, RunningMeans
<1> QED BY <1>1, <1>2, <1>3, <1>6, <1>7 DEF Delivery!Start

LEMMA SucceedSucceeds ==
  ASSUME QueueInv, NEW s \in Slots, Succeed(s)
  PROVE  \E m \in Msgs : Delivery!Succeed(s, m)
<1> USE DEF QueueInv
<1>1. PICK m : m = cb[s].copy[1]
  OBVIOUS
<1>2. /\ s \in Active /\ cb[s].pc = "run" /\ done' = done \cup {m}
      /\ \A d \in Copies : (Alive(d)' => Alive(d)) /\ (d # cb[s].copy => Same(d))
  BY <1>1, SucceedEffect
<1>3. <<s, m>> \in Running /\ m \in Msgs /\ Running' = Running \ {<<s, m>>}
  BY <1>1, SucceedEffect, StopsRunning
<1>4. Pending' \subseteq Pending /\ \A n \in Msgs : n # m => (n \in Pending' <=> n \in Pending)
  BY <1>1, <1>2, OtherPending
<1>5. Pending' \in {Pending, Pending \ {m}}
  BY <1>4 DEF Pending
<1> QED BY <1>2, <1>3, <1>5 DEF Delivery!Succeed

LEMMA RejectAborts ==
  ASSUME QueueInv, NEW s \in Slots, Reject(s)
  PROVE  \E m \in Msgs : Delivery!Abort(s, m)
<1> USE DEF QueueInv
<1>1. s \in Active /\ cb[s].pc = "run" /\ cb' = [cb EXCEPT ![s].pc = "retry"] /\ done' = done
  BY DEF Reject
<1>2. PICK m : m = cb[s].copy[1]
  OBVIOUS
<1>3. <<s, m>> \in Running /\ m \in Msgs /\ Running' = Running \ {<<s, m>>}
  BY <1>1, <1>2, StopsRunning
<1>4. Pending' = Pending
  BY RejectEffect, SamePending DEF Same
<1> QED BY <1>1, <1>3, <1>4 DEF Delivery!Abort

\* The message of a callback that has left "run" is not running.
LEMMA NotRunning ==
  ASSUME TypeOK, NEW s \in Active, cb[s].pc # "run",
         cb' = [cb EXCEPT ![s] = NoCallback] \/ cb' = [cb EXCEPT ![s].pc = "ack"]
  PROVE  Running' = Running
<1>1. s \in Slots /\ \A t \in Slots : t # s => cb'[t] = cb[t]
  BY ActiveCallback DEF TypeOK
<1>2. cb'[s].pc # "run"
  BY <1>1, SlotStep DEF Active
<1> QED BY <1>1, <1>2, SameRunning

LEMMA RepublishRepeats ==
  ASSUME QueueInv, NEW s \in Slots, Republish(s)
  PROVE  UNCHANGED Delivery!vars \/ \E m \in Msgs : Delivery!Repeat(m)
<1> USE DEF QueueInv
<1>1. s \in Active /\ cb[s].pc = "retry" /\ cb' = [cb EXCEPT ![s].pc = "ack"] /\ done' = done
  BY DEF Republish
<1>2. PICK c \in Copies : c = cb[s].copy
  BY <1>1, ActiveCallback
<1>3. PICK m \in Msgs : m = c[1]
  BY CopyParts
<1>4. Running' = Running
  BY <1>1, NotRunning
<1>5. NextCopy(c) \in CopiesOf(m) /\ Alive(NextCopy(c))'
  BY <1>2, <1>3, RepublishEffect, LastingAlive DEF CopiesOf, NextCopy
<1>6. m \in Pending'
  BY <1>5, PendingMeans
<1>7. ASSUME NEW n \in Msgs, n # m PROVE n \in Pending' <=> n \in Pending
  <2>1. \A d \in CopiesOf(n) : d \in Copies /\ d # NextCopy(c)
    BY <1>3, <1>7 DEF CopiesOf, NextCopy
  <2>2. \A d \in CopiesOf(n) : Alive(d)' <=> Alive(d)
    BY <1>2, <2>1, RepublishEffect
  <2> QED BY <2>2, PendingMeans
<1>8. Pending' = Pending \cup {m}
  BY <1>6, <1>7 DEF Pending
<1>9. m \in Pending \/ m \in done
  <2>1. m \in accepted
    BY <1>1, <1>2, <1>3 DEF AcceptedOnly
  <2> QED BY <2>1, PendingMeans DEF NoMessageLost, Alive
<1>10. CASE m \in Pending
  BY <1>1, <1>4, <1>8, <1>10 DEF Delivery!vars
<1>11. CASE m \in done
  BY <1>1, <1>4, <1>8, <1>11 DEF Delivery!Repeat
<1> QED BY <1>9, <1>10, <1>11

LEMMA AckForgets ==
  ASSUME QueueInv, QueueInv', NEW s \in Slots, AckRetried(s)
  PROVE  UNCHANGED Delivery!vars \/ \E m \in Msgs : Delivery!Forget(m)
<1> USE DEF QueueInv
<1>1. /\ s \in Active /\ cb[s].pc = "ack" /\ cb' = [cb EXCEPT ![s] = NoCallback]
      /\ accepted' = accepted /\ done' = done
      /\ \A d \in Copies : (Alive(d)' => Alive(d)) /\ (d # cb[s].copy => Same(d))
  BY AckEffect
<1>2. PICK m \in Msgs : m = cb[s].copy[1]
  BY <1>1, ActiveCallback, CopyParts
<1>3. Running' = Running
  BY <1>1, NotRunning
<1>4. Pending' \subseteq Pending /\ \A n \in Msgs : n # m => (n \in Pending' <=> n \in Pending)
  BY <1>1, <1>2, OtherPending
<1>5. CASE m \in Pending' \/ m \notin Pending
  <2>1. Pending' = Pending
    BY <1>4, <1>5 DEF Pending
  <2> QED BY <1>1, <1>3, <2>1 DEF Delivery!vars
<1>6. CASE m \notin Pending' /\ m \in Pending
  <2>1. Pending' = Pending \ {m}
    BY <1>4, <1>6 DEF Pending
  <2>2. m \in accepted'
    BY <1>1, <1>2 DEF AcceptedOnly
  <2>3. m \in done'
    <3>1. \A c \in CopiesOf(m) : ~Alive(c)'
      BY <1>6, PendingMeans
    <3> QED BY <2>2, <3>1 DEF NoMessageLost, Alive
  <2> QED BY <1>1, <1>3, <1>6, <2>1, <2>3 DEF Delivery!Forget
<1> QED BY <1>5, <1>6

LEMMA OthersStutter ==
  ASSUME QueueInv,
         \/ \E s \in Slots : DeadLetter(s)
         \/ \E c \in Copies : Expire(c)
         \/ Drop
         \/ UNCHANGED <<broker, done, cb>>
  PROVE  UNCHANGED Delivery!vars
<1> USE DEF QueueInv
<1>1. CASE \E s \in Slots : DeadLetter(s)
  <2>1. PICK s \in Slots : DeadLetter(s)
    BY <1>1
  <2>2. s \in Active /\ cb[s].pc = "retry" /\ cb' = [cb EXCEPT ![s] = NoCallback] /\ done' = done
    BY <2>1 DEF DeadLetter, Settle
  <2>3. Running' = Running
    BY <2>2, NotRunning
  <2>4. Pending' = Pending
    BY <2>1, DeadLetterEffect, SamePending DEF Same
  <2> QED BY <2>2, <2>3, <2>4 DEF Delivery!vars
<1>2. CASE \E c \in Copies : Expire(c)
  <2>1. done' = done /\ cb' = cb
    BY <1>2 DEF Expire
  <2>2. Pending' = Pending
    BY <1>2, ExpireEffect, SamePending DEF Same
  <2> QED BY <2>1, <2>2, SameRunning DEF Delivery!vars
<1>3. CASE Drop
  <2>1. done' = done
    BY <1>3 DEF Drop
  <2>2. Pending' = Pending
    BY <1>3, DropEffect, SamePending DEF Same
  <2>3. Running' = Running
    <3>1. /\ Active' = Active
          /\ \A t \in Active : cb'[t].pc = cb[t].pc /\ cb'[t].copy = cb[t].copy
      BY <1>3, SlotsAfterDrop
    <3>2. \A t \in Slots : t \notin Active => cb[t].pc = "idle" /\ cb'[t].pc = "idle"
      BY <3>1 DEF Active
    <3> QED BY <3>1, <3>2, SameRunning
  <2> QED BY <2>1, <2>2, <2>3 DEF Delivery!vars
<1>4. CASE UNCHANGED <<broker, done, cb>>
  <2>1. Pending' = Pending
    BY <1>4, QuietEffect, SamePending DEF Same
  <2> QED BY <1>4, <2>1, SameRunning DEF Delivery!vars
<1> QED BY <1>1, <1>2, <1>3, <1>4

LEMMA DieDies == ASSUME QueueInv, Die PROVE Delivery!Die
<1>1. Pending' = Pending
  BY DieEffect, SamePending DEF Same, QueueInv
<1>2. Active' = {} /\ done' = done
  BY DEF Die, Active, NoCallback
<1>3. Running' = {}
  BY <1>2 DEF Running
<1> QED BY <1>1, <1>2, <1>3 DEF Delivery!Die

LEMMA RefinedInit == Init => Delivery!Init
<1> SUFFICES ASSUME Init PROVE Delivery!Init
  OBVIOUS
<1>1. Active = {} /\ done = {} /\ \A c \in Copies : ready[c] = 0 /\ dlq[c] = 0
  BY DEF Init, Active, NoCallback
<1>2. Running = {}
  BY <1>1 DEF Running
<1>3. Pending = {}
  BY <1>1 DEF Pending, CopiesOf, Holding
<1> QED BY <1>1, <1>2, <1>3 DEF Delivery!Init

LEMMA RefinedStep == QueueInv /\ QueueInv' /\ [Next]_vars => [Delivery!Next]_(Delivery!vars)
<1> SUFFICES ASSUME QueueInv, QueueInv', [Next]_vars PROVE Delivery!Next \/ UNCHANGED Delivery!vars
  OBVIOUS
<1>1. CASE \E m \in Msgs : Push(m)
  BY <1>1, PushAccepts DEF Delivery!Next
<1>2. CASE \E s \in Slots, c \in Copies : Deliver(s, c)
  BY <1>2, DeliverStarts, CopyParts DEF Delivery!Next
<1>3. CASE \E s \in Slots : Succeed(s) \/ Reject(s)
  BY <1>3, SucceedSucceeds, RejectAborts DEF Delivery!Next
<1>4. CASE \E s \in Slots : Republish(s) \/ AckRetried(s)
  BY <1>4, RepublishRepeats, AckForgets DEF Delivery!Next
<1>5. CASE Die \/ \E s \in Slots : RejectUnhandled(s)
  BY <1>5, DieDies DEF RejectUnhandled, Delivery!Next
<1>6. CASE (\E s \in Slots : DeadLetter(s)) \/ (\E c \in Copies : Expire(c)) \/ Drop
  BY <1>6, OthersStutter
<1>7. CASE AutoReconnect \/ PushReconnect \/ Restart \/ UNCHANGED vars
  <2>1. UNCHANGED <<broker, done, cb>>
    BY <1>7 DEF AutoReconnect, PushReconnect, Reconnect, Restart, vars
  <2> QED BY <2>1, OthersStutter
<1> QED BY <1>1, <1>2, <1>3, <1>4, <1>5, <1>6, <1>7 DEF Next, Work

\* The queue of rabbitmq.singleton.ts is the abstract at-least-once queue.
THEOREM QueueImplementsAtLeastOnce == Spec => ImplementsAtLeastOnce
  BY RefinedInit, RefinedStep, InitInv, InvStep, PTL DEF Spec, ImplementsAtLeastOnce, Delivery!Spec
-----------------------------------------------------------------------------
(***************************************************************************)
(* Without drops and crashes: the channel stays, and with it what is held; *)
(* a message has one living copy, and none after its callback's success.   *)
(***************************************************************************)
Connected == alive /\ up /\ \A s \in Active : cb[s].held

OneLiving == \A m \in Msgs : \A x, y \in Living(m) : x = y

NoneAfterSuccess == \A m \in done : Living(m) = {}

OneWaits == \A c \in Copies : ready[c] + dlq[c] <= 1

Faultless == Connected /\ OneLiving /\ NoneAfterSuccess /\ OneWaits

FaultlessInv == QueueInv /\ (drops = 0 /\ crashes = 0 => Faultless)

\* Of m, what is in gone lives no longer and what is in new does; of others,
\* nothing comes to life.
MovesReady(m, gone, new) ==
  \A c \in Copies : ready'[c] > 0 =>
    \/ ready[c] > 0 /\ <<"ready", c>> \notin gone
    \/ <<"ready", c>> \in new /\ c[1] = m

MovesDlq(m, gone, new) ==
  \A c \in Copies : dlq'[c] > 0 =>
    \/ dlq[c] > 0 /\ <<"dlq", c>> \notin gone
    \/ <<"dlq", c>> \in new /\ c[1] = m

MovesHeld(m, gone, new) ==
  \A s \in Slots : cb'[s].pc \notin {"idle", "ack"} =>
    \/ cb[s].pc \notin {"idle", "ack"} /\ cb'[s].copy = cb[s].copy /\ <<"held", s>> \notin gone
    \/ <<"held", s>> \in new /\ cb'[s].copy[1] = m

Moves(m, gone, new) == MovesReady(m, gone, new) /\ MovesDlq(m, gone, new) /\ MovesHeld(m, gone, new)

LEMMA LivingMeans ==
  ASSUME NEW m, NEW x
  PROVE  x \in Living(m) <=>
           \/ \E c \in Copies : x = <<"ready", c>> /\ c[1] = m /\ ready[c] > 0
           \/ \E c \in Copies : x = <<"dlq", c>> /\ c[1] = m /\ dlq[c] > 0
           \/ \E s \in Slots : x = <<"held", s>> /\ cb[s].pc \notin {"idle", "ack"} /\ cb[s].copy[1] = m
  BY DEF Living, CopiesOf, Active

LEMMA LivingMeansNext ==
  ASSUME NEW m, NEW x
  PROVE  x \in Living(m)' <=>
           \/ \E c \in Copies : x = <<"ready", c>> /\ c[1] = m /\ ready'[c] > 0
           \/ \E c \in Copies : x = <<"dlq", c>> /\ c[1] = m /\ dlq'[c] > 0
           \/ \E s \in Slots : x = <<"held", s>> /\ cb'[s].pc \notin {"idle", "ack"} /\ cb'[s].copy[1] = m
  BY DEF Living, CopiesOf, Active

LEMMA LivingMoves ==
  ASSUME NEW m, NEW gone, NEW new, Moves(m, gone, new), NEW n, NEW x \in Living(n)'
  PROVE  (x \in Living(n) /\ x \notin gone) \/ (x \in new /\ n = m)
<1>1. CASE \E c \in Copies : x = <<"ready", c>> /\ c[1] = n /\ ready'[c] > 0
  BY <1>1, LivingMeans DEF Moves, MovesReady
<1>2. CASE \E c \in Copies : x = <<"dlq", c>> /\ c[1] = n /\ dlq'[c] > 0
  BY <1>2, LivingMeans DEF Moves, MovesDlq
<1>3. CASE \E s \in Slots : x = <<"held", s>> /\ cb'[s].pc \notin {"idle", "ack"} /\ cb'[s].copy[1] = n
  <2>1. PICK s \in Slots : x = <<"held", s>> /\ cb'[s].pc \notin {"idle", "ack"} /\ cb'[s].copy[1] = n
    BY <1>3
  <2>2. \/ cb[s].pc \notin {"idle", "ack"} /\ cb'[s].copy = cb[s].copy /\ x \notin gone
        \/ x \in new /\ cb'[s].copy[1] = m
    BY <2>1 DEF Moves, MovesHeld
  <2> QED BY <2>1, <2>2, LivingMeans
<1> QED BY <1>1, <1>2, <1>3, LivingMeansNext

\* A message moves: its only copy is gone and at most one is new.
LEMMA OneMoves ==
  ASSUME OneLiving, NoneAfterSuccess, NEW m, NEW gone, NEW new, Moves(m, gone, new),
         Living(m) \subseteq gone, \A x, y \in new : x = y,
         done' \subseteq done \cup {m}, m \in done' => new = {}
  PROVE  OneLiving' /\ NoneAfterSuccess'
<1>1. OneLiving'
  BY LivingMoves DEF OneLiving
<1>2. NoneAfterSuccess'
  BY LivingMoves DEF NoneAfterSuccess
<1> QED BY <1>1, <1>2

LEMMA NoneMoves ==
  ASSUME OneLiving, NoneAfterSuccess, Moves(0, {}, {}), done' = done
  PROVE  OneLiving' /\ NoneAfterSuccess'
<1>1. \A n : Living(n)' \subseteq Living(n)
  BY LivingMoves
<1> QED BY <1>1 DEF OneLiving, NoneAfterSuccess

\* What a message's only living copy excludes.
LEMMA OnlyHeld ==
  ASSUME TypeOK, OneLiving, NEW s \in Active, cb[s].pc # "ack", NEW m, m = cb[s].copy[1]
  PROVE  /\ m \in Msgs /\ <<"held", s>> \in Living(m) /\ Living(m) \subseteq {<<"held", s>>}
         /\ \A c \in Copies : c[1] = m => ready[c] = 0 /\ dlq[c] = 0
<1>1. s \in Slots /\ cb[s].pc \notin {"idle", "ack"} /\ m \in Msgs
  BY ActiveCallback, CopyParts
<1>2. <<"held", s>> \in Living(m)
  BY <1>1, LivingMeans
<1>3. ASSUME NEW c \in Copies, c[1] = m PROVE ready[c] = 0 /\ dlq[c] = 0
  <2>1. ready[c] \in Nat /\ dlq[c] \in Nat
    BY DEF TypeOK
  <2>2. <<"ready", c>> \notin Living(m) /\ <<"dlq", c>> \notin Living(m)
    BY <1>1, <1>2 DEF OneLiving
  <2> QED BY <1>3, <2>1, <2>2, LivingMeans
<1> QED BY <1>1, <1>2, <1>3 DEF OneLiving
-----------------------------------------------------------------------------
LEMMA PushFaultless ==
  ASSUME QueueInv, Faultless, NEW m \in Msgs, Push(m)
  PROVE  Faultless'
<1> USE DEF Faultless, QueueInv
<1> DEFINE c == <<m, 0>>
<1>1. /\ c \in Copies /\ c[1] = m /\ m \notin accepted /\ m \notin done /\ done' = done
      /\ dlq' = dlq /\ cb' = cb /\ UNCHANGED process
      /\ ready'[c] = ready[c] + 1 /\ \A d \in Copies : d # c => ready'[d] = ready[d]
  BY DEF Push, Copies, TypeOK
<1> HIDE DEF c
<1>2. Living(m) = {}
  <2>1. ASSUME NEW x \in Living(m) PROVE FALSE
    BY <1>1, <2>1, LivingMeans DEF AcceptedOnly, Active
  <2> QED BY <2>1
<1>3. Moves(m, {}, {<<"ready", c>>})
  <2>1. MovesReady(m, {}, {<<"ready", c>>})
    BY <1>1 DEF MovesReady
  <2>2. MovesDlq(m, {}, {<<"ready", c>>})
    BY <1>1 DEF MovesDlq
  <2>3. MovesHeld(m, {}, {<<"ready", c>>})
    BY <1>1 DEF MovesHeld
  <2> QED BY <2>1, <2>2, <2>3 DEF Moves
<1>4. OneLiving' /\ NoneAfterSuccess'
  BY <1>1, <1>2, <1>3, OneMoves
<1>5. ready[c] = 0 /\ dlq[c] = 0
  <2>1. ready[c] \in Nat /\ dlq[c] \in Nat
    BY <1>1 DEF TypeOK
  <2> QED BY <1>1, <2>1 DEF AcceptedOnly
<1>6. OneWaits'
  BY <1>1, <1>5 DEF OneWaits
<1>7. Connected'
  BY <1>1 DEF Connected, Active, process
<1> QED BY <1>4, <1>6, <1>7

LEMMA DeliverFaultless ==
  ASSUME QueueInv, Faultless, NEW s \in Slots, NEW c \in Copies, Deliver(s, c)
  PROVE  Faultless'
<1> USE DEF Faultless, QueueInv
<1> DEFINE old == <<"ready", c>>
           new == <<"held", s>>
<1>1. /\ cb[s].pc = "idle" /\ done' = done /\ dlq' = dlq /\ UNCHANGED process /\ ready[c] > 0
      /\ ready'[c] = ready[c] - 1 /\ \A d \in Copies : d # c => ready'[d] = ready[d]
  BY DEF Deliver, Active, TypeOK
<1>2. cb'[s] = [pc |-> "run", copy |-> c, held |-> TRUE] /\ \A t \in Slots : t # s => cb'[t] = cb[t]
  BY DEF Deliver, TypeOK
<1>3. cb'[s].pc = "run" /\ cb'[s].copy = c /\ cb'[s].held
  BY <1>2
<1>4. ready[c] \in Nat /\ dlq[c] \in Nat /\ ready[c] + dlq[c] <= 1 /\ c[1] \in Msgs
  BY CopyParts DEF TypeOK, OneWaits
<1>5. ready'[c] = 0
  BY <1>1, <1>4
<1>6. Moves(c[1], {old}, {new})
  <2>1. MovesReady(c[1], {old}, {new})
    BY <1>1, <1>2, <1>3, <1>5 DEF MovesReady
  <2>2. MovesDlq(c[1], {old}, {new})
    BY <1>1, <1>2, <1>3, <1>5 DEF MovesDlq
  <2>3. MovesHeld(c[1], {old}, {new})
    BY <1>1, <1>2, <1>3, <1>5 DEF MovesHeld
  <2> QED BY <2>1, <2>2, <2>3 DEF Moves
<1>7. old \in Living(c[1])
  BY <1>1, LivingMeans
<1>8. OneLiving' /\ NoneAfterSuccess'
  BY <1>1, <1>4, <1>6, <1>7, OneMoves DEF OneLiving, NoneAfterSuccess
<1>9. OneWaits'
  BY <1>1, <1>4, <1>5 DEF OneWaits
<1>10. Connected'
  BY <1>1, <1>2, <1>3 DEF Connected, Active, process
<1> QED BY <1>8, <1>9, <1>10

\* A slot that lets its delivery go, on the channel that held it.
LEMMA LetGoConnected ==
  ASSUME TypeOK, Connected, NEW s \in Active, Settle(s), alive' = alive
  PROVE  Connected'
<1>1. up' = TRUE /\ cb'[s].pc = "idle" /\ \A t \in Slots : t # s => cb'[t] = cb[t]
  BY DEF Connected, Settle, TypeOK, Active, NoCallback
<1> QED BY <1>1 DEF Connected, Active

LEMMA GoOnConnected ==
  ASSUME TypeOK, Connected, NEW s \in Active, NEW p, cb' = [cb EXCEPT ![s].pc = p], UNCHANGED <<alive, up>>
  PROVE  /\ Connected'
         /\ cb'[s].pc = p /\ cb'[s].copy = cb[s].copy /\ \A t \in Slots : t # s => cb'[t] = cb[t]
<1>1. cb'[s] = [cb[s] EXCEPT !.pc = p] /\ \A t \in Slots : t # s => cb'[t] = cb[t]
  BY ActiveCallback DEF TypeOK
<1>2. cb'[s].pc = p /\ cb'[s].held = cb[s].held /\ cb'[s].copy = cb[s].copy
  BY <1>1, ActiveCallback DEF Callback
<1> QED BY <1>1, <1>2 DEF Connected, Active

LEMMA SucceedFaultless ==
  ASSUME QueueInv, Faultless, NEW s \in Slots, Succeed(s)
  PROVE  Faultless'
<1> USE DEF Faultless, QueueInv
<1>1. /\ s \in Active /\ cb[s].pc = "run" /\ Settle(s) /\ done' = done \cup {cb[s].copy[1]}
      /\ ready' = ready /\ dlq' = dlq /\ alive' = alive
  BY DEF Succeed, broker, Connected
<1>2. cb'[s].pc = "idle" /\ \A t \in Slots : t # s => cb'[t] = cb[t]
  BY <1>1 DEF Settle, TypeOK, NoCallback
<1> DEFINE m == cb[s].copy[1]
<1>3. Living(m) \subseteq {<<"held", s>>}
  BY <1>1, OnlyHeld
<1>4. Moves(m, {<<"held", s>>}, {})
  <2>1. \A c \in Copies : <<"ready", c>> # <<"held", s>> /\ <<"dlq", c>> # <<"held", s>>
    OBVIOUS
  <2>2. \A t \in Slots : t # s => <<"held", t>> # <<"held", s>>
    OBVIOUS
  <2>3. MovesReady(m, {<<"held", s>>}, {})
    BY <1>1, <1>2, <2>1, <2>2 DEF MovesReady
  <2>4. MovesDlq(m, {<<"held", s>>}, {})
    BY <1>1, <1>2, <2>1, <2>2 DEF MovesDlq
  <2>5. MovesHeld(m, {<<"held", s>>}, {})
    BY <1>1, <1>2, <2>1, <2>2 DEF MovesHeld
  <2> QED BY <2>3, <2>4, <2>5 DEF Moves
<1>5. OneLiving' /\ NoneAfterSuccess'
  BY <1>1, <1>3, <1>4, OneMoves
<1>6. Connected' /\ OneWaits'
  BY <1>1, LetGoConnected DEF OneWaits
<1> QED BY <1>5, <1>6

LEMMA RejectFaultless ==
  ASSUME QueueInv, Faultless, NEW s \in Slots, Reject(s)
  PROVE  Faultless'
<1> USE DEF Faultless, QueueInv
<1>1. /\ s \in Active /\ cb[s].pc = "run" /\ cb' = [cb EXCEPT ![s].pc = "retry"]
      /\ ready' = ready /\ dlq' = dlq /\ done' = done /\ UNCHANGED <<alive, up>>
  BY DEF Reject, broker, process
<1>2. /\ Connected'
      /\ cb'[s].pc = "retry" /\ cb'[s].copy = cb[s].copy /\ \A t \in Slots : t # s => cb'[t] = cb[t]
  BY <1>1, GoOnConnected
<1>3. Moves(0, {}, {})
  <2>1. MovesReady(0, {}, {})
    BY <1>1, <1>2 DEF MovesReady
  <2>2. MovesDlq(0, {}, {})
    BY <1>1, <1>2 DEF MovesDlq
  <2>3. MovesHeld(0, {}, {})
    BY <1>1, <1>2 DEF MovesHeld
  <2> QED BY <2>1, <2>2, <2>3 DEF Moves
<1> QED BY <1>1, <1>2, <1>3, NoneMoves DEF OneWaits

LEMMA RepublishFaultless ==
  ASSUME QueueInv, Faultless, NEW s \in Slots, Republish(s)
  PROVE  Faultless'
<1> USE DEF Faultless, QueueInv
<1>0. PICK c \in Copies : c = cb[s].copy
  BY ActiveCallback DEF Republish
<1> DEFINE m == c[1]
           old == <<"held", s>>
           new == <<"ready", NextCopy(c)>>
<1>1. /\ s \in Active /\ cb[s].pc = "retry" /\ cb' = [cb EXCEPT ![s].pc = "ack"] /\ c[2] < MaxRetries
      /\ ready' = [ready EXCEPT ![NextCopy(c)] = @ + 1] /\ dlq' = dlq /\ done' = done
      /\ UNCHANGED <<alive, up>>
  BY <1>0 DEF Republish, NextCopy, process
<1>2. NextCopy(c) \in Copies /\ NextCopy(c)[1] = m /\ m \in Msgs
  BY <1>1, CopyParts DEF Copies, NextCopy
<1>3. /\ ready'[NextCopy(c)] = ready[NextCopy(c)] + 1
      /\ \A d \in Copies : d # NextCopy(c) => ready'[d] = ready[d]
  BY <1>1, <1>2 DEF TypeOK
<1>4. /\ Connected'
      /\ cb'[s].pc = "ack" /\ \A t \in Slots : t # s => cb'[t] = cb[t]
  BY <1>1, GoOnConnected
<1>5. /\ old \in Living(m) /\ Living(m) \subseteq {old}
      /\ ready[NextCopy(c)] = 0 /\ dlq[NextCopy(c)] = 0
  BY <1>0, <1>1, <1>2, OnlyHeld
<1>6. Moves(m, {old}, {new})
  <2>1. MovesReady(m, {old}, {new})
    BY <1>1, <1>2, <1>3, <1>4 DEF MovesReady
  <2>2. MovesDlq(m, {old}, {new})
    BY <1>1, <1>2, <1>3, <1>4 DEF MovesDlq
  <2>3. MovesHeld(m, {old}, {new})
    BY <1>1, <1>2, <1>3, <1>4 DEF MovesHeld
  <2> QED BY <2>1, <2>2, <2>3 DEF Moves
<1>7. m \notin done'
  BY <1>1, <1>5 DEF NoneAfterSuccess
<1>8. OneLiving' /\ NoneAfterSuccess'
  BY <1>1, <1>5, <1>6, <1>7, OneMoves
<1>9. OneWaits'
  BY <1>1, <1>3, <1>5 DEF OneWaits
<1> QED BY <1>4, <1>8, <1>9

LEMMA AckFaultless ==
  ASSUME QueueInv, Faultless, NEW s \in Slots, AckRetried(s)
  PROVE  Faultless'
<1> USE DEF Faultless, QueueInv
<1>1. /\ s \in Active /\ cb[s].pc = "ack" /\ Settle(s) /\ done' = done
      /\ ready' = ready /\ dlq' = dlq /\ alive' = alive
  BY DEF AckRetried, broker, Connected
<1>2. cb'[s].pc = "idle" /\ \A t \in Slots : t # s => cb'[t] = cb[t]
  BY <1>1 DEF Settle, TypeOK, NoCallback
<1>3. Moves(0, {}, {})
  <2>1. MovesReady(0, {}, {})
    BY <1>1, <1>2 DEF MovesReady
  <2>2. MovesDlq(0, {}, {})
    BY <1>1, <1>2 DEF MovesDlq
  <2>3. MovesHeld(0, {}, {})
    BY <1>1, <1>2 DEF MovesHeld
  <2> QED BY <2>1, <2>2, <2>3 DEF Moves
<1> QED BY <1>1, <1>3, NoneMoves, LetGoConnected DEF OneWaits

LEMMA DeadLetterFaultless ==
  ASSUME QueueInv, Faultless, NEW s \in Slots, DeadLetter(s)
  PROVE  Faultless'
<1> USE DEF Faultless, QueueInv
<1>0. PICK c \in Copies : c = cb[s].copy
  BY ActiveCallback DEF DeadLetter
<1> DEFINE m == c[1]
           old == <<"held", s>>
           new == <<"dlq", c>>
<1>1. /\ s \in Active /\ cb[s].pc = "retry" /\ Settle(s) /\ ready' = ready
      /\ dlq' = [dlq EXCEPT ![c] = @ + 1] /\ done' = done /\ alive' = alive
  BY <1>0 DEF DeadLetter, Connected
<1>2. cb'[s].pc = "idle" /\ \A t \in Slots : t # s => cb'[t] = cb[t]
  BY <1>1 DEF Settle, TypeOK, NoCallback
<1>3. dlq'[c] = dlq[c] + 1 /\ \A d \in Copies : d # c => dlq'[d] = dlq[d]
  BY <1>1 DEF TypeOK
<1>4. m \in Msgs /\ old \in Living(m) /\ Living(m) \subseteq {old} /\ ready[c] = 0 /\ dlq[c] = 0
  BY <1>0, <1>1, OnlyHeld
<1>5. Moves(m, {old}, {new})
  <2>1. MovesReady(m, {old}, {new})
    BY <1>1, <1>2, <1>3 DEF MovesReady
  <2>2. MovesDlq(m, {old}, {new})
    BY <1>1, <1>2, <1>3 DEF MovesDlq
  <2>3. MovesHeld(m, {old}, {new})
    BY <1>1, <1>2, <1>3 DEF MovesHeld
  <2> QED BY <2>1, <2>2, <2>3 DEF Moves
<1>6. m \notin done'
  BY <1>1, <1>4 DEF NoneAfterSuccess
<1>7. OneLiving' /\ NoneAfterSuccess'
  BY <1>1, <1>4, <1>5, <1>6, OneMoves
<1>8. OneWaits'
  BY <1>1, <1>3, <1>4 DEF OneWaits
<1> QED BY <1>1, <1>7, <1>8, LetGoConnected

LEMMA ExpireFaultless ==
  ASSUME QueueInv, Faultless, NEW c \in Copies, Expire(c)
  PROVE  Faultless'
<1> USE DEF Faultless, QueueInv
<1> DEFINE m == c[1]
           old == <<"dlq", c>>
           new == <<"ready", c>>
<1>1. /\ dlq[c] > 0 /\ dlq'[c] = dlq[c] - 1 /\ \A d \in Copies : d # c => dlq'[d] = dlq[d]
      /\ ready'[c] = ready[c] + 1 /\ \A d \in Copies : d # c => ready'[d] = ready[d]
      /\ cb' = cb /\ done' = done /\ UNCHANGED process
  BY DEF Expire, TypeOK
<1>2. ready[c] \in Nat /\ dlq[c] \in Nat /\ ready[c] + dlq[c] <= 1 /\ m \in Msgs
  BY CopyParts DEF TypeOK, OneWaits
<1>3. dlq'[c] = 0
  BY <1>1, <1>2
<1>4. old \in Living(m)
  BY <1>1, LivingMeans
<1>5. Moves(m, {old}, {new})
  <2>1. MovesReady(m, {old}, {new})
    BY <1>1, <1>3 DEF MovesReady
  <2>2. MovesDlq(m, {old}, {new})
    BY <1>1, <1>3 DEF MovesDlq
  <2>3. MovesHeld(m, {old}, {new})
    BY <1>1, <1>3 DEF MovesHeld
  <2> QED BY <2>1, <2>2, <2>3 DEF Moves
<1>6. OneLiving' /\ NoneAfterSuccess'
  BY <1>1, <1>2, <1>4, <1>5, OneMoves DEF OneLiving, NoneAfterSuccess
<1>7. OneWaits'
  BY <1>1, <1>2, <1>3 DEF OneWaits
<1>8. Connected'
  BY <1>1 DEF Connected, Active, process
<1> QED BY <1>6, <1>7, <1>8
-----------------------------------------------------------------------------
LEMMA FaultlessInit == Init => FaultlessInv
<1> SUFFICES ASSUME Init PROVE Faultless
  BY InitInv DEF FaultlessInv, Faultless
<1>1. \A c \in Copies : ready[c] = 0 /\ dlq[c] = 0
  BY DEF Init
<1>2. \A s \in Slots : cb[s].pc = "idle"
  BY DEF Init, NoCallback
<1>3. \A m : Living(m) = {}
  <2>1. ASSUME NEW m, NEW x \in Living(m) PROVE FALSE
    BY <1>1, <1>2, <2>1, LivingMeans
  <2> QED BY <2>1
<1> QED BY <1>1, <1>2, <1>3
        DEF Init, Faultless, Connected, Active, OneLiving, NoneAfterSuccess, OneWaits

LEMMA FaultlessStep == FaultlessInv /\ [Next]_vars => FaultlessInv'
<1> SUFFICES ASSUME FaultlessInv, [Next]_vars PROVE FaultlessInv'
  OBVIOUS
<1>1. QueueInv /\ QueueInv'
  BY InvStep DEF FaultlessInv
<1> SUFFICES ASSUME drops' = 0, crashes' = 0 PROVE Faultless'
  BY <1>1 DEF FaultlessInv, Faultless
<1>2. drops \in Nat /\ crashes \in Nat
  BY <1>1 DEF QueueInv, TypeOK
<1>3. ~Drop /\ ~Die
  BY <1>2 DEF Drop, Die
<1>4. drops = 0 /\ crashes = 0
  BY <1>2, <1>3
     DEF Next, Push, Deliver, Work, Succeed, Reject, Republish, AckRetried, DeadLetter,
         RejectUnhandled, Expire, AutoReconnect, PushReconnect, Reconnect, Restart, vars, counters
<1>5. Faultless
  BY <1>4 DEF FaultlessInv, Faultless
<1>6. ~Reconnect /\ ~Restart
  BY <1>5 DEF Faultless, Connected, Reconnect, Restart
<1>7. ASSUME UNCHANGED vars PROVE Faultless'
  <2>1. UNCHANGED <<ready, dlq, done, alive, up, cb>>
    BY <1>7 DEF vars, broker, process
  <2>2. Active' = Active /\ \A m : Living(m)' = Living(m)
    BY <2>1 DEF Living, Active
  <2> QED BY <1>5, <2>1, <2>2 DEF Faultless, Connected, OneLiving, NoneAfterSuccess, OneWaits
<1> QED
  BY <1>1, <1>3, <1>5, <1>6, <1>7, PushFaultless, DeliverFaultless, SucceedFaultless, RejectFaultless,
     RepublishFaultless, AckFaultless, DeadLetterFaultless, ExpireFaultless
  DEF Next, Work, RejectUnhandled, AutoReconnect, PushReconnect

\* Without drops and crashes, and for any messages, slots and retries, the
\* channel is never lost and no message has two living copies.
THEOREM FaultlessInvariance == Spec => []FaultlessInv
  BY FaultlessInit, FaultlessStep, PTL DEF Spec

\* The retries and dead letters of rabbitmq.singleton.ts never multiply a message
\* while the connection and the process last.
THEOREM RetriesDoNotMultiply == Spec => []OneCopyWithoutFaults
<1>1. FaultlessInv => OneCopyWithoutFaults
  <2> SUFFICES ASSUME FaultlessInv, drops = 0, crashes = 0, NEW m \in Msgs
               PROVE  /\ Cardinality(Living(m)) <= (IF m \in done THEN 0 ELSE 1)
                      /\ \A c \in CopiesOf(m) : ready[c] + dlq[c] <= 1
    BY DEF OneCopyWithoutFaults
  <2>1. OneLiving /\ NoneAfterSuccess /\ OneWaits
    BY DEF FaultlessInv, Faultless
  <2>2. \A c \in CopiesOf(m) : ready[c] + dlq[c] <= 1
    BY <2>1 DEF OneWaits, CopiesOf
  <2>3. CASE Living(m) = {}
    <3>1. Cardinality(Living(m)) = 0
      BY <2>3, FS_EmptySet
    <3> QED BY <2>2, <3>1
  <2>4. CASE Living(m) # {}
    <3>1. PICK x : Living(m) = {x}
      BY <2>1, <2>4 DEF OneLiving
    <3>2. Cardinality(Living(m)) = 1
      BY <3>1, FS_Singleton
    <3>3. m \notin done
      BY <2>1, <2>4 DEF NoneAfterSuccess
    <3> QED BY <2>2, <3>2, <3>3
  <2> QED BY <2>3, <2>4
<1> QED BY <1>1, FaultlessInvariance, PTL
=============================================================================
