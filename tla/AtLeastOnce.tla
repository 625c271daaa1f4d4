---------------------------- MODULE AtLeastOnce ------------------------------
(***************************************************************************)
(* What the application may count on from a queue: a message that was      *)
(* accepted is given to callbacks until one succeeds, possibly to several  *)
(* at once and possibly again afterwards, in any order.                    *)
(*                                                                         *)
(* RabbitQueue implements it.                                              *)
(***************************************************************************)
CONSTANTS
  Msgs,
  Slots    \* places for callbacks that run at the same time

VARIABLES
  pending,  \* messages the queue still has to give to a callback
  running,  \* callbacks under way: <<slot, message>>
  done      \* messages a callback has succeeded for

vars == <<pending, running, done>>
-----------------------------------------------------------------------------
Init == pending = {} /\ running = {} /\ done = {}

Accept(m) ==
  /\ m \notin pending \cup done
  /\ pending' = pending \cup {m}
  /\ UNCHANGED <<running, done>>

Start(s, m) ==
  /\ m \in pending
  /\ \A n \in Msgs : <<s, n>> \notin running
  /\ running' = running \cup {<<s, m>>}
  /\ UNCHANGED <<pending, done>>

\* The message may be forgotten now, or come once more.
Succeed(s, m) ==
  /\ <<s, m>> \in running
  /\ running' = running \ {<<s, m>>}
  /\ done' = done \cup {m}
  /\ pending' \in {pending, pending \ {m}}

\* A callback that fails, or is not heard of again.
Abort(s, m) ==
  /\ <<s, m>> \in running
  /\ running' = running \ {<<s, m>>}
  /\ UNCHANGED <<pending, done>>

\* The process dies with its callbacks.
Die == running' = {} /\ UNCHANGED <<pending, done>>

Forget(m) ==
  /\ m \in pending \cap done
  /\ pending' = pending \ {m}
  /\ UNCHANGED <<running, done>>

Repeat(m) ==
  /\ m \in done
  /\ pending' = pending \cup {m}
  /\ UNCHANGED <<running, done>>

Next ==
  \/ \E m \in Msgs : Accept(m) \/ Forget(m) \/ Repeat(m)
  \/ \E s \in Slots, m \in Msgs : Start(s, m) \/ Succeed(s, m) \/ Abort(s, m)
  \/ Die

Spec == Init /\ [][Next]_vars
=============================================================================
