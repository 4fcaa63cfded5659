------------------------- MODULE OrderNotification -------------------------
(***************************************************************************)
(* What the outbox, RabbitMQ and the consumer promise together: an order   *)
(* that was committed, and no other, has its buyer told, or ends up parked *)
(* in the dead-letter queue where an operator finds it.  Both may happen,  *)
(* and the buyer may be told more than once.                               *)
(***************************************************************************)

CONSTANT Orders

VARIABLES
  committed,   \* the orders whose transaction committed
  told,        \* the orders whose buyer was notified
  parked       \* the orders with a message in the dead-letter queue

vars == <<committed, told, parked>>

Init == committed = {} /\ told = {} /\ parked = {}

Commit(o) == /\ o \notin committed
             /\ committed' = committed \cup {o}
             /\ UNCHANGED <<told, parked>>

Tell(o) == /\ o \in committed \ told
           /\ told' = told \cup {o}
           /\ UNCHANGED <<committed, parked>>

Park(o) == /\ o \in committed \ parked
           /\ parked' = parked \cup {o}
           /\ UNCHANGED <<committed, told>>

Next == \E o \in Orders : Commit(o) \/ Tell(o) \/ Park(o)

Due(o) == o \in committed \ (told \cup parked)

(* No buyer is told of, and no message parked for, an order that was not   *)
(* committed; nothing of it is taken back.                                 *)
Safety == Init /\ [][Next]_vars

(* No committed order is left to itself.                                   *)
Spec == /\ Safety
        /\ \A o \in Orders : WF_vars(Due(o) /\ (Tell(o) \/ Park(o)))

=============================================================================
