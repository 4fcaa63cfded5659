------------------------------ MODULE Delivery ------------------------------
(***************************************************************************)
(* The way of an order from its commit to its buyer: the outbox relay and  *)
(* the notification consumer of every API process, joined by the queue     *)
(* order.notification.  What the relay publishes is what arrives there,    *)
(* and the death of a process takes its relay and its consumer with it.    *)
(***************************************************************************)
EXTENDS Integers, FiniteSets

CONSTANTS
  Orders,        \* each with one event, whose id stands for the order's
  Instances,     \* the API processes
  RelaySlots,    \* room of an instance for relay cycles
  Slots,         \* and for message handlers
  Messages,      \* bounds of the parts, see there
  BatchSize,
  Deliveries,
  FaultKinds,
  MaxFaults,
  MaxRelayFaults,
  MaxStalls,
  MaxTotal       \* bound: faults and stalls before nothing more goes wrong

VARIABLES
  (* the relay *)
  status, overdue, recoveries, cycle, batch, activeExecutions, relayFaults, stalled, stalls,
  (* between them: the messages published for an order *)
  published,
  (* the consumer *)
  at, orderOf, retryCount, procRetryCount, ttl, pc, holds, job, target, live, lock, processed,
  notified, acquisitions, disturbed, slow, faults

Relay == INSTANCE OutboxPublisher
  WITH Events <- Orders, Slots <- RelaySlots, MaxFaults <- MaxRelayFaults,
       pc <- cycle, copies <- published, faults <- relayFaults

Consumer == INSTANCE NotificationConsumer

(* What the parts assume, of the constants they are given here.            *)
ASSUME DeliveryAssumption == Relay!OutboxAssumption /\ Consumer!ConsumerAssumption

relay == <<status, overdue, recoveries, cycle, batch, activeExecutions, relayFaults, stalled,
           stalls>>
consumer == <<at, orderOf, retryCount, procRetryCount, ttl, pc, holds, job, target, live, lock,
              processed, notified, acquisitions, disturbed, slow, faults>>
vars == <<relay, published, consumer>>

Init == Relay!Init /\ Consumer!Init

(* A step of the relay, and what it publishes enters the queue.            *)
HandOver == IF published' = published
              THEN UNCHANGED consumer
              ELSE \E o \in Orders : published'[o] # published[o] /\ Consumer!Arrive(o)

RelayStep(c) == Relay!Step(c) /\ HandOver
RelayFault(c) == (Relay!CallFails(c) \/ Relay!Stall(c)) /\ HandOver
Commit(o) == Relay!Insert(o) /\ UNCHANGED consumer
Expire(o) == Relay!Expire(o) /\ UNCHANGED consumer
Recover == Relay!RecoverStuckProcessing /\ UNCHANGED consumer

HandlerStep(h) == Consumer!Step(h) /\ UNCHANGED relay
HandlerFault(h) == Consumer!Failure(h) /\ UNCHANGED relay
Deliver == \E h \in Consumer!Handlers, m \in Messages :
             Consumer!Deliver(h, m) /\ UNCHANGED relay
ChannelCloses(i) == Consumer!ChannelCloses(i) /\ UNCHANGED relay
RedisForgets == Consumer!RedisForgets /\ UNCHANGED relay
SlowDown == Consumer!SlowDown /\ UNCHANGED relay
Tick == Consumer!Tick /\ UNCHANGED relay

(* An API process dies and is restarted.                                   *)
RelayIdle(i) == activeExecutions[i] = 0
ConsumerIdle(i) == \A h \in Consumer!HandlersOn(i) : pc[h] = "idle"

Crash(i) == /\ \/ Relay!Crash(i)
               \/ RelayIdle(i) /\ UNCHANGED <<relay, published>>
            /\ \/ Consumer!Crash(i)
               \/ ConsumerIdle(i) /\ UNCHANGED consumer
            /\ ~(RelayIdle(i) /\ ConsumerIdle(i))

(* What went wrong so far.  A death of both parts counts in both.          *)
Mishaps == faults + relayFaults + stalls

Steps == \/ \E o \in Orders : Commit(o) \/ Expire(o)
         \/ \E c \in Relay!Cycles : RelayStep(c) \/ RelayFault(c)
         \/ Recover
         \/ \E h \in Consumer!Handlers : HandlerStep(h) \/ HandlerFault(h)
         \/ Deliver
         \/ \E i \in Instances : ChannelCloses(i) \/ Crash(i)
         \/ RedisForgets
         \/ SlowDown
         \/ Tick

(* Once the bound is reached nothing more goes wrong.                      *)
Next == Steps /\ (Mishaps' = Mishaps \/ Mishaps < MaxTotal)

Spec == Init /\ [][Next]_vars

(* The fairness of both parts; for the consumer, that some instance is     *)
(* connected and was not cancelled by the broker.                          *)
FairSpec ==
  /\ Spec
  /\ \A c \in Relay!Cycles : WF_vars(c \notin stalled /\ RelayStep(c))
  /\ \A o \in Orders : WF_vars(Expire(o))
  /\ WF_vars(Recover)
  /\ \A h \in Consumer!Handlers : WF_vars(HandlerStep(h))
  /\ WF_vars(Deliver)
  /\ WF_vars(Tick)

-----------------------------------------------------------------------------
(* Without a fault the whole chain notifies a buyer at most once, the       *)
(* overlapping relays and the handlers of all instances included.          *)
NoRepetitionWithoutFaults ==
  Mishaps = 0 => \A o \in Orders : notified[o] <= 1

(* A single mishap costs a buyer at most one repetition: the crash of a    *)
(* relay or of a consumer, a failing or hanging call, a loss of Redis      *)
(* keys.  Several can cost more than one each: a crash sends every message *)
(* back that its handlers had not acked yet.                               *)
RepetitionsNeedFaults ==
  /\ NoRepetitionWithoutFaults
  /\ Mishaps = 1 => \A o \in Orders : notified[o] <= 2

(* The refinement mapping.                                                 *)
Promise == INSTANCE OrderNotification
  WITH committed <- {o \in Orders : status[o] # "absent"},
       told <- {o \in Orders : notified[o] > 0},
       parked <- {o \in Orders : \E m \in Messages : orderOf[m] = o /\ at[m] = "dlq"}

(* The parts, composed, keep the promise.                                  *)
ImplementsOrderNotification == Promise!Spec

=============================================================================
