---------------------------- MODULE DeliveryProofs ----------------------------
(***************************************************************************)
(* Proofs about Delivery: relay and consumer, composed, do only what each  *)
(* does alone, so that the theorems about the parts carry over; together   *)
(* they implement the safety half of OrderNotification; without a fault    *)
(* they notify each buyer at most once, and with one at most twice.        *)
(*                                                                         *)
(* The invariant joins those of the parts with Known, which follows an     *)
(* order from its commit through batches, queues and handlers, and with    *)
(* Smooth, which says how little there is of an order while nothing has    *)
(* gone wrong: one message, and no handler before the notification once it *)
(* is sent.  Budget, at the end, counts what may still notify an order.    *)
(***************************************************************************)
EXTENDS Delivery, FiniteSetTheorems, TLAPS

(* The parts, with what is proved of them.                                 *)
RelayFacts == INSTANCE OutboxPublisherProofs
  WITH Events <- Orders, Slots <- RelaySlots, MaxFaults <- MaxRelayFaults,
       pc <- cycle, copies <- published, faults <- relayFaults

ConsumerFacts == INSTANCE NotificationConsumerProofs

Committed == {o \in Orders : status[o] # "absent"}
Told == {o \in Orders : notified[o] > 0}
Parked == {o \in Orders : \E m \in Messages : orderOf[m] = o /\ at[m] = "dlq"}

(* Whatever is on its way is about a committed order.                      *)
Known ==
  /\ \A c \in Relay!Cycles : batch[c] \subseteq Committed
  /\ \A m \in Messages : at[m] # "free" => orderOf[m] \in Committed
  /\ \A h \in Consumer!Handlers : pc[h] # "idle" => job[h] \in Committed

(* Nothing hangs, and a claimed row has the cycle that claimed it.         *)
SmoothRelay ==
  /\ stalled = {}
  /\ overdue = {}
  /\ \A o \in Orders : recoveries[o] = 0
  /\ \A o \in Orders : status[o] = "PROCESSING" => Relay!WorkingOn(o) # {}

(* There is one message of an order at most, and one notification; no      *)
(* handler that could notify again, or lock that could be in the way.      *)
SmoothOrder(o) ==
  /\ \A m, n \in Messages :
       at[m] # "free" /\ at[n] # "free" /\ orderOf[m] = o /\ orderOf[n] = o => m = n
  /\ \A m \in Messages : at[m] # "free" /\ orderOf[m] = o =>
       /\ at[m] \in {"main", "unacked"}
       /\ published[o] > 0
       /\ at[m] = "main" => notified[o] = 0
  /\ \A h \in Consumer!Handlers :
       job[h] = o /\ pc[h] \in {"get", "lock", "notify"} => notified[o] = 0
  /\ notified[o] <= 1
  /\ notified[o] > 0 => published[o] > 0
  /\ lock[o] > 0 => \E h \in Consumer!Handlers : /\ job[h] = o
                                                 /\ pc[h] \in {"notify", "mark", "release"}

SmoothConsumer ==
  /\ ~disturbed
  /\ ~slow
  /\ \A h \in Consumer!Handlers :
       pc[h] \in {"idle", "get", "lock", "notify", "mark", "release", "ack"}
  /\ \A o \in Orders : SmoothOrder(o)

Smooth == Mishaps = 0 => SmoothRelay /\ SmoothConsumer

Inv == RelayFacts!Inv /\ ConsumerFacts!Inv /\ Known /\ Smooth


-----------------------------------------------------------------------------
(* The parts of Delivery are the modules the facts are about.              *)

(* What they assume, they are given.                                       *)
LEMMA PartsAssumptions == RelayFacts!OutboxAssumption /\ ConsumerFacts!ConsumerAssumption
BY DeliveryAssumption
   DEF Relay!OutboxAssumption, RelayFacts!OutboxAssumption,
       Relay!IsFiniteSet, RelayFacts!IsFiniteSet,
       Consumer!ConsumerAssumption, ConsumerFacts!ConsumerAssumption,
       Consumer!AllFaults, ConsumerFacts!AllFaults

(* Both instances of OutboxPublisher are the same formulas: with every     *)
(* definition expanded nothing remains to prove.                           *)
LEMMA SameRelay ==
  /\ Relay!Init => RelayFacts!Init
  /\ Relay!Next => RelayFacts!Next
  /\ UNCHANGED Relay!vars => UNCHANGED RelayFacts!vars
BY DEF Relay!vars, RelayFacts!vars, Relay!table, RelayFacts!table, Relay!cycle,
       RelayFacts!cycle, Relay!Cycles, RelayFacts!Cycles, Relay!Host,
       RelayFacts!Host, Relay!Current, RelayFacts!Current, Relay!Pending,
       RelayFacts!Pending, Relay!Lowest, RelayFacts!Lowest, Relay!Init,
       RelayFacts!Init, Relay!Goto, RelayFacts!Goto, Relay!Calling,
       RelayFacts!Calling, Relay!Answered, RelayFacts!Answered, Relay!Claimable,
       RelayFacts!Claimable, Relay!ClaimRow, RelayFacts!ClaimRow, Relay!MarkRow,
       RelayFacts!MarkRow, Relay!Insert, RelayFacts!Insert, Relay!Start,
       RelayFacts!Start, Relay!FindPending, RelayFacts!FindPending, Relay!Claim,
       RelayFacts!Claim, Relay!Publish, RelayFacts!Publish, Relay!MarkAsSent,
       RelayFacts!MarkAsSent, Relay!Leave, RelayFacts!Leave, Relay!EndCycle,
       RelayFacts!EndCycle, Relay!Failing, RelayFacts!Failing, Relay!CallFails,
       RelayFacts!CallFails, Relay!Crash, RelayFacts!Crash, Relay!Stall,
       RelayFacts!Stall, Relay!WorkingOn, RelayFacts!WorkingOn, Relay!Expire,
       RelayFacts!Expire, Relay!RecoverStuckProcessing,
       RelayFacts!RecoverStuckProcessing, Relay!Step, RelayFacts!Step,
       Relay!Next, RelayFacts!Next, Relay!Cardinality, RelayFacts!Cardinality,
       Relay!Min, RelayFacts!Min

(* Both instances of NotificationConsumer, likewise.                       *)
LEMMA SameConsumer ==
  /\ Consumer!Init => ConsumerFacts!Init
  /\ Consumer!Next => ConsumerFacts!Next
  /\ UNCHANGED Consumer!vars => UNCHANGED ConsumerFacts!vars
BY DEF Consumer!vars, ConsumerFacts!vars, Consumer!message,
       ConsumerFacts!message, Consumer!handler, ConsumerFacts!handler,
       Consumer!redis, ConsumerFacts!redis, Consumer!Handlers,
       ConsumerFacts!Handlers, Consumer!Host, ConsumerFacts!Host,
       Consumer!RetryTTL, ConsumerFacts!RetryTTL, Consumer!LockTTL,
       ConsumerFacts!LockTTL, Consumer!ProcessingRetryTTL,
       ConsumerFacts!ProcessingRetryTTL, Consumer!MaxRedisRetries,
       ConsumerFacts!MaxRedisRetries, Consumer!MaxProcessingRetries,
       ConsumerFacts!MaxProcessingRetries, Consumer!MaxReprocessing,
       ConsumerFacts!MaxReprocessing, Consumer!Delay, ConsumerFacts!Delay,
       Consumer!Init, ConsumerFacts!Init, Consumer!Fault, ConsumerFacts!Fault,
       Consumer!Goto, ConsumerFacts!Goto, Consumer!Return, ConsumerFacts!Return,
       Consumer!Enqueue, ConsumerFacts!Enqueue, Consumer!Ack, ConsumerFacts!Ack,
       Consumer!Arrive, ConsumerFacts!Arrive, Consumer!Deliver,
       ConsumerFacts!Deliver, Consumer!SendToQueue, ConsumerFacts!SendToQueue,
       Consumer!Get, ConsumerFacts!Get, Consumer!RedisFailed,
       ConsumerFacts!RedisFailed, Consumer!GetFails, ConsumerFacts!GetFails,
       Consumer!TakeLock, ConsumerFacts!TakeLock, Consumer!Acquire,
       ConsumerFacts!Acquire, Consumer!AcquireFails, ConsumerFacts!AcquireFails,
       Consumer!Notify, ConsumerFacts!Notify, Consumer!NotifyFails,
       ConsumerFacts!NotifyFails, Consumer!MarkProcessed,
       ConsumerFacts!MarkProcessed, Consumer!DeleteLock,
       ConsumerFacts!DeleteLock, Consumer!Release, ConsumerFacts!Release,
       Consumer!AckProcessed, ConsumerFacts!AckProcessed, Consumer!Catch,
       ConsumerFacts!Catch, Consumer!PublishCopy, ConsumerFacts!PublishCopy,
       Consumer!Publish, ConsumerFacts!Publish, Consumer!PublishFails,
       ConsumerFacts!PublishFails, Consumer!Nack, ConsumerFacts!Nack,
       Consumer!Settle, ConsumerFacts!Settle, Consumer!PublishAbandoned,
       ConsumerFacts!PublishAbandoned, Consumer!Requeue, ConsumerFacts!Requeue,
       Consumer!HandlersOn, ConsumerFacts!HandlersOn, Consumer!ChannelCloses,
       ConsumerFacts!ChannelCloses, Consumer!Crash, ConsumerFacts!Crash,
       Consumer!RedisForgets, ConsumerFacts!RedisForgets, Consumer!SlowDown,
       ConsumerFacts!SlowDown, Consumer!Delayed, ConsumerFacts!Delayed,
       Consumer!Tick, ConsumerFacts!Tick, Consumer!Step, ConsumerFacts!Step,
       Consumer!Failure, ConsumerFacts!Failure, Consumer!Quiet,
       ConsumerFacts!Quiet, Consumer!Next, ConsumerFacts!Next

(* A step of the composition is a step, or none, of each part.             *)
LEMMA PartsStep ==
  [Next]_vars => [Relay!Next]_(Relay!vars) /\ [Consumer!Next]_(Consumer!vars)
<1> SUFFICES ASSUME [Next]_vars
             PROVE  [Relay!Next]_(Relay!vars) /\ [Consumer!Next]_(Consumer!vars)
  OBVIOUS
<1>1. UNCHANGED <<relay, published>> => UNCHANGED Relay!vars
  BY DEF relay, Relay!vars, Relay!table, Relay!cycle
<1>2. UNCHANGED <<consumer, published>> => UNCHANGED Consumer!vars
  BY DEF consumer, Consumer!vars, Consumer!message, Consumer!handler, Consumer!redis
<1>3. HandOver => [Consumer!Next]_(Consumer!vars)
  BY <1>2 DEF HandOver, Consumer!Next
<1>4. ASSUME NEW o \in Orders, Commit(o) \/ Expire(o)
      PROVE  Relay!Next /\ UNCHANGED Consumer!vars
  BY <1>2, <1>4 DEF Commit, Expire, Relay!Next, Relay!Insert, Relay!Expire
<1>5. ASSUME NEW c \in Relay!Cycles, RelayStep(c) \/ RelayFault(c)
      PROVE  Relay!Next /\ HandOver
  BY <1>5 DEF RelayStep, RelayFault, Relay!Next
<1>6. CASE Recover
  BY <1>2, <1>6 DEF Recover, Relay!Next, Relay!RecoverStuckProcessing
<1>7. ASSUME NEW h \in Consumer!Handlers, HandlerStep(h) \/ HandlerFault(h)
      PROVE  Consumer!Next /\ UNCHANGED <<relay, published>>
  <2>1. UNCHANGED published
    BY <1>7
       DEF HandlerStep, HandlerFault, Consumer!Step, Consumer!Failure, Consumer!Get,
           Consumer!Acquire, Consumer!Notify, Consumer!MarkProcessed, Consumer!Release,
           Consumer!AckProcessed, Consumer!Catch, Consumer!Publish, Consumer!Nack,
           Consumer!Settle, Consumer!PublishAbandoned, Consumer!GetFails,
           Consumer!AcquireFails, Consumer!NotifyFails, Consumer!PublishFails
  <2> QED
    BY <1>7, <2>1 DEF HandlerStep, HandlerFault, Consumer!Next
<1>8. CASE Deliver
  BY <1>1, <1>8 DEF Deliver, Consumer!Deliver, Consumer!Next
<1>9. ASSUME NEW i \in Instances, ChannelCloses(i)
      PROVE  Consumer!Next /\ UNCHANGED <<relay, published>>
  BY <1>9 DEF ChannelCloses, Consumer!ChannelCloses, Consumer!Next
<1>10. ASSUME NEW i \in Instances, Crash(i)
       PROVE  [Relay!Next]_(Relay!vars) /\ [Consumer!Next]_(Consumer!vars)
  <2>1. UNCHANGED published
    BY <1>10 DEF Crash, Relay!Crash
  <2> QED
    BY <1>1, <1>2, <1>10, <2>1 DEF Crash, Relay!Next, Consumer!Next
<1>11. CASE RedisForgets \/ SlowDown \/ Tick
  BY <1>1, <1>11
     DEF RedisForgets, SlowDown, Tick, Consumer!RedisForgets, Consumer!SlowDown,
         Consumer!Tick, Consumer!Next
<1>12. CASE UNCHANGED vars
  BY <1>1, <1>2, <1>12 DEF vars
<1> QED
  BY <1>1, <1>3, <1>4, <1>5, <1>6, <1>7, <1>8, <1>9, <1>10, <1>11, <1>12 DEF Next, Steps

(* The composition constrains its parts to nothing new: what is proved of  *)
(* them alone holds of them here.                                          *)
THEOREM PartsBehave == Spec => RelayFacts!Spec /\ ConsumerFacts!Spec
<1>1. Init => RelayFacts!Init /\ ConsumerFacts!Init
  BY SameRelay, SameConsumer DEF Init
<1>2. [Next]_vars => /\ [RelayFacts!Next]_(RelayFacts!vars)
                     /\ [ConsumerFacts!Next]_(ConsumerFacts!vars)
  BY PartsStep, SameRelay, SameConsumer
<1> QED
  BY <1>1, <1>2, PTL DEF Spec, RelayFacts!Spec, ConsumerFacts!Spec

(* The invariants of the parts hold of the composition.                    *)
THEOREM PartsInvariance == Spec => [](RelayFacts!Inv /\ ConsumerFacts!Inv)
BY PartsBehave, PartsAssumptions, RelayFacts!Invariance, ConsumerFacts!Invariance, PTL


-----------------------------------------------------------------------------
(* What the invariants of the parts say, in the terms used below.          *)
RelayHolds ==
  /\ status \in [Orders -> {"absent", "PENDING", "PROCESSING", "SENT"}]
  /\ cycle \in [Relay!Cycles -> {"idle", "find", "claim", "publish", "mark"}]
  /\ batch \in [Relay!Cycles -> SUBSET Orders]
  /\ \A c \in Relay!Cycles :
       batch[c] # {} => Relay!Current(c) \in batch[c] /\ Relay!Current(c) \in Orders
  /\ \A c \in Relay!Cycles : cycle[c] \in {"publish", "mark"} => batch[c] # {}
  /\ published \in [Orders -> Nat]
  /\ recoveries \in [Orders -> Nat]
  /\ \A o \in Orders : published[o] <= 1 + recoveries[o]
  /\ \A o \in Orders : status[o] = "SENT" => published[o] > 0
  /\ overdue \subseteq {o \in Orders : status[o] = "PROCESSING"}
  /\ relayFaults \in Nat
  /\ stalled \subseteq Relay!Cycles
  /\ stalls \in Nat

ConsumerHolds ==
  /\ at \in [Messages -> Consumer!Queues \cup {"unacked", "free"}]
  /\ orderOf \in [Messages -> Orders]
  /\ pc \in [Consumer!Handlers -> {"idle", "get", "lock", "notify", "mark", "release", "ack",
                                   "catch", "publish", "settle", "nack"}]
  /\ holds \in [Consumer!Handlers -> Messages]
  /\ job \in [Consumer!Handlers -> Orders]
  /\ target \in [Consumer!Handlers -> Consumer!Queues]
  /\ live \subseteq Consumer!Handlers
  /\ \A h \in live : pc[h] # "idle" /\ at[holds[h]] = "unacked" /\ orderOf[holds[h]] = job[h]
  /\ \A g, h \in live : holds[g] = holds[h] => g = h
  /\ ~disturbed => \A h \in Consumer!Handlers : pc[h] # "idle" => h \in live
  /\ lock \in [Orders -> Nat]
  /\ notified \in [Orders -> Nat]
  /\ \A o \in Orders : \/ published[o] = 0
                       \/ notified[o] > 0
                       \/ \E m \in Messages : orderOf[m] = o /\ at[m] # "free"
  /\ faults \in Nat

LEMMA RelayKnows == RelayFacts!Inv => RelayHolds
<1> SUFFICES ASSUME RelayFacts!Inv PROVE RelayHolds
  OBVIOUS
<1>1. RelayFacts!TypeOK /\ Relay!Cycles = RelayFacts!Cycles
  BY DEF RelayFacts!Inv, Relay!Cycles, RelayFacts!Cycles
<1>2. /\ status \in [Orders -> {"absent", "PENDING", "PROCESSING", "SENT"}]
      /\ cycle \in [Relay!Cycles -> {"idle", "find", "claim", "publish", "mark"}]
      /\ batch \in [Relay!Cycles -> SUBSET Orders]
      /\ overdue \subseteq {o \in Orders : status[o] = "PROCESSING"}
      /\ published \in [Orders -> Nat] /\ recoveries \in [Orders -> Nat]
      /\ relayFaults \in Nat /\ stalled \subseteq Relay!Cycles /\ stalls \in Nat
  BY <1>1, PartsAssumptions DEF RelayFacts!TypeOK, RelayFacts!OutboxAssumption
<1>3. \A c \in Relay!Cycles : RelayFacts!Current(c) = Relay!Current(c)
  BY DEF Relay!Current, RelayFacts!Current, Relay!Min, RelayFacts!Min
<1>4. ASSUME NEW c \in Relay!Cycles, batch[c] # {}
      PROVE  Relay!Current(c) \in batch[c] /\ Relay!Current(c) \in Orders
  BY <1>1, <1>3, <1>4, PartsAssumptions, RelayFacts!CurrentInBatch
<1>5. \A c \in Relay!Cycles : cycle[c] \in {"publish", "mark"} => batch[c] # {}
  BY <1>1 DEF RelayFacts!Inv, RelayFacts!BatchHeld
<1>6. \A o \in Orders : status[o] = "SENT" => published[o] > 0
  BY <1>2 DEF RelayFacts!Inv, RelayFacts!SentWasPublished
<1>7. ASSUME NEW o \in Orders PROVE published[o] <= 1 + recoveries[o]
  BY PartsAssumptions, RelayFacts!InvBudget DEF RelayFacts!DuplicatesNeedRecovery
<1> QED
  BY <1>2, <1>4, <1>5, <1>6, <1>7 DEF RelayHolds

LEMMA ConsumerKnows == ConsumerFacts!Inv => ConsumerHolds
<1> SUFFICES ASSUME ConsumerFacts!Inv PROVE ConsumerHolds
  OBVIOUS
<1>1. /\ Consumer!Handlers = ConsumerFacts!Handlers
      /\ Consumer!Queues = ConsumerFacts!Queues
  BY DEF Consumer!Handlers, ConsumerFacts!Handlers, Consumer!Queues, ConsumerFacts!Queues
<1>2. /\ at \in [Messages -> Consumer!Queues \cup {"unacked", "free"}]
      /\ orderOf \in [Messages -> Orders]
      /\ pc \in [Consumer!Handlers -> {"idle", "get", "lock", "notify", "mark", "release",
                                       "ack", "catch", "publish", "settle", "nack"}]
      /\ holds \in [Consumer!Handlers -> Messages]
      /\ job \in [Consumer!Handlers -> Orders]
      /\ target \in [Consumer!Handlers -> Consumer!Queues]
      /\ live \subseteq Consumer!Handlers
  BY <1>1 DEF ConsumerFacts!Inv, ConsumerFacts!QueueInv, ConsumerFacts!QueueTypes
<1>3. /\ lock \in [Orders -> Nat]
      /\ notified \in [Orders -> Nat]
      /\ faults \in Nat
  BY PartsAssumptions
     DEF ConsumerFacts!Inv, ConsumerFacts!StoreTypes, ConsumerFacts!LockTTL,
         ConsumerFacts!ConsumerAssumption
<1>4. /\ \A h \in live : /\ pc[h] # "idle"
                         /\ at[holds[h]] = "unacked"
                         /\ orderOf[holds[h]] = job[h]
      /\ \A g, h \in live : holds[g] = holds[h] => g = h
  BY DEF ConsumerFacts!Inv, ConsumerFacts!QueueInv, ConsumerFacts!LiveHolds
<1>5. ~disturbed => \A h \in Consumer!Handlers : pc[h] # "idle" => h \in live
  BY <1>1 DEF ConsumerFacts!Inv, ConsumerFacts!Owned
<1>6. \A o \in Orders : \/ published[o] = 0
                        \/ notified[o] > 0
                        \/ \E m \in Messages : orderOf[m] = o /\ at[m] # "free"
  BY DEF ConsumerFacts!Inv, ConsumerFacts!QueueInv, ConsumerFacts!Unforgotten,
         ConsumerFacts!Kept
<1> QED
  BY <1>2, <1>3, <1>4, <1>5, <1>6 DEF ConsumerHolds


-----------------------------------------------------------------------------
(* What a step of the consumer does to the messages: it keeps them (or     *)
(* acks some) and what the DLQ holds, or adds one about o.                 *)
MessagesKept ==
  \A m \in Messages : /\ at'[m] # "free" => at[m] # "free" /\ orderOf'[m] = orderOf[m]
                      /\ at'[m] = "dlq" <=> at[m] = "dlq"

MessageSent(o) ==
  \E q \in Consumer!Queues, m \in Messages : /\ at[m] = "free"
                                             /\ at' = [at EXCEPT ![m] = q]
                                             /\ orderOf' = [orderOf EXCEPT ![m] = o]

(* And to the handlers: those that are not done stay with their order.     *)
HandlersGoOn ==
  \A h \in Consumer!Handlers : pc'[h] # "idle" => pc[h] # "idle" /\ job'[h] = job[h]

(* A copy goes into some slot that was free.                               *)
LEMMA EnqueueSlot ==
  ASSUME NEW q, NEW o, NEW retries, NEW procRetries,
         Consumer!Enqueue(q, o, retries, procRetries)
  PROVE  \E m \in Messages : /\ at[m] = "free"
                             /\ at' = [at EXCEPT ![m] = q]
                             /\ orderOf' = [orderOf EXCEPT ![m] = o]
<1> DEFINE free == {n \in Messages : at[n] = "free"}
           slot == CHOOSE n \in free : TRUE
<1>1. free # {}
  BY DEF Consumer!Enqueue
<1>2. slot \in free
  BY <1>1
<1>3. at' = [at EXCEPT ![slot] = q] /\ orderOf' = [orderOf EXCEPT ![slot] = o]
  BY DEF Consumer!Enqueue
<1> HIDE DEF slot
<1> QED
  BY <1>2, <1>3

LEMMA EnqueueSends ==
  ASSUME NEW q \in Consumer!Queues, NEW o, NEW retries, NEW procRetries,
         Consumer!Enqueue(q, o, retries, procRetries)
  PROVE  MessageSent(o)
BY EnqueueSlot DEF MessageSent

(* Moving a message that is neither free nor in the DLQ keeps them all.    *)
LEMMA MoveKeeps ==
  ASSUME ConsumerHolds, NEW m \in Messages, NEW q, at[m] \notin {"free", "dlq"}, q # "dlq",
         at' = [at EXCEPT ![m] = q],
         \A n \in Messages : n # m \/ q # "free" => orderOf'[n] = orderOf[n]
  PROVE  MessagesKept
BY DEF ConsumerHolds, MessagesKept

(* An ack, a nack or a step that leaves the queues alone.                  *)
LEMMA AckKeeps ==
  ASSUME ConsumerHolds, NEW h \in live, Consumer!Ack(holds[h])
  PROVE  MessagesKept
<1>1. holds[h] \in Messages /\ at[holds[h]] = "unacked"
  BY DEF ConsumerHolds
<1> QED
  BY <1>1, MoveKeeps DEF Consumer!Ack, ConsumerHolds

LEMMA NackKeeps ==
  ASSUME ConsumerHolds, NEW h \in live, at' = [at EXCEPT ![holds[h]] = "main"],
         UNCHANGED orderOf
  PROVE  MessagesKept
<1>1. holds[h] \in Messages /\ at[holds[h]] = "unacked"
  BY DEF ConsumerHolds
<1> QED
  BY <1>1, MoveKeeps

LEMMA StillKeeps == UNCHANGED <<at, orderOf>> => MessagesKept
BY DEF MessagesKept

(* A step of handler h is about its own order.                             *)
LEMMA HandlerEffects ==
  ASSUME ConsumerHolds, NEW h \in Consumer!Handlers, Consumer!Step(h) \/ Consumer!Failure(h)
  PROVE  /\ pc[h] # "idle"
         /\ HandlersGoOn
         /\ MessagesKept \/ MessageSent(job[h])
         /\ \/ notified' = notified
            \/ MessagesKept /\ notified' = [notified EXCEPT ![job[h]] = @ + 1]
<1> DEFINE Effects == /\ pc[h] # "idle"
                      /\ HandlersGoOn
                      /\ MessagesKept \/ MessageSent(job[h])
                      /\ \/ notified' = notified
                         \/ MessagesKept /\ notified' = [notified EXCEPT ![job[h]] = @ + 1]
<1>1. \A step : Consumer!Goto(h, step) /\ pc[h] # "idle" => HandlersGoOn
  BY DEF Consumer!Goto, HandlersGoOn, ConsumerHolds
<1>2. Consumer!Return(h) => HandlersGoOn
  BY DEF Consumer!Return, HandlersGoOn, ConsumerHolds
<1>3. \A q : Consumer!SendToQueue(h, q) /\ pc[h] # "idle" => HandlersGoOn
  BY <1>2 DEF Consumer!SendToQueue, HandlersGoOn, ConsumerHolds
<1>4. Consumer!PublishCopy(h) => MessageSent(job[h])
  BY EnqueueSends DEF Consumer!PublishCopy, ConsumerHolds
<1>5. UNCHANGED Consumer!message => MessagesKept
  BY StillKeeps DEF Consumer!message
<1>6. ASSUME Consumer!Get(h) PROVE Effects
  BY <1>1, <1>2, <1>5, <1>6, AckKeeps DEF Consumer!Get
<1>7. ASSUME Consumer!Acquire(h) PROVE Effects
  BY <1>1, <1>3, <1>5, <1>7 DEF Consumer!Acquire
<1>8. ASSUME Consumer!Notify(h) PROVE Effects
  BY <1>1, <1>5, <1>8 DEF Consumer!Notify
<1>9. ASSUME Consumer!MarkProcessed(h) \/ Consumer!Release(h) PROVE Effects
  BY <1>1, <1>5, <1>9 DEF Consumer!MarkProcessed, Consumer!Release
<1>10. ASSUME Consumer!AckProcessed(h) PROVE Effects
  BY <1>1, <1>2, <1>5, <1>10, AckKeeps DEF Consumer!AckProcessed
<1>11. ASSUME Consumer!Catch(h) PROVE Effects
  BY <1>3, <1>5, <1>11 DEF Consumer!Catch
<1>12. ASSUME Consumer!Publish(h) PROVE Effects
  BY <1>1, <1>4, <1>12 DEF Consumer!Publish
<1>13. ASSUME Consumer!Nack(h) PROVE Effects
  BY <1>2, <1>13, NackKeeps, StillKeeps DEF Consumer!Nack
<1>14. ASSUME Consumer!Settle(h) PROVE Effects
  BY <1>2, <1>5, <1>14, AckKeeps DEF Consumer!Settle
<1>15. ASSUME Consumer!PublishAbandoned(h) PROVE Effects
  BY <1>2, <1>5, <1>15 DEF Consumer!PublishAbandoned
<1>16. ASSUME Consumer!GetFails(h) \/ Consumer!AcquireFails(h) PROVE Effects
  BY <1>3, <1>5, <1>16 DEF Consumer!GetFails, Consumer!AcquireFails, Consumer!RedisFailed
<1>17. ASSUME Consumer!NotifyFails(h) PROVE Effects
  BY <1>1, <1>5, <1>17 DEF Consumer!NotifyFails
<1>18. ASSUME Consumer!PublishFails(h) PROVE Effects
  BY <1>1, <1>2, <1>4, <1>18, NackKeeps DEF Consumer!PublishFails
<1> QED
  BY <1>6, <1>7, <1>8, <1>9, <1>10, <1>11, <1>12, <1>13, <1>14, <1>15, <1>16, <1>17, <1>18
     DEF Consumer!Step, Consumer!Failure

(* Whatever befalls the consumer from outside moves messages and ends      *)
(* handlers, no more.                                                      *)
LEMMA EventEffects ==
  ASSUME ConsumerHolds,
         \/ \E i \in Instances : Consumer!ChannelCloses(i) \/ Consumer!Crash(i)
         \/ Consumer!RedisForgets \/ Consumer!SlowDown \/ Consumer!Tick
  PROVE  MessagesKept /\ HandlersGoOn /\ notified' = notified
<1>1. ASSUME NEW hs \in SUBSET live, Consumer!Requeue(hs) PROVE MessagesKept
  BY <1>1 DEF Consumer!Requeue, ConsumerHolds, MessagesKept
<1>2. ASSUME NEW i \in Instances, Consumer!ChannelCloses(i)
      PROVE  MessagesKept /\ HandlersGoOn /\ notified' = notified
  BY <1>1, <1>2 DEF Consumer!ChannelCloses, HandlersGoOn
<1>3. ASSUME NEW i \in Instances, Consumer!Crash(i)
      PROVE  MessagesKept /\ HandlersGoOn /\ notified' = notified
  BY <1>1, <1>3 DEF Consumer!Crash, HandlersGoOn
<1>4. CASE Consumer!RedisForgets \/ Consumer!SlowDown
  BY <1>4, StillKeeps
     DEF Consumer!RedisForgets, Consumer!SlowDown, HandlersGoOn, Consumer!message,
         Consumer!handler
<1>5. CASE Consumer!Tick
  BY <1>5
     DEF Consumer!Tick, Consumer!Delayed, MessagesKept, HandlersGoOn, Consumer!handler
<1> QED
  BY <1>2, <1>3, <1>4, <1>5


-----------------------------------------------------------------------------
(* What a step of the relay does to the orders: it works on and publishes  *)
(* committed ones only.                                                    *)
RelayGoesOn ==
  /\ Committed' = Committed
  /\ \A c \in Relay!Cycles : batch'[c] \subseteq Committed
  /\ \A o \in Orders : published'[o] # published[o] => o \in Committed

(* A statement on the row of a committed order does not uncommit it.       *)
LEMMA RowStaysCommitted ==
  ASSUME RelayHolds, NEW o \in Committed, Relay!ClaimRow(o) \/ Relay!MarkRow(o)
  PROVE  Committed' = Committed
<1> PICK s \in {"PROCESSING", "SENT"} : status' = [status EXCEPT ![o] = s]
  BY DEF Relay!ClaimRow, Relay!MarkRow
<1> QED
  BY DEF RelayHolds, Committed

LEMMA CycleEffects ==
  ASSUME RelayHolds, Known, NEW c \in Relay!Cycles,
         Relay!Step(c) \/ Relay!CallFails(c) \/ Relay!Stall(c)
  PROVE  RelayGoesOn
<1> DEFINE e == Relay!Current(c)
<1>0. /\ \A d \in Relay!Cycles : batch[d] \subseteq Committed
      /\ batch[c] # {} => e \in Committed
      /\ cycle[c] \in {"publish", "mark"} => e \in Committed
  BY DEF RelayHolds, Known
<1>1. UNCHANGED Relay!table => Committed' = Committed
  BY DEF Relay!table, Committed
<1>2. \A step : Relay!Goto(c, step) => cycle' = [cycle EXCEPT ![c] = step]
  BY DEF Relay!Goto
<1>3. Relay!Leave(c) => \A d \in Relay!Cycles : batch'[d] \subseteq Committed
  BY <1>0 DEF Relay!Leave, RelayHolds
<1>4. ASSUME batch' = [batch EXCEPT ![c] = @ \ {e}]
      PROVE  \A d \in Relay!Cycles : batch'[d] \subseteq Committed
  BY <1>0, <1>4 DEF RelayHolds
<1>5. ASSUME published' = [published EXCEPT ![e] = @ + 1], e \in Committed
      PROVE  \A o \in Orders : published'[o] # published[o] => o \in Committed
  BY <1>5 DEF RelayHolds
<1> HIDE DEF e
<1>6. CASE Relay!Start(c)
  BY <1>0, <1>1, <1>6 DEF Relay!Start, RelayGoesOn
<1>7. CASE Relay!FindPending(c)
  <2>1. Relay!Lowest(Relay!Pending, BatchSize) \subseteq Committed
    BY DEF Relay!Lowest, Relay!Pending, Committed
  <2> QED
    BY <1>0, <1>1, <1>7, <2>1 DEF Relay!FindPending, RelayGoesOn, RelayHolds
<1>8. CASE Relay!Claim(c)
  BY <1>0, <1>1, <1>4, <1>8, RowStaysCommitted DEF Relay!Claim, RelayGoesOn, e
<1>9. CASE Relay!Publish(c)
  BY <1>0, <1>1, <1>5, <1>9 DEF Relay!Publish, RelayGoesOn, e
<1>10. CASE Relay!MarkAsSent(c)
  BY <1>0, <1>4, <1>10, RowStaysCommitted DEF Relay!MarkAsSent, RelayGoesOn, e
<1>11. CASE Relay!EndCycle(c)
  BY <1>1, <1>3, <1>11 DEF Relay!EndCycle, RelayGoesOn
<1>12. CASE Relay!CallFails(c)
  <2>1. cycle[c] = "claim" => batch[c] # {}
    BY <1>12 DEF Relay!CallFails, Relay!Failing, Relay!Calling
  <2> QED
    BY <1>0, <1>1, <1>3, <1>5, <1>12, <2>1, RowStaysCommitted
       DEF Relay!CallFails, RelayGoesOn, e
<1>13. CASE Relay!Stall(c)
  BY <1>0, <1>1, <1>13 DEF Relay!Stall, Relay!cycle, RelayGoesOn
<1> QED
  BY <1>6, <1>7, <1>8, <1>9, <1>10, <1>11, <1>12, <1>13 DEF Relay!Step

LEMMA RelayEventEffects ==
  ASSUME RelayHolds, Known,
         \/ \E o \in Orders : Relay!Expire(o)
         \/ Relay!RecoverStuckProcessing
         \/ \E i \in Instances : Relay!Crash(i)
  PROVE  RelayGoesOn
<1>0. \A c \in Relay!Cycles : batch[c] \subseteq Committed
  BY DEF Known
<1>1. ASSUME NEW o \in Orders, Relay!Expire(o) PROVE RelayGoesOn
  BY <1>0, <1>1 DEF Relay!Expire, Relay!cycle, RelayGoesOn, Committed
<1>2. CASE Relay!RecoverStuckProcessing
  <2>1. overdue \subseteq Committed
    BY DEF RelayHolds, Committed
  <2>2. Committed' = Committed
    BY <1>2, <2>1 DEF Relay!RecoverStuckProcessing, Committed
  <2> QED
    BY <1>0, <1>2, <2>2 DEF Relay!RecoverStuckProcessing, Relay!cycle, RelayGoesOn
<1>3. ASSUME NEW i \in Instances, Relay!Crash(i) PROVE RelayGoesOn
  BY <1>0, <1>3 DEF Relay!Crash, Relay!table, RelayGoesOn, Committed
<1> QED
  BY <1>1, <1>2, <1>3


-----------------------------------------------------------------------------
(* The abstract steps, and stuttering, in the terms of the composition.    *)
PromiseStep ==
  \/ \E o \in Orders \ Committed : /\ Committed' = Committed \cup {o}
                                   /\ UNCHANGED <<Told, Parked>>
  \/ \E o \in Committed \ Told : /\ Told' = Told \cup {o}
                                 /\ UNCHANGED <<Committed, Parked>>
  \/ \E o \in Committed \ Parked : /\ Parked' = Parked \cup {o}
                                   /\ UNCHANGED <<Committed, Told>>
  \/ UNCHANGED <<Committed, Told, Parked>>

LEMMA PromiseSteps == PromiseStep => [Promise!Next]_(Promise!vars)
<1> SUFFICES ASSUME PromiseStep PROVE [Promise!Next]_(Promise!vars)
  OBVIOUS
<1>1. ASSUME NEW o \in Orders \ Committed, Committed' = Committed \cup {o},
             UNCHANGED <<Told, Parked>>
      PROVE  Promise!Commit(o)
  BY <1>1 DEF Promise!Commit, Committed, Told, Parked
<1>2. ASSUME NEW o \in Committed \ Told, Told' = Told \cup {o},
             UNCHANGED <<Committed, Parked>>
      PROVE  o \in Orders /\ Promise!Tell(o)
  BY <1>2 DEF Promise!Tell, Committed, Told, Parked
<1>3. ASSUME NEW o \in Committed \ Parked, Parked' = Parked \cup {o},
             UNCHANGED <<Committed, Told>>
      PROVE  o \in Orders /\ Promise!Park(o)
  BY <1>3 DEF Promise!Park, Committed, Told, Parked
<1>4. CASE UNCHANGED <<Committed, Told, Parked>>
  BY <1>4 DEF Promise!vars, Committed, Told, Parked
<1> QED
  BY <1>1, <1>2, <1>3, <1>4 DEF PromiseStep, Promise!Next

(* The dead-letter queue keeps what it has, and a message that is sent     *)
(* adds its order at most.                                                 *)
LEMMA KeptParked ==
  ASSUME ConsumerHolds, MessagesKept
  PROVE  Parked' = Parked
BY DEF MessagesKept, Parked

LEMMA SentParked ==
  ASSUME ConsumerHolds, NEW o \in Orders, MessageSent(o)
  PROVE  Parked' = Parked \/ Parked' = Parked \cup {o}
<1>1. PICK q \in Consumer!Queues, m \in Messages : /\ at[m] = "free"
                                                   /\ at' = [at EXCEPT ![m] = q]
                                                   /\ orderOf' = [orderOf EXCEPT ![m] = o]
  BY DEF MessageSent
<1>2. /\ at'[m] = q /\ orderOf'[m] = o
      /\ \A n \in Messages \ {m} : at'[n] = at[n] /\ orderOf'[n] = orderOf[n]
  BY <1>1 DEF ConsumerHolds
<1>3. CASE q = "dlq"
  <2>1. Parked' = Parked \cup {o}
    BY <1>1, <1>2, <1>3 DEF Parked
  <2> QED
    BY <2>1
<1>4. CASE q # "dlq"
  <2>1. Parked' = Parked
    BY <1>1, <1>2, <1>4 DEF Parked
  <2> QED
    BY <2>1
<1> QED
  BY <1>3, <1>4

(* What keeps Known.                                                       *)
LEMMA KnownKept ==
  ASSUME ConsumerHolds, Known,
         Committed' = Committed,
         \A c \in Relay!Cycles : batch'[c] \subseteq Committed,
         MessagesKept \/ \E o \in Committed : MessageSent(o),
         HandlersGoOn
  PROVE  Known'
<1>1. \A m \in Messages : at'[m] # "free" => orderOf'[m] \in Committed
  <2>1. CASE MessagesKept
    BY <2>1 DEF MessagesKept, Known
  <2>2. ASSUME NEW o \in Committed, MessageSent(o)
        PROVE  \A m \in Messages : at'[m] # "free" => orderOf'[m] \in Committed
    BY <2>2 DEF MessageSent, Known, ConsumerHolds
  <2> QED
    BY <2>1, <2>2
<1>2. \A h \in Consumer!Handlers : pc'[h] # "idle" => job'[h] \in Committed
  BY DEF HandlersGoOn, Known
<1> QED
  BY <1>1, <1>2 DEF Known, Relay!Cycles, Consumer!Handlers

(* A step of the consumer keeps the promise.                               *)
LEMMA ConsumerPromise ==
  ASSUME ConsumerHolds, Committed' = Committed,
         \/ MessagesKept
         \/ \E o \in Committed : MessageSent(o),
         \/ notified' = notified
         \/ MessagesKept /\ \E o \in Committed : notified' = [notified EXCEPT ![o] = @ + 1]
  PROVE  PromiseStep
<1>1. CASE notified' = notified
  <2>1. Told' = Told
    BY <1>1 DEF Told
  <2>2. CASE MessagesKept
    BY <2>1, <2>2, KeptParked DEF PromiseStep
  <2>3. ASSUME NEW o \in Committed, MessageSent(o) PROVE PromiseStep
    <3>1. Parked' = Parked \/ Parked' = Parked \cup {o}
      BY <2>3, SentParked DEF Committed
    <3>2. CASE Parked' = Parked
      BY <2>1, <3>2 DEF PromiseStep
    <3>3. CASE o \in Parked /\ Parked' = Parked \cup {o}
      <4>1. Parked' = Parked
        BY <3>3
      <4> QED
        BY <2>1, <4>1 DEF PromiseStep
    <3>4. CASE o \notin Parked /\ Parked' = Parked \cup {o}
      BY <2>1, <3>4 DEF PromiseStep
    <3> QED
      BY <3>1, <3>2, <3>3, <3>4
  <2> QED
    BY <2>2, <2>3
<1>2. ASSUME MessagesKept, NEW o \in Committed, notified' = [notified EXCEPT ![o] = @ + 1]
      PROVE  PromiseStep
  <2>1. Parked' = Parked
    BY <1>2, KeptParked
  <2>2. \A p \in Orders : notified[p] \in Nat /\ notified'[p] \in Nat
                          /\ notified'[p] = IF p = o THEN notified[p] + 1 ELSE notified[p]
    BY <1>2 DEF ConsumerHolds, Committed
  <2>3. Told' = Told \cup {o}
    BY <2>2 DEF Told, Committed
  <2>4. CASE o \in Told
    <3>1. Told' = Told
      BY <2>3, <2>4
    <3> QED
      BY <2>1, <3>1 DEF PromiseStep
  <2>5. CASE o \notin Told
    BY <2>1, <2>3, <2>5 DEF PromiseStep
  <2> QED
    BY <2>4, <2>5
<1> QED
  BY <1>1, <1>2


(* Every step keeps track of the orders and keeps the promise.             *)
LEMMA StepKeepsPromise ==
  ASSUME RelayHolds, ConsumerHolds, Known, [Next]_vars
  PROVE  Known' /\ PromiseStep
<1>1. UNCHANGED consumer => MessagesKept /\ HandlersGoOn /\ notified' = notified
  BY StillKeeps DEF consumer, HandlersGoOn
<1>2. UNCHANGED relay => /\ Committed' = Committed
                         /\ \A c \in Relay!Cycles : batch'[c] \subseteq Committed
  BY DEF relay, Committed, Known
<1>3. ASSUME NEW o \in Orders, Commit(o) PROVE Known' /\ PromiseStep
  <2>1. o \notin Committed /\ Committed' = Committed \cup {o}
    BY <1>3 DEF Commit, Relay!Insert, RelayHolds, Committed
  <2>2. UNCHANGED <<at, orderOf, pc, job, notified, batch>>
    BY <1>3 DEF Commit, consumer, Relay!Insert, Relay!cycle
  <2>3. UNCHANGED <<Told, Parked>>
    BY <2>2 DEF Told, Parked
  <2>4. Known'
    BY <2>1, <2>2 DEF Known, Relay!Cycles, Consumer!Handlers
  <2> QED
    BY <2>1, <2>3, <2>4 DEF PromiseStep
<1>4. ASSUME RelayGoesOn, UNCHANGED consumer PROVE Known' /\ PromiseStep
  BY <1>1, <1>4, KnownKept, ConsumerPromise DEF RelayGoesOn
<1>5. ASSUME NEW o \in Orders, Expire(o) PROVE Known' /\ PromiseStep
  BY <1>4, <1>5, RelayEventEffects DEF Expire
<1>6. CASE Recover
  BY <1>4, <1>6, RelayEventEffects DEF Recover
<1>7. ASSUME NEW c \in Relay!Cycles, RelayStep(c) \/ RelayFault(c)
      PROVE  Known' /\ PromiseStep
  <2>1. RelayGoesOn /\ HandOver
    BY <1>7, CycleEffects DEF RelayStep, RelayFault
  <2>2. ASSUME NEW o \in Orders, published'[o] # published[o], Consumer!Arrive(o)
        PROVE  Known' /\ PromiseStep
    <3>1. o \in Committed
      BY <2>1, <2>2 DEF RelayGoesOn
    <3>2. MessageSent(o)
      BY <2>2, EnqueueSends DEF Consumer!Arrive, Consumer!Queues
    <3>3. HandlersGoOn /\ notified' = notified
      BY <2>2 DEF Consumer!Arrive, Consumer!handler, HandlersGoOn
    <3> QED
      BY <2>1, <3>1, <3>2, <3>3, KnownKept, ConsumerPromise DEF RelayGoesOn
  <2> QED
    BY <1>4, <2>1, <2>2 DEF HandOver
<1>8. ASSUME NEW h \in Consumer!Handlers, HandlerStep(h) \/ HandlerFault(h)
      PROVE  Known' /\ PromiseStep
  <2>1. Consumer!Step(h) \/ Consumer!Failure(h)
    BY <1>8 DEF HandlerStep, HandlerFault
  <2>2. UNCHANGED relay
    BY <1>8 DEF HandlerStep, HandlerFault
  <2>3. /\ pc[h] # "idle"
        /\ HandlersGoOn
        /\ MessagesKept \/ MessageSent(job[h])
        /\ \/ notified' = notified
           \/ MessagesKept /\ notified' = [notified EXCEPT ![job[h]] = @ + 1]
    BY <2>1, HandlerEffects
  <2>4. job[h] \in Committed
    BY <2>3 DEF Known
  <2> QED
    BY <1>2, <2>2, <2>3, <2>4, KnownKept, ConsumerPromise
<1>9. ASSUME NEW h \in Consumer!Handlers, NEW m \in Messages, Consumer!Deliver(h, m),
             UNCHANGED relay
      PROVE  Known' /\ PromiseStep
  <2>1. MessagesKept
    <3>1. at[m] = "main" /\ at' = [at EXCEPT ![m] = "unacked"] /\ UNCHANGED orderOf
      BY <1>9 DEF Consumer!Deliver
    <3> QED
      BY <3>1, MoveKeeps
  <2>2. notified' = notified
    BY <1>9 DEF Consumer!Deliver
  <2>3. orderOf[m] \in Committed
    BY <1>9 DEF Consumer!Deliver, Known
  <2>4. Known'
    <3>1. \A n \in Messages : at'[n] # "free" => orderOf'[n] \in Committed
      BY <2>1 DEF MessagesKept, Known
    <3>2. \A g \in Consumer!Handlers : pc'[g] # "idle" => job'[g] \in Committed
      BY <1>9, <2>3 DEF Consumer!Deliver, Known, ConsumerHolds
    <3> QED
      BY <1>2, <1>9, <3>1, <3>2 DEF Known, Relay!Cycles, Consumer!Handlers
  <2> QED
    BY <1>2, <1>9, <2>1, <2>2, <2>4, ConsumerPromise
<1>10. CASE Deliver
  BY <1>9, <1>10 DEF Deliver
<1>11. CASE \/ \E i \in Instances : ChannelCloses(i)
            \/ RedisForgets \/ SlowDown \/ Tick
  <2>1. UNCHANGED relay
    BY <1>11 DEF ChannelCloses, RedisForgets, SlowDown, Tick
  <2>2. MessagesKept /\ HandlersGoOn /\ notified' = notified
    BY <1>11, EventEffects DEF ChannelCloses, RedisForgets, SlowDown, Tick
  <2> QED
    BY <1>2, <2>1, <2>2, KnownKept, ConsumerPromise
<1>12. ASSUME NEW i \in Instances, Crash(i) PROVE Known' /\ PromiseStep
  <2>1. Committed' = Committed /\ \A c \in Relay!Cycles : batch'[c] \subseteq Committed
    BY <1>2, <1>12, RelayEventEffects DEF Crash, RelayGoesOn
  <2>2. MessagesKept /\ HandlersGoOn /\ notified' = notified
    BY <1>1, <1>12, EventEffects DEF Crash
  <2> QED
    BY <2>1, <2>2, KnownKept, ConsumerPromise
<1>13. CASE UNCHANGED vars
  BY <1>1, <1>2, <1>13, KnownKept, ConsumerPromise DEF vars
<1> QED
  BY <1>3, <1>5, <1>6, <1>7, <1>8, <1>10, <1>11, <1>12, <1>13 DEF Next, Steps

(* Initially nothing is on its way.                                        *)
LEMMA InitKnown == Init => Known /\ Promise!Init
<1> SUFFICES ASSUME Init PROVE Known /\ Promise!Init
  OBVIOUS
<1>1. /\ \A c \in Relay!Cycles : batch[c] = {}
      /\ \A o \in Orders : status[o] = "absent"
  BY DEF Init, Relay!Init
<1>2. /\ \A m \in Messages : at[m] = "free"
      /\ \A h \in Consumer!Handlers : pc[h] = "idle"
      /\ \A o \in Orders : notified[o] = 0
  BY DEF Init, Consumer!Init
<1> QED
  BY <1>1, <1>2 DEF Known, Promise!Init

(* The invariant without the part about faultless runs.                    *)
Tracked == RelayFacts!Inv /\ ConsumerFacts!Inv /\ Known

LEMMA TrackedInvariance == Spec => []Tracked
<1>1. Tracked /\ [Next]_vars => Known'
  BY RelayKnows, ConsumerKnows, StepKeepsPromise DEF Tracked
<1>2. Init => Known
  BY InitKnown
<1> QED
  BY <1>1, <1>2, PartsInvariance, PTL DEF Spec, Tracked

(* Whatever fails, the buyer of no order is told, and no message parked in *)
(* the dead-letter queue, before the order is committed; no commit,        *)
(* notification or parked message is taken back.                           *)
THEOREM PromiseKeptSafely == Spec => Promise!Safety
<1>1. Init => Promise!Init
  BY InitKnown
<1>2. Tracked /\ [Next]_vars => [Promise!Next]_(Promise!vars)
  BY RelayKnows, ConsumerKnows, StepKeepsPromise, PromiseSteps DEF Tracked
<1> QED
  BY <1>1, <1>2, TrackedInvariance, PTL DEF Spec, Promise!Safety

(* A row is SENT only when the buyer was told or a message about the order *)
(* is in a queue: neither the relay, which then forgets the order, nor the *)
(* consumer loses it, nor is it lost between them.                         *)
SentIsKept ==
  \A o \in Orders : status[o] = "SENT" =>
    notified[o] > 0 \/ \E m \in Messages : orderOf[m] = o /\ at[m] # "free"

THEOREM NothingIsLostOnTheWay == Spec => []SentIsKept
<1>1. RelayFacts!Inv /\ ConsumerFacts!Inv => SentIsKept
  BY RelayKnows, ConsumerKnows DEF RelayHolds, ConsumerHolds, SentIsKept
<1> QED
  BY <1>1, PartsInvariance, PTL


-----------------------------------------------------------------------------
(* Runs without a fault.                                                   *)

(* The relay's part: every claimed row keeps the cycle that claimed it, so *)
(* nothing becomes overdue and nothing is recovered.                       *)
LEMMA SmoothCycle ==
  ASSUME RelayHolds, SmoothRelay, NEW c \in Relay!Cycles, Relay!Step(c)
  PROVE  SmoothRelay'
<1> DEFINE e == Relay!Current(c)
           Works(d, o) == cycle[d] \in {"publish", "mark"} /\ Relay!Current(d) = o
<1>0. /\ stalled' = stalled \/ stalled' = stalled \ {c}
      /\ recoveries' = recoveries
      /\ overdue' = overdue \/ overdue' = overdue \ {e}
  BY DEF Relay!Step, Relay!Start, Relay!FindPending, Relay!Claim, Relay!Publish,
         Relay!MarkAsSent, Relay!EndCycle, Relay!Answered, Relay!table, Relay!ClaimRow,
         Relay!MarkRow
<1>1. \A d \in Relay!Cycles \ {c} : cycle'[d] = cycle[d] /\ batch'[d] = batch[d]
  BY DEF Relay!Step, Relay!Start, Relay!FindPending, Relay!Claim, Relay!Publish,
         Relay!MarkAsSent, Relay!EndCycle, Relay!Goto, Relay!Leave, RelayHolds
<1>2. ASSUME NEW d \in Relay!Cycles, batch'[d] = batch[d]
      PROVE  Relay!Current(d)' = Relay!Current(d)
  BY <1>2 DEF Relay!Current
<1>3. ASSUME NEW o \in Orders, NEW d \in Relay!Cycles, d # c, Works(d, o)
      PROVE  Works(d, o)'
  BY <1>1, <1>2, <1>3
<1>4. ASSUME NEW o \in Orders, status'[o] = "PROCESSING", status[o] # "PROCESSING"
      PROVE  \E d \in Relay!Cycles : Works(d, o)'
  <2>1. /\ Relay!Claim(c) /\ o = e
        /\ cycle' = [cycle EXCEPT ![c] = "publish"] /\ batch' = batch
    BY <1>4
       DEF Relay!Step, Relay!Start, Relay!FindPending, Relay!Claim, Relay!Publish,
           Relay!MarkAsSent, Relay!EndCycle, Relay!table, Relay!ClaimRow, Relay!MarkRow,
           Relay!Goto, RelayHolds
  <2>2. Works(c, o)'
    BY <1>2, <2>1 DEF RelayHolds
  <2> QED
    BY <2>2
<1>5. ASSUME NEW o \in Orders, status'[o] = "PROCESSING", status[o] = "PROCESSING"
      PROVE  \E d \in Relay!Cycles : Works(d, o)'
  <2>1. PICK d \in Relay!Cycles : Works(d, o)
    BY <1>5 DEF SmoothRelay, Relay!WorkingOn
  <2>2. CASE d # c
    BY <1>3, <2>1, <2>2
  <2>3. CASE d = c
    <3>1. CASE Relay!Publish(c)
      <4>1. cycle'[c] = "mark" /\ batch' = batch
        BY <3>1 DEF Relay!Publish, Relay!Goto, RelayHolds
      <4>2. Works(c, o)'
        BY <1>2, <2>1, <2>3, <4>1
      <4> QED
        BY <4>2
    <3>2. CASE Relay!MarkAsSent(c)
      <4>1. status'[e] = "SENT"
        BY <2>1, <2>3, <3>2, <1>5 DEF Relay!MarkAsSent, Relay!MarkRow, RelayHolds
      <4> QED
        BY <1>5, <2>1, <2>3, <4>1
    <3> QED
      BY <2>1, <2>3, <3>1, <3>2
         DEF Relay!Step, Relay!Start, Relay!FindPending, Relay!Claim, Relay!EndCycle
  <2> QED
    BY <2>2, <2>3
<1>6. \A o \in Orders : status'[o] = "PROCESSING" => Relay!WorkingOn(o)' # {}
  BY <1>4, <1>5 DEF Relay!WorkingOn, Relay!Cycles
<1> QED
  BY <1>0, <1>6 DEF SmoothRelay

(* A new row is PENDING.                                                   *)
LEMMA SmoothInsert ==
  ASSUME RelayHolds, SmoothRelay, NEW o \in Orders, Relay!Insert(o)
  PROVE  SmoothRelay'
<1>1. UNCHANGED <<stalled, overdue, recoveries, cycle, batch>>
  BY DEF Relay!Insert, Relay!cycle
<1>2. \A p \in Orders : status'[p] = "PROCESSING" => status[p] = "PROCESSING"
  BY DEF Relay!Insert, RelayHolds
<1>3. \A p \in Orders : Relay!WorkingOn(p)' = Relay!WorkingOn(p)
  BY <1>1 DEF Relay!WorkingOn, Relay!Cycles, Relay!Current
<1> QED
  BY <1>1, <1>2, <1>3 DEF SmoothRelay

(* Without a fault nothing expires and nothing is recovered.               *)
LEMMA SmoothSweep ==
  ASSUME SmoothRelay
  PROVE  /\ \A o \in Orders : ~Relay!Expire(o)
         /\ ~Relay!RecoverStuckProcessing
BY DEF SmoothRelay, Relay!Expire, Relay!RecoverStuckProcessing

LEMMA SmoothRelayStill ==
  ASSUME SmoothRelay, UNCHANGED relay
  PROVE  SmoothRelay'
BY DEF SmoothRelay, relay, Relay!WorkingOn, Relay!Cycles, Relay!Current


(* The consumer's part.  Each handler holds the only message of its order, *)
(* and is the only handler of it.                                          *)
LEMMA SmoothHandler ==
  ASSUME ConsumerHolds, SmoothConsumer, NEW h \in Consumer!Handlers, pc[h] # "idle"
  PROVE  /\ h \in live
         /\ job[h] \in Orders
         /\ holds[h] \in Messages
         /\ at[holds[h]] = "unacked" /\ orderOf[holds[h]] = job[h]
         /\ \A m \in Messages : at[m] # "free" /\ orderOf[m] = job[h] => m = holds[h]
         /\ \A g \in Consumer!Handlers : pc[g] # "idle" /\ job[g] = job[h] => g = h
         /\ published[job[h]] > 0
<1>1. h \in live /\ job[h] \in Orders /\ holds[h] \in Messages
  BY DEF SmoothConsumer, ConsumerHolds
<1>2. at[holds[h]] = "unacked" /\ orderOf[holds[h]] = job[h]
  BY <1>1 DEF ConsumerHolds
<1>3. SmoothOrder(job[h])
  BY <1>1 DEF SmoothConsumer
<1>4. \A m \in Messages : at[m] # "free" /\ orderOf[m] = job[h] => m = holds[h]
  BY <1>1, <1>2, <1>3 DEF SmoothOrder
<1>5. published[job[h]] > 0
  BY <1>1, <1>2, <1>3 DEF SmoothOrder
<1>6. ASSUME NEW g \in Consumer!Handlers, pc[g] # "idle", job[g] = job[h] PROVE g = h
  <2>1. g \in live /\ holds[g] \in Messages
    BY <1>6 DEF SmoothConsumer, ConsumerHolds
  <2>2. at[holds[g]] = "unacked" /\ orderOf[holds[g]] = job[h]
    BY <1>6, <2>1 DEF ConsumerHolds
  <2>3. holds[g] = holds[h]
    BY <1>4, <2>1, <2>2
  <2> QED
    BY <1>1, <2>1, <2>3 DEF ConsumerHolds
<1> QED
  BY <1>1, <1>2, <1>4, <1>5, <1>6

(* The steps of a handler: each keeps what there is of its order, and does *)
(* not touch any other.                                                    *)
LEMMA SmoothStep ==
  ASSUME ConsumerHolds, SmoothConsumer, NEW h \in Consumer!Handlers, Consumer!Step(h),
         faults' = faults
  PROVE  SmoothConsumer'
<1> DEFINE j == job[h]
<1>0. /\ pc[h] \in {"get", "lock", "notify", "mark", "release", "ack"}
      /\ ~disturbed /\ ~slow /\ faults \in Nat
      /\ \A g \in Consumer!Handlers :
           pc[g] \in {"idle", "get", "lock", "notify", "mark", "release", "ack"}
      /\ \A o \in Orders : SmoothOrder(o)
  BY HandlerEffects DEF SmoothConsumer, ConsumerHolds
<1>1. /\ h \in live /\ j \in Orders /\ holds[h] \in Messages
      /\ at[holds[h]] = "unacked" /\ orderOf[holds[h]] = j
      /\ \A m \in Messages : at[m] # "free" /\ orderOf[m] = j => m = holds[h]
      /\ \A g \in Consumer!Handlers : pc[g] # "idle" /\ job[g] = j => g = h
      /\ published[j] > 0
  BY <1>0, SmoothHandler
<1>2. ~Consumer!Fault("redis")
  BY <1>0 DEF Consumer!Fault
<1>3. lock[j] > 0 => pc[h] \in {"notify", "mark", "release"}
  BY <1>0, <1>1 DEF SmoothOrder
(* A step that leaves the queues alone and moves h on to s.                *)
<1>4. ASSUME NEW s \in {"lock", "notify", "mark", "release", "ack"},
             Consumer!Goto(h, s), UNCHANGED Consumer!message,
             UNCHANGED <<published, disturbed, slow>>,
             \A o \in Orders \ {j} : lock'[o] = lock[o] /\ notified'[o] = notified[o],
             notified'[j] \in 0..1,
             s \in {"lock", "notify"} => notified'[j] = 0,
             lock'[j] > 0 => s \in {"notify", "mark", "release"}
      PROVE  SmoothConsumer'
  <2>1. /\ UNCHANGED <<at, orderOf, job, live>>
        /\ pc'[h] = s /\ \A g \in Consumer!Handlers \ {h} : pc'[g] = pc[g]
    BY <1>4 DEF Consumer!Goto, Consumer!message, ConsumerHolds
  <2>2. SmoothOrder(j)'
    BY <1>0, <1>1, <1>4, <2>1 DEF SmoothOrder, Consumer!Handlers
  <2>3. ASSUME NEW o \in Orders \ {j} PROVE SmoothOrder(o)'
    BY <1>0, <1>1, <1>4, <2>1 DEF SmoothOrder, Consumer!Handlers
  <2> QED
    BY <1>0, <1>4, <2>1, <2>2, <2>3 DEF SmoothConsumer, Consumer!Handlers
(* A step that acks the message and returns.                               *)
<1>5. ASSUME Consumer!Ack(holds[h]), Consumer!Return(h),
             UNCHANGED <<published, disturbed, slow, lock, notified>>,
             pc[h] \in {"get", "ack"}
      PROVE  SmoothConsumer'
  <2>1. /\ at'[holds[h]] = "free"
        /\ \A m \in Messages \ {holds[h]} : at'[m] = at[m] /\ orderOf'[m] = orderOf[m]
    BY <1>1, <1>5 DEF Consumer!Ack, ConsumerHolds
  <2>2. /\ pc'[h] = "idle"
        /\ \A g \in Consumer!Handlers \ {h} : pc'[g] = pc[g] /\ job'[g] = job[g]
    BY <1>5 DEF Consumer!Return, ConsumerHolds
  <2>3. ASSUME NEW o \in Orders PROVE SmoothOrder(o)'
    BY <1>0, <1>1, <1>3, <1>5, <2>1, <2>2 DEF SmoothOrder, Consumer!Handlers
  <2> QED
    BY <1>0, <1>5, <2>2, <2>3 DEF SmoothConsumer, Consumer!Handlers
<1>6. notified[j] \in Nat /\ notified[j] <= 1 /\ lock[j] \in Nat
  BY <1>0, <1>1 DEF SmoothOrder, ConsumerHolds
<1>7. pc[h] \in {"get", "lock", "notify"} => notified[j] = 0
  BY <1>0, <1>1 DEF SmoothOrder
<1> HIDE DEF j
<1>8. CASE Consumer!Get(h)
  BY <1>0, <1>1, <1>3, <1>4, <1>5, <1>6, <1>7, <1>8 DEF Consumer!Get, Consumer!redis, j
<1>9. CASE Consumer!Acquire(h)
  <2>1. pc[h] = "lock" /\ lock[j] = 0
    BY <1>3, <1>6, <1>9 DEF Consumer!Acquire
  <2>2. Consumer!TakeLock(j) /\ Consumer!Goto(h, "notify")
    BY <1>9, <2>1 DEF Consumer!Acquire, j
  <2> QED
    BY <1>4, <1>7, <1>9, <2>1, <2>2 DEF Consumer!Acquire, Consumer!TakeLock, ConsumerHolds
<1>10. CASE Consumer!Notify(h)
  <2>1. notified' = [notified EXCEPT ![j] = @ + 1] /\ notified[j] = 0 /\ pc[h] = "notify"
    BY <1>7, <1>10 DEF Consumer!Notify, j
  <2> QED
    BY <1>1, <1>4, <1>10, <2>1 DEF Consumer!Notify, Consumer!redis, ConsumerHolds
<1>11. CASE Consumer!MarkProcessed(h)
  BY <1>4, <1>6, <1>11 DEF Consumer!MarkProcessed
<1>12. CASE Consumer!Release(h)
  <2>1. lock' = [lock EXCEPT ![j] = 0] /\ UNCHANGED <<disturbed, slow>>
    BY <1>2, <1>12 DEF Consumer!Release, Consumer!DeleteLock, j
  <2> QED
    BY <1>1, <1>4, <1>6, <1>12, <2>1 DEF Consumer!Release, ConsumerHolds
<1>13. CASE Consumer!AckProcessed(h)
  BY <1>1, <1>5, <1>13 DEF Consumer!AckProcessed, Consumer!redis
<1> QED
  BY <1>0, <1>8, <1>9, <1>10, <1>11, <1>12, <1>13
     DEF Consumer!Step, Consumer!Catch, Consumer!Publish, Consumer!Nack, Consumer!Settle,
         Consumer!PublishAbandoned


(* A delivery hands the only message of an order to a handler.             *)
LEMMA SmoothDeliver ==
  ASSUME ConsumerHolds, SmoothConsumer, NEW h \in Consumer!Handlers, NEW m \in Messages,
         Consumer!Deliver(h, m)
  PROVE  SmoothConsumer'
<1>0. /\ ~disturbed /\ ~slow
      /\ \A g \in Consumer!Handlers :
           pc[g] \in {"idle", "get", "lock", "notify", "mark", "release", "ack"}
      /\ \A o \in Orders : SmoothOrder(o)
  BY DEF SmoothConsumer
<1>1. /\ pc[h] = "idle" /\ at[m] = "main" /\ orderOf[m] \in Orders
      /\ notified[orderOf[m]] = 0
  BY <1>0 DEF Consumer!Deliver, ConsumerHolds, SmoothOrder
<1>2. /\ at'[m] = "unacked" /\ \A n \in Messages \ {m} : at'[n] = at[n]
      /\ pc'[h] = "get" /\ job'[h] = orderOf[m]
      /\ \A g \in Consumer!Handlers \ {h} : pc'[g] = pc[g] /\ job'[g] = job[g]
      /\ UNCHANGED <<orderOf, published, notified, lock, disturbed, slow>>
  BY DEF Consumer!Deliver, Consumer!redis, ConsumerHolds
<1>3. ASSUME NEW o \in Orders PROVE SmoothOrder(o)'
  BY <1>0, <1>1, <1>2, <1>3 DEF SmoothOrder, Consumer!Handlers
<1> QED
  BY <1>0, <1>2, <1>3 DEF SmoothConsumer, Consumer!Handlers

(* Time runs locks out and moves nothing: no message waits in a delay      *)
(* queue.                                                                  *)
LEMMA SmoothTick ==
  ASSUME ConsumerHolds, SmoothConsumer, Consumer!Tick
  PROVE  SmoothConsumer'
<1>0. /\ ~disturbed /\ ~slow
      /\ \A g \in Consumer!Handlers :
           pc[g] \in {"idle", "get", "lock", "notify", "mark", "release", "ack"}
      /\ \A o \in Orders : SmoothOrder(o)
  BY DEF SmoothConsumer
<1>1. \A m \in Messages : at[m] \in {"free", "main", "unacked"}
  BY <1>0 DEF SmoothOrder, ConsumerHolds
<1>2. at' = at
  BY <1>1 DEF Consumer!Tick, Consumer!Delayed, ConsumerHolds
<1>3. \A o \in Orders : lock'[o] > 0 => lock[o] > 0
  BY DEF Consumer!Tick, ConsumerHolds
<1>4. UNCHANGED <<orderOf, pc, job, published, notified, disturbed, slow>>
  BY DEF Consumer!Tick, Consumer!handler
<1>5. ASSUME NEW o \in Orders PROVE SmoothOrder(o)'
  BY <1>0, <1>2, <1>3, <1>4 DEF SmoothOrder, Consumer!Handlers
<1> QED
  BY <1>0, <1>4, <1>5 DEF SmoothConsumer, Consumer!Handlers

(* An order's message arrives once, and before it nothing of the order is  *)
(* in the consumer.                                                        *)
LEMMA SmoothArrive ==
  ASSUME RelayHolds, ConsumerHolds, SmoothConsumer, NEW o \in Orders, published[o] = 0,
         Consumer!Arrive(o)
  PROVE  SmoothConsumer'
<1>0. /\ ~disturbed /\ ~slow
      /\ \A g \in Consumer!Handlers :
           pc[g] \in {"idle", "get", "lock", "notify", "mark", "release", "ack"}
      /\ \A p \in Orders : SmoothOrder(p)
  BY DEF SmoothConsumer
<1>1. PICK m \in Messages : /\ at[m] = "free"
                           /\ at' = [at EXCEPT ![m] = "main"]
                           /\ orderOf' = [orderOf EXCEPT ![m] = o]
  BY EnqueueSlot DEF Consumer!Arrive
<1>2. UNCHANGED <<pc, job, notified, lock, disturbed, slow>>
  BY DEF Consumer!Arrive, Consumer!handler, Consumer!redis
<1>3. \A n \in Messages : at[n] # "free" => orderOf[n] # o
  BY <1>0 DEF SmoothOrder
<1>4. notified[o] = 0
  BY <1>0 DEF SmoothOrder, ConsumerHolds
<1>5. /\ at'[m] = "main" /\ orderOf'[m] = o
      /\ \A n \in Messages \ {m} : at'[n] = at[n] /\ orderOf'[n] = orderOf[n]
  BY <1>1 DEF ConsumerHolds
<1>6. published'[o] = 1 /\ \A p \in Orders \ {o} : published'[p] = published[p]
  BY DEF Consumer!Arrive, RelayHolds
<1>7. SmoothOrder(o)'
  BY <1>0, <1>2, <1>3, <1>4, <1>5, <1>6 DEF SmoothOrder, Consumer!Handlers
<1>8. ASSUME NEW p \in Orders \ {o} PROVE SmoothOrder(p)'
  BY <1>0, <1>1, <1>2, <1>5, <1>6 DEF SmoothOrder, Consumer!Handlers
<1> QED
  BY <1>0, <1>2, <1>7, <1>8 DEF SmoothConsumer, Consumer!Handlers

LEMMA SmoothConsumerStill ==
  ASSUME SmoothConsumer, UNCHANGED <<consumer, published>>
  PROVE  SmoothConsumer'
BY DEF SmoothConsumer, consumer, SmoothOrder, Consumer!Handlers


(* What the counters of mishaps say.                                       *)
NoFaults == faults = 0 /\ relayFaults = 0 /\ stalls = 0

LEMMA MishapsZero == RelayHolds /\ ConsumerHolds => (Mishaps = 0 <=> NoFaults)
BY DEF RelayHolds, ConsumerHolds, Mishaps, NoFaults

(* A step that is not a fault itself keeps things smooth.                  *)
LEMMA SmoothNext ==
  ASSUME RelayHolds, RelayHolds', ConsumerHolds, ConsumerHolds', Smooth, [Next]_vars
  PROVE  Smooth'
<1> SUFFICES ASSUME NoFaults' PROVE SmoothRelay' /\ SmoothConsumer'
  <2>1. RelayHolds' /\ ConsumerHolds' => (Mishaps = 0 <=> NoFaults)'
    BY MishapsZero, PTL
  <2>2. Mishaps' = 0 <=> NoFaults'
    BY <2>1
  <2> QED
    BY <2>2 DEF Smooth
<1>0. NoFaults => SmoothRelay /\ SmoothConsumer
  BY MishapsZero DEF Smooth
<1>1. /\ faults \in Nat /\ relayFaults \in Nat /\ stalls \in Nat
      /\ faults' = 0 /\ relayFaults' = 0 /\ stalls' = 0
  BY DEF RelayHolds, ConsumerHolds, NoFaults
<1>2. ASSUME UNCHANGED consumer PROVE faults = 0
  BY <1>1, <1>2 DEF consumer
<1>3. ASSUME UNCHANGED relay PROVE relayFaults = 0 /\ stalls = 0
  BY <1>1, <1>3 DEF relay
<1>4. ASSUME NEW o \in Orders, Commit(o) \/ Expire(o)
      PROVE  SmoothRelay' /\ SmoothConsumer'
  <2>1. UNCHANGED <<consumer, published, relayFaults, stalls>>
    BY <1>4 DEF Commit, Expire, Relay!Insert, Relay!Expire
  <2>2. SmoothRelay /\ SmoothConsumer
    BY <1>0, <1>1, <1>2, <2>1 DEF NoFaults
  <2> QED
    BY <1>4, <2>1, <2>2, SmoothInsert, SmoothSweep, SmoothConsumerStill
       DEF Commit, Expire
<1>5. ASSUME NEW c \in Relay!Cycles, RelayStep(c) PROVE SmoothRelay' /\ SmoothConsumer'
  <2>1. Relay!Step(c) /\ HandOver
    BY <1>5 DEF RelayStep
  <2>2. UNCHANGED <<relayFaults, stalls>>
    BY <2>1
       DEF Relay!Step, Relay!Start, Relay!FindPending, Relay!Claim, Relay!Publish,
           Relay!MarkAsSent, Relay!EndCycle
  <2>3. faults' = faults
    BY <2>1 DEF HandOver, consumer, Consumer!Arrive
  <2>4. SmoothRelay /\ SmoothConsumer
    BY <1>0, <1>1, <2>2, <2>3 DEF NoFaults
  <2>5. SmoothRelay'
    BY <2>1, <2>4, SmoothCycle
  <2>6. CASE UNCHANGED <<consumer, published>>
    BY <2>4, <2>5, <2>6, SmoothConsumerStill
  <2>7. ASSUME NEW o \in Orders, Consumer!Arrive(o) PROVE SmoothConsumer'
    <3>1. published'[o] <= 1 /\ published[o] \in Nat
      BY <2>5 DEF RelayHolds, SmoothRelay
    <3>2. published'[o] = published[o] + 1
      BY <2>7 DEF Consumer!Arrive, RelayHolds
    <3>3. published[o] = 0
      BY <3>1, <3>2
    <3> QED
      BY <2>4, <2>7, <3>3, SmoothArrive
  <2> QED
    BY <2>1, <2>5, <2>6, <2>7 DEF HandOver
<1>6. ASSUME NEW c \in Relay!Cycles, RelayFault(c) PROVE FALSE
  BY <1>1, <1>6 DEF RelayFault, Relay!CallFails, Relay!Failing, Relay!Stall
<1>7. CASE Recover
  <2>1. UNCHANGED <<consumer, published, relayFaults, stalls>>
    BY <1>7 DEF Recover, Relay!RecoverStuckProcessing
  <2>2. SmoothRelay
    BY <1>0, <1>1, <1>2, <2>1 DEF NoFaults
  <2> QED
    BY <1>7, <2>2, SmoothSweep DEF Recover
<1>8. ASSUME NEW h \in Consumer!Handlers, HandlerStep(h)
      PROVE  SmoothRelay' /\ SmoothConsumer'
  <2>1. Consumer!Step(h) /\ UNCHANGED relay
    BY <1>8 DEF HandlerStep
  <2>2. faults' = faults
    <3>1. faults' = faults \/ faults' = faults + 1
      BY <2>1
         DEF Consumer!Step, Consumer!Get, Consumer!Acquire, Consumer!Notify,
             Consumer!MarkProcessed, Consumer!Release, Consumer!AckProcessed,
             Consumer!Catch, Consumer!Publish, Consumer!Nack, Consumer!Settle,
             Consumer!PublishAbandoned, Consumer!DeleteLock, Consumer!Fault
    <3> QED
      BY <1>1, <3>1
  <2>3. SmoothRelay /\ SmoothConsumer
    BY <1>0, <1>1, <1>3, <2>1, <2>2 DEF NoFaults
  <2> QED
    BY <2>1, <2>2, <2>3, SmoothStep, SmoothRelayStill
<1>9. ASSUME NEW h \in Consumer!Handlers, HandlerFault(h) PROVE FALSE
  BY <1>1, <1>9
     DEF HandlerFault, Consumer!Failure, Consumer!GetFails, Consumer!AcquireFails,
         Consumer!NotifyFails, Consumer!PublishFails, Consumer!Fault
<1>10. CASE Deliver \/ Tick
  <2>1. UNCHANGED relay /\ UNCHANGED faults
    BY <1>10 DEF Deliver, Tick, Consumer!Deliver, Consumer!Tick
  <2>2. SmoothRelay /\ SmoothConsumer
    BY <1>0, <1>1, <1>3, <2>1 DEF NoFaults
  <2> QED
    BY <1>10, <2>1, <2>2, SmoothDeliver, SmoothTick, SmoothRelayStill DEF Deliver, Tick
<1>11. ASSUME \/ \E i \in Instances : ChannelCloses(i) \/ Crash(i)
              \/ RedisForgets \/ SlowDown
       PROVE  FALSE
  <2>1. ASSUME NEW i \in Instances, ChannelCloses(i) PROVE FALSE
    BY <1>1, <2>1 DEF ChannelCloses, Consumer!ChannelCloses, Consumer!Fault
  <2>2. ASSUME NEW i \in Instances, Crash(i) PROVE FALSE
    <3>1. ~Relay!Crash(i) /\ ~Consumer!Crash(i)
      BY <1>1 DEF Relay!Crash, Consumer!Crash, Consumer!Fault
    <3> QED
      BY <2>2, <3>1 DEF Crash
  <2>3. CASE RedisForgets \/ SlowDown
    BY <1>1, <2>3
       DEF RedisForgets, SlowDown, Consumer!RedisForgets, Consumer!SlowDown, Consumer!Fault
  <2> QED
    BY <1>11, <2>1, <2>2, <2>3
<1>12. CASE UNCHANGED vars
  <2>1. UNCHANGED relay /\ UNCHANGED <<consumer, published>>
    BY <1>12 DEF vars
  <2>2. SmoothRelay /\ SmoothConsumer
    BY <1>0, <1>2, <1>3, <2>1 DEF NoFaults
  <2> QED
    BY <2>1, <2>2, SmoothRelayStill, SmoothConsumerStill
<1> QED
  BY <1>4, <1>5, <1>6, <1>7, <1>8, <1>9, <1>10, <1>11, <1>12 DEF Next, Steps

LEMMA SmoothInit == Init => Smooth
<1> SUFFICES ASSUME Init PROVE SmoothRelay /\ SmoothConsumer
  BY DEF Smooth
<1>1. SmoothRelay
  BY DEF Init, Relay!Init, SmoothRelay
<1>2. SmoothConsumer
  BY DEF Init, Consumer!Init, SmoothConsumer, SmoothOrder
<1> QED
  BY <1>1, <1>2

(* The whole invariant.                                                    *)
THEOREM Invariance == Spec => []Inv
<1>1. (Tracked => RelayHolds /\ ConsumerHolds) /\ (Inv <=> Tracked /\ Smooth)
  BY RelayKnows, ConsumerKnows DEF Tracked, Inv
<1>2. RelayHolds /\ RelayHolds' /\ ConsumerHolds /\ ConsumerHolds' /\ Smooth /\ [Next]_vars
        => Smooth'
  BY SmoothNext
<1> QED
  BY <1>1, <1>2, SmoothInit, TrackedInvariance, PTL DEF Spec

(* As long as nothing fails, hangs or dies, the chain of relays, queue and *)
(* handlers notifies a buyer at most once: overlapping relays publish an   *)
(* event once, and the handlers deliver its message once.                  *)
THEOREM FaultlessIsOnce == Spec => []NoRepetitionWithoutFaults
<1>1. Inv => NoRepetitionWithoutFaults
  BY DEF Inv, Smooth, SmoothConsumer, SmoothOrder, NoRepetitionWithoutFaults
<1> QED
  BY <1>1, Invariance, PTL


-----------------------------------------------------------------------------
(* Mishaps and repetitions.  What could still lead to a notification of    *)
(* order o: its row, if a relay may still claim it; the cycles about to    *)
(* publish it; the messages a handler may still be given; the handlers     *)
(* that have not notified yet or hold a message that may return.  A step   *)
(* that is no mishap hands such a chance on, spends it or drops it, and a  *)
(* mishap adds one at most.                                                *)
RowOpen(o) ==
  \/ status[o] \in {"absent", "PENDING"}
  \/ status[o] = "PROCESSING" /\ (o \in overdue \/ Relay!WorkingOn(o) \subseteq stalled)

RowChance(o) == IF RowOpen(o) THEN 1 ELSE 0

PublishingCycles(o) ==
  {c \in Relay!Cycles : cycle[c] = "publish" /\ Relay!Current(c) = o}

Waiting(o) ==
  {m \in Messages : orderOf[m] = o /\ at[m] \in {"main", "retry", "processing-retry"}}

MayNotify(h) == \/ pc[h] \in {"get", "lock", "notify"}
                \/ h \in live /\ pc[h] \in {"catch", "publish", "nack"}

Able(o) == {h \in Consumer!Handlers : job[h] = o /\ MayNotify(h)}

(* The two halves of the sum, one for each part.                           *)
RelayFinite(o) == IsFiniteSet(PublishingCycles(o))
Publishable(o) == RowChance(o) + Cardinality(PublishingCycles(o))

ConsumerFinite(o) == IsFiniteSet(Waiting(o)) /\ IsFiniteSet(Able(o))
Notifiable(o) == notified[o] + Cardinality(Waiting(o)) + Cardinality(Able(o))

(* A channel that closes and a process that dies send back every message   *)
(* that was unacked there.  The count is about runs without them, or with  *)
(* a single mishap.                                                        *)
NoMassRequeue == FaultKinds \cap {"crash", "channel"} = {}

Budget ==
  Mishaps <= 1 \/ NoMassRequeue =>
    \A o \in Orders : /\ RelayFinite(o) /\ ConsumerFinite(o)
                      /\ Publishable(o) + Notifiable(o) <= 1 + Mishaps

(* A set, from one state to the next.                                      *)
Grows(S, T, d) == IsFiniteSet(S) => IsFiniteSet(T) /\ Cardinality(T) <= Cardinality(S) + d

LEMMA Kept ==
  ASSUME NEW S, NEW T, T \subseteq S
  PROVE  Grows(S, T, 0)
BY FS_Subset, FS_CardinalityType DEF Grows

LEMMA OneMore ==
  ASSUME NEW S, NEW T, NEW x, T \subseteq S \cup {x}
  PROVE  Grows(S, T, 1)
<1> SUFFICES ASSUME IsFiniteSet(S)
             PROVE  IsFiniteSet(T) /\ Cardinality(T) <= Cardinality(S) + 1
  BY DEF Grows
<1>1. /\ IsFiniteSet(S \cup {x}) /\ Cardinality(S) \in Nat
      /\ Cardinality(S \cup {x}) <= Cardinality(S) + 1
      /\ Cardinality(S \cup {x}) \in Nat
  BY FS_AddElement, FS_CardinalityType
<1>2. IsFiniteSet(T) /\ Cardinality(T) <= Cardinality(S \cup {x})
  BY <1>1, FS_Subset
<1>3. Cardinality(T) \in Nat
  BY <1>2, FS_CardinalityType
<1> QED
  BY <1>1, <1>2, <1>3

LEMMA OneLess ==
  ASSUME NEW S, NEW T, NEW x \in S, T \subseteq S \ {x}
  PROVE  Grows(S, T, -1)
<1> SUFFICES ASSUME IsFiniteSet(S)
             PROVE  IsFiniteSet(T) /\ Cardinality(T) <= Cardinality(S) - 1
  BY DEF Grows
<1>1. /\ IsFiniteSet(S \ {x}) /\ Cardinality(S) \in Nat
      /\ Cardinality(S \ {x}) = Cardinality(S) - 1
  BY FS_RemoveElement, FS_CardinalityType
<1>2. IsFiniteSet(T) /\ Cardinality(T) <= Cardinality(S \ {x})
  BY <1>1, FS_Subset
<1> QED
  BY <1>1, <1>2

(* The halves, from one state to the next.                                 *)
RelayChange(o, d) ==
  RelayFinite(o) => RelayFinite(o)' /\ Publishable(o)' <= Publishable(o) + d

ConsumerChange(o, d) ==
  ConsumerFinite(o) => ConsumerFinite(o)' /\ Notifiable(o)' <= Notifiable(o) + d

LEMMA RelaySum ==
  ASSUME NEW o, NEW r \in -1..1, NEW c \in -1..1, NEW d \in Int, r + c <= d,
         RowChance(o)' <= RowChance(o) + r,
         Grows(PublishingCycles(o), PublishingCycles(o)', c)
  PROVE  RelayChange(o, d)
<1> SUFFICES ASSUME RelayFinite(o)
             PROVE  RelayFinite(o)' /\ Publishable(o)' <= Publishable(o) + d
  BY DEF RelayChange
<1>1. /\ IsFiniteSet(PublishingCycles(o)')
      /\ Cardinality(PublishingCycles(o)') <= Cardinality(PublishingCycles(o)) + c
  BY DEF Grows, RelayFinite
<1>2. Cardinality(PublishingCycles(o)') \in Nat /\ Cardinality(PublishingCycles(o)) \in Nat
  BY <1>1, FS_CardinalityType DEF RelayFinite
<1>3. RowChance(o) \in Nat /\ RowChance(o)' \in Nat
  BY DEF RowChance
<1> QED
  BY <1>1, <1>2, <1>3 DEF RelayFinite, Publishable

LEMMA ConsumerSum ==
  ASSUME NEW o, notified[o] \in Nat, notified'[o] \in Nat,
         NEW n \in 0..1, NEW m \in -1..1, NEW h \in -1..1, NEW d \in Int, n + m + h <= d,
         notified'[o] <= notified[o] + n,
         Grows(Waiting(o), Waiting(o)', m), Grows(Able(o), Able(o)', h)
  PROVE  ConsumerChange(o, d)
<1> SUFFICES ASSUME ConsumerFinite(o)
             PROVE  ConsumerFinite(o)' /\ Notifiable(o)' <= Notifiable(o) + d
  BY DEF ConsumerChange
<1>1. /\ IsFiniteSet(Waiting(o)') /\ IsFiniteSet(Able(o)')
      /\ Cardinality(Waiting(o)') <= Cardinality(Waiting(o)) + m
      /\ Cardinality(Able(o)') <= Cardinality(Able(o)) + h
  BY DEF Grows, ConsumerFinite
<1>2. /\ Cardinality(Waiting(o)') \in Nat /\ Cardinality(Waiting(o)) \in Nat
      /\ Cardinality(Able(o)') \in Nat /\ Cardinality(Able(o)) \in Nat
  BY <1>1, FS_CardinalityType DEF ConsumerFinite
<1> QED
  BY <1>1, <1>2 DEF ConsumerFinite, Notifiable

(* The relay.  A step of cycle c is nothing to the other cycles.           *)
LEMMA OtherCycles ==
  ASSUME NEW c \in Relay!Cycles, NEW o,
         \A d \in Relay!Cycles \ {c} : cycle'[d] = cycle[d] /\ batch'[d] = batch[d]
  PROVE  /\ PublishingCycles(o)' \ {c} = PublishingCycles(o) \ {c}
         /\ Relay!WorkingOn(o)' \ {c} = Relay!WorkingOn(o) \ {c}
         /\ batch'[c] = batch[c] => Relay!Current(c)' = Relay!Current(c)
<1>1. ASSUME NEW d \in Relay!Cycles, batch'[d] = batch[d]
      PROVE  Relay!Current(d)' = Relay!Current(d)
  BY <1>1 DEF Relay!Current
<1>2. Relay!Cycles' = Relay!Cycles
  BY DEF Relay!Cycles
<1> QED
  BY <1>1, <1>2 DEF PublishingCycles, Relay!WorkingOn

(* A row whose status stays is opened by its claim running out of time, or *)
(* by the last of its cycles that does not hang leaving it.                *)
LEMMA RowKept ==
  ASSUME NEW o, status'[o] = status[o], overdue' \subseteq overdue,
         Relay!WorkingOn(o)' \subseteq stalled' => Relay!WorkingOn(o) \subseteq stalled
  PROVE  RowChance(o)' <= RowChance(o)
BY DEF RowChance, RowOpen

LEMMA RowMayOpen == \A o : RowChance(o)' <= RowChance(o) + 1
BY DEF RowChance

(* A claim turns the chance of the row into that of a cycle, a publish     *)
(* turns that into a message.                                              *)
LEMMA StepChange ==
  ASSUME RelayHolds, NEW c \in Relay!Cycles, Relay!Step(c), NEW o \in Orders
  PROVE  RelayChange(o, IF published'[o] = published[o] THEN 0 ELSE -1)
<1> DEFINE e == Relay!Current(c)
           Row(r) == RowChance(o)' <= RowChance(o) + r
           Cycle(d) == Grows(PublishingCycles(o), PublishingCycles(o)', d)
<1>0. /\ \A d \in Relay!Cycles \ {c} : cycle'[d] = cycle[d] /\ batch'[d] = batch[d]
      /\ overdue' \subseteq overdue
  BY DEF Relay!Step, Relay!Start, Relay!FindPending, Relay!Claim, Relay!Publish,
         Relay!MarkAsSent, Relay!EndCycle, Relay!Goto, Relay!Leave, RelayHolds,
         Relay!table, Relay!ClaimRow, Relay!MarkRow
<1>1. /\ PublishingCycles(o)' \ {c} = PublishingCycles(o) \ {c}
      /\ Relay!WorkingOn(o)' \ {c} = Relay!WorkingOn(o) \ {c}
      /\ batch'[c] = batch[c] => Relay!Current(c)' = e
  BY <1>0, OtherCycles
<1>2. /\ c \in PublishingCycles(o) <=> cycle[c] = "publish" /\ e = o
      /\ c \in PublishingCycles(o)' <=> cycle'[c] = "publish" /\ Relay!Current(c)' = o
      /\ c \in Relay!WorkingOn(o) <=> cycle[c] \in {"publish", "mark"} /\ e = o
      /\ c \in Relay!WorkingOn(o)' <=> cycle'[c] \in {"publish", "mark"}
                                       /\ Relay!Current(c)' = o
  BY DEF PublishingCycles, Relay!WorkingOn, Relay!Cycles
<1>3. RowChance(o) \in 0..1 /\ RowChance(o)' \in 0..1
  BY DEF RowChance
<1> HIDE DEF e
(* Steps in which c does not work on a row.                                *)
<1>4. ASSUME cycle[c] \notin {"publish", "mark"}, cycle'[c] \notin {"publish", "mark"},
             status' = status, stalled' = stalled \/ stalled' = stalled \ {c},
             published' = published
      PROVE  RelayChange(o, 0)
  <2>1. /\ PublishingCycles(o)' \subseteq PublishingCycles(o)
        /\ c \notin Relay!WorkingOn(o) /\ Relay!WorkingOn(o)' = Relay!WorkingOn(o)
    BY <1>1, <1>2, <1>4
  <2>2. Row(0)
    BY <1>0, <1>3, <1>4, <2>1, RowKept
  <2> QED
    BY <2>1, <2>2, Kept, RelaySum
<1>5. CASE Relay!Start(c) \/ Relay!FindPending(c) \/ Relay!EndCycle(c)
  <2>1. /\ cycle[c] \notin {"publish", "mark"} /\ cycle'[c] \notin {"publish", "mark"}
        /\ status' = status /\ published' = published
        /\ stalled' = stalled \/ stalled' = stalled \ {c}
    BY <1>5
       DEF Relay!Start, Relay!FindPending, Relay!EndCycle, Relay!Goto, Relay!Leave,
           Relay!table, Relay!Answered, RelayHolds
  <2> QED
    BY <1>4, <2>1
<1>6. CASE Relay!Claim(c)
  <2>1. /\ cycle[c] = "claim" /\ published' = published /\ stalled' = stalled \ {c}
        /\ batch[c] # {} /\ e \in Orders
    BY <1>6 DEF Relay!Claim, Relay!Answered, RelayHolds, e
  <2>2. CASE /\ status[e] = "PENDING" /\ status' = [status EXCEPT ![e] = "PROCESSING"]
             /\ overdue' = overdue \ {e}
             /\ cycle' = [cycle EXCEPT ![c] = "publish"] /\ batch' = batch
    <3>1. cycle'[c] = "publish" /\ Relay!Current(c)' = e
      BY <1>1, <2>2 DEF RelayHolds
    <3>2. CASE o = e
      <4>1. RowChance(o) = 1
        BY <2>2, <3>2 DEF RowChance, RowOpen
      <4>2. c \in Relay!WorkingOn(o)' /\ c \notin stalled' /\ o \notin overdue'
        BY <1>2, <2>1, <2>2, <3>1, <3>2
      <4>3. status'[o] = "PROCESSING"
        BY <2>1, <2>2, <3>2 DEF RelayHolds
      <4>4. RowChance(o)' = 0
        BY <4>2, <4>3 DEF RowChance, RowOpen
      <4>5. PublishingCycles(o)' \subseteq PublishingCycles(o) \cup {c}
        BY <1>1
      <4>6. Row(-1)
        BY <4>1, <4>4
      <4>7. Cycle(1)
        BY <4>5, OneMore
      <4> QED
        BY <2>1, <4>6, <4>7, RelaySum
    <3>3. CASE o # e
      <4>1. /\ PublishingCycles(o)' \subseteq PublishingCycles(o)
            /\ c \notin Relay!WorkingOn(o) /\ Relay!WorkingOn(o)' = Relay!WorkingOn(o)
        BY <1>1, <1>2, <3>1, <3>3
      <4>2. status'[o] = status[o]
        BY <2>2, <3>3 DEF RelayHolds
      <4>3. Row(0)
        BY <1>0, <1>3, <2>1, <4>1, <4>2, RowKept
      <4> QED
        BY <2>1, <4>1, <4>3, Kept, RelaySum
    <3> QED
      BY <3>2, <3>3
  <2>3. CASE status' = status /\ cycle' = cycle
    BY <1>4, <2>1, <2>3
  <2> QED
    BY <1>6, <2>2, <2>3
       DEF Relay!Claim, Relay!Claimable, Relay!ClaimRow, Relay!Goto, Relay!table, e
<1>7. CASE Relay!Publish(c)
  <2>1. /\ cycle[c] = "publish" /\ cycle'[c] = "mark" /\ Relay!Current(c)' = e
        /\ status' = status /\ stalled' = stalled \ {c}
        /\ published' = [published EXCEPT ![e] = @ + 1]
    BY <1>1, <1>7 DEF Relay!Publish, Relay!Goto, Relay!Answered, Relay!table, RelayHolds, e
  <2>2. /\ c \notin PublishingCycles(o)'
        /\ Relay!WorkingOn(o)' = Relay!WorkingOn(o)
    BY <1>1, <1>2, <2>1
  <2>3. Row(0)
    BY <1>0, <1>3, <2>1, <2>2, RowKept
  <2>4. CASE o = e
    <3>1. c \in PublishingCycles(o) /\ PublishingCycles(o)' \subseteq PublishingCycles(o) \ {c}
      BY <1>1, <1>2, <2>1, <2>2, <2>4
    <3>2. Cycle(-1)
      BY <3>1, OneLess
    <3>3. RelayChange(o, -1)
      BY <2>3, <3>2, RelaySum
    <3>4. published'[o] # published[o]
      BY <2>1, <2>4 DEF RelayHolds
    <3> QED
      BY <3>3, <3>4
  <2>5. CASE o # e
    <3>1. PublishingCycles(o)' \subseteq PublishingCycles(o)
      BY <1>1, <2>2
    <3>2. published'[o] = published[o]
      BY <2>1, <2>5 DEF RelayHolds
    <3> QED
      BY <2>3, <3>1, <3>2, Kept, RelaySum
  <2> QED
    BY <2>4, <2>5
<1>8. CASE Relay!MarkAsSent(c)
  <2>1. /\ cycle[c] = "mark" /\ cycle'[c] = "claim"
        /\ stalled' = stalled \ {c} /\ published' = published
        /\ status' = [status EXCEPT ![e] = "SENT"] /\ e \in Orders
    BY <1>8 DEF Relay!MarkAsSent, Relay!MarkRow, Relay!Goto, Relay!Answered, RelayHolds, e
  <2>2. PublishingCycles(o)' \subseteq PublishingCycles(o)
    BY <1>1, <1>2, <2>1
  <2>3. CASE o = e
    <3>1. status'[o] = "SENT"
      BY <2>1, <2>3 DEF RelayHolds
    <3>2. Row(0)
      BY <1>3, <3>1 DEF RowChance, RowOpen
    <3> QED
      BY <2>1, <2>2, <3>2, Kept, RelaySum
  <2>4. CASE o # e
    <3>1. Relay!WorkingOn(o)' = Relay!WorkingOn(o) /\ c \notin Relay!WorkingOn(o)
      BY <1>1, <1>2, <2>1, <2>4
    <3>2. status'[o] = status[o]
      BY <2>1, <2>4 DEF RelayHolds
    <3>3. Row(0)
      BY <1>0, <1>3, <2>1, <3>1, <3>2, RowKept
    <3> QED
      BY <2>1, <2>2, <3>3, Kept, RelaySum
  <2> QED
    BY <2>3, <2>4
<1> QED
  BY <1>5, <1>6, <1>7, <1>8 DEF Relay!Step

(* A failing call leaves a row behind that will be recovered, unless its   *)
(* cycle was about to publish: then it is the cycle's chance that goes     *)
(* there, with a message on top if only the confirm was lost.  A hanging   *)
(* call leaves its row to the recovery and may publish all the same.       *)
LEMMA FaultChange ==
  ASSUME RelayHolds, NEW c \in Relay!Cycles, Relay!CallFails(c) \/ Relay!Stall(c),
         NEW o \in Orders
  PROVE  RelayChange(o, IF published'[o] = published[o] THEN 1 ELSE 0)
<1> DEFINE e == Relay!Current(c)
           Cycle(d) == Grows(PublishingCycles(o), PublishingCycles(o)', d)
<1>0. \A d \in Relay!Cycles \ {c} : cycle'[d] = cycle[d] /\ batch'[d] = batch[d]
  BY DEF Relay!CallFails, Relay!Leave, Relay!Goto, Relay!Stall, Relay!cycle, RelayHolds
<1>1. /\ PublishingCycles(o)' \ {c} = PublishingCycles(o) \ {c}
      /\ batch'[c] = batch[c] => Relay!Current(c)' = e
  BY <1>0, OtherCycles
<1>2. /\ c \in PublishingCycles(o) <=> cycle[c] = "publish" /\ e = o
      /\ c \in PublishingCycles(o)' <=> cycle'[c] = "publish" /\ Relay!Current(c)' = o
  BY DEF PublishingCycles, Relay!Cycles
<1>3. RowChance(o)' <= RowChance(o) + 1
  BY RowMayOpen
<1>4. PublishingCycles(o)' \subseteq PublishingCycles(o)
  <2>1. CASE Relay!CallFails(c)
    <3>1. cycle'[c] = "idle"
      BY <2>1 DEF Relay!CallFails, Relay!Leave, Relay!Goto, RelayHolds
    <3> QED
      BY <1>1, <1>2, <3>1
  <2>2. CASE Relay!Stall(c)
    <3>1. cycle'[c] = cycle[c] /\ batch'[c] = batch[c]
      BY <2>2 DEF Relay!Stall, Relay!cycle
    <3> QED
      BY <1>1, <1>2, <3>1
  <2> QED
    BY <2>1, <2>2
<1>5. Cycle(0)
  BY <1>4, Kept
<1>6. RelayChange(o, 1)
  BY <1>3, <1>5, RelaySum
<1>7. ASSUME published'[o] # published[o] PROVE RelayChange(o, 0)
  <2>1. /\ cycle[c] = "publish" /\ published' = [published EXCEPT ![e] = @ + 1]
        /\ cycle'[c] = "idle"
    BY <1>7
       DEF Relay!CallFails, Relay!Leave, Relay!Goto, Relay!Stall, RelayHolds
  <2>2. e = o
    BY <1>7, <2>1 DEF RelayHolds
  <2>3. c \in PublishingCycles(o) /\ PublishingCycles(o)' \subseteq PublishingCycles(o) \ {c}
    BY <1>1, <1>2, <2>1, <2>2
  <2>4. Cycle(-1)
    BY <2>3, OneLess
  <2> QED
    BY <1>3, <2>4, RelaySum
<1> QED
  BY <1>6, <1>7

(* Commits, expired claims and recoveries: a row that gets PENDING had its *)
(* chance before.                                                          *)
LEMMA RowChange ==
  ASSUME RelayHolds,
         \/ \E e \in Orders : Relay!Insert(e) \/ Relay!Expire(e)
         \/ Relay!RecoverStuckProcessing,
         NEW o \in Orders
  PROVE  RelayChange(o, 0)
<1>1. UNCHANGED <<cycle, batch, stalled>>
  BY DEF Relay!Insert, Relay!Expire, Relay!RecoverStuckProcessing, Relay!cycle
<1>2. /\ PublishingCycles(o)' = PublishingCycles(o)
      /\ Relay!WorkingOn(o)' = Relay!WorkingOn(o)
  BY <1>1 DEF PublishingCycles, Relay!WorkingOn, Relay!Cycles, Relay!Current
<1>3. RowOpen(o)' => RowOpen(o)
  <2>1. ASSUME NEW e \in Orders, Relay!Insert(e) PROVE RowOpen(o)' => RowOpen(o)
    BY <1>1, <1>2, <2>1 DEF Relay!Insert, RowOpen, RelayHolds
  <2>2. ASSUME NEW e \in Orders, Relay!Expire(e) PROVE RowOpen(o)' => RowOpen(o)
    BY <1>1, <1>2, <2>2 DEF Relay!Expire, RowOpen, RelayHolds
  <2>3. CASE Relay!RecoverStuckProcessing
    BY <1>1, <1>2, <2>3 DEF Relay!RecoverStuckProcessing, RowOpen, RelayHolds
  <2> QED
    BY <2>1, <2>2, <2>3
<1>4. RowChance(o)' <= RowChance(o) + 0
  BY <1>3 DEF RowChance
<1> QED
  BY <1>2, <1>4, Kept, RelaySum

(* A relay that dies leaves its rows to the recovery.                      *)
LEMMA RelayCrashChange ==
  ASSUME RelayHolds, NEW i \in Instances, Relay!Crash(i), NEW o \in Orders
  PROVE  RelayChange(o, 1)
<1>1. PublishingCycles(o)' \subseteq PublishingCycles(o)
  BY DEF Relay!Crash, PublishingCycles, Relay!Cycles, Relay!Current, RelayHolds
<1> QED
  BY <1>1, RowMayOpen, Kept, RelaySum

LEMMA RelayStill ==
  ASSUME UNCHANGED relay, NEW o
  PROVE  RelayChange(o, 0)
<1>1. PublishingCycles(o)' = PublishingCycles(o) /\ RowChance(o)' <= RowChance(o) + 0
  BY DEF relay, PublishingCycles, RowChance, RowOpen, Relay!WorkingOn, Relay!Cycles,
         Relay!Current
<1> QED
  BY <1>1, Kept, RelaySum

(* The consumer.  The message that arrives from the relay.                 *)
LEMMA ArriveChange ==
  ASSUME ConsumerHolds, NEW e \in Orders, Consumer!Arrive(e), NEW o \in Orders
  PROVE  ConsumerChange(o, IF o = e THEN 1 ELSE 0)
<1>1. PICK m \in Messages : /\ at[m] = "free"
                           /\ at' = [at EXCEPT ![m] = "main"]
                           /\ orderOf' = [orderOf EXCEPT ![m] = e]
  BY EnqueueSlot DEF Consumer!Arrive
<1>2. UNCHANGED <<pc, job, live, notified>> /\ notified[o] \in Nat
  BY DEF Consumer!Arrive, Consumer!handler, ConsumerHolds
<1>3. Able(o)' = Able(o)
  BY <1>2 DEF Able, MayNotify, Consumer!Handlers
<1>4. Waiting(o)' \subseteq Waiting(o) \cup {m}
  BY <1>1 DEF Waiting, ConsumerHolds
<1>5. o # e => Waiting(o)' \subseteq Waiting(o)
  BY <1>1 DEF Waiting, ConsumerHolds
<1>6. Grows(Able(o), Able(o)', 0)
  BY <1>3, Kept
<1>7. CASE o = e
  BY <1>2, <1>4, <1>6, <1>7, OneMore, ConsumerSum
<1>8. CASE o # e
  BY <1>2, <1>5, <1>6, <1>8, Kept, ConsumerSum
<1> QED
  BY <1>7, <1>8

(* A delivery hands the chance of a message on to a handler.               *)
LEMMA DeliverChange ==
  ASSUME ConsumerHolds, NEW h \in Consumer!Handlers, NEW m \in Messages,
         Consumer!Deliver(h, m), NEW o \in Orders
  PROVE  ConsumerChange(o, 0)
<1>1. /\ pc[h] = "idle" /\ at[m] = "main"
      /\ at'[m] = "unacked" /\ \A n \in Messages \ {m} : at'[n] = at[n]
      /\ pc'[h] = "get" /\ job'[h] = orderOf[m]
      /\ \A g \in Consumer!Handlers \ {h} : pc'[g] = pc[g] /\ job'[g] = job[g]
      /\ live' = live \cup {h}
      /\ UNCHANGED <<orderOf, notified>> /\ notified[o] \in Nat
  BY DEF Consumer!Deliver, ConsumerHolds
<1>2. Waiting(o)' \subseteq Waiting(o) \ {m}
  BY <1>1 DEF Waiting
<1>3. Able(o)' \subseteq Able(o) \cup {h}
  BY <1>1 DEF Able, MayNotify, Consumer!Handlers
<1>4. CASE orderOf[m] = o
  <2>1. m \in Waiting(o)
    BY <1>1, <1>4 DEF Waiting
  <2>2. Grows(Waiting(o), Waiting(o)', -1)
    BY <1>2, <2>1, OneLess
  <2>3. Grows(Able(o), Able(o)', 1)
    BY <1>3, OneMore
  <2> QED
    BY <1>1, <2>2, <2>3, ConsumerSum
<1>5. CASE orderOf[m] # o
  <2>1. Able(o)' \subseteq Able(o)
    BY <1>1, <1>5 DEF Able, MayNotify, Consumer!Handlers
  <2> QED
    BY <1>1, <1>2, <2>1, Kept, ConsumerSum
<1> QED
  BY <1>4, <1>5

(* What a step of handler h does to the messages: it leaves those that     *)
(* wait as they are, or puts one of its order among them.                  *)
Quietly == \A m \in Messages :
  /\ at'[m] \in {"main", "retry", "processing-retry"} => at'[m] = at[m]
  /\ at'[m] # "free" => orderOf'[m] = orderOf[m]

Sending(h) == \E m \in Messages :
  /\ orderOf'[m] = job[h]
  /\ \A n \in Messages \ {m} : at'[n] = at[n] /\ orderOf'[n] = orderOf[n]
  /\ at[m] \in {"free", "unacked"}

(* And to the handlers: the others stay, and h gets no new chance.         *)
Alone(h) ==
  /\ \A g \in Consumer!Handlers \ {h} : /\ pc'[g] = pc[g] /\ job'[g] = job[g]
                                        /\ g \in live' <=> g \in live
  /\ MayNotify(h)' => MayNotify(h) /\ job'[h] = job[h]

LEMMA AloneKeeps ==
  ASSUME NEW h \in Consumer!Handlers, Alone(h), NEW o
  PROVE  /\ Able(o)' \subseteq Able(o)
         /\ ~MayNotify(h)' => h \notin Able(o)'
BY DEF Alone, Able, MayNotify, Consumer!Handlers

LEMMA QuietlyKeeps ==
  ASSUME Quietly, NEW o
  PROVE  Waiting(o)' \subseteq Waiting(o)
BY DEF Quietly, Waiting

LEMMA SendingAdds ==
  ASSUME NEW h, Sending(h), NEW o
  PROVE  \/ Waiting(o)' \subseteq Waiting(o)
         \/ o = job[h] /\ \E m : Waiting(o)' \subseteq Waiting(o) \cup {m}
<1>1. PICK m \in Messages :
        /\ orderOf'[m] = job[h]
        /\ \A n \in Messages \ {m} : at'[n] = at[n] /\ orderOf'[n] = orderOf[n]
        /\ at[m] \in {"free", "unacked"}
  BY DEF Sending
<1>2. Waiting(o)' \subseteq Waiting(o) \cup {m}
  BY <1>1 DEF Waiting
<1>3. o # job[h] => Waiting(o)' \subseteq Waiting(o)
  BY <1>1 DEF Waiting
<1> QED
  BY <1>2, <1>3

(* A step without a message keeps the count, and so does one that sends    *)
(* a message or notifies and leaves the handler without a chance.          *)
LEMMA QuietChange ==
  ASSUME ConsumerHolds, NEW h \in Consumer!Handlers, Alone(h), Quietly,
         notified' = notified, NEW o \in Orders
  PROVE  ConsumerChange(o, 0)
<1>1. notified[o] \in Nat
  BY DEF ConsumerHolds
<1>2. Grows(Able(o), Able(o)', 0) /\ Grows(Waiting(o), Waiting(o)', 0)
  BY AloneKeeps, QuietlyKeeps, Kept
<1> QED
  BY <1>1, <1>2, ConsumerSum

LEMMA SendingChange ==
  ASSUME ConsumerHolds, NEW h \in Consumer!Handlers, Alone(h), Sending(h),
         notified' = notified, NEW o \in Orders
  PROVE  /\ ConsumerChange(o, 1)
         /\ MayNotify(h) /\ ~MayNotify(h)' => ConsumerChange(o, 0)
<1>1. notified[o] \in Nat
  BY DEF ConsumerHolds
<1>2. Able(o)' \subseteq Able(o) /\ (~MayNotify(h)' => h \notin Able(o)')
  BY AloneKeeps
<1>3. Grows(Able(o), Able(o)', 0)
  BY <1>2, Kept
<1>4. CASE Waiting(o)' \subseteq Waiting(o)
  <2>1. Grows(Waiting(o), Waiting(o)', 0)
    BY <1>4, Kept
  <2>2. ConsumerChange(o, 0) /\ ConsumerChange(o, 1)
    BY <1>1, <1>3, <2>1, ConsumerSum
  <2> QED
    BY <2>2
<1>5. ASSUME o = job[h], NEW m, Waiting(o)' \subseteq Waiting(o) \cup {m}
      PROVE  /\ ConsumerChange(o, 1)
             /\ MayNotify(h) /\ ~MayNotify(h)' => ConsumerChange(o, 0)
  <2>1. Grows(Waiting(o), Waiting(o)', 1)
    BY <1>5, OneMore
  <2>2. ConsumerChange(o, 1)
    BY <1>1, <1>3, <2>1, ConsumerSum
  <2>3. ASSUME MayNotify(h), ~MayNotify(h)' PROVE ConsumerChange(o, 0)
    <3>1. h \in Able(o) /\ Able(o)' \subseteq Able(o) \ {h}
      BY <1>2, <1>5, <2>3 DEF Able
    <3>2. Grows(Able(o), Able(o)', -1)
      BY <3>1, OneLess
    <3> QED
      BY <1>1, <2>1, <3>2, ConsumerSum
  <2> QED
    BY <2>2, <2>3
<1> QED
  BY <1>4, <1>5, SendingAdds

(* Where a handler may go without gaining a chance.                        *)
LEMMA GotoAlone ==
  ASSUME ConsumerHolds, NEW h \in Consumer!Handlers, NEW step, Consumer!Goto(h, step),
         \/ MayNotify(h)
         \/ step \in {"mark", "release", "ack", "settle"}
         \/ step = "catch" /\ h \notin live
  PROVE  /\ Alone(h)
         /\ step \in {"mark", "release", "ack", "settle"} => ~MayNotify(h)'
BY DEF Consumer!Goto, Alone, MayNotify, ConsumerHolds

LEMMA ReturnAlone ==
  ASSUME ConsumerHolds, NEW h \in Consumer!Handlers, Consumer!Return(h)
  PROVE  Alone(h) /\ ~MayNotify(h)'
BY DEF Consumer!Return, Alone, MayNotify, ConsumerHolds

LEMMA SendToQueueAlone ==
  ASSUME ConsumerHolds, NEW h \in Consumer!Handlers, NEW q, Consumer!SendToQueue(h, q),
         h \in live => MayNotify(h)
  PROVE  Alone(h)
<1>1. CASE h \in live /\ pc' = [pc EXCEPT ![h] = "publish"] /\ UNCHANGED <<holds, job, live>>
  BY <1>1 DEF Alone, ConsumerHolds
<1> QED
  BY <1>1, ReturnAlone DEF Consumer!SendToQueue

LEMMA StillQuiet == UNCHANGED <<at, orderOf>> => Quietly
BY DEF Quietly

LEMMA AckQuiet ==
  ASSUME ConsumerHolds, NEW h \in live, Consumer!Ack(holds[h])
  PROVE  Quietly
BY DEF Consumer!Ack, ConsumerHolds, Quietly

LEMMA NackSends ==
  ASSUME ConsumerHolds, NEW h \in live, at' = [at EXCEPT ![holds[h]] = "main"],
         UNCHANGED orderOf
  PROVE  Sending(h)
<1>1. holds[h] \in Messages /\ at[holds[h]] = "unacked" /\ orderOf[holds[h]] = job[h]
  BY DEF ConsumerHolds
<1> QED
  BY <1>1 DEF ConsumerHolds, Sending

LEMMA CopySends ==
  ASSUME ConsumerHolds, NEW h, Consumer!PublishCopy(h)
  PROVE  Sending(h)
<1>1. PICK m \in Messages : /\ at[m] = "free"
                           /\ at' = [at EXCEPT ![m] = target[h]]
                           /\ orderOf' = [orderOf EXCEPT ![m] = job[h]]
  BY EnqueueSlot DEF Consumer!PublishCopy
<1> QED
  BY <1>1 DEF ConsumerHolds, Sending

(* The notification spends the chance of its handler; what puts a message  *)
(* back, or publishes a copy, hands it on.                                 *)
LEMMA HandlerStepChange ==
  ASSUME ConsumerHolds, NEW h \in Consumer!Handlers, Consumer!Step(h), NEW o \in Orders
  PROVE  ConsumerChange(o, 0)
<1>1. UNCHANGED Consumer!message => Quietly
  BY StillQuiet DEF Consumer!message
<1>2. Alone(h) /\ Quietly /\ notified' = notified => ConsumerChange(o, 0)
  BY QuietChange
<1>3. Alone(h) /\ Sending(h) /\ notified' = notified /\ MayNotify(h) /\ ~MayNotify(h)'
        => ConsumerChange(o, 0)
  BY SendingChange
<1>4. CASE Consumer!Get(h)
  <2>1. MayNotify(h) /\ notified' = notified
    BY <1>4 DEF Consumer!Get, MayNotify
  <2>2. Alone(h) /\ Quietly
    BY <1>1, <1>4, <2>1, GotoAlone, ReturnAlone, AckQuiet DEF Consumer!Get
  <2> QED
    BY <1>2, <2>1, <2>2
<1>5. CASE Consumer!Acquire(h)
  <2>1. MayNotify(h) /\ notified' = notified
    BY <1>5 DEF Consumer!Acquire, MayNotify
  <2>2. Alone(h) /\ Quietly
    BY <1>1, <1>5, <2>1, GotoAlone, SendToQueueAlone DEF Consumer!Acquire
  <2> QED
    BY <1>2, <2>1, <2>2
<1>6. CASE Consumer!Notify(h)
  <2>1. /\ MayNotify(h) /\ Quietly
        /\ notified' = [notified EXCEPT ![job[h]] = @ + 1]
    BY <1>1, <1>6 DEF Consumer!Notify, MayNotify
  <2>2. Alone(h) /\ ~MayNotify(h)'
    BY <1>6, <2>1, GotoAlone DEF Consumer!Notify
  <2>3. /\ Able(o)' \subseteq Able(o) /\ h \notin Able(o)'
        /\ Waiting(o)' \subseteq Waiting(o)
    BY <2>1, <2>2, AloneKeeps, QuietlyKeeps
  <2>4. /\ notified[o] \in Nat
        /\ notified'[o] = IF o = job[h] THEN notified[o] + 1 ELSE notified[o]
    BY <2>1 DEF ConsumerHolds
  <2>5. Grows(Waiting(o), Waiting(o)', 0)
    BY <2>3, Kept
  <2>6. CASE o = job[h]
    <3>1. h \in Able(o) /\ Able(o)' \subseteq Able(o) \ {h}
      BY <2>1, <2>3, <2>6 DEF Able
    <3>2. Grows(Able(o), Able(o)', -1)
      BY <3>1, OneLess
    <3> QED
      BY <2>4, <2>5, <2>6, <3>2, ConsumerSum
  <2>7. CASE o # job[h]
    <3>1. Grows(Able(o), Able(o)', 0)
      BY <2>3, Kept
    <3> QED
      BY <2>4, <2>5, <2>7, <3>1, ConsumerSum
  <2> QED
    BY <2>6, <2>7
<1>7. CASE Consumer!MarkProcessed(h) \/ Consumer!Release(h)
  <2>1. \E step \in {"release", "ack"} : Consumer!Goto(h, step)
    BY <1>7 DEF Consumer!MarkProcessed, Consumer!Release
  <2>2. Quietly /\ notified' = notified
    BY <1>1, <1>7 DEF Consumer!MarkProcessed, Consumer!Release
  <2> QED
    BY <1>2, <2>1, <2>2, GotoAlone
<1>8. CASE Consumer!AckProcessed(h)
  BY <1>1, <1>2, <1>8, GotoAlone, ReturnAlone, AckQuiet DEF Consumer!AckProcessed
<1>9. CASE Consumer!Catch(h)
  <2>1. h \in live => MayNotify(h)
    BY <1>9 DEF Consumer!Catch, MayNotify
  <2> QED
    BY <1>1, <1>2, <1>9, <2>1, SendToQueueAlone DEF Consumer!Catch
<1>10. CASE Consumer!Publish(h)
  <2>1. MayNotify(h) /\ Sending(h) /\ notified' = notified /\ Consumer!Goto(h, "settle")
    BY <1>10, CopySends DEF Consumer!Publish, MayNotify
  <2>2. Alone(h) /\ ~MayNotify(h)'
    BY <2>1, GotoAlone
  <2> QED
    BY <1>3, <2>1, <2>2
<1>11. CASE Consumer!Nack(h)
  <2>1. Alone(h) /\ ~MayNotify(h)' /\ notified' = notified
    BY <1>11, ReturnAlone DEF Consumer!Nack
  <2>2. CASE h \in live
    <3>1. MayNotify(h) /\ Sending(h)
      BY <1>11, <2>2, NackSends DEF Consumer!Nack, MayNotify
    <3> QED
      BY <1>3, <2>1, <3>1
  <2>3. CASE h \notin live
    <3>1. Quietly
      BY <1>11, <2>3, StillQuiet DEF Consumer!Nack
    <3> QED
      BY <1>2, <2>1, <3>1
  <2> QED
    BY <2>2, <2>3
<1>12. CASE Consumer!Settle(h) \/ Consumer!PublishAbandoned(h)
  <2>1. Alone(h) /\ notified' = notified
    BY <1>12, ReturnAlone DEF Consumer!Settle, Consumer!PublishAbandoned
  <2>2. Quietly
    BY <1>1, <1>12, AckQuiet DEF Consumer!Settle, Consumer!PublishAbandoned
  <2> QED
    BY <1>2, <2>1, <2>2
<1> QED
  BY <1>4, <1>5, <1>6, <1>7, <1>8, <1>9, <1>10, <1>11, <1>12 DEF Consumer!Step

(* Only a lost confirm makes two of one: the copy, and the original that   *)
(* is going to be requeued.                                                *)
LEMMA HandlerFaultChange ==
  ASSUME ConsumerHolds, NEW h \in Consumer!Handlers, Consumer!Failure(h), NEW o \in Orders
  PROVE  ConsumerChange(o, 1)
<1>1. UNCHANGED Consumer!message => Quietly
  BY StillQuiet DEF Consumer!message
<1>2. MayNotify(h) /\ notified' = notified
  BY DEF Consumer!Failure, Consumer!GetFails, Consumer!AcquireFails, Consumer!NotifyFails,
         Consumer!PublishFails, MayNotify
<1>3. CASE Consumer!GetFails(h) \/ Consumer!AcquireFails(h) \/ Consumer!NotifyFails(h)
  <2>1. Quietly
    BY <1>1, <1>3 DEF Consumer!GetFails, Consumer!AcquireFails, Consumer!NotifyFails
  <2>2. Alone(h)
    BY <1>2, <1>3, GotoAlone, SendToQueueAlone
       DEF Consumer!GetFails, Consumer!AcquireFails, Consumer!NotifyFails,
           Consumer!RedisFailed
  <2>3. Grows(Able(o), Able(o)', 0) /\ Grows(Waiting(o), Waiting(o)', 0)
    BY <2>1, <2>2, AloneKeeps, QuietlyKeeps, Kept
  <2> QED
    BY <1>2, <2>3, ConsumerSum DEF ConsumerHolds
<1>4. CASE Consumer!PublishFails(h)
  <2>1. Alone(h) /\ Sending(h)
    BY <1>2, <1>4, GotoAlone, ReturnAlone, NackSends, CopySends DEF Consumer!PublishFails
  <2> QED
    BY <1>2, <2>1, SendingChange
<1> QED
  BY <1>3, <1>4 DEF Consumer!Failure

(* The broker, Redis and time move messages among the queues that count.   *)
LEMMA BackgroundChange ==
  ASSUME ConsumerHolds, Consumer!RedisForgets \/ Consumer!SlowDown \/ Consumer!Tick,
         NEW o \in Orders
  PROVE  ConsumerChange(o, 0)
<1>1. UNCHANGED <<pc, job, live, notified, orderOf>> /\ notified[o] \in Nat
  BY DEF Consumer!RedisForgets, Consumer!SlowDown, Consumer!Tick, Consumer!handler,
         Consumer!message, ConsumerHolds
<1>2. \A m \in Messages : at'[m] \in {"main", "retry", "processing-retry"}
                            => at[m] \in {"main", "retry", "processing-retry"}
  BY DEF Consumer!RedisForgets, Consumer!SlowDown, Consumer!Tick, Consumer!message,
         Consumer!Delayed
<1>3. Waiting(o)' \subseteq Waiting(o) /\ Able(o)' \subseteq Able(o)
  BY <1>1, <1>2 DEF Waiting, Able, MayNotify, Consumer!Handlers
<1> QED
  BY <1>1, <1>3, Kept, ConsumerSum

(* A channel that closes, or a process that dies, while nothing else has   *)
(* gone wrong: of an order there is one message that can return.           *)
LEMMA RequeueChange ==
  ASSUME ConsumerHolds, SmoothConsumer, NEW i \in Instances,
         Consumer!ChannelCloses(i) \/ Consumer!Crash(i), NEW o \in Orders
  PROVE  ConsumerChange(o, 1)
<1> DEFINE hs == live \cap Consumer!HandlersOn(i)
<1>1. Consumer!Requeue(hs) /\ notified' = notified /\ notified[o] \in Nat
  BY DEF Consumer!ChannelCloses, Consumer!Crash, ConsumerHolds
<1>2. /\ orderOf' = orderOf
      /\ \A m \in Messages : at'[m] # at[m] => \E g \in live : holds[g] = m
  BY <1>1 DEF Consumer!Requeue
<1>3. live' \subseteq live
  BY DEF Consumer!ChannelCloses, Consumer!Crash
<1>4. \A g \in Consumer!Handlers :
        \/ pc'[g] = "idle"
        \/ pc'[g] = pc[g] /\ job'[g] = job[g]
  BY DEF Consumer!ChannelCloses, Consumer!Crash
<1>5. Able(o)' \subseteq Able(o)
  BY <1>3, <1>4 DEF Able, MayNotify, Consumer!Handlers
<1>6. \E x : Waiting(o)' \subseteq Waiting(o) \cup {x}
  <2>1. CASE \E g \in live : job[g] = o
    <3>1. PICK g \in live : job[g] = o
      BY <2>1
    <3>2. \A m \in Messages : at[m] # "free" /\ orderOf[m] = o => m = holds[g]
      BY <3>1, SmoothHandler DEF ConsumerHolds
    <3>3. \A f \in live : at[holds[f]] # "free"
      BY DEF ConsumerHolds
    <3>4. Waiting(o)' \subseteq Waiting(o) \cup {holds[g]}
      BY <1>2, <3>2, <3>3 DEF Waiting
    <3> QED
      BY <3>4
  <2>2. CASE \A g \in live : job[g] # o
    <3>1. \A m \in Messages : orderOf[m] = o => at'[m] = at[m]
      BY <1>2, <2>2 DEF ConsumerHolds
    <3>2. Waiting(o)' \subseteq Waiting(o)
      BY <1>2, <3>1 DEF Waiting
    <3> QED
      BY <3>2
  <2> QED
    BY <2>1, <2>2
<1>7. Grows(Able(o), Able(o)', 0) /\ Grows(Waiting(o), Waiting(o)', 1)
  BY <1>5, <1>6, Kept, OneMore
<1> QED
  BY <1>1, <1>7, ConsumerSum

LEMMA ConsumerStill ==
  ASSUME ConsumerHolds, UNCHANGED consumer, NEW o \in Orders
  PROVE  ConsumerChange(o, 0)
<1>1. Waiting(o)' = Waiting(o) /\ Able(o)' = Able(o) /\ notified' = notified
  BY DEF consumer, Waiting, Able, MayNotify, Consumer!Handlers
<1> QED
  BY <1>1, Kept, ConsumerSum DEF ConsumerHolds

(* Together.  The halves change by what the mishaps allow.                 *)
Counted == Mishaps <= 1 \/ NoMassRequeue

Change(o, x) == \E r, k \in Int : RelayChange(o, r) /\ ConsumerChange(o, k) /\ r + k <= x

LEMMA BudgetSum ==
  ASSUME ConsumerHolds, ConsumerHolds', Budget, Mishaps \in Nat, NEW x \in Nat,
         Mishaps' = Mishaps + x, Counted' => \A o \in Orders : Change(o, x)
  PROVE  Budget'
<1> SUFFICES ASSUME Counted', NEW o \in Orders
             PROVE  /\ RelayFinite(o)' /\ ConsumerFinite(o)'
                    /\ Publishable(o)' + Notifiable(o)' <= 1 + Mishaps'
  BY DEF Budget, Counted, NoMassRequeue
<1>1. Counted
  BY DEF Counted, NoMassRequeue
<1>2. /\ RelayFinite(o) /\ ConsumerFinite(o)
      /\ Publishable(o) + Notifiable(o) <= 1 + Mishaps
  BY <1>1 DEF Budget, Counted
<1>3. PICK r \in Int, k \in Int :
        RelayChange(o, r) /\ ConsumerChange(o, k) /\ r + k <= x
  BY DEF Change
<1>4. /\ RelayFinite(o)' /\ Publishable(o)' <= Publishable(o) + r
      /\ ConsumerFinite(o)' /\ Notifiable(o)' <= Notifiable(o) + k
  BY <1>2, <1>3 DEF RelayChange, ConsumerChange
<1>5. Publishable(o) \in Int /\ Publishable(o)' \in Int
  <2>1. RowChance(o) \in Int /\ RowChance(o)' \in Int
    BY DEF RowChance
  <2>2. Cardinality(PublishingCycles(o)) \in Int /\ Cardinality(PublishingCycles(o)') \in Int
    BY <1>2, <1>4, FS_CardinalityType DEF RelayFinite
  <2> QED
    BY <2>1, <2>2 DEF Publishable
<1>6. Notifiable(o) \in Int /\ Notifiable(o)' \in Int
  <2>1. notified[o] \in Nat /\ notified'[o] \in Nat
    BY DEF ConsumerHolds
  <2>2. Cardinality(Waiting(o)) \in Nat /\ Cardinality(Able(o)) \in Nat
    BY <1>2, FS_CardinalityType DEF ConsumerFinite
  <2>3. Cardinality(Waiting(o)') \in Nat /\ Cardinality(Able(o)') \in Nat
    BY <1>4, FS_CardinalityType DEF ConsumerFinite
  <2> QED
    BY <2>1, <2>2, <2>3 DEF Notifiable
<1> QED
  BY <1>2, <1>3, <1>4, <1>5, <1>6

LEMMA BudgetNext ==
  ASSUME RelayHolds, RelayHolds', ConsumerHolds, ConsumerHolds', Smooth, Budget, [Next]_vars
  PROVE  Budget'
<1>0. /\ faults \in Nat /\ relayFaults \in Nat /\ stalls \in Nat
      /\ Mishaps = faults + relayFaults + stalls /\ Mishaps \in Nat
      /\ Mishaps' = faults' + relayFaults' + stalls'
  BY DEF RelayHolds, ConsumerHolds, Mishaps
<1>1. ASSUME NEW x \in 0..2, Mishaps' = Mishaps + x,
             Counted' => \A o \in Orders : Change(o, x)
      PROVE  Budget'
  <2>1. Mishaps \in Nat /\ x \in Nat
    BY <1>0
  <2> QED
    BY <1>1, <2>1, BudgetSum
(* A process dies or a channel closes: it is the first mishap.             *)
<1>2. ASSUME NEW kind \in {"crash", "channel"}, Consumer!Fault(kind), Counted',
             NEW x \in 1..2, Mishaps' = Mishaps + x
      PROVE  SmoothConsumer
  <2>1. ~NoMassRequeue
    BY <1>2 DEF Consumer!Fault, NoMassRequeue
  <2>2. Mishaps' <= 1
    BY <1>2, <2>1 DEF Counted, NoMassRequeue
  <2>3. Mishaps = 0
    BY <1>0, <1>2, <2>2
  <2> QED
    BY <2>3 DEF Smooth
<1>3. CASE UNCHANGED consumer /\ \E e \in Orders : Commit(e) \/ Expire(e)
  <2>1. Mishaps' = Mishaps + 0
    BY <1>0, <1>3 DEF Commit, Expire, Relay!Insert, Relay!Expire, consumer
  <2>2. ASSUME NEW o \in Orders PROVE Change(o, 0)
    BY <1>3, RowChange, ConsumerStill DEF Commit, Expire, Change
  <2> QED
    BY <1>1, <2>1, <2>2
<1>4. CASE Recover
  <2>1. Mishaps' = Mishaps + 0
    BY <1>0, <1>4 DEF Recover, Relay!RecoverStuckProcessing, consumer
  <2>2. ASSUME NEW o \in Orders PROVE Change(o, 0)
    BY <1>4, RowChange, ConsumerStill DEF Recover, Change
  <2> QED
    BY <1>1, <2>1, <2>2
(* What the relay publishes, the consumer gains.                           *)
<1>5. ASSUME HandOver, NEW o \in Orders, NEW x \in 0..1,
             RelayChange(o, IF published'[o] = published[o] THEN x ELSE x - 1)
      PROVE  Change(o, x)
  <2>1. CASE UNCHANGED consumer /\ published' = published
    BY <1>5, <2>1, ConsumerStill DEF Change
  <2>2. ASSUME NEW e \in Orders, published'[e] # published[e], Consumer!Arrive(e)
        PROVE  Change(o, x)
    <3>1. published'[o] = published[o] <=> o # e
      BY <2>2 DEF Consumer!Arrive, RelayHolds
    <3>2. ConsumerChange(o, IF o = e THEN 1 ELSE 0)
      BY <2>2, ArriveChange
    <3>3. CASE o = e
      <4>1. RelayChange(o, x - 1) /\ ConsumerChange(o, 1)
        BY <1>5, <3>1, <3>2, <3>3
      <4> QED
        BY <4>1 DEF Change
    <3>4. CASE o # e
      <4>1. RelayChange(o, x) /\ ConsumerChange(o, 0)
        BY <1>5, <3>1, <3>2, <3>4
      <4> QED
        BY <4>1 DEF Change
    <3> QED
      BY <3>3, <3>4
  <2> QED
    BY <1>5, <2>1, <2>2 DEF HandOver
<1>6. HandOver => faults' = faults
  BY DEF HandOver, consumer, Consumer!Arrive
<1>7. ASSUME NEW c \in Relay!Cycles, RelayStep(c) PROVE Budget'
  <2>1. Mishaps' = Mishaps + 0
    BY <1>0, <1>6, <1>7
       DEF RelayStep, Relay!Step, Relay!Start, Relay!FindPending, Relay!Claim,
           Relay!Publish, Relay!MarkAsSent, Relay!EndCycle
  <2>2. ASSUME NEW o \in Orders PROVE Change(o, 0)
    <3>1. RelayChange(o, IF published'[o] = published[o] THEN 0 ELSE -1)
      BY <1>7, StepChange DEF RelayStep
    <3>2. RelayChange(o, IF published'[o] = published[o] THEN 0 ELSE 0 - 1)
      BY <3>1
    <3> QED
      BY <1>5, <1>7, <3>2 DEF RelayStep
  <2> QED
    BY <1>1, <2>1, <2>2
<1>8. ASSUME NEW c \in Relay!Cycles, RelayFault(c) PROVE Budget'
  <2>1. Mishaps' = Mishaps + 1
    BY <1>0, <1>6, <1>8 DEF RelayFault, Relay!CallFails, Relay!Failing, Relay!Stall
  <2>2. ASSUME NEW o \in Orders PROVE Change(o, 1)
    <3>1. RelayChange(o, IF published'[o] = published[o] THEN 1 ELSE 0)
      BY <1>8, FaultChange DEF RelayFault
    <3>2. RelayChange(o, IF published'[o] = published[o] THEN 1 ELSE 1 - 1)
      BY <3>1
    <3> QED
      BY <1>5, <1>8, <3>2 DEF RelayFault
  <2> QED
    BY <1>1, <2>1, <2>2
<1>9. UNCHANGED relay => UNCHANGED <<relayFaults, stalls>>
  BY DEF relay
<1>10. ASSUME NEW h \in Consumer!Handlers, HandlerStep(h) PROVE Budget'
  <2>1. \E x \in 0..1 : Mishaps' = Mishaps + x
    <3>1. faults' = faults \/ faults' = faults + 1
      BY <1>10
         DEF HandlerStep, Consumer!Step, Consumer!Get, Consumer!Acquire, Consumer!Notify,
             Consumer!MarkProcessed, Consumer!Release, Consumer!AckProcessed,
             Consumer!Catch, Consumer!Publish, Consumer!Nack, Consumer!Settle,
             Consumer!PublishAbandoned, Consumer!DeleteLock, Consumer!Fault
    <3> QED
      BY <1>0, <1>9, <1>10, <3>1 DEF HandlerStep
  <2>2. ASSUME NEW o \in Orders, NEW x \in 0..1 PROVE Change(o, x)
    <3>1. RelayChange(o, 0) /\ ConsumerChange(o, 0)
      BY <1>10, RelayStill, HandlerStepChange DEF HandlerStep
    <3> QED
      BY <3>1 DEF Change
  <2> QED
    BY <1>1, <2>1, <2>2
<1>11. ASSUME NEW h \in Consumer!Handlers, HandlerFault(h) PROVE Budget'
  <2>1. Mishaps' = Mishaps + 1
    BY <1>0, <1>9, <1>11
       DEF HandlerFault, Consumer!Failure, Consumer!GetFails, Consumer!AcquireFails,
           Consumer!NotifyFails, Consumer!PublishFails, Consumer!Fault
  <2>2. ASSUME NEW o \in Orders PROVE Change(o, 1)
    <3>1. RelayChange(o, 0) /\ ConsumerChange(o, 1)
      BY <1>11, RelayStill, HandlerFaultChange DEF HandlerFault
    <3> QED
      BY <3>1 DEF Change
  <2> QED
    BY <1>1, <2>1, <2>2
<1>12. CASE Deliver
  <2>1. Mishaps' = Mishaps + 0
    BY <1>0, <1>9, <1>12 DEF Deliver, Consumer!Deliver
  <2>2. ASSUME NEW o \in Orders PROVE Change(o, 0)
    <3>1. RelayChange(o, 0) /\ ConsumerChange(o, 0)
      BY <1>12, RelayStill, DeliverChange DEF Deliver
    <3> QED
      BY <3>1 DEF Change
  <2> QED
    BY <1>1, <2>1, <2>2
<1>13. CASE RedisForgets \/ SlowDown \/ Tick
  <2>1. \E x \in 0..1 : Mishaps' = Mishaps + x
    BY <1>0, <1>9, <1>13
       DEF RedisForgets, SlowDown, Tick, Consumer!RedisForgets, Consumer!SlowDown,
           Consumer!Tick, Consumer!Fault
  <2>2. ASSUME NEW o \in Orders, NEW x \in 0..1 PROVE Change(o, x)
    <3>1. RelayChange(o, 0) /\ ConsumerChange(o, 0)
      BY <1>13, RelayStill, BackgroundChange DEF RedisForgets, SlowDown, Tick
    <3> QED
      BY <3>1 DEF Change
  <2> QED
    BY <1>1, <2>1, <2>2
<1>14. ASSUME NEW i \in Instances, ChannelCloses(i) PROVE Budget'
  <2>1. Consumer!ChannelCloses(i) /\ Consumer!Fault("channel") /\ UNCHANGED relay
    BY <1>14 DEF ChannelCloses, Consumer!ChannelCloses
  <2>2. Mishaps' = Mishaps + 1
    BY <1>0, <1>9, <2>1 DEF Consumer!Fault
  <2>3. ASSUME Counted', NEW o \in Orders PROVE Change(o, 1)
    <3>1. SmoothConsumer
      BY <1>0, <1>2, <2>1, <2>2, <2>3
    <3>2. RelayChange(o, 0) /\ ConsumerChange(o, 1)
      BY <2>1, <3>1, RelayStill, RequeueChange
    <3> QED
      BY <3>2 DEF Change
  <2> QED
    BY <1>1, <2>2, <2>3
(* The parts of a process die together, each with its mishap.              *)
<1>15. ASSUME NEW i \in Instances, Crash(i) PROVE Budget'
  <2>1. PICK x \in 0..1 : /\ relayFaults' = relayFaults + x /\ stalls' = stalls
                          /\ \A o \in Orders : RelayChange(o, x)
    <3>1. CASE Relay!Crash(i)
      <4>1. relayFaults' = relayFaults + 1 /\ stalls' = stalls
        BY <3>1 DEF Relay!Crash
      <4> QED
        BY <3>1, <4>1, RelayCrashChange
    <3>2. CASE UNCHANGED relay
      <4>1. relayFaults' = relayFaults + 0 /\ stalls' = stalls
        BY <1>0, <1>9, <3>2
      <4> QED
        BY <3>2, <4>1, RelayStill
    <3> QED
      BY <1>15, <3>1, <3>2 DEF Crash
  <2>2. CASE Consumer!Crash(i)
    <3>1. Consumer!Fault("crash") /\ faults' = faults + 1
      BY <2>2 DEF Consumer!Crash, Consumer!Fault
    <3>2. x + 1 \in 0..2 /\ Mishaps' = Mishaps + (x + 1)
      BY <1>0, <2>1, <3>1
    <3>3. ASSUME Counted', NEW o \in Orders PROVE Change(o, x + 1)
      <4>1. SmoothConsumer
        BY <1>0, <1>2, <3>1, <3>2, <3>3
      <4>2. RelayChange(o, x) /\ ConsumerChange(o, 1)
        BY <2>1, <2>2, <4>1, RequeueChange
      <4> QED
        BY <4>2 DEF Change
    <3> QED
      BY <1>1, <3>2, <3>3
  <2>3. CASE UNCHANGED consumer
    <3>1. Mishaps' = Mishaps + x
      BY <1>0, <2>1, <2>3 DEF consumer
    <3>2. ASSUME NEW o \in Orders PROVE Change(o, x)
      BY <2>1, <2>3, ConsumerStill DEF Change
    <3> QED
      BY <1>1, <3>1, <3>2
  <2> QED
    BY <1>15, <2>2, <2>3 DEF Crash
<1>16. CASE UNCHANGED vars
  <2>1. UNCHANGED relay /\ UNCHANGED consumer
    BY <1>16 DEF vars
  <2>2. Mishaps' = Mishaps + 0
    BY <1>0, <1>9, <2>1 DEF consumer
  <2>3. ASSUME NEW o \in Orders PROVE Change(o, 0)
    BY <2>1, RelayStill, ConsumerStill DEF Change
  <2> QED
    BY <1>1, <2>2, <2>3
<1>17. \A e \in Orders : Commit(e) \/ Expire(e) => UNCHANGED consumer
  BY DEF Commit, Expire
<1> QED
  BY <1>3, <1>4, <1>7, <1>8, <1>10, <1>11, <1>12, <1>13, <1>14, <1>15, <1>16, <1>17
     DEF Next, Steps

LEMMA BudgetInit == Init => Budget
<1> SUFFICES ASSUME Init, NEW o \in Orders
             PROVE  /\ RelayFinite(o) /\ ConsumerFinite(o)
                    /\ Publishable(o) + Notifiable(o) <= 1 + Mishaps
  BY DEF Budget
<1>1. PublishingCycles(o) = {} /\ Waiting(o) = {} /\ Able(o) = {}
  BY DEF Init, Relay!Init, Consumer!Init, PublishingCycles, Waiting, Able, MayNotify
<1>2. notified[o] = 0 /\ Mishaps = 0 /\ RowChance(o) = 1
  BY DEF Init, Relay!Init, Consumer!Init, Mishaps, RowChance, RowOpen
<1> QED
  BY <1>1, <1>2, FS_EmptySet DEF RelayFinite, ConsumerFinite, Publishable, Notifiable

LEMMA BudgetInvariance == Spec => []Budget
<1>1. Inv /\ Inv' /\ Budget /\ [Next]_vars => Budget'
  <2>1. Inv => RelayHolds /\ ConsumerHolds /\ Smooth
    BY RelayKnows, ConsumerKnows DEF Inv
  <2>2. Inv' => RelayHolds' /\ ConsumerHolds'
    BY <2>1, PTL
  <2> QED
    BY <2>1, <2>2, BudgetNext
<1> QED
  BY <1>1, BudgetInit, Invariance, PTL DEF Spec

(* What is counted bounds the notifications.                               *)
LEMMA BudgetBounds ==
  RelayHolds /\ ConsumerHolds /\ Budget /\ Counted =>
    \A o \in Orders : notified[o] <= 1 + Mishaps
<1> SUFFICES ASSUME RelayHolds, ConsumerHolds, Budget, Counted, NEW o \in Orders
             PROVE  notified[o] <= 1 + Mishaps
  OBVIOUS
<1>1. /\ RelayFinite(o) /\ ConsumerFinite(o)
      /\ Publishable(o) + Notifiable(o) <= 1 + Mishaps
  BY DEF Budget, Counted
<1>2. Publishable(o) \in Nat
  <2>1. RowChance(o) \in Nat
    BY DEF RowChance
  <2>2. Cardinality(PublishingCycles(o)) \in Nat
    BY <1>1, FS_CardinalityType DEF RelayFinite
  <2> QED
    BY <2>1, <2>2 DEF Publishable
<1>3. notified[o] \in Nat /\ Notifiable(o) \in Nat /\ notified[o] <= Notifiable(o)
  <2>1. notified[o] \in Nat
    BY DEF ConsumerHolds
  <2>2. Cardinality(Waiting(o)) \in Nat /\ Cardinality(Able(o)) \in Nat
    BY <1>1, FS_CardinalityType DEF ConsumerFinite
  <2> QED
    BY <2>1, <2>2 DEF Notifiable
<1>4. Mishaps \in Nat
  BY DEF RelayHolds, ConsumerHolds, Mishaps
<1> QED
  BY <1>1, <1>2, <1>3, <1>4

(* One crash of a relay or of a consumer, one failing or hanging call, one *)
(* closed channel or one loss of the Redis keys costs a buyer at most one  *)
(* repetition.                                                             *)
THEOREM OneMishapOneRepetition == Spec => []RepetitionsNeedFaults
<1>1. Inv /\ Budget => RepetitionsNeedFaults
  <2> SUFFICES ASSUME Inv, Budget PROVE RepetitionsNeedFaults
    OBVIOUS
  <2>1. Inv => NoRepetitionWithoutFaults
    BY DEF Inv, Smooth, SmoothConsumer, SmoothOrder, NoRepetitionWithoutFaults
  <2>2. ASSUME Mishaps = 1, NEW o \in Orders PROVE notified[o] <= 2
    <3>1. notified[o] <= 1 + Mishaps
      BY <2>2, RelayKnows, ConsumerKnows, BudgetBounds DEF Inv, Counted
    <3> QED
      BY <2>2, <3>1
  <2> QED
    BY <2>1, <2>2 DEF RepetitionsNeedFaults
<1> QED
  BY <1>1, BudgetInvariance, Invariance, PTL

(* Where no channel closes and no process dies with messages unacked, this *)
(* holds of each of any number of mishaps: relays that die, failing and    *)
(* hanging calls, lost answers and lost Redis keys do not multiply.        *)
RepetitionsAreCounted ==
  NoMassRequeue => \A o \in Orders : notified[o] <= 1 + Mishaps

THEOREM MishapsAddUp == Spec => []RepetitionsAreCounted
<1>1. Inv /\ Budget => RepetitionsAreCounted
  BY RelayKnows, ConsumerKnows, BudgetBounds DEF Inv, Counted, RepetitionsAreCounted
<1> QED
  BY <1>1, BudgetInvariance, Invariance, PTL

=============================================================================
