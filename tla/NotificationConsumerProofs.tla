---------------------- MODULE NotificationConsumerProofs ----------------------
(***************************************************************************)
(* Proofs about NotificationConsumer for any number of orders, message     *)
(* slots, instances, handlers, duplicates and faults of every kind.        *)
(*                                                                         *)
(* None of the four invariants is inductive.  They rest on what a handler  *)
(* with an open channel may rely on (LiveHolds, PublishWithin); on the     *)
(* fact that an order nobody was told about keeps a message that no        *)
(* handler is about to ack (Unforgotten); on the ticks of a message in the *)
(* processing-retry queue, which outlast the lock that sent it there       *)
(* (Rounds); and on who owns a lock (Owned).  What a step does to the      *)
(* queues is one of a few kinds, and each kind has a lemma; what it does   *)
(* to Redis and the history is summed up by StoreStep.                     *)
(***************************************************************************)
EXTENDS NotificationConsumer, FiniteSetTheorems, TLAPS

(* The two halves of TypeOK.                                               *)
QueueTypes ==
  /\ at \in [Messages -> Queues \cup {"unacked", "free"}]
  /\ orderOf \in [Messages -> Orders]
  /\ retryCount \in [Messages -> 0..MaxRedisRetries]
  /\ procRetryCount \in [Messages -> 0..MaxProcessingRetries]
  /\ ttl \in [Messages -> 0..ProcessingRetryTTL]
  /\ pc \in [Handlers -> {"idle", "get", "lock", "notify", "mark", "release", "ack",
                          "catch", "publish", "settle", "nack"}]
  /\ holds \in [Handlers -> Messages]
  /\ job \in [Handlers -> Orders]
  /\ target \in [Handlers -> Queues]
  /\ live \subseteq Handlers

StoreTypes ==
  /\ lock \in [Orders -> 0..LockTTL]
  /\ processed \subseteq Orders
  /\ notified \in [Orders -> Nat]
  /\ acquisitions \in [Orders -> Nat]
  /\ {disturbed, slow} \subseteq BOOLEAN
  /\ published \in [Orders -> 0..Deliveries]
  /\ faults \in 0..MaxFaults

(* A handler whose channel is open holds one unacked message of its own,   *)
(* about the order it read from it.                                        *)
LiveHolds ==
  /\ \A h \in live : /\ pc[h] # "idle"
                     /\ at[holds[h]] = "unacked"
                     /\ orderOf[holds[h]] = job[h]
  /\ \A g, h \in live : holds[g] = holds[h] => g = h

(* A message in a delay queue has time left.                               *)
DelayedWait == \A m \in Delayed : ttl[m] > 0

(* Whether a copy of m may enter queue q: its headers allow another, and   *)
(* the lock that is in the way had an owner more than m has made rounds.   *)
MayEnter(q, m) ==
  /\ q \in {"retry", "main"} => retryCount[m] < MaxRedisRetries
  /\ q = "processing-retry" => /\ procRetryCount[m] < MaxProcessingRetries
                               /\ procRetryCount[m] < acquisitions[orderOf[m]]

PublishWithin == \A h \in live : pc[h] = "publish" => MayEnter(target[h], holds[h])

(* A message about o that no handler is about to ack in favour of a copy.  *)
Kept(m, o) ==
  /\ orderOf[m] = o
  /\ at[m] # "free"
  /\ \A h \in live : pc[h] = "settle" => holds[h] # m

Unforgotten ==
  \A o \in Orders : published[o] = 0 \/ notified[o] > 0 \/ \E m \in Messages : Kept(m, o)

(* The lock that sent m to the processing-retry queue runs out while m is  *)
(* there: whoever holds one when m is back, or almost, is another owner.   *)
Outnumbered(m) ==
  LET o == orderOf[m] IN
  /\ procRetryCount[m] <= acquisitions[o]
  /\ (at[m] \notin {"free", "processing-retry"} /\ lock[o] > 0)
       => procRetryCount[m] < acquisitions[o]
  /\ (at[m] = "processing-retry" /\ lock[o] >= ttl[m])
       => procRetryCount[m] < acquisitions[o]
  /\ at[m] = "free" => procRetryCount[m] = 0

Rounds == \A m \in Messages : Outnumbered(m)

LocksAcquired == \A o \in Orders : lock[o] > 0 => acquisitions[o] > 0

QueueInv == /\ QueueTypes
            /\ LiveHolds
            /\ DelayedWait
            /\ PublishWithin
            /\ Unforgotten
            /\ Rounds

(* A handler past the notification, and a processed key, mean there was    *)
(* one.                                                                    *)
NotifiedBefore ==
  /\ \A h \in Handlers : pc[h] \in {"mark", "release", "ack"} => notified[job[h]] > 0
  /\ ProcessedWasNotified

(* The handlers that took the lock and have not yet tried to release it.   *)
Owning(h) == pc[h] \in {"notify", "mark", "release", "catch"}

Owned ==
  /\ ~disturbed => \A h \in Handlers : pc[h] # "idle" => h \in live
  /\ ~disturbed /\ ~slow =>
       \A g, h \in Handlers :
         /\ Owning(h) => lock[job[h]] > 0
         /\ Owning(g) /\ Owning(h) /\ job[g] = job[h] => g = h

Inv == QueueInv /\ StoreTypes /\ LocksAcquired /\ NotifiedBefore /\ Owned

-----------------------------------------------------------------------------
(* The invariant types every variable.                                     *)
LEMMA TypesSplit == TypeOK <=> QueueTypes /\ StoreTypes
BY DEF TypeOK, QueueTypes, StoreTypes

(* The values idle handlers and free slots are reset to.                   *)
LEMMA ResetValues ==
  /\ (CHOOSE o \in Orders : TRUE) \in Orders
  /\ (CHOOSE m \in Messages : TRUE) \in Messages
BY ConsumerAssumption

(* A copy goes into some slot that was free.                               *)
LEMMA EnqueueSlot ==
  ASSUME NEW q, NEW o, NEW retries, NEW procRetries, Enqueue(q, o, retries, procRetries)
  PROVE  \E m \in Messages :
           /\ at[m] = "free"
           /\ at' = [at EXCEPT ![m] = q]
           /\ orderOf' = [orderOf EXCEPT ![m] = o]
           /\ retryCount' = [retryCount EXCEPT ![m] = retries]
           /\ procRetryCount' = [procRetryCount EXCEPT ![m] = procRetries]
           /\ ttl' = [ttl EXCEPT ![m] = Delay(q)]
<1> DEFINE free == {n \in Messages : at[n] = "free"}
           slot == CHOOSE n \in free : TRUE
<1>1. free # {}
  BY DEF Enqueue
<1>2. slot \in free
  BY <1>1
<1> QED
  BY <1>2 DEF Enqueue

(* Only the delay queues delay, and processing-retry for longer than a     *)
(* lock lives.                                                             *)
LEMMA Delays ==
  \A q \in Queues : /\ Delay(q) \in 0..ProcessingRetryTTL
                    /\ q \in {"retry", "processing-retry"} => Delay(q) > 0
                    /\ q = "processing-retry" => Delay(q) > LockTTL
BY DEF Queues, Delay, RetryTTL, ProcessingRetryTTL, LockTTL

(* Initially there are no messages and no handlers at work.                *)
LEMMA InvInit == Init => Inv
<1> SUFFICES ASSUME Init PROVE Inv
  OBVIOUS
<1>1. QueueTypes
  <2>1. /\ at \in [Messages -> Queues \cup {"unacked", "free"}]
        /\ retryCount \in [Messages -> 0..MaxRedisRetries]
        /\ procRetryCount \in [Messages -> 0..MaxProcessingRetries]
        /\ ttl \in [Messages -> 0..ProcessingRetryTTL]
    BY DEF Init, Queues, MaxRedisRetries, MaxProcessingRetries, ProcessingRetryTTL
  <2>2. /\ orderOf \in [Messages -> Orders]
        /\ holds \in [Handlers -> Messages]
        /\ job \in [Handlers -> Orders]
    BY ResetValues DEF Init
  <2> QED
    BY <2>1, <2>2 DEF Init, QueueTypes, Queues
<1>2. StoreTypes
  <2>1. /\ lock \in [Orders -> 0..LockTTL]
        /\ published \in [Orders -> 0..Deliveries]
        /\ faults \in 0..MaxFaults
    BY ConsumerAssumption DEF Init, LockTTL
  <2> QED
    BY <2>1 DEF Init, StoreTypes
<1>3. LiveHolds /\ DelayedWait /\ PublishWithin /\ Unforgotten
  BY DEF Init, LiveHolds, DelayedWait, Delayed, PublishWithin, Unforgotten
<1>4. Rounds
  <2>1. \A m \in Messages : orderOf[m] \in Orders /\ at[m] = "free" /\ procRetryCount[m] = 0
    BY <1>1 DEF Init, QueueTypes
  <2>2. \A o \in Orders : acquisitions[o] = 0
    BY DEF Init
  <2> QED
    BY <2>1, <2>2 DEF Rounds, Outnumbered
<1>5. LocksAcquired /\ NotifiedBefore /\ Owned
  BY DEF Init, LocksAcquired, NotifiedBefore, ProcessedWasNotified, Owned, Owning
<1> QED
  BY <1>1, <1>2, <1>3, <1>4, <1>5 DEF Inv, QueueInv

-----------------------------------------------------------------------------
(* What every step but Arrive and Tick does to Redis and the history: a    *)
(* lock that was not there before has a new owner, and no notification is  *)
(* taken back.                                                             *)
StoreStep ==
  /\ StoreTypes'
  /\ published' = published
  /\ \A o \in Orders : /\ notified'[o] >= notified[o]
                       /\ acquisitions'[o] >= acquisitions[o]
                       /\ lock'[o] > lock[o] => acquisitions'[o] > acquisitions[o]

(* The kinds of steps the queues and the handlers see.                     *)

(* A handler about to publish may still do so as long as it and its        *)
(* message stay as they are.                                               *)
LEMMA PublishStaysWithin ==
  ASSUME QueueInv, StoreTypes, StoreStep, live' \subseteq Handlers,
         \A g \in live' : pc'[g] = "publish" =>
           /\ g \in live /\ pc[g] = "publish"
           /\ target'[g] = target[g] /\ holds'[g] = holds[g]
           /\ orderOf'[holds[g]] = orderOf[holds[g]]
           /\ retryCount'[holds[g]] = retryCount[holds[g]]
           /\ procRetryCount'[holds[g]] = procRetryCount[holds[g]]
  PROVE  PublishWithin'
<1> SUFFICES ASSUME NEW g \in live', pc'[g] = "publish"
             PROVE  MayEnter(target[g], holds[g])'
  BY DEF PublishWithin
<1> DEFINE n == holds[g]
           o == orderOf[n]
<1>1. g \in Handlers /\ n \in Messages /\ o \in Orders
  BY DEF QueueInv, QueueTypes
<1>2. MayEnter(target[g], n)
  BY DEF QueueInv, PublishWithin
<1>3. /\ procRetryCount[n] \in Nat
      /\ acquisitions[o] \in Nat /\ acquisitions'[o] \in Nat
      /\ acquisitions[o] <= acquisitions'[o]
  BY <1>1 DEF QueueInv, QueueTypes, StoreTypes, StoreStep, MaxProcessingRetries
<1> QED
  BY <1>1, <1>2, <1>3 DEF MayEnter

(* A handler goes on to its next await, with or without a channel.         *)
LEMMA GotoKeepsQueues ==
  ASSUME QueueInv, StoreTypes, StoreStep, NEW h \in Handlers, pc[h] # "idle",
         NEW step \in {"lock", "notify", "mark", "release", "ack", "catch"},
         Goto(h, step), UNCHANGED message
  PROVE  QueueInv'
<1>0. /\ pc' = [pc EXCEPT ![h] = step]
      /\ UNCHANGED <<holds, job, target, live, at, orderOf, retryCount, procRetryCount, ttl>>
  BY DEF Goto, message
<1>1. QueueTypes'
  BY <1>0 DEF QueueInv, QueueTypes
<1>2. LiveHolds'
  BY <1>0 DEF QueueInv, QueueTypes, LiveHolds
<1>3. DelayedWait'
  BY <1>0 DEF QueueInv, DelayedWait, Delayed
<1>4. PublishWithin'
  BY <1>0 DEF QueueInv, QueueTypes, PublishWithin, MayEnter, StoreTypes, StoreStep, LiveHolds
<1>5. Unforgotten'
  BY <1>0 DEF QueueInv, QueueTypes, Unforgotten, Kept, StoreTypes, StoreStep
<1>6. Rounds'
  BY <1>0 DEF QueueInv, QueueTypes, Rounds, Outnumbered, StoreTypes, StoreStep
<1> QED
  BY <1>1, <1>2, <1>3, <1>4, <1>5, <1>6 DEF QueueInv

(* A handler returns and leaves the queues alone, because its channel is   *)
(* closed or the broker has its message back already.                      *)
LEMMA ReturnKeepsQueues ==
  ASSUME QueueInv, StoreTypes, StoreStep, NEW h \in Handlers, h \notin live, Return(h),
         UNCHANGED message
  PROVE  QueueInv'
<1>0. /\ pc' = [pc EXCEPT ![h] = "idle"]
      /\ live' = live \ {h}
      /\ \A g \in live : holds'[g] = holds[g] /\ job'[g] = job[g] /\ target'[g] = target[g]
                         /\ pc'[g] = pc[g]
      /\ UNCHANGED <<at, orderOf, retryCount, procRetryCount, ttl>>
  BY DEF Return, message, QueueInv, QueueTypes
<1>1. QueueTypes'
  BY <1>0, ResetValues DEF QueueInv, QueueTypes, Return, Queues
<1>2. LiveHolds'
  BY <1>0 DEF QueueInv, QueueTypes, LiveHolds
<1>3. DelayedWait'
  BY <1>0 DEF QueueInv, DelayedWait, Delayed
<1>4. PublishWithin'
  BY <1>0 DEF QueueInv, QueueTypes, PublishWithin, MayEnter, StoreTypes, StoreStep, LiveHolds
<1>5. Unforgotten'
  BY <1>0 DEF QueueInv, QueueTypes, Unforgotten, Kept, StoreTypes, StoreStep
<1>6. Rounds'
  BY <1>0 DEF QueueInv, QueueTypes, Rounds, Outnumbered, StoreTypes, StoreStep
<1> QED
  BY <1>1, <1>2, <1>3, <1>4, <1>5, <1>6 DEF QueueInv

(* A handler decides to publish a copy; without a channel it returns.      *)
LEMMA SendKeepsQueues ==
  ASSUME QueueInv, StoreTypes, StoreStep, NEW h \in Handlers, pc[h] # "idle",
         NEW q \in Queues, h \in live => MayEnter(q, holds[h]), SendToQueue(h, q), UNCHANGED message
  PROVE  QueueInv'
<1>1. CASE h \notin live
  <2>1. Return(h)
    BY <1>1 DEF SendToQueue
  <2> QED
    BY <1>1, <2>1, ReturnKeepsQueues
<1>2. CASE h \in live
  <2>0. /\ pc' = [pc EXCEPT ![h] = "publish"]
        /\ target' = [target EXCEPT ![h] = q]
        /\ UNCHANGED <<holds, job, live, at, orderOf, retryCount, procRetryCount, ttl>>
    BY <1>2 DEF SendToQueue, message, Return
  <2>1. QueueTypes'
    BY <2>0 DEF QueueInv, QueueTypes
  <2>2. LiveHolds'
    BY <2>0 DEF QueueInv, QueueTypes, LiveHolds
  <2>3. DelayedWait'
    BY <2>0 DEF QueueInv, DelayedWait, Delayed
  <2>4. PublishWithin'
    BY <2>0 DEF QueueInv, QueueTypes, PublishWithin, MayEnter, StoreTypes, StoreStep, LiveHolds
  <2>5. Unforgotten'
    BY <2>0 DEF QueueInv, QueueTypes, Unforgotten, Kept, StoreTypes, StoreStep
  <2>6. Rounds'
    BY <2>0 DEF QueueInv, QueueTypes, Rounds, Outnumbered, StoreTypes, StoreStep
  <2> QED
    BY <2>1, <2>2, <2>3, <2>4, <2>5, <2>6 DEF QueueInv
<1> QED
  BY <1>1, <1>2

(* What the other handlers see of one that returns and settles its message.*)
LEMMA OthersAfterReturn ==
  ASSUME QueueInv, NEW h \in live, Return(h)
  PROVE  /\ h \in Handlers /\ holds[h] \in Messages
         /\ live' = live \ {h}
         /\ \A g \in live' : /\ g # h /\ g \in live
                             /\ pc'[g] = pc[g] /\ holds'[g] = holds[g]
                             /\ job'[g] = job[g] /\ target'[g] = target[g]
                             /\ holds[g] # holds[h]
BY DEF QueueInv, QueueTypes, LiveHolds, Return

(* A handler acks its message and returns: somebody was told about the     *)
(* order, or a copy of the message is on its way.                          *)
LEMMA AckKeepsQueues ==
  ASSUME QueueInv, StoreTypes, StoreStep, NEW h \in live, Ack(holds[h]), Return(h),
         pc[h] = "settle" \/ notified[job[h]] > 0
  PROVE  QueueInv'
<1> DEFINE m == holds[h]
<1>0. /\ at' = [at EXCEPT ![m] = "free"]
      /\ orderOf' = [orderOf EXCEPT ![m] = CHOOSE o \in Orders : TRUE]
      /\ retryCount' = [retryCount EXCEPT ![m] = 0]
      /\ procRetryCount' = [procRetryCount EXCEPT ![m] = 0]
      /\ UNCHANGED ttl
      /\ m \in Messages
  BY OthersAfterReturn DEF Ack
<1>1. QueueTypes'
  BY <1>0, ResetValues
     DEF QueueInv, QueueTypes, Return, Queues, MaxRedisRetries, MaxProcessingRetries
<1>2. LiveHolds'
  BY <1>0, OthersAfterReturn DEF QueueInv, QueueTypes, LiveHolds
<1>3. DelayedWait'
  BY <1>0 DEF QueueInv, QueueTypes, DelayedWait, Delayed
<1>4. PublishWithin'
  BY <1>0, <1>1, OthersAfterReturn, PublishStaysWithin DEF QueueInv, QueueTypes
<1>5. Unforgotten'
  <2> SUFFICES ASSUME NEW o \in Orders, published[o] # 0, notified[o] = 0
               PROVE  \E n \in Messages : Kept(n, o)'
    BY DEF Unforgotten, StoreStep, StoreTypes
  <2>1. PICK n \in Messages : Kept(n, o)
    BY DEF QueueInv, Unforgotten
  <2>2. n # m
    BY <2>1 DEF Kept, QueueInv, LiveHolds
  <2> QED
    BY <1>0, <2>1, <2>2, OthersAfterReturn DEF Kept, QueueInv, QueueTypes
<1>6. Rounds'
  <2>1. \A n \in Messages : orderOf'[n] \in Orders
    BY <1>1 DEF QueueTypes
  <2> QED
    BY <1>0, <2>1 DEF QueueInv, QueueTypes, Rounds, Outnumbered, StoreTypes, StoreStep
<1> QED
  BY <1>1, <1>2, <1>3, <1>4, <1>5, <1>6 DEF QueueInv

(* A handler gives its message back and returns.                           *)
LEMMA NackKeepsQueues ==
  ASSUME QueueInv, StoreTypes, StoreStep, NEW h \in live, Return(h),
         at' = [at EXCEPT ![holds[h]] = "main"],
         UNCHANGED <<orderOf, retryCount, procRetryCount, ttl>>
  PROVE  QueueInv'
<1> DEFINE m == holds[h]
<1>0. at' = [at EXCEPT ![m] = "main"] /\ m \in Messages
  BY OthersAfterReturn
<1>1. QueueTypes'
  BY <1>0, ResetValues DEF QueueInv, QueueTypes, Return, Queues
<1>2. LiveHolds'
  BY <1>0, OthersAfterReturn DEF QueueInv, QueueTypes, LiveHolds
<1>3. DelayedWait'
  BY <1>0 DEF QueueInv, QueueTypes, DelayedWait, Delayed
<1>4. PublishWithin'
  BY <1>1, OthersAfterReturn, PublishStaysWithin DEF QueueTypes
<1>5. Unforgotten'
  <2> SUFFICES ASSUME NEW o \in Orders, published[o] # 0, notified[o] = 0
               PROVE  \E n \in Messages : Kept(n, o)'
    BY DEF Unforgotten, StoreStep, StoreTypes
  <2>1. PICK n \in Messages : Kept(n, o)
    BY DEF QueueInv, Unforgotten
  <2> QED
    BY <1>0, <2>1, OthersAfterReturn DEF Kept, QueueInv, QueueTypes
<1>6. Rounds'
  BY <1>0 DEF QueueInv, QueueTypes, LiveHolds, Rounds, Outnumbered, StoreTypes, StoreStep
<1> QED
  BY <1>1, <1>2, <1>3, <1>4, <1>5, <1>6 DEF QueueInv

(* A copy of a handler's message enters the queue it was meant for, and    *)
(* takes the place of the message its handler will ack.                    *)
LEMMA CopyKeepsQueues ==
  ASSUME QueueInv, StoreTypes, StoreStep, NEW h \in live, pc[h] = "publish",
         PublishCopy(h), NEW step \in {"settle", "nack"}, Goto(h, step)
  PROVE  QueueInv'
<1> DEFINE m == holds[h]
           q == target[h]
           o == job[h]
           retries == IF q \in {"retry", "main"} THEN retryCount[m] + 1 ELSE retryCount[m]
           rounds == IF q = "processing-retry" THEN procRetryCount[m] + 1
                                               ELSE procRetryCount[m]
<1>0. /\ pc' = [pc EXCEPT ![h] = step]
      /\ UNCHANGED <<holds, job, target, live>>
  BY DEF Goto
<1>1. /\ h \in Handlers /\ m \in Messages /\ q \in Queues /\ o \in Orders
      /\ at[m] = "unacked" /\ orderOf[m] = o
      /\ MayEnter(q, m)
  BY DEF QueueInv, QueueTypes, LiveHolds, PublishWithin
<1>2. PICK s \in Messages :
        /\ at[s] = "free"
        /\ at' = [at EXCEPT ![s] = q]
        /\ orderOf' = [orderOf EXCEPT ![s] = o]
        /\ retryCount' = [retryCount EXCEPT ![s] = retries]
        /\ procRetryCount' = [procRetryCount EXCEPT ![s] = rounds]
        /\ ttl' = [ttl EXCEPT ![s] = Delay(q)]
  BY EnqueueSlot DEF PublishCopy
<1>3. /\ retries \in 0..MaxRedisRetries
      /\ rounds \in 0..MaxProcessingRetries
      /\ Delay(q) \in 0..ProcessingRetryTTL
  BY <1>1, Delays
     DEF QueueInv, QueueTypes, MayEnter, MaxRedisRetries, MaxProcessingRetries
<1>4. \A g \in live : g \in Handlers /\ holds[g] \in Messages /\ holds[g] # s
  BY <1>2 DEF QueueInv, QueueTypes, LiveHolds
<1>5. QueueTypes'
  BY <1>0, <1>1, <1>2, <1>3 DEF QueueInv, QueueTypes
<1>6. LiveHolds'
  BY <1>0, <1>1, <1>2, <1>4 DEF QueueInv, QueueTypes, LiveHolds
<1>7. DelayedWait'
  <2>1. ASSUME NEW n \in Delayed' PROVE ttl'[n] > 0
    <3>1. CASE n = s
      BY <1>1, <1>2, <2>1, <3>1, Delays DEF QueueInv, QueueTypes, Delayed
    <3>2. CASE n # s
      BY <1>2, <2>1, <3>2 DEF QueueInv, QueueTypes, DelayedWait, Delayed
    <3> QED
      BY <3>1, <3>2
  <2> QED
    BY <2>1 DEF DelayedWait
<1>8. PublishWithin'
  <2>1. ASSUME NEW g \in live', pc'[g] = "publish"
        PROVE  /\ g \in live /\ pc[g] = "publish"
               /\ target'[g] = target[g] /\ holds'[g] = holds[g]
               /\ orderOf'[holds[g]] = orderOf[holds[g]]
               /\ retryCount'[holds[g]] = retryCount[holds[g]]
               /\ procRetryCount'[holds[g]] = procRetryCount[holds[g]]
    BY <1>0, <1>2, <1>4, <2>1 DEF QueueInv, QueueTypes
  <2>2. live' \subseteq Handlers
    BY <1>5 DEF QueueTypes
  <2> QED
    BY <2>1, <2>2, PublishStaysWithin
<1>9. Unforgotten'
  <2> SUFFICES ASSUME NEW d \in Orders, published[d] # 0, notified[d] = 0
               PROVE  \E n \in Messages : Kept(n, d)'
    BY DEF Unforgotten, StoreStep, StoreTypes
  <2>1. CASE d = o
    <3>1. Kept(s, d)'
      BY <1>0, <1>1, <1>2, <1>4, <2>1 DEF Kept, QueueInv, QueueTypes, Queues
    <3> QED
      BY <3>1
  <2>2. CASE d # o
    <3>1. PICK n \in Messages : Kept(n, d)
      BY DEF QueueInv, Unforgotten
    <3>2. n # m /\ n # s
      BY <1>1, <1>2, <2>2, <3>1 DEF Kept
    <3>3. Kept(n, d)'
      BY <1>0, <1>2, <3>1, <3>2 DEF Kept, QueueInv, QueueTypes
    <3> QED
      BY <3>3
  <2> QED
    BY <2>1, <2>2
<1>10. Rounds'
  <2> SUFFICES ASSUME NEW n \in Messages PROVE Outnumbered(n)'
    BY DEF Rounds
  <2>1. CASE n # s
    BY <1>2, <2>1 DEF QueueInv, QueueTypes, Rounds, Outnumbered, StoreTypes, StoreStep
  <2>2. CASE n = s
    <3>1. /\ orderOf'[n] = o /\ at'[n] = q /\ procRetryCount'[n] = rounds
          /\ ttl'[n] = Delay(q) /\ q # "free"
      BY <1>1, <1>2, <2>2 DEF QueueInv, QueueTypes, Queues
    <3>2. /\ procRetryCount[m] \in Nat
          /\ procRetryCount[m] <= acquisitions[o]
          /\ lock[o] > 0 => procRetryCount[m] < acquisitions[o]
          /\ q = "processing-retry" => procRetryCount[m] < acquisitions[o]
      BY <1>1 DEF QueueInv, QueueTypes, Rounds, Outnumbered, MayEnter, MaxProcessingRetries
    <3>3. /\ acquisitions[o] \in Nat /\ acquisitions'[o] \in Nat
          /\ acquisitions'[o] >= acquisitions[o]
          /\ lock[o] \in 0..LockTTL /\ lock'[o] \in 0..LockTTL
          /\ lock'[o] > lock[o] => acquisitions'[o] > acquisitions[o]
      BY <1>1 DEF StoreTypes, StoreStep
    <3>4. CASE q = "processing-retry"
      <4>1. Delay(q) > LockTTL /\ LockTTL \in Nat /\ Delay(q) \in Nat
        BY <1>1, <1>3, <3>4, Delays DEF LockTTL, ProcessingRetryTTL
      <4> QED
        BY <3>1, <3>2, <3>3, <3>4, <4>1 DEF Outnumbered
    <3>5. CASE q # "processing-retry"
      BY <3>1, <3>2, <3>3, <3>5 DEF LockTTL, Outnumbered
    <3> QED
      BY <3>4, <3>5
  <2> QED
    BY <2>1, <2>2
<1> QED
  BY <1>5, <1>6, <1>7, <1>8, <1>9, <1>10 DEF QueueInv

(* The broker puts the messages of handlers that lose their channel back.  *)
LEMMA RequeueKeepsQueues ==
  ASSUME QueueInv, StoreTypes, StoreStep, NEW hs \in SUBSET live, Requeue(hs),
         live' = live \ hs,
         \A g \in live \ hs : /\ pc'[g] = pc[g] /\ holds'[g] = holds[g]
                              /\ job'[g] = job[g] /\ target'[g] = target[g],
         QueueTypes'
  PROVE  QueueInv'
<1>1. /\ UNCHANGED <<orderOf, retryCount, procRetryCount, ttl>>
      /\ \A m \in Messages : \/ at'[m] = at[m] /\ \A h \in hs : holds[h] # m
                             \/ at'[m] = "main" /\ at[m] = "unacked"
  BY DEF Requeue, QueueInv, QueueTypes, LiveHolds
<1>2. \A g \in live' : g \in live /\ holds[g] \in Messages /\ at'[holds[g]] = at[holds[g]]
  BY DEF Requeue, QueueInv, QueueTypes, LiveHolds
<1>3. LiveHolds'
  BY <1>1, <1>2 DEF QueueInv, QueueTypes, LiveHolds
<1>4. DelayedWait'
  BY <1>1 DEF QueueInv, DelayedWait, Delayed
<1>5. PublishWithin'
  BY <1>1, <1>2, PublishStaysWithin DEF QueueTypes
<1>6. Unforgotten'
  <2> SUFFICES ASSUME NEW o \in Orders, published[o] # 0, notified[o] = 0
               PROVE  \E n \in Messages : Kept(n, o)'
    BY DEF Unforgotten, StoreStep, StoreTypes
  <2>1. PICK n \in Messages : Kept(n, o)
    BY DEF QueueInv, Unforgotten
  <2> QED
    BY <1>1, <2>1 DEF Kept
<1>7. Rounds'
  BY <1>1 DEF QueueInv, QueueTypes, Rounds, Outnumbered, StoreTypes, StoreStep
<1> QED
  BY <1>3, <1>4, <1>5, <1>6, <1>7 DEF QueueInv

(* A message is handed to an idle handler.                                 *)
LEMMA DeliverKeepsQueues ==
  ASSUME QueueInv, StoreTypes, StoreStep, NEW h \in Handlers, NEW m \in Messages, Deliver(h, m)
  PROVE  QueueInv'
<1>0. /\ pc[h] = "idle" /\ at[m] = "main"
      /\ at' = [at EXCEPT ![m] = "unacked"]
      /\ pc' = [pc EXCEPT ![h] = "get"]
      /\ holds' = [holds EXCEPT ![h] = m]
      /\ job' = [job EXCEPT ![h] = orderOf[m]]
      /\ live' = live \cup {h}
      /\ UNCHANGED <<orderOf, retryCount, procRetryCount, ttl, target>>
  BY DEF Deliver
<1>1. h \notin live /\ \A g \in live : g # h /\ g \in Handlers /\ holds[g] # m
  BY <1>0 DEF QueueInv, QueueTypes, LiveHolds
<1>2. QueueTypes'
  BY <1>0 DEF QueueInv, QueueTypes
<1>3. LiveHolds'
  BY <1>0, <1>1 DEF QueueInv, QueueTypes, LiveHolds
<1>4. DelayedWait'
  BY <1>0 DEF QueueInv, QueueTypes, DelayedWait, Delayed
<1>5. PublishWithin'
  <2>1. ASSUME NEW g \in live', pc'[g] = "publish"
        PROVE  /\ g \in live /\ pc[g] = "publish"
               /\ target'[g] = target[g] /\ holds'[g] = holds[g]
    BY <1>0, <1>1, <2>1 DEF QueueInv, QueueTypes
  <2> QED
    BY <1>0, <1>2, <2>1, PublishStaysWithin DEF QueueTypes
<1>6. Unforgotten'
  <2> SUFFICES ASSUME NEW o \in Orders, published[o] # 0, notified[o] = 0
               PROVE  \E n \in Messages : Kept(n, o)'
    BY DEF Unforgotten, StoreStep, StoreTypes
  <2>1. PICK n \in Messages : Kept(n, o)
    BY DEF QueueInv, Unforgotten
  <2> QED
    BY <1>0, <1>1, <2>1 DEF Kept, QueueInv, QueueTypes
<1>7. Rounds'
  BY <1>0 DEF QueueInv, QueueTypes, Rounds, Outnumbered, StoreTypes, StoreStep
<1> QED
  BY <1>2, <1>3, <1>4, <1>5, <1>6, <1>7 DEF QueueInv

-----------------------------------------------------------------------------
(* The other conjuncts of the invariant, for steps of a single handler.    *)

(* A step of h that does not claim a lock, a notification or a key it did  *)
(* not get keeps NotifiedBefore.                                           *)
LEMMA StillNotified ==
  ASSUME Inv, StoreStep, NEW h \in Handlers,
         \A g \in Handlers \ {h} : pc'[g] = pc[g] /\ job'[g] = job[g],
         pc'[h] \in {"mark", "release", "ack"} => /\ job'[h] = job[h]
                                                  /\ notified'[job[h]] > 0,
         processed' \subseteq processed \cup {job[h]},
         job[h] \in processed' => notified'[job[h]] > 0
  PROVE  NotifiedBefore'
BY DEF Inv, QueueInv, QueueTypes, StoreTypes, StoreStep, NotifiedBefore, ProcessedWasNotified

(* A step of h that frees at most h's own lock, and owns one only if it    *)
(* did before, keeps Owned.                                                *)
LEMMA StillOwned ==
  ASSUME Inv, StoreStep, NEW h \in Handlers,
         \A g \in Handlers \ {h} : pc'[g] = pc[g] /\ job'[g] = job[g],
         live' \subseteq live, live \ {h} \subseteq live',
         disturbed' = disturbed, slow' = slow,
         ~disturbed /\ pc'[h] # "idle" => h \in live',
         ~disturbed /\ Owning(h)' => Owning(h) /\ job'[h] = job[h],
         \A o \in Orders : lock'[o] >= lock[o] \/ (Owning(h) /\ ~Owning(h)' /\ o = job[h])
  PROVE  Owned'
<1>1. ~disturbed' => \A g \in Handlers : pc'[g] # "idle" => g \in live'
  <2> SUFFICES ASSUME ~disturbed, NEW g \in Handlers, pc'[g] # "idle" PROVE g \in live'
    OBVIOUS
  <2>1. CASE g = h
    BY <2>1
  <2>2. CASE g # h
    BY <2>2 DEF Inv, Owned
  <2> QED
    BY <2>1, <2>2
<1>2. ASSUME ~disturbed, ~slow, NEW g \in Handlers, Owning(g)'
      PROVE  Owning(g) /\ job'[g] = job[g] /\ lock'[job[g]] > 0
  <2>1. Owning(g) /\ job'[g] = job[g]
    BY <1>2 DEF Owning
  <2>2. lock[job[g]] > 0 /\ (Owning(h) /\ job[h] = job[g] => g = h)
    BY <1>2, <2>1 DEF Inv, Owned
  <2>3. job[g] \in Orders
    BY DEF Inv, QueueInv, QueueTypes
  <2>4. lock[job[g]] \in Int /\ lock'[job[g]] \in Int
    BY <2>3 DEF Inv, StoreTypes, StoreStep, LockTTL
  <2>5. lock'[job[g]] >= lock[job[g]]
    BY <1>2, <2>2, <2>3
  <2> QED
    BY <2>1, <2>2, <2>4, <2>5
<1>3. ASSUME ~disturbed, ~slow, NEW f \in Handlers, NEW g \in Handlers,
             Owning(f)', Owning(g)', job'[f] = job'[g]
      PROVE  f = g
  BY <1>2, <1>3 DEF Inv, Owned
<1> QED
  BY <1>1, <1>2, <1>3 DEF Owned

(* However a handler goes on, the others do not notice.                    *)
LEMMA OwnStep ==
  ASSUME Inv, NEW h \in Handlers, pc[h] # "idle",
         Return(h) \/ (\E step : Goto(h, step)) \/ (\E q : SendToQueue(h, q))
  PROVE  /\ \A g \in Handlers \ {h} : pc'[g] = pc[g] /\ job'[g] = job[g]
         /\ live' \subseteq live /\ live \ {h} \subseteq live'
         /\ ~disturbed /\ pc'[h] # "idle" => h \in live'
         /\ pc'[h] # "idle" => job'[h] = job[h]
<1>0. /\ pc \in [Handlers -> {"idle", "get", "lock", "notify", "mark", "release", "ack",
                              "catch", "publish", "settle", "nack"}]
      /\ job \in [Handlers -> Orders]
      /\ ~disturbed => h \in live
  BY DEF Inv, QueueInv, QueueTypes, Owned
<1>1. CASE Return(h)
  BY <1>0, <1>1 DEF Return
<1>2. CASE \E step : Goto(h, step)
  BY <1>0, <1>2 DEF Goto
<1>3. CASE \E q : SendToQueue(h, q)
  BY <1>0, <1>3 DEF SendToQueue, Return
<1> QED
  BY <1>1, <1>2, <1>3

(* The number of faults stays within its bound.                            *)
LEMMA FaultCounted ==
  ASSUME Inv, NEW kind, Fault(kind)
  PROVE  faults' \in 0..MaxFaults
BY ConsumerAssumption DEF Inv, StoreTypes, Fault

(* A step that touches neither Redis nor the history.                      *)
LEMMA StoreUntouched ==
  ASSUME Inv, UNCHANGED <<redis, notified, published>>, faults' \in 0..MaxFaults
  PROVE  StoreStep /\ LocksAcquired'
<1>1. UNCHANGED <<lock, processed, acquisitions, disturbed, slow, notified, published>>
  BY DEF redis
<1>2. StoreTypes'
  BY <1>1 DEF Inv, StoreTypes
<1>3. \A o \in Orders : lock[o] \in Int /\ notified[o] \in Int /\ acquisitions[o] \in Int
  BY DEF Inv, StoreTypes, LockTTL
<1> QED
  BY <1>1, <1>2, <1>3 DEF StoreStep, Inv, LocksAcquired

(* A step of one handler that touches neither Redis nor the history, and   *)
(* leads neither past the lock nor past the notification.                  *)
LEMMA PlainStep ==
  ASSUME Inv, UNCHANGED <<redis, notified, published>>, faults' \in 0..MaxFaults,
         NEW h \in Handlers, pc[h] # "idle",
         Return(h) \/ (\E step : Goto(h, step)) \/ (\E q : SendToQueue(h, q)),
         pc'[h] \in {"idle", "lock", "publish", "settle", "nack"},
         QueueInv'
  PROVE  Inv'
<1>1. StoreStep /\ LocksAcquired'
  BY StoreUntouched
<1>2. NotifiedBefore'
  <2>1. processed' = processed /\ notified' = notified
    BY DEF redis
  <2>2. job[h] \in processed => notified[job[h]] > 0
    BY DEF Inv, NotifiedBefore, ProcessedWasNotified
  <2> QED
    BY <1>1, <2>1, <2>2, OwnStep, StillNotified
<1>3. Owned'
  <2>1. lock' = lock /\ disturbed' = disturbed /\ slow' = slow
    BY DEF redis
  <2>2. \A o \in Orders : lock'[o] >= lock[o]
    BY <2>1 DEF Inv, StoreTypes, LockTTL
  <2>3. ~Owning(h)'
    BY DEF Owning
  <2> QED
    BY <1>1, <2>1, <2>2, <2>3, OwnStep, StillOwned
<1> QED
  BY <1>1, <1>2, <1>3 DEF Inv, StoreStep

(* Where a handler is after each way to go on.                             *)
LEMMA NextPlace ==
  ASSUME Inv, NEW h \in Handlers
  PROVE  /\ \A step : Goto(h, step) => pc'[h] = step
         /\ Return(h) => pc'[h] = "idle"
         /\ \A q : SendToQueue(h, q) => pc'[h] \in {"publish", "idle"}
BY DEF Inv, QueueInv, QueueTypes, Goto, Return, SendToQueue

-----------------------------------------------------------------------------
(* The steps of a handler, one lemma each.                                 *)

(* A duplicate is skipped, or the handler asks for the lock.               *)
LEMMA GetInv ==
  ASSUME Inv, NEW h \in Handlers, Get(h)
  PROVE  Inv'
<1>0. /\ pc[h] = "get"
      /\ UNCHANGED <<redis, notified, published>>
      /\ faults' \in 0..MaxFaults
      /\ QueueInv /\ StoreTypes
  BY DEF Get, Inv, StoreTypes
<1>1. StoreStep
  BY <1>0, StoreUntouched
<1>2. CASE job[h] \in processed
  <2>1. Return(h) /\ notified[job[h]] > 0
    BY <1>2 DEF Get, Inv, NotifiedBefore, ProcessedWasNotified
  <2>2. QueueInv'
    <3>1. CASE h \in live
      BY <1>0, <1>1, <1>2, <2>1, <3>1, AckKeepsQueues DEF Get
    <3>2. CASE h \notin live
      BY <1>0, <1>1, <1>2, <2>1, <3>2, ReturnKeepsQueues DEF Get
    <3> QED
      BY <3>1, <3>2
  <2> QED
    BY <1>0, <2>1, <2>2, NextPlace, PlainStep
<1>3. CASE job[h] \notin processed
  <2>1. Goto(h, "lock") /\ UNCHANGED message
    BY <1>3 DEF Get
  <2>2. QueueInv'
    BY <1>0, <1>1, <2>1, GotoKeepsQueues
  <2> QED
    BY <1>0, <2>1, <2>2, NextPlace, PlainStep
<1> QED
  BY <1>2, <1>3

(* The catch block of the strict Redis calls leaves the queues in order.   *)
LEMMA RedisFailedKeepsQueues ==
  ASSUME Inv, StoreStep, NEW h \in Handlers, pc[h] # "idle", RedisFailed(h), UNCHANGED message
  PROVE  QueueInv'
<1> DEFINE q == IF retryCount[holds[h]] >= MaxRedisRetries THEN "dlq" ELSE "retry"
<1>1. q \in Queues /\ SendToQueue(h, q)
  BY DEF RedisFailed, Queues
<1>2. MayEnter(q, holds[h])
  BY DEF MayEnter, Inv, QueueInv, QueueTypes, MaxRedisRetries
<1> QED
  BY <1>1, <1>2, SendKeepsQueues DEF Inv

(* The lookup of the processed key fails.                                  *)
LEMMA GetFailsInv ==
  ASSUME Inv, NEW h \in Handlers, GetFails(h)
  PROVE  Inv'
<1>1. /\ pc[h] = "get" /\ RedisFailed(h) /\ UNCHANGED message
      /\ UNCHANGED <<redis, notified, published>>
      /\ faults' \in 0..MaxFaults
  BY FaultCounted DEF GetFails
<1>2. QueueInv'
  BY <1>1, StoreUntouched, RedisFailedKeepsQueues
<1> QED
  BY <1>1, <1>2, NextPlace, PlainStep DEF RedisFailed

(* A free lock gets an owner, and the count of its owners says so.         *)
LEMMA LockTaken ==
  ASSUME Inv, NEW o \in Orders, lock[o] = 0, TakeLock(o), UNCHANGED <<notified, published>>,
         faults' \in 0..MaxFaults
  PROVE  /\ StoreStep /\ LocksAcquired'
         /\ \A d \in Orders : lock'[d] >= lock[d]
         /\ \A d \in Orders \ {o} : lock'[d] = lock[d]
         /\ lock'[o] > 0
<1>1. /\ lock' = [lock EXCEPT ![o] = LockTTL]
      /\ acquisitions' = [acquisitions EXCEPT ![o] = @ + 1]
      /\ UNCHANGED <<processed, disturbed, slow>>
  BY DEF TakeLock
<1>2. /\ lock \in [Orders -> 0..LockTTL]
      /\ acquisitions \in [Orders -> Nat]
      /\ notified \in [Orders -> Nat]
      /\ LockTTL \in Nat /\ LockTTL > 0
  BY DEF Inv, StoreTypes, LockTTL
<1>3. /\ lock' \in [Orders -> 0..LockTTL]
      /\ acquisitions' \in [Orders -> Nat]
  BY <1>1, <1>2
<1>4. StoreTypes'
  BY <1>1, <1>3 DEF Inv, StoreTypes
<1>5. \A d \in Orders : /\ lock'[d] >= lock[d] /\ notified'[d] >= notified[d]
                        /\ d = o => lock'[d] > 0 /\ acquisitions'[d] > acquisitions[d]
                        /\ d # o => lock'[d] = lock[d] /\ acquisitions'[d] = acquisitions[d]
  BY <1>1, <1>2
<1>6. \A d \in Orders : /\ acquisitions'[d] >= acquisitions[d]
                        /\ lock'[d] > lock[d] => acquisitions'[d] > acquisitions[d]
  BY <1>2, <1>3, <1>5
<1>7. LocksAcquired'
  BY <1>2, <1>3, <1>5 DEF Inv, LocksAcquired
<1> QED
  BY <1>4, <1>5, <1>6, <1>7 DEF StoreStep

(* A handler deletes the key of its order, or fails to.                    *)
LEMMA LockDeleted ==
  ASSUME Inv, NEW h \in Handlers, DeleteLock(h), UNCHANGED <<notified, published>>
  PROVE  /\ StoreStep /\ LocksAcquired'
         /\ UNCHANGED <<processed, disturbed, slow>>
         /\ \A o \in Orders : lock'[o] >= lock[o] \/ o = job[h]
<1>1. /\ lock' = [lock EXCEPT ![job[h]] = 0] \/ lock' = lock
      /\ UNCHANGED <<processed, acquisitions, disturbed, slow>>
      /\ faults' \in 0..MaxFaults
  BY FaultCounted DEF DeleteLock, Inv, StoreTypes
<1>2. /\ lock \in [Orders -> 0..LockTTL] /\ LockTTL \in Nat
      /\ acquisitions \in [Orders -> Nat]
      /\ notified \in [Orders -> Nat]
  BY DEF Inv, StoreTypes, LockTTL
<1>3. /\ lock' \in [Orders -> 0..LockTTL]
      /\ \A o \in Orders : lock'[o] = lock[o] \/ (o = job[h] /\ lock'[o] = 0)
  BY <1>1, <1>2
<1>4. StoreTypes'
  BY <1>1, <1>3 DEF Inv, StoreTypes
<1>5. \A o \in Orders : lock'[o] <= lock[o] /\ (lock'[o] >= lock[o] \/ o = job[h])
  BY <1>2, <1>3
<1>6. StoreStep
  BY <1>1, <1>2, <1>3, <1>4, <1>5 DEF StoreStep
<1>7. LocksAcquired'
  BY <1>1, <1>2, <1>3 DEF Inv, LocksAcquired
<1> QED
  BY <1>1, <1>5, <1>6, <1>7

(* A free lock is taken: nobody relied on it, so the handler is its only   *)
(* owner.  A taken one has had more owners than the message made rounds.   *)
LEMMA AcquireInv ==
  ASSUME Inv, NEW h \in Handlers, Acquire(h)
  PROVE  Inv'
<1> DEFINE o == job[h]
<1>0. /\ pc[h] = "lock" /\ o \in Orders
      /\ UNCHANGED <<message, notified, published>>
      /\ faults' \in 0..MaxFaults
      /\ QueueInv /\ StoreTypes
  BY DEF Acquire, Inv, QueueInv, QueueTypes, StoreTypes
<1>1. CASE lock[o] = 0
  <2>1. TakeLock(o) /\ Goto(h, "notify")
    BY <1>0, <1>1 DEF Acquire
  <2>2. /\ StoreStep /\ LocksAcquired'
        /\ \A d \in Orders \ {o} : lock'[d] = lock[d]
        /\ lock'[o] > 0
    BY <1>0, <1>1, <2>1, LockTaken
  <2>3. QueueInv'
    BY <1>0, <2>1, <2>2, GotoKeepsQueues
  <2>4. NotifiedBefore'
    <3>1. processed' = processed /\ notified' = notified
      BY <1>0, <2>1 DEF TakeLock
    <3>2. o \in processed => notified[o] > 0
      BY DEF Inv, NotifiedBefore, ProcessedWasNotified
    <3> QED
      BY <1>0, <2>1, <2>2, <3>1, <3>2, NextPlace, OwnStep, StillNotified
  <2>5. Owned'
    <3>1. /\ live' = live /\ disturbed' = disturbed /\ slow' = slow
          /\ job' = job /\ pc' = [pc EXCEPT ![h] = "notify"]
      BY <2>1 DEF Goto, TakeLock
    <3>2. pc \in [Handlers -> {"idle", "get", "lock", "notify", "mark", "release", "ack",
                               "catch", "publish", "settle", "nack"}]
      BY DEF Inv, QueueInv, QueueTypes
    <3>3. ASSUME ~disturbed, ~slow, NEW g \in Handlers, g # h, Owning(g)'
          PROVE  Owning(g) /\ job[g] # o /\ lock'[job[g]] > 0
      <4>1. Owning(g) /\ lock[job[g]] > 0 /\ job[g] \in Orders
        BY <3>1, <3>2, <3>3 DEF Owning, Inv, Owned, QueueInv, QueueTypes
      <4>2. job[g] # o
        BY <1>1, <4>1
      <4> QED
        BY <2>2, <4>1, <4>2
    <3>4. ~disturbed' => \A g \in Handlers : pc'[g] # "idle" => g \in live'
      BY <1>0, <3>1, <3>2 DEF Inv, Owned
    <3>5. ASSUME ~disturbed, ~slow, NEW f \in Handlers, NEW g \in Handlers,
                 Owning(f)', Owning(g)', job[f] = job[g]
          PROVE  f = g
      BY <3>3, <3>5 DEF Inv, Owned
    <3> QED
      BY <2>2, <3>1, <3>3, <3>4, <3>5 DEF Owned
  <2> QED
    BY <2>2, <2>3, <2>4, <2>5 DEF Inv, StoreStep
<1>2. CASE lock[o] > 0
  <2> DEFINE m == holds[h]
             q == IF procRetryCount[m] >= MaxProcessingRetries THEN "dlq"
                                                               ELSE "processing-retry"
  <2>1. UNCHANGED redis /\ SendToQueue(h, q) /\ q \in Queues
    BY <1>0, <1>2 DEF Acquire, Queues
  <2>2. h \in live => MayEnter(q, m)
    BY <1>2 DEF MayEnter, Inv, QueueInv, QueueTypes, LiveHolds, Rounds, Outnumbered,
                MaxProcessingRetries
  <2>3. QueueInv'
    BY <1>0, <2>1, <2>2, StoreUntouched, SendKeepsQueues
  <2> QED
    BY <1>0, <2>1, <2>3, NextPlace, PlainStep
<1> QED
  BY <1>0, <1>1, <1>2 DEF Acquire

(* A lock Redis took without saying so has no handler that relies on it.   *)
LEMMA AcquireFailsInv ==
  ASSUME Inv, NEW h \in Handlers, AcquireFails(h)
  PROVE  Inv'
<1> DEFINE o == job[h]
<1>0. /\ pc[h] = "lock" /\ o \in Orders
      /\ UNCHANGED <<message, notified, published>>
      /\ faults' \in 0..MaxFaults
      /\ RedisFailed(h)
      /\ \E q : SendToQueue(h, q)
      /\ pc'[h] \in {"publish", "idle"}
  BY FaultCounted, NextPlace DEF AcquireFails, Inv, QueueInv, QueueTypes, RedisFailed
<1>1. CASE UNCHANGED redis
  <2>1. QueueInv'
    BY <1>0, <1>1, StoreUntouched, RedisFailedKeepsQueues
  <2> QED
    BY <1>0, <1>1, <2>1, PlainStep
<1>2. CASE lock[o] = 0 /\ TakeLock(o)
  <2>1. /\ StoreStep /\ LocksAcquired'
        /\ \A d \in Orders : lock'[d] >= lock[d]
        /\ UNCHANGED <<processed, disturbed, slow>>
    BY <1>0, <1>2, LockTaken DEF TakeLock
  <2>2. QueueInv'
    BY <1>0, <2>1, RedisFailedKeepsQueues
  <2>3. NotifiedBefore'
    <3>1. o \in processed => notified[o] > 0
      BY DEF Inv, NotifiedBefore, ProcessedWasNotified
    <3> QED
      BY <1>0, <2>1, <3>1, OwnStep, StillNotified
  <2>4. Owned'
    BY <1>0, <2>1, OwnStep, StillOwned DEF Owning
  <2> QED
    BY <2>1, <2>2, <2>3, <2>4 DEF Inv, StoreStep
<1> QED
  BY <1>1, <1>2 DEF AcquireFails

(* The notification goes out.                                              *)
LEMMA NotifyInv ==
  ASSUME Inv, NEW h \in Handlers, Notify(h)
  PROVE  Inv'
<1> DEFINE o == job[h]
<1>0. /\ pc[h] = "notify" /\ o \in Orders
      /\ notified' = [notified EXCEPT ![o] = @ + 1]
      /\ Goto(h, "mark") /\ pc'[h] = "mark"
      /\ UNCHANGED message
      /\ UNCHANGED <<lock, processed, acquisitions, disturbed, slow, published, faults>>
  BY NextPlace DEF Notify, redis, Inv, QueueInv, QueueTypes
<1>1. /\ notified' \in [Orders -> Nat]
      /\ notified'[o] > 0
      /\ \A d \in Orders : /\ notified'[d] >= notified[d]
                           /\ lock'[d] >= lock[d] /\ ~(lock'[d] > lock[d])
                           /\ acquisitions'[d] >= acquisitions[d]
  BY <1>0 DEF Inv, StoreTypes, LockTTL
<1>2. StoreStep /\ LocksAcquired'
  <2>1. StoreTypes'
    BY <1>0, <1>1 DEF Inv, StoreTypes
  <2> QED
    BY <1>0, <1>1, <2>1 DEF StoreStep, Inv, LocksAcquired
<1>3. QueueInv'
  BY <1>0, <1>2, GotoKeepsQueues DEF Inv
<1>4. NotifiedBefore'
  BY <1>0, <1>1, <1>2, OwnStep, StillNotified
<1>5. Owned'
  BY <1>0, <1>1, <1>2, OwnStep, StillOwned DEF Owning
<1> QED
  BY <1>2, <1>3, <1>4, <1>5 DEF Inv, StoreStep

(* The notification API fails; the lock is still the handler's.            *)
LEMMA NotifyFailsInv ==
  ASSUME Inv, NEW h \in Handlers, NotifyFails(h)
  PROVE  Inv'
<1>0. /\ pc[h] = "notify"
      /\ Goto(h, "catch") /\ pc'[h] = "catch"
      /\ UNCHANGED <<message, redis, notified, published>>
      /\ UNCHANGED <<lock, processed, disturbed, slow>>
      /\ faults' \in 0..MaxFaults
  BY FaultCounted, NextPlace DEF NotifyFails, redis
<1>1. StoreStep /\ LocksAcquired'
  BY <1>0, StoreUntouched
<1>2. QueueInv'
  BY <1>0, <1>1, GotoKeepsQueues DEF Inv
<1>3. NotifiedBefore'
  BY <1>0, <1>1, OwnStep, StillNotified DEF Inv, NotifiedBefore, ProcessedWasNotified
<1>4. Owned'
  <2>1. \A o \in Orders : lock'[o] >= lock[o]
    BY <1>0 DEF Inv, StoreTypes, LockTTL
  <2> QED
    BY <1>0, <1>1, <2>1, OwnStep, StillOwned DEF Owning
<1> QED
  BY <1>1, <1>2, <1>3, <1>4 DEF Inv, StoreStep

(* The key is set for an order that was notified, or is not.               *)
LEMMA MarkProcessedInv ==
  ASSUME Inv, NEW h \in Handlers, MarkProcessed(h)
  PROVE  Inv'
<1>0. /\ pc[h] = "mark" /\ job[h] \in Orders
      /\ Goto(h, "release") /\ pc'[h] = "release"
      /\ processed' = processed \cup {job[h]} \/ processed' = processed
      /\ UNCHANGED message
      /\ UNCHANGED <<lock, acquisitions, disturbed, slow, notified, published>>
      /\ faults' \in 0..MaxFaults
      /\ notified[job[h]] > 0
  BY FaultCounted, NextPlace
     DEF MarkProcessed, Inv, QueueInv, QueueTypes, StoreTypes, NotifiedBefore
<1>1. \A o \in Orders : /\ lock'[o] >= lock[o] /\ ~(lock'[o] > lock[o])
                        /\ notified'[o] >= notified[o]
                        /\ acquisitions'[o] >= acquisitions[o]
  BY <1>0 DEF Inv, StoreTypes, LockTTL
<1>2. StoreStep /\ LocksAcquired'
  <2>1. StoreTypes'
    BY <1>0 DEF Inv, StoreTypes
  <2> QED
    BY <1>0, <1>1, <2>1 DEF StoreStep, Inv, LocksAcquired
<1>3. QueueInv'
  BY <1>0, <1>2, GotoKeepsQueues DEF Inv
<1>4. NotifiedBefore'
  BY <1>0, <1>2, OwnStep, StillNotified
<1>5. Owned'
  BY <1>0, <1>1, <1>2, OwnStep, StillOwned DEF Owning
<1> QED
  BY <1>2, <1>3, <1>4, <1>5 DEF Inv, StoreStep

(* The lock is released once its owner is done with it.                    *)
LEMMA ReleaseInv ==
  ASSUME Inv, NEW h \in Handlers, Release(h)
  PROVE  Inv'
<1>0. /\ pc[h] = "release" /\ notified[job[h]] > 0
      /\ DeleteLock(h)
      /\ Goto(h, "ack") /\ pc'[h] = "ack"
      /\ UNCHANGED <<message, notified, published>>
  BY NextPlace DEF Release, Inv, NotifiedBefore
<1>1. /\ StoreStep /\ LocksAcquired'
      /\ UNCHANGED <<processed, disturbed, slow>>
      /\ \A o \in Orders : lock'[o] >= lock[o] \/ o = job[h]
  BY <1>0, LockDeleted
<1>2. QueueInv'
  BY <1>0, <1>1, GotoKeepsQueues DEF Inv
<1>3. NotifiedBefore'
  BY <1>0, <1>1, OwnStep, StillNotified
<1>4. Owned'
  BY <1>0, <1>1, OwnStep, StillOwned DEF Owning
<1> QED
  BY <1>1, <1>2, <1>3, <1>4 DEF Inv, StoreStep

(* The message of an order that was notified is acked.  Without a channel  *)
(* the handler goes to its catch block, where it deletes a lock that may   *)
(* no longer be its own: then a channel closed before.                     *)
LEMMA AckProcessedInv ==
  ASSUME Inv, NEW h \in Handlers, AckProcessed(h)
  PROVE  Inv'
<1>0. /\ pc[h] = "ack" /\ notified[job[h]] > 0
      /\ UNCHANGED <<redis, notified, published>>
      /\ UNCHANGED <<lock, processed, disturbed, slow>>
      /\ faults' \in 0..MaxFaults
  BY DEF AckProcessed, redis, Inv, NotifiedBefore, StoreTypes
<1>1. StoreStep /\ LocksAcquired'
  BY <1>0, StoreUntouched
<1>2. CASE h \in live /\ Ack(holds[h]) /\ Return(h)
  <2>1. QueueInv'
    BY <1>0, <1>1, <1>2, AckKeepsQueues DEF Inv
  <2> QED
    BY <1>0, <1>2, <2>1, NextPlace, PlainStep
<1>3. CASE h \notin live /\ Goto(h, "catch") /\ UNCHANGED message
  <2>1. QueueInv'
    BY <1>0, <1>1, <1>3, GotoKeepsQueues DEF Inv
  <2>2. pc'[h] = "catch" /\ disturbed
    BY <1>0, <1>3, NextPlace DEF Inv, Owned
  <2>3. NotifiedBefore'
    BY <1>0, <1>1, <1>3, <2>2, OwnStep, StillNotified
  <2>4. Owned'
    BY <1>0, <2>2 DEF Owned
  <2> QED
    BY <1>1, <2>1, <2>3, <2>4 DEF Inv, StoreStep
<1> QED
  BY <1>2, <1>3 DEF AckProcessed

(* The catch block releases the lock and sends the message on.             *)
LEMMA CatchInv ==
  ASSUME Inv, NEW h \in Handlers, Catch(h)
  PROVE  Inv'
<1> DEFINE q == IF retryCount[holds[h]] >= MaxReprocessing THEN "dlq" ELSE "main"
<1>0. /\ pc[h] = "catch"
      /\ DeleteLock(h) /\ SendToQueue(h, q) /\ q \in Queues
      /\ pc'[h] \in {"publish", "idle"}
      /\ UNCHANGED <<message, notified, published>>
  BY NextPlace DEF Catch, Queues
<1>1. /\ StoreStep /\ LocksAcquired'
      /\ UNCHANGED <<processed, disturbed, slow>>
      /\ \A o \in Orders : lock'[o] >= lock[o] \/ o = job[h]
  BY <1>0, LockDeleted
<1>2. QueueInv'
  <2>1. MayEnter(q, holds[h])
    BY DEF MayEnter, Inv, QueueInv, QueueTypes, MaxRedisRetries, MaxReprocessing
  <2> QED
    BY <1>0, <1>1, <2>1, SendKeepsQueues DEF Inv
<1>3. NotifiedBefore'
  BY <1>0, <1>1, OwnStep, StillNotified DEF Inv, NotifiedBefore, ProcessedWasNotified
<1>4. Owned'
  BY <1>0, <1>1, OwnStep, StillOwned DEF Owning
<1> QED
  BY <1>1, <1>2, <1>3, <1>4 DEF Inv, StoreStep

(* The copy is confirmed.                                                  *)
LEMMA PublishInv ==
  ASSUME Inv, NEW h \in Handlers, Publish(h)
  PROVE  Inv'
<1>0. /\ pc[h] = "publish" /\ h \in live
      /\ PublishCopy(h) /\ Goto(h, "settle") /\ pc'[h] = "settle"
      /\ UNCHANGED <<redis, notified, published>>
      /\ faults' \in 0..MaxFaults
  BY NextPlace DEF Publish, Inv, StoreTypes
<1>1. QueueInv'
  BY <1>0, StoreUntouched, CopyKeepsQueues DEF Inv
<1> QED
  BY <1>0, <1>1, PlainStep

(* The copy is refused, or taken without a confirm.                        *)
LEMMA PublishFailsInv ==
  ASSUME Inv, NEW h \in Handlers, PublishFails(h)
  PROVE  Inv'
<1>0. /\ pc[h] = "publish" /\ h \in live
      /\ UNCHANGED <<redis, notified, published>>
      /\ faults' \in 0..MaxFaults
  BY FaultCounted DEF PublishFails
<1>1. CASE /\ at' = [at EXCEPT ![holds[h]] = "main"]
           /\ UNCHANGED <<orderOf, retryCount, procRetryCount, ttl>>
           /\ Return(h)
  <2>1. QueueInv'
    BY <1>0, <1>1, StoreUntouched, NackKeepsQueues DEF Inv
  <2> QED
    BY <1>0, <1>1, <2>1, NextPlace, PlainStep
<1>2. CASE PublishCopy(h) /\ Goto(h, "nack")
  <2>1. QueueInv'
    BY <1>0, <1>2, StoreUntouched, CopyKeepsQueues DEF Inv
  <2> QED
    BY <1>0, <1>2, <2>1, NextPlace, PlainStep
<1> QED
  BY <1>1, <1>2 DEF PublishFails

(* The message goes back, unless the broker has it already.                *)
LEMMA NackInv ==
  ASSUME Inv, NEW h \in Handlers, Nack(h)
  PROVE  Inv'
<1>0. /\ pc[h] = "nack" /\ Return(h)
      /\ UNCHANGED <<orderOf, retryCount, procRetryCount, ttl>>
      /\ UNCHANGED <<redis, notified, published>>
      /\ faults' \in 0..MaxFaults
      /\ StoreStep
  BY StoreUntouched DEF Nack, Inv, StoreTypes
<1>1. QueueInv'
  <2>1. CASE h \in live
    <3>1. at' = [at EXCEPT ![holds[h]] = "main"]
      BY <2>1 DEF Nack
    <3> QED
      BY <1>0, <2>1, <3>1, NackKeepsQueues DEF Inv
  <2>2. CASE h \notin live
    <3>1. UNCHANGED message
      BY <1>0, <2>2 DEF Nack, message
    <3> QED
      BY <1>0, <2>2, <3>1, ReturnKeepsQueues DEF Inv
  <2> QED
    BY <2>1, <2>2
<1> QED
  BY <1>0, <1>1, NextPlace, PlainStep

(* The original is acked.                                                  *)
LEMMA SettleInv ==
  ASSUME Inv, NEW h \in Handlers, Settle(h)
  PROVE  Inv'
<1>0. /\ pc[h] = "settle" /\ Return(h)
      /\ UNCHANGED <<redis, notified, published>>
      /\ faults' \in 0..MaxFaults
      /\ StoreStep
  BY StoreUntouched DEF Settle, Inv, StoreTypes
<1>1. QueueInv'
  <2>1. CASE h \in live
    BY <1>0, <2>1, AckKeepsQueues DEF Inv, Settle
  <2>2. CASE h \notin live
    BY <1>0, <2>2, ReturnKeepsQueues DEF Inv, Settle
  <2> QED
    BY <2>1, <2>2
<1> QED
  BY <1>0, <1>1, NextPlace, PlainStep

(* The handler of a closed channel gives up.                               *)
LEMMA PublishAbandonedInv ==
  ASSUME Inv, NEW h \in Handlers, PublishAbandoned(h)
  PROVE  Inv'
<1>0. /\ pc[h] = "publish" /\ h \notin live /\ Return(h)
      /\ UNCHANGED message
      /\ UNCHANGED <<redis, notified, published>>
      /\ faults' \in 0..MaxFaults
  BY DEF PublishAbandoned, Inv, StoreTypes
<1>1. QueueInv'
  BY <1>0, StoreUntouched, ReturnKeepsQueues DEF Inv
<1> QED
  BY <1>0, <1>1, NextPlace, PlainStep

-----------------------------------------------------------------------------
(* The steps of the broker, the outbox, Redis and time.                    *)

(* A handler that has just been given a message owns nothing yet.          *)
LEMMA DeliverInv ==
  ASSUME Inv, NEW h \in Handlers, NEW m \in Messages, Deliver(h, m)
  PROVE  Inv'
<1>0. /\ pc[h] = "idle"
      /\ pc' = [pc EXCEPT ![h] = "get"]
      /\ job' = [job EXCEPT ![h] = orderOf[m]]
      /\ live' = live \cup {h}
      /\ UNCHANGED <<redis, notified, published>>
      /\ UNCHANGED <<lock, processed, disturbed, slow>>
      /\ faults' \in 0..MaxFaults
  BY DEF Deliver, redis, Inv, StoreTypes
<1>1. StoreStep /\ LocksAcquired'
  BY <1>0, StoreUntouched
<1>2. QueueInv'
  BY <1>1, DeliverKeepsQueues DEF Inv
<1>3. /\ pc'[h] = "get"
      /\ \A g \in Handlers \ {h} : pc'[g] = pc[g] /\ job'[g] = job[g]
  BY <1>0 DEF Inv, QueueInv, QueueTypes
<1>4. NotifiedBefore'
  BY <1>0, <1>3 DEF Inv, NotifiedBefore, ProcessedWasNotified
<1>5. Owned'
  BY <1>0, <1>3 DEF Inv, Owned, Owning
<1> QED
  BY <1>1, <1>2, <1>4, <1>5 DEF Inv, StoreStep

(* The messages of instance i go back; its handlers run on without locks   *)
(* they may rely on.                                                       *)
LEMMA ChannelClosesInv ==
  ASSUME Inv, NEW i \in Instances, ChannelCloses(i)
  PROVE  Inv'
<1> DEFINE hs == live \cap HandlersOn(i)
<1>0. /\ Requeue(hs) /\ live' = live \ hs /\ disturbed' = TRUE
      /\ UNCHANGED <<pc, holds, job, target, lock, processed, acquisitions, slow, notified,
                     published>>
      /\ faults' \in 0..MaxFaults
  BY FaultCounted DEF ChannelCloses
<1>1. StoreStep /\ LocksAcquired'
  <2>1. \A o \in Orders : lock[o] \in Int /\ notified[o] \in Int /\ acquisitions[o] \in Int
    BY DEF Inv, StoreTypes, LockTTL
  <2> QED
    BY <1>0, <2>1 DEF StoreStep, StoreTypes, Inv, LocksAcquired
<1>2. QueueInv'
  <2>1. QueueTypes'
    BY <1>0 DEF Inv, QueueInv, QueueTypes, Queues, Requeue
  <2> QED
    BY <1>0, <1>1, <2>1, RequeueKeepsQueues DEF Inv
<1>3. NotifiedBefore'
  BY <1>0 DEF Inv, NotifiedBefore, ProcessedWasNotified
<1>4. Owned'
  BY <1>0 DEF Owned
<1> QED
  BY <1>1, <1>2, <1>3, <1>4 DEF Inv, StoreStep

(* The handlers of instance i are gone and own nothing; the locks they     *)
(* took stay until they run out.                                           *)
LEMMA CrashInv ==
  ASSUME Inv, NEW i \in Instances, Crash(i)
  PROVE  Inv'
<1> DEFINE hs == live \cap HandlersOn(i)
<1>0. /\ Requeue(hs) /\ live' = live \ hs
      /\ UNCHANGED <<redis, notified, published>>
      /\ UNCHANGED <<lock, processed, disturbed, slow>>
      /\ faults' \in 0..MaxFaults
  BY FaultCounted DEF Crash, redis
<1>1. StoreStep /\ LocksAcquired'
  BY <1>0, StoreUntouched
<1>2. QueueTypes'
  BY <1>0, ResetValues DEF Inv, QueueInv, QueueTypes, Queues, Requeue, Crash
<1>3. \A g \in Handlers :
        \/ Host(g) = i /\ pc'[g] = "idle"
        \/ /\ Host(g) # i /\ pc'[g] = pc[g] /\ holds'[g] = holds[g]
           /\ job'[g] = job[g] /\ target'[g] = target[g]
  BY DEF Crash
<1>4. QueueInv'
  <2>1. \A g \in live \ hs : g \in Handlers /\ Host(g) # i
    BY DEF Inv, QueueInv, QueueTypes, HandlersOn
  <2> QED
    BY <1>0, <1>1, <1>2, <1>3, <2>1, RequeueKeepsQueues DEF Inv
<1>5. NotifiedBefore'
  BY <1>0, <1>3 DEF Inv, NotifiedBefore, ProcessedWasNotified
<1>6. Owned'
  <2>1. ASSUME ~disturbed, NEW g \in Handlers, pc'[g] # "idle" PROVE g \in live'
    BY <1>0, <1>3, <2>1 DEF Inv, Owned, HandlersOn
  <2>2. \A g \in Handlers : Owning(g)' => Owning(g) /\ job'[g] = job[g]
    BY <1>3 DEF Owning
  <2> QED
    BY <1>0, <2>1, <2>2 DEF Inv, Owned
<1> QED
  BY <1>1, <1>4, <1>5, <1>6 DEF Inv, StoreStep

(* Queues and handlers that stay as they are.                              *)
LEMMA StillQueues ==
  ASSUME QueueInv, StoreTypes, StoreStep, UNCHANGED <<message, handler>>
  PROVE  QueueInv'
<1>0. UNCHANGED <<at, orderOf, retryCount, procRetryCount, ttl, pc, holds, job, target, live>>
  BY DEF message, handler
<1>1. QueueTypes' /\ LiveHolds' /\ DelayedWait'
  BY <1>0 DEF QueueInv, QueueTypes, LiveHolds, DelayedWait, Delayed
<1>2. PublishWithin'
  BY <1>0, <1>1, PublishStaysWithin DEF QueueTypes
<1>3. Unforgotten'
  BY <1>0 DEF QueueInv, Unforgotten, Kept, StoreTypes, StoreStep
<1>4. Rounds'
  BY <1>0 DEF QueueInv, QueueTypes, Rounds, Outnumbered, StoreTypes, StoreStep
<1> QED
  BY <1>1, <1>2, <1>3, <1>4 DEF QueueInv

(* No key is left: nothing is claimed to have been notified.               *)
LEMMA RedisForgetsInv ==
  ASSUME Inv, RedisForgets
  PROVE  Inv'
<1>0. /\ processed' = {} /\ lock' = [o \in Orders |-> 0] /\ disturbed' = TRUE
      /\ UNCHANGED <<message, handler>>
      /\ UNCHANGED <<pc, job, acquisitions, slow, notified, published>>
      /\ faults' \in 0..MaxFaults
  BY FaultCounted DEF RedisForgets, handler
<1>1. StoreStep /\ LocksAcquired'
  <2>1. /\ lock' \in [Orders -> 0..LockTTL]
        /\ \A o \in Orders : ~(lock'[o] > lock[o])
    BY <1>0 DEF Inv, StoreTypes, LockTTL
  <2>2. \A o \in Orders : notified[o] \in Int /\ acquisitions[o] \in Int
    BY DEF Inv, StoreTypes
  <2> QED
    BY <1>0, <2>1, <2>2 DEF StoreStep, StoreTypes, Inv, LocksAcquired
<1>2. QueueInv'
  BY <1>0, <1>1, StillQueues DEF Inv
<1>3. NotifiedBefore' /\ Owned'
  BY <1>0 DEF Inv, NotifiedBefore, ProcessedWasNotified, Owned
<1> QED
  BY <1>1, <1>2, <1>3 DEF Inv, StoreStep

(* From now on a lock may run out under its owner.                         *)
LEMMA SlowDownInv ==
  ASSUME Inv, SlowDown
  PROVE  Inv'
<1>0. /\ slow' = TRUE
      /\ UNCHANGED <<message, handler>>
      /\ UNCHANGED <<pc, job, live, lock, processed, acquisitions, disturbed, notified, published>>
      /\ faults' \in 0..MaxFaults
  BY FaultCounted DEF SlowDown, handler
<1>1. StoreStep /\ LocksAcquired'
  <2>1. \A o \in Orders : lock[o] \in Int /\ notified[o] \in Int /\ acquisitions[o] \in Int
    BY DEF Inv, StoreTypes, LockTTL
  <2> QED
    BY <1>0, <2>1 DEF StoreStep, StoreTypes, Inv, LocksAcquired
<1>2. QueueInv'
  BY <1>0, <1>1, StillQueues DEF Inv
<1>3. NotifiedBefore' /\ Owned'
  BY <1>0 DEF Inv, NotifiedBefore, ProcessedWasNotified, Owned
<1> QED
  BY <1>1, <1>2, <1>3 DEF Inv, StoreStep

(* The outbox publishes a message: it has made no rounds, and whoever      *)
(* holds the lock of its order is more than none.                          *)
LEMMA ArriveInv ==
  ASSUME Inv, NEW o \in Orders, Arrive(o)
  PROVE  Inv'
<1>0. /\ published[o] < Deliveries
      /\ published' = [published EXCEPT ![o] = @ + 1]
      /\ UNCHANGED <<pc, holds, job, target, live, lock, processed, acquisitions, disturbed,
                     slow, notified, faults>>
  BY DEF Arrive, handler, redis
<1>1. PICK s \in Messages :
        /\ at[s] = "free"
        /\ at' = [at EXCEPT ![s] = "main"]
        /\ orderOf' = [orderOf EXCEPT ![s] = o]
        /\ retryCount' = [retryCount EXCEPT ![s] = 0]
        /\ procRetryCount' = [procRetryCount EXCEPT ![s] = 0]
        /\ ttl' = [ttl EXCEPT ![s] = Delay("main")]
  BY EnqueueSlot DEF Arrive
<1>2. \A g \in live : g \in Handlers /\ holds[g] \in Messages /\ holds[g] # s
  BY <1>1 DEF Inv, QueueInv, QueueTypes, LiveHolds
<1>3. QueueTypes'
  <2>1. Delay("main") \in 0..ProcessingRetryTTL
    BY Delays DEF Queues
  <2> QED
    BY <1>0, <1>1, <2>1
       DEF Inv, QueueInv, QueueTypes, Queues, MaxRedisRetries, MaxProcessingRetries
<1>4. LiveHolds' /\ DelayedWait'
  BY <1>0, <1>1, <1>2 DEF Inv, QueueInv, QueueTypes, LiveHolds, DelayedWait, Delayed
<1>5. PublishWithin'
  BY <1>0, <1>1, <1>2 DEF Inv, QueueInv, QueueTypes, PublishWithin, MayEnter
<1>6. Unforgotten'
  <2> SUFFICES ASSUME NEW d \in Orders, published'[d] # 0, notified[d] = 0
               PROVE  \E n \in Messages : Kept(n, d)'
    BY <1>0 DEF Unforgotten, Inv, StoreTypes
  <2>1. CASE d = o
    <3>1. Kept(s, d)'
      BY <1>0, <1>1, <1>2, <2>1 DEF Kept, Inv, QueueInv, QueueTypes
    <3> QED
      BY <3>1
  <2>2. CASE d # o
    <3>1. published[d] # 0
      BY <1>0, <2>2 DEF Inv, StoreTypes
    <3>2. PICK n \in Messages : Kept(n, d)
      BY <3>1 DEF Inv, QueueInv, Unforgotten
    <3>3. Kept(n, d)'
      BY <1>0, <1>1, <3>2 DEF Kept, Inv, QueueInv, QueueTypes
    <3> QED
      BY <3>3
  <2> QED
    BY <2>1, <2>2
<1>7. Rounds'
  <2> SUFFICES ASSUME NEW n \in Messages PROVE Outnumbered(n)'
    BY DEF Rounds
  <2>1. CASE n # s
    BY <1>0, <1>1, <2>1 DEF Inv, QueueInv, QueueTypes, Rounds, Outnumbered
  <2>2. CASE n = s
    BY <1>0, <1>1, <2>2 DEF Inv, QueueInv, QueueTypes, StoreTypes, LocksAcquired, Outnumbered
  <2> QED
    BY <2>1, <2>2
<1>8. StoreTypes'
  <2>1. published' \in [Orders -> 0..Deliveries]
    BY <1>0, ConsumerAssumption DEF Inv, StoreTypes
  <2> QED
    BY <1>0, <2>1 DEF Inv, StoreTypes
<1>9. LocksAcquired' /\ NotifiedBefore' /\ Owned'
  BY <1>0 DEF Inv, LocksAcquired, NotifiedBefore, ProcessedWasNotified, Owned, Owning
<1> QED
  BY <1>3, <1>4, <1>5, <1>6, <1>7, <1>8, <1>9 DEF Inv, QueueInv

(* Locks and waiting messages grow older together.  While no handler may   *)
(* outlive its lock, time only passes when none is at work.                *)
LEMMA TickInv ==
  ASSUME Inv, Tick
  PROVE  Inv'
<1>0. /\ slow \/ \A h \in Handlers : pc[h] = "idle"
      /\ lock' = [o \in Orders |-> IF lock[o] > 0 THEN lock[o] - 1 ELSE 0]
      /\ ttl' = [m \in Messages |-> IF m \in Delayed THEN ttl[m] - 1 ELSE ttl[m]]
      /\ at' = [m \in Messages |-> IF m \in Delayed /\ ttl[m] = 1 THEN "main" ELSE at[m]]
      /\ UNCHANGED <<orderOf, retryCount, procRetryCount, pc, holds, job, target, live,
                     processed, acquisitions, disturbed, slow, notified, published, faults>>
  BY DEF Tick, handler
<1>1. \A m \in Messages :
        /\ ttl[m] \in Int
        /\ \/ at[m] \in {"retry", "processing-retry"} /\ ttl[m] > 1
                /\ at'[m] = at[m] /\ ttl'[m] = ttl[m] - 1
           \/ at[m] \in {"retry", "processing-retry"} /\ ttl[m] = 1
                /\ at'[m] = "main" /\ ttl'[m] = 0
           \/ at[m] \notin {"retry", "processing-retry"}
                /\ at'[m] = at[m] /\ ttl'[m] = ttl[m]
  <2> SUFFICES ASSUME NEW m \in Messages
               PROVE  /\ ttl[m] \in Int
                      /\ \/ at[m] \in {"retry", "processing-retry"} /\ ttl[m] > 1
                              /\ at'[m] = at[m] /\ ttl'[m] = ttl[m] - 1
                         \/ at[m] \in {"retry", "processing-retry"} /\ ttl[m] = 1
                              /\ at'[m] = "main" /\ ttl'[m] = 0
                         \/ at[m] \notin {"retry", "processing-retry"}
                              /\ at'[m] = at[m] /\ ttl'[m] = ttl[m]
    OBVIOUS
  <2>1. ttl[m] \in Int /\ (m \in Delayed => ttl[m] > 0)
    BY DEF Inv, QueueInv, QueueTypes, DelayedWait, ProcessingRetryTTL
  <2>2. m \in Delayed <=> at[m] \in {"retry", "processing-retry"}
    BY DEF Delayed
  <2> QED
    BY <1>0, <2>1, <2>2
<1>2. \A o \in Orders : /\ lock[o] \in Int /\ lock[o] >= 0
                        /\ lock'[o] \in Int /\ lock'[o] >= 0
                        /\ lock[o] > 0 => lock'[o] = lock[o] - 1
                        /\ lock[o] = 0 => lock'[o] = 0
  BY <1>0 DEF Inv, StoreTypes, LockTTL
<1>3. QueueTypes'
  <2>1. at' \in [Messages -> Queues \cup {"unacked", "free"}]
    BY <1>0 DEF Inv, QueueInv, QueueTypes, Queues
  <2>2. ttl' \in [Messages -> 0..ProcessingRetryTTL]
    <3>1. \A m \in Messages : ttl'[m] \in 0..ProcessingRetryTTL
      BY <1>1 DEF Inv, QueueInv, QueueTypes, ProcessingRetryTTL
    <3> QED
      BY <1>0, <3>1
  <2> QED
    BY <1>0, <2>1, <2>2 DEF Inv, QueueInv, QueueTypes
<1>4. LiveHolds'
  BY <1>0, <1>1 DEF Inv, QueueInv, QueueTypes, LiveHolds
<1>5. DelayedWait'
  BY <1>1 DEF Delayed, DelayedWait
<1>6. PublishWithin'
  BY <1>0 DEF Inv, QueueInv, QueueTypes, PublishWithin, MayEnter
<1>7. Unforgotten'
  <2> SUFFICES ASSUME NEW o \in Orders, published[o] # 0, notified[o] = 0
               PROVE  \E n \in Messages : Kept(n, o)'
    BY <1>0 DEF Unforgotten, Inv, StoreTypes
  <2>1. PICK n \in Messages : Kept(n, o)
    BY DEF Inv, QueueInv, Unforgotten
  <2>2. at'[n] # "free"
    BY <1>1, <2>1 DEF Kept
  <2> QED
    BY <1>0, <2>1, <2>2 DEF Kept
<1>8. Rounds'
  <2> SUFFICES ASSUME NEW m \in Messages PROVE Outnumbered(m)'
    BY DEF Rounds
  <2>1. /\ orderOf[m] \in Orders /\ Outnumbered(m)
        /\ procRetryCount[m] \in Int /\ acquisitions[orderOf[m]] \in Int
    BY DEF Inv, QueueInv, QueueTypes, Rounds, StoreTypes, MaxProcessingRetries
  <2> QED
    BY <1>0, <1>1, <1>2, <2>1 DEF Outnumbered
<1>9. StoreTypes' /\ LocksAcquired'
  <2>1. lock' \in [Orders -> 0..LockTTL]
    BY <1>0 DEF Inv, StoreTypes, LockTTL
  <2>2. LocksAcquired'
    BY <1>0, <1>2 DEF Inv, LocksAcquired
  <2> QED
    BY <1>0, <2>1, <2>2 DEF Inv, StoreTypes
<1>10. NotifiedBefore' /\ Owned'
  BY <1>0 DEF Inv, NotifiedBefore, ProcessedWasNotified, Owned, Owning
<1> QED
  BY <1>3, <1>4, <1>5, <1>6, <1>7, <1>8, <1>9, <1>10 DEF Inv, QueueInv

-----------------------------------------------------------------------------
(* Every step of the specification keeps the invariant.                    *)
LEMMA InvNext == Inv /\ [Next]_vars => Inv'
<1> SUFFICES ASSUME Inv, [Next]_vars PROVE Inv'
  OBVIOUS
<1>1. ASSUME NEW o \in Orders, Arrive(o) PROVE Inv'
  BY <1>1, ArriveInv
<1>2. ASSUME NEW h \in Handlers, Step(h) PROVE Inv'
  BY <1>2, GetInv, AcquireInv, NotifyInv, MarkProcessedInv, ReleaseInv, AckProcessedInv,
     CatchInv, PublishInv, NackInv, SettleInv, PublishAbandonedInv DEF Step
<1>3. ASSUME NEW h \in Handlers, Failure(h) PROVE Inv'
  BY <1>3, GetFailsInv, AcquireFailsInv, NotifyFailsInv, PublishFailsInv DEF Failure
<1>4. ASSUME NEW h \in Handlers, NEW m \in Messages, Deliver(h, m) PROVE Inv'
  BY <1>4, DeliverInv
<1>5. ASSUME NEW i \in Instances, ChannelCloses(i) \/ Crash(i) PROVE Inv'
  BY <1>5, ChannelClosesInv, CrashInv
<1>6. CASE RedisForgets \/ SlowDown \/ Tick
  BY <1>6, RedisForgetsInv, SlowDownInv, TickInv
<1>7. CASE UNCHANGED vars
  <2>1. /\ UNCHANGED <<message, handler, redis, notified, published, faults>>
        /\ UNCHANGED <<pc, job, live, lock, processed, disturbed, slow>>
    BY <1>7 DEF vars, handler, redis
  <2>2. StoreStep /\ LocksAcquired'
    BY <2>1, StoreUntouched DEF Inv, StoreTypes
  <2>3. QueueInv'
    BY <2>1, <2>2, StillQueues DEF Inv
  <2>4. NotifiedBefore' /\ Owned'
    BY <2>1 DEF Inv, NotifiedBefore, ProcessedWasNotified, Owned, Owning
  <2> QED
    BY <2>2, <2>3, <2>4 DEF Inv, StoreStep
<1> QED
  BY <1>1, <1>2, <1>3, <1>4, <1>5, <1>6, <1>7 DEF Next

(* The inductive invariant holds in every reachable state.                 *)
THEOREM Invariance == Spec => []Inv
BY InvInit, InvNext, PTL DEF Spec

(* Every variable keeps its type; no message is retried more often than    *)
(* its headers may count.                                                  *)
THEOREM TypeCorrect == Spec => []TypeOK
<1>1. Inv => TypeOK
  BY TypesSplit DEF Inv, QueueInv
<1> QED
  BY <1>1, Invariance, PTL

(* The consumer loses no order: until the buyer is notified some message   *)
(* about it is in a queue, whichever faults happen, and how many.          *)
THEOREM NothingIsLost == Spec => []NoNotificationLost
<1>1. Inv => NoNotificationLost
  BY DEF Inv, QueueInv, Unforgotten, Kept, StoreTypes, NoNotificationLost
<1> QED
  BY <1>1, Invariance, PTL

(* A duplicate is only skipped for an order whose buyer was notified.      *)
THEOREM SkippedAreDuplicates == Spec => []ProcessedWasNotified
<1>1. Inv => ProcessedWasNotified
  BY DEF Inv, NotifiedBefore
<1> QED
  BY <1>1, Invariance, PTL

(* A round through the processing-retry queue outlasts the lock that       *)
(* caused it, so that each is charged to another owner.                    *)
THEOREM RoundsOutlastLocks == Spec => []EachRoundHasItsOwner
<1>1. Inv => EachRoundHasItsOwner
  BY DEF Inv, QueueInv, Rounds, Outnumbered, EachRoundHasItsOwner
<1> QED
  BY <1>1, Invariance, PTL

(* The lock does what it is for, as long as the channels stay open, Redis  *)
(* keeps its data and handlers are done in time: at most one handler       *)
(* notifies for an order at a time.                                        *)
THEOREM LockIsExclusive == Spec => []OneHandlerAtATime
<1>1. ASSUME Inv, ~disturbed, ~slow, NEW o \in Orders PROVE Cardinality(Working(o)) <= 1
  <2>1. \A g, h \in Working(o) : g = h
    BY <1>1 DEF Working, Inv, Owned, Owning
  <2>2. CASE Working(o) = {}
    BY <2>2, FS_EmptySet
  <2>3. CASE Working(o) # {}
    <3>1. PICK h \in Working(o) : TRUE
      BY <2>3
    <3>2. Working(o) = {h}
      BY <2>1, <3>1
    <3> QED
      BY <3>2, FS_Singleton
  <2> QED
    BY <2>2, <2>3
<1>2. Inv => OneHandlerAtATime
  BY <1>1 DEF OneHandlerAtATime
<1> QED
  BY <1>2, Invariance, PTL

=============================================================================
