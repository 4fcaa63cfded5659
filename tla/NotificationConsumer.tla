------------------------ MODULE NotificationConsumer ------------------------
(***************************************************************************)
(* OrderNotificationConsumer.handleMessage, run by several handlers on     *)
(* several instances, with the four RabbitMQ queues it moves messages      *)
(* between and the two Redis keys it keeps per order.                      *)
(*                                                                         *)
(* A handler's steps are its awaits.  A message is a slot of Messages; the *)
(* copy a handler publishes takes a free slot, an ack frees one.  Time     *)
(* passes in ticks of five seconds.  Crashes, closed channels, failing     *)
(* Redis calls, failing publishes, a failing notification API and handlers *)
(* that outlive their lock are faults, of the kinds and up to the number   *)
(* the constants allow.                                                    *)
(***************************************************************************)
EXTENDS Integers, FiniteSets

CONSTANTS
  Orders,         \* the orderIds messages are about
  Messages,       \* bound: slots for the copies that exist at one time
  Instances,      \* the consumer processes
  Slots,          \* bound: concurrent handlers of one (prefetch is 100)
  Deliveries,     \* bound: messages the outbox publishes for one order
  FaultKinds,     \* the faults of this model
  MaxFaults       \* bound: how many of them

AllFaults == {"crash", "channel", "redis", "forget", "publish", "notify", "slow"}

ASSUME ConsumerAssumption ==
  /\ Orders # {} /\ Messages # {}
  /\ FaultKinds \subseteq AllFaults
  /\ MaxFaults \in Nat
  /\ Deliveries \in Nat

VARIABLES
  at,             \* at[m]: the queue m is in, "unacked", or "free"
  orderOf,        \* orderOf[m]: its orderId
  retryCount,     \* retryCount[m], procRetryCount[m]: its two headers
  procRetryCount,
  ttl,            \* ttl[m]: ticks until a delay queue dead-letters m
  pc,             \* pc[h]: the await handler h is at
  holds,          \* holds[h]: the message it was given
  job,            \* job[h]: the orderId it read from it
  target,         \* target[h]: the queue it is publishing to
  live,           \* the handlers whose channel is still open
  lock,           \* lock[o]: ticks left of processing:..., 0 when absent
  processed,      \* the orders with a processed:... key
  notified,       \* history: notifications sent for o
  acquisitions,   \* history: times the lock of o was taken
  disturbed,      \* history: a channel closed, or Redis lost its keys
  slow,           \* handlers may by now outlive the 30 s of their lock
  published,      \* published[o]: messages the outbox has published for o
  faults

message == <<at, orderOf, retryCount, procRetryCount, ttl>>
handler == <<pc, holds, job, target, live>>
redis == <<lock, processed, acquisitions, disturbed, slow>>
vars == <<message, handler, redis, notified, published, faults>>

Handlers == Instances \X Slots
Host(h) == h[1]

(* The queues' and the lock's times to live: 5 s, 30 s and 35 s.           *)
RetryTTL == 1
LockTTL == 6

(* Mutant: a message comes back while the lock that sent it away is held.  *)
HastyProcessingRetryTTL == 5

ProcessingRetryTTL == 7

MaxRedisRetries == 3

(* Mutant: one round less in the processing-retry queue.                   *)
TwoProcessingRetries == 2

MaxProcessingRetries == 3
MaxReprocessing == 1

Delay(q) == CASE q = "retry" -> RetryTTL
              [] q = "processing-retry" -> ProcessingRetryTTL
              [] OTHER -> 0

Init ==
  /\ at = [m \in Messages |-> "free"]
  /\ orderOf = [m \in Messages |-> CHOOSE o \in Orders : TRUE]
  /\ retryCount = [m \in Messages |-> 0]
  /\ procRetryCount = [m \in Messages |-> 0]
  /\ ttl = [m \in Messages |-> 0]
  /\ pc = [h \in Handlers |-> "idle"]
  /\ holds = [h \in Handlers |-> CHOOSE m \in Messages : TRUE]
  /\ job = [h \in Handlers |-> CHOOSE o \in Orders : TRUE]
  /\ target = [h \in Handlers |-> "main"]
  /\ live = {}
  /\ lock = [o \in Orders |-> 0]
  /\ processed = {}
  /\ notified = [o \in Orders |-> 0]
  /\ acquisitions = [o \in Orders |-> 0]
  /\ disturbed = FALSE
  /\ slow = FALSE
  /\ published = [o \in Orders |-> 0]
  /\ faults = 0

Fault(kind) == /\ kind \in FaultKinds
               /\ faults < MaxFaults
               /\ faults' = faults + 1

Goto(h, step) == pc' = [pc EXCEPT ![h] = step] /\ UNCHANGED <<holds, job, target, live>>

(* The handler returns.  (What it held is reset to keep states few.)       *)
Return(h) ==
  /\ pc' = [pc EXCEPT ![h] = "idle"]
  /\ holds' = [holds EXCEPT ![h] = CHOOSE m \in Messages : TRUE]
  /\ job' = [job EXCEPT ![h] = CHOOSE o \in Orders : TRUE]
  /\ target' = [target EXCEPT ![h] = "main"]
  /\ live' = live \ {h}

(* A copy of a message enters queue q, with these headers.                 *)
Enqueue(q, o, retries, procRetries) ==
  LET free == {n \in Messages : at[n] = "free"}
      m == CHOOSE n \in free : TRUE IN
    /\ free # {}
    /\ at' = [at EXCEPT ![m] = q]
    /\ orderOf' = [orderOf EXCEPT ![m] = o]
    /\ retryCount' = [retryCount EXCEPT ![m] = retries]
    /\ procRetryCount' = [procRetryCount EXCEPT ![m] = procRetries]
    /\ ttl' = [ttl EXCEPT ![m] = Delay(q)]

(* channel.ack(message): the broker forgets it.                            *)
Ack(m) ==
  /\ at' = [at EXCEPT ![m] = "free"]
  /\ orderOf' = [orderOf EXCEPT ![m] = CHOOSE o \in Orders : TRUE]
  /\ retryCount' = [retryCount EXCEPT ![m] = 0]
  /\ procRetryCount' = [procRetryCount EXCEPT ![m] = 0]
  /\ UNCHANGED ttl

-----------------------------------------------------------------------------
(* The outbox relay publishes a message for o, perhaps not for the first   *)
(* time.                                                                   *)
Arrive(o) ==
  /\ published[o] < Deliveries
  /\ Enqueue("main", o, 0, 0)
  /\ published' = [published EXCEPT ![o] = @ + 1]
  /\ UNCHANGED <<handler, redis, notified, faults>>

(* channel.consume calls back with the message.                            *)
Deliver(h, m) ==
  /\ pc[h] = "idle"
  /\ at[m] = "main"
  /\ at' = [at EXCEPT ![m] = "unacked"]
  /\ pc' = [pc EXCEPT ![h] = "get"]
  /\ holds' = [holds EXCEPT ![h] = m]
  /\ job' = [job EXCEPT ![h] = orderOf[m]]
  /\ live' = live \cup {h}
  /\ UNCHANGED <<orderOf, retryCount, procRetryCount, ttl, target, redis, notified,
                 published, faults>>

(* sendToQueue(q).  On a closed channel it throws, and so does the nack in *)
(* the catch block, which swallows it.                                     *)
SendToQueue(h, q) ==
  \/ /\ h \in live
     /\ pc' = [pc EXCEPT ![h] = "publish"]
     /\ target' = [target EXCEPT ![h] = q]
     /\ UNCHANGED <<holds, job, live>>
  \/ /\ h \notin live
     /\ Return(h)

(* Mutant: a duplicate is put back into the queue instead of acked.        *)
GetOrRequeue(h) ==
  /\ pc[h] = "get"
  /\ \/ /\ job[h] \in processed
        /\ at' = IF h \in live THEN [at EXCEPT ![holds[h]] = "main"] ELSE at
        /\ UNCHANGED <<orderOf, retryCount, procRetryCount, ttl>>
        /\ Return(h)
     \/ /\ job[h] \notin processed
        /\ Goto(h, "lock")
        /\ UNCHANGED message
  /\ UNCHANGED <<redis, notified, published, faults>>

(* getStrict(processedKey): a duplicate is acked at once.  On a closed     *)
(* channel that ack throws into the Redis catch block, whose publish and   *)
(* nack throw as well: the handler returns.                                *)
Get(h) ==
  /\ pc[h] = "get"
  /\ \/ /\ job[h] \in processed
        /\ IF h \in live THEN Ack(holds[h]) ELSE UNCHANGED message
        /\ Return(h)
     \/ /\ job[h] \notin processed
        /\ Goto(h, "lock")
        /\ UNCHANGED message
  /\ UNCHANGED <<redis, notified, published, faults>>

(* The catch block of the two strict Redis calls.                          *)
RedisFailed(h) ==
  SendToQueue(h, IF retryCount[holds[h]] >= MaxRedisRetries THEN "dlq" ELSE "retry")

GetFails(h) ==
  /\ pc[h] = "get"
  /\ Fault("redis")
  /\ RedisFailed(h)
  /\ UNCHANGED <<message, redis, notified, published>>

(* Mutant: the order is marked as processed when its processing starts.    *)
TakeLockAndMark(o) == /\ lock' = [lock EXCEPT ![o] = LockTTL]
                      /\ acquisitions' = [acquisitions EXCEPT ![o] = @ + 1]
                      /\ processed' = processed \cup {o}
                      /\ UNCHANGED <<disturbed, slow>>

TakeLock(o) == /\ lock' = [lock EXCEPT ![o] = LockTTL]
               /\ acquisitions' = [acquisitions EXCEPT ![o] = @ + 1]
               /\ UNCHANGED <<processed, disturbed, slow>>

(* Mutant: SET without NX.                                                 *)
AcquireAlways(h) ==
  /\ pc[h] = "lock"
  /\ TakeLock(job[h])
  /\ Goto(h, "notify")
  /\ UNCHANGED <<message, notified, published, faults>>

(* Mutant: a message that finds the lock taken is acked and dropped, the   *)
(* loss the processing-retry queue was introduced for.                     *)
AcquireOrDrop(h) ==
  /\ pc[h] = "lock"
  /\ \/ /\ lock[job[h]] = 0
        /\ TakeLock(job[h])
        /\ Goto(h, "notify")
        /\ UNCHANGED message
     \/ /\ lock[job[h]] > 0
        /\ IF h \in live THEN Ack(holds[h]) ELSE UNCHANGED message
        /\ Return(h)
        /\ UNCHANGED redis
  /\ UNCHANGED <<notified, published, faults>>

(* setIfAbsentStrict(processingKey, 30): without the lock the message goes *)
(* to the processing-retry queue, or to the DLQ after three rounds there.  *)
Acquire(h) ==
  /\ pc[h] = "lock"
  /\ \/ /\ lock[job[h]] = 0
        /\ TakeLock(job[h])
        /\ Goto(h, "notify")
     \/ /\ lock[job[h]] > 0
        /\ SendToQueue(h, IF procRetryCount[holds[h]] >= MaxProcessingRetries
                            THEN "dlq" ELSE "processing-retry")
        /\ UNCHANGED redis
  /\ UNCHANGED <<message, notified, published, faults>>

(* SET NX rejects; Redis may have executed it all the same.                *)
AcquireFails(h) ==
  /\ pc[h] = "lock"
  /\ Fault("redis")
  /\ \/ UNCHANGED redis
     \/ lock[job[h]] = 0 /\ TakeLock(job[h])
  /\ RedisFailed(h)
  /\ UNCHANGED <<message, notified, published>>

(* The call to the notification API (a timer stands for it in the code).   *)
Notify(h) ==
  /\ pc[h] = "notify"
  /\ notified' = [notified EXCEPT ![job[h]] = @ + 1]
  /\ Goto(h, "mark")
  /\ UNCHANGED <<message, redis, published, faults>>

NotifyFails(h) ==
  /\ pc[h] = "notify"
  /\ Fault("notify")
  /\ Goto(h, "catch")
  /\ UNCHANGED <<message, redis, notified, published>>

(* set(processedKey), which swallows its own failure.                      *)
MarkProcessed(h) ==
  /\ pc[h] = "mark"
  /\ \/ processed' = processed \cup {job[h]} /\ UNCHANGED faults
     \/ Fault("redis") /\ UNCHANGED processed
  /\ Goto(h, "release")
  /\ UNCHANGED <<message, lock, acquisitions, disturbed, slow, notified, published>>

(* del(processingKey), likewise: whoever holds the lock now.               *)
DeleteLock(h) ==
  /\ \/ lock' = [lock EXCEPT ![job[h]] = 0] /\ UNCHANGED faults
     \/ Fault("redis") /\ UNCHANGED lock
  /\ UNCHANGED <<processed, acquisitions, disturbed, slow>>

Release(h) ==
  /\ pc[h] = "release"
  /\ DeleteLock(h)
  /\ Goto(h, "ack")
  /\ UNCHANGED <<message, notified, published>>

(* ack of a message that was processed; on a closed channel it throws into *)
(* the catch block of the processing.                                      *)
AckProcessed(h) ==
  /\ pc[h] = "ack"
  /\ \/ h \in live /\ Ack(holds[h]) /\ Return(h)
     \/ h \notin live /\ Goto(h, "catch") /\ UNCHANGED message
  /\ UNCHANGED <<redis, notified, published, faults>>

(* The catch block of the processing: the lock is released and the message *)
(* goes through the main queue once more, then to the DLQ.                 *)
Catch(h) ==
  /\ pc[h] = "catch"
  /\ DeleteLock(h)
  /\ SendToQueue(h, IF retryCount[holds[h]] >= MaxReprocessing THEN "dlq" ELSE "main")
  /\ UNCHANGED <<message, notified, published>>

(* The copy and its headers: the two retry paths share retry-count.        *)
PublishCopy(h) ==
  LET m == holds[h]
      q == target[h] IN
  Enqueue(q, job[h],
          IF q \in {"retry", "main"} THEN retryCount[m] + 1 ELSE retryCount[m],
          IF q = "processing-retry" THEN procRetryCount[m] + 1 ELSE procRetryCount[m])

(* The broker takes the copy and waitForConfirms resolves.                 *)
Publish(h) ==
  /\ pc[h] = "publish"
  /\ h \in live
  /\ PublishCopy(h)
  /\ Goto(h, "settle")
  /\ UNCHANGED <<redis, notified, published, faults>>

(* Mutant: the original is acked although its copy was not confirmed.      *)
PublishFailsAcked(h) ==
  /\ pc[h] = "publish"
  /\ h \in live
  /\ Fault("publish")
  /\ Ack(holds[h])
  /\ Return(h)
  /\ UNCHANGED <<redis, notified, published>>

(* The publish is refused, or its confirm is lost: nack with requeue.      *)
PublishFails(h) ==
  /\ pc[h] = "publish"
  /\ h \in live
  /\ Fault("publish")
  /\ \/ /\ at' = [at EXCEPT ![holds[h]] = "main"]
        /\ UNCHANGED <<orderOf, retryCount, procRetryCount, ttl>>
        /\ Return(h)
     \/ PublishCopy(h) /\ Goto(h, "nack")
  /\ UNCHANGED <<redis, notified, published>>

Nack(h) ==
  /\ pc[h] = "nack"
  /\ at' = IF h \in live THEN [at EXCEPT ![holds[h]] = "main"] ELSE at
  /\ Return(h)
  /\ UNCHANGED <<orderOf, retryCount, procRetryCount, ttl, redis, notified, published,
                 faults>>

(* The original is acked once its copy is confirmed.                       *)
Settle(h) ==
  /\ pc[h] = "settle"
  /\ IF h \in live THEN Ack(holds[h]) ELSE UNCHANGED message
  /\ Return(h)
  /\ UNCHANGED <<redis, notified, published, faults>>

(* The channel closed during waitForConfirms: it rejects, the nack throws. *)
PublishAbandoned(h) ==
  /\ pc[h] = "publish"
  /\ h \notin live
  /\ Return(h)
  /\ UNCHANGED <<message, redis, notified, published, faults>>

-----------------------------------------------------------------------------
(* The broker puts the unacked messages of these handlers back.            *)
Requeue(hs) ==
  /\ at' = [m \in Messages |-> IF \E h \in hs : holds[h] = m THEN "main" ELSE at[m]]
  /\ UNCHANGED <<orderOf, retryCount, procRetryCount, ttl>>

HandlersOn(i) == {h \in Handlers : Host(h) = i}

(* The channel or the connection of instance i is lost; its handlers run   *)
(* on, with a channel they can no longer use.                              *)
ChannelCloses(i) ==
  /\ live \cap HandlersOn(i) # {}
  /\ Fault("channel")
  /\ Requeue(live \cap HandlersOn(i))
  /\ live' = live \ HandlersOn(i)
  /\ disturbed' = TRUE
  /\ UNCHANGED <<pc, holds, job, target, lock, processed, acquisitions, slow, notified,
                 published>>

(* The process of instance i dies and is restarted.                        *)
Crash(i) ==
  /\ \E h \in HandlersOn(i) : pc[h] # "idle"
  /\ Fault("crash")
  /\ Requeue(live \cap HandlersOn(i))
  /\ live' = live \ HandlersOn(i)
  /\ pc' = [h \in Handlers |-> IF Host(h) = i THEN "idle" ELSE pc[h]]
  /\ holds' = [h \in Handlers |-> IF Host(h) = i THEN CHOOSE m \in Messages : TRUE
                                                 ELSE holds[h]]
  /\ job' = [h \in Handlers |-> IF Host(h) = i THEN CHOOSE o \in Orders : TRUE
                                               ELSE job[h]]
  /\ target' = [h \in Handlers |-> IF Host(h) = i THEN "main" ELSE target[h]]
  /\ UNCHANGED <<redis, notified, published>>

(* Redis restarts without its data.                                        *)
RedisForgets ==
  /\ processed # {} \/ \E o \in Orders : lock[o] > 0
  /\ Fault("forget")
  /\ processed' = {}
  /\ lock' = [o \in Orders |-> 0]
  /\ disturbed' = TRUE
  /\ UNCHANGED <<message, handler, acquisitions, slow, notified, published>>

(* An event loop that lags, a notification API that hangs: from now on     *)
(* handlers may take longer than their lock lives.                         *)
SlowDown ==
  /\ ~slow
  /\ \E h \in Handlers : pc[h] # "idle"
  /\ Fault("slow")
  /\ slow' = TRUE
  /\ UNCHANGED <<message, handler, lock, processed, acquisitions, disturbed, notified,
                 published>>

(* Mutant: the main queue is declared with a message TTL as well.          *)
DelayedInMain == {m \in Messages : at[m] \in {"main", "retry", "processing-retry"}}

Delayed == {m \in Messages : at[m] \in {"retry", "processing-retry"}}

(* The handlers that rely on the lock they took.                           *)
Working(o) == {h \in Handlers : job[h] = o /\ pc[h] \in {"notify", "mark", "release"}}

(* Five seconds pass: locks run out, and the delay queues dead-letter what *)
(* has waited long enough to the main queue.                               *)
Tick ==
  /\ Delayed # {} \/ \E o \in Orders : lock[o] > 0
  /\ slow \/ \A h \in Handlers : pc[h] = "idle"
  /\ lock' = [o \in Orders |-> IF lock[o] > 0 THEN lock[o] - 1 ELSE 0]
  /\ ttl' = [m \in Messages |-> IF m \in Delayed THEN ttl[m] - 1 ELSE ttl[m]]
  /\ at' = [m \in Messages |-> IF m \in Delayed /\ ttl[m] = 1 THEN "main" ELSE at[m]]
  /\ UNCHANGED <<orderOf, retryCount, procRetryCount, handler, processed, acquisitions,
                 disturbed, slow, notified, published, faults>>

-----------------------------------------------------------------------------
Step(h) == \/ Get(h)
           \/ Acquire(h)
           \/ Notify(h)
           \/ MarkProcessed(h)
           \/ Release(h)
           \/ AckProcessed(h)
           \/ Catch(h)
           \/ Publish(h)
           \/ Nack(h)
           \/ Settle(h)
           \/ PublishAbandoned(h)

Failure(h) == \/ GetFails(h)
              \/ AcquireFails(h)
              \/ NotifyFails(h)
              \/ PublishFails(h)

(* Nothing is left to do but to look into the DLQ.                         *)
Quiet == /\ \A m \in Messages : at[m] \in {"free", "dlq"}
         /\ \A h \in Handlers : pc[h] = "idle"
         /\ \A o \in Orders : lock[o] = 0 /\ published[o] = Deliveries

Next == \/ \E o \in Orders : Arrive(o)
        \/ \E h \in Handlers : Step(h) \/ Failure(h)
        \/ \E h \in Handlers, m \in Messages : Deliver(h, m)
        \/ \E i \in Instances : ChannelCloses(i) \/ Crash(i)
        \/ RedisForgets
        \/ SlowDown
        \/ Tick
        \/ Quiet /\ UNCHANGED vars

Spec == Init /\ [][Next]_vars

(* The event loop runs what can run, RabbitMQ delivers what it has to idle *)
(* consumers, and time passes.  This presumes a consumer that the broker   *)
(* has not cancelled (ConsumerConnection).                                 *)
FairSpec ==
  /\ Spec
  /\ \A h \in Handlers : WF_vars(Step(h))
  /\ WF_vars(\E h \in Handlers, m \in Messages : Deliver(h, m))
  /\ WF_vars(Tick)

-----------------------------------------------------------------------------
Queues == {"main", "retry", "processing-retry", "dlq"}

(* Type invariant.  No message is retried more often than its two headers  *)
(* may count.                                                              *)
TypeOK ==
  /\ at \in [Messages -> Queues \cup {"unacked", "free"}]
  /\ orderOf \in [Messages -> Orders]
  /\ retryCount \in [Messages -> 0..MaxRedisRetries]
  /\ procRetryCount \in [Messages -> 0..MaxProcessingRetries]
  /\ ttl \in [Messages -> 0..ProcessingRetryTTL]
  /\ pc \in [Handlers -> {"idle", "get", "lock", "notify", "mark", "release", "ack",
                          "catch", "publish", "settle", "nack"}]
  /\ holds \in [Handlers -> Messages]
  /\ job \in [Handlers -> Orders]
  /\ target \in [Handlers -> Queues]
  /\ live \subseteq Handlers
  /\ lock \in [Orders -> 0..LockTTL]
  /\ processed \subseteq Orders
  /\ notified \in [Orders -> Nat]
  /\ acquisitions \in [Orders -> Nat]
  /\ {disturbed, slow} \subseteq BOOLEAN
  /\ published \in [Orders -> 0..Deliveries]
  /\ faults \in 0..MaxFaults

(* An order whose event was published is never forgotten: its buyer has    *)
(* been notified or a message about it is still in some queue, the DLQ     *)
(* included, whatever crashes, closes or fails in between.                 *)
NoNotificationLost ==
  \A o \in Orders :
    \/ published[o] = 0
    \/ notified[o] > 0
    \/ \E m \in Messages : orderOf[m] = o /\ at[m] # "free"

(* A processed key is only ever set after a notification went out, so that *)
(* a skipped duplicate is a duplicate.                                     *)
ProcessedWasNotified == \A o \in processed : notified[o] > 0

(* A message returns from the processing-retry queue after the lock that   *)
(* sent it there has run out: each round it makes was caused by another    *)
(* owner of the lock, so one crashed owner never sends it to the DLQ.      *)
EachRoundHasItsOwner ==
  \A m \in Messages : procRetryCount[m] <= acquisitions[orderOf[m]]

(* As long as handlers are done before their lock runs out, two of them    *)
(* never notify for one order at a time: neither a crash nor a failing     *)
(* call frees a lock that is in use.  A channel that closed under them, or *)
(* Redis without its keys, takes the code out of what it can guarantee.    *)
OneHandlerAtATime ==
  disturbed \/ slow \/ \A o \in Orders : Cardinality(Working(o)) <= 1

(* The README's promise of idempotence: however many messages about one    *)
(* order are delivered at a time, one notification is sent.                *)
NotifiedOnce == \A o \in Orders : notified[o] <= 1

(* No message circulates for ever: from some point on everything is acked  *)
(* or in the DLQ.                                                          *)
CirculationEnds == <>[](\A m \in Messages : at[m] \in {"free", "dlq"})

(* Up to three crashes, closed channels, failing Redis calls or publishes  *)
(* do not cost a buyer the notification: redelivery and the two retry      *)
(* queues recover it before the limits send it to the DLQ.                 *)
BuyerNotified == \A o \in Orders : published[o] > 0 ~> notified[o] > 0

=============================================================================
