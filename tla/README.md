# Flash sale: specifications, model checking and proofs

TLA+ specifications of the flash-sale service in `src/`, the TLC
configurations that check them on small instances, and TLAPS proofs of what
matters most for every instance. Paths below are relative to the repository.

## 1. Inventory

| Component | State | Operations | Talks to |
| --- | --- | --- | --- |
| Order placement: `order.controller.ts`, `order.service.ts`, `order/repository/*`, `order/transaction/*` | PostgreSQL tables `inventories`, `orders`, `outbox_events` and their sequences; per request an open transaction and its row lock | `POST /orders`: validate, precheck the stock, then in one transaction insert the order, insert the event, decrement the stock if it suffices | writes the outbox that the relay reads |
| Outbox relay: `outbox-publisher.service.ts`, `prisma-outbox.repository.ts`, `rabbitmq.service.ts` | `outbox_events.status`, `processing_started_at`; per instance `activeExecutions`; per cycle its batch | every second: find PENDING, claim, publish with confirm, mark SENT; every 30 s: reopen rows that have been PROCESSING for 30 s | publishes to `order.notification` |
| Notification consumer: `order-notification.consumer.ts`, `redis.service.ts` | four RabbitMQ queues, message headers `retry-count` and `processing-retry-count`; Redis keys `processed:...` and `processing:...` per order; handlers in flight | per message: skip if processed, take the lock, notify, mark, release, ack; retry, processing-retry and DLQ paths | Redis, RabbitMQ, the notification API |
| Broker connections of `order-notification.consumer.ts` and `rabbitmq.service.ts` | `connection`, `channel`, `connecting`, `shuttingDown`, `reconnectTimer`, `consumerTag`, `inFlightHandlers` | connect, close callbacks, reconnect after 3 s, shutdown with drain | RabbitMQ; the publisher's fields are what `GET /health` reads |
| Product catalogue: `product.service.ts` | table `products`, Redis cache with a TTL of 60 s | cache-aside read, price update followed by a delete of the key | PostgreSQL, Redis |
| Seed: `prisma/seed.ts` | rows of `products`, `inventories`, `orders` | delete what earlier runs left, create one product | PostgreSQL, under a running service |
| Health, metrics, tracing, request ids | none that another component reads | probes and counters | all services |
| Deployment, load tests | none at run time | scripts | |

Several API instances run behind nginx (`nginx/nginx.conf` names two) and share
PostgreSQL, Redis and RabbitMQ; each runs a relay and a consumer.

What makes this hard, and what each component owes:

* **Order placement.** Prechecks read a stock that other transactions are about
  to change; commits can take effect without the client hearing of it. It owes:
  no overselling, an order, its event and its decrement together or not at all,
  truthful answers, no refusal because of units that come back.
* **Outbox relay.** Cycles overlap across instances, processes die between
  publish and mark, and a hanging publisher is overtaken by the recovery. It
  owes: no event marked without having been published, SENT for good, every
  event sent eventually, duplicates only where a recovery explains them.
* **Notification consumer.** Messages are delivered more than once, locks expire,
  channels close under running handlers, every call may fail with or without
  effect. It owes: no order forgotten, bounded retries, one dead lock owner never
  exhausting the retries, handlers kept apart while they are within their lock.
* **Broker connections.** Callbacks, timers and shutdown interleave with the
  awaits of `connect`. They owe: a drained shutdown, no connection leaked, a
  reconnect after every loss, a truthful health endpoint.
* **Product cache.** A stale fill may follow the invalidation, and the
  invalidation may be lost. It owes: a bound on how stale a price can be served.
* **Seed.** Five statements without a transaction, beside a service that sells.
  It owes: one product that can be sold, however often a run failed before.
* **All together.** An order that was committed reaches its buyer or the
  dead-letter queue, and repetitions have a fault to blame.

The hazards behind these properties are listed one by one, with their lines, in
`PROJECT.json`.

## 2. Plan

1. **Order placement** (done): `FlashSale` (abstract), `OrderPlacement`
   (detailed, refines it), `OrderPlacementProofs`.
2. **Outbox relay** (done): `OutboxPublisher`, `OutboxPublisherProofs`.
3. **Notification consumer** (done): `NotificationConsumer`,
   `NotificationConsumerProofs`.
4. **Broker connections** (done): `LinkSupervisor` (abstract),
   `ConsumerConnection` and `PublisherConnection`, which implement it, each with
   its proofs.
5. **Product cache and seed** (done): `ProductCache`, `Seed`, each with its proofs.
6. **Delivery** (done): `OrderNotification` (abstract) and `Delivery`, the
   composition of 2 and 3 that implements it, with `DeliveryProofs`.
7. **Left**: what holds of a run of the seed script that was not alone; how many
   repetitions several crashes and closed channels can cost.

## 3. Modules

### FlashSale and OrderPlacement

`FlashSale` is what a client may rely on: a request is sold whole and in one
step, refused only when the stock does not serve it, rejected when malformed, or
fails, in which case it has been sold in full or not at all.

`OrderPlacement` models one process per request. `pc[r]` is the await it is at
(`validate`, `precheck`, `orderInsert`, `outboxInsert`, `decrease`, `commit`) or
its HTTP answer (`created` 201, `conflict` 409, `badRequest` 400, `failed` 500 or
a broken connection). `stock`, `orders` and `outbox` are the committed rows;
`txOrderId`, `txEventId`, `txStock` are the writes of the open transaction. The
row lock is not a variable: a transaction holds it exactly from its UPDATE to its
end, that is while its `pc` is `commit` (`RowLocked`).

| Action | Code |
| --- | --- |
| `Validate` | `ValidationPipe` (`main.ts`) on `CreateOrderDto` |
| `Precheck` | `findByProductId` and the first `ConflictException` |
| `OrderInsert` | `orderRepository.create`; the foreign key to `users` may reject it |
| `OutboxInsert` | `outboxRepository.create` |
| `DecreaseIfAvailable` | the conditional `updateMany` under READ COMMITTED and the second conflict |
| `Commit` | the end of `$transaction`; its answer may be lost (`failed`) |
| `Abort` | any failing call, time limit, lost connection or crash before the commit |

PostgreSQL and Prisma are external: the model takes from them READ COMMITTED
visibility, row locks held to the end of the transaction with the WHERE clause
re-evaluated after the wait, sequences that do not roll back, and atomic commit.
A crash of the whole process is a sequence of `Abort`s.

### OutboxPublisher

A cycle is one invocation of `publishPending`; `Slots` gives an instance room for
more than one, so that the `activeExecutions` guard has something to prevent.
`batch[c]` is the rows still to be worked through, lowest id first. Statements
commit one by one. `CallFails` is a rejected statement or publish, with or
without effect; the cycle leaves through `finally` and the rest of the batch is
abandoned. `Crash` is the death and restart of an instance. `Stall` is a
statement or a `waitForConfirms` that hangs, which nothing in the code limits:
the cycle stays where it is, with `activeExecutions` at one, and may be answered
late, fail, or hang until its process dies. `Expire` stands for 30 s since a
claim: it comes for rows nobody works on any more and for rows somebody hangs
over. The guard on `event.type` is left out: the repository writes no other
type, so it cannot fire.

### NotificationConsumer

Messages are slots with a queue (`at`), an order, two headers and, in a delay
queue, the ticks that are left; one tick is five seconds, so that the TTLs 5 s,
30 s and 35 s are 1, 6 and 7. Publishing takes a free slot, an ack frees one. A
handler's `pc` is the await it is at; `live` holds the handlers whose channel is
open: the others run on, but their sends, acks and nacks throw, as in
`amqplib`. `lock[o]` is the remaining time of `processing:...` and carries no
owner, as in the code.

| Action | Code |
| --- | --- |
| `Get`, `GetFails` | `getStrict`, ack of a duplicate, its catch block |
| `Acquire`, `AcquireFails` | `setIfAbsentStrict` and the processing-retry and DLQ branches; a rejected SET NX may have been executed |
| `Notify`, `NotifyFails` | the notification API, for which the code has a timer and a comment |
| `MarkProcessed`, `Release` | best-effort `set` and `del` |
| `AckProcessed` | the ack, which throws into the catch block on a closed channel |
| `Catch` | release, then back to the main queue or to the DLQ |
| `Publish`, `PublishFails`, `Nack`, `Settle`, `PublishAbandoned` | `sendToQueue` and `waitForConfirms`, then ack or nack; all five publishing branches have this shape |
| `ChannelCloses`, `Crash`, `RedisForgets`, `SlowDown`, `Tick` | the environment |

The queues are sets, so every delivery order is covered. Time passes while a
handler is at work only after the fault `SlowDown`: before it, handlers are done
within the 30 s of their lock. `disturbed` and `slow` record that the code has
lost its means to keep two handlers apart (a channel closed under a handler that
runs on, Redis without its keys, a handler that outlived its lock):
`OneHandlerAtATime` is about all other faults. A message that is not JSON (line
187 parses outside any `try`) is not modelled: the relay writes none.

### LinkSupervisor, ConsumerConnection, PublisherConnection

`LinkSupervisor` has one variable, `attempting`, `up`, `down` or `stopped`: a
failed or lost connection is retried until the shutdown. The two detailed modules
follow `connect` await by await. A link is a connection with its channel;
`attempt` is the await `connect` is at (so `connecting` is `attempt # "idle"`),
`connection`, `channel` and `reconnectTimer` are the fields, `listening` is the
links whose close listeners are registered, and `stop` is the await of the
shutdown hook with what it read from the fields.

| Action | Code |
| --- | --- |
| `Dial`, `SetUp`, `Consume`, `Assign` | the awaits of `connect`; listeners and fields in one synchronous piece at its end |
| `DialFails`, `SetUpFails`, `Reconnect` | its catch block and `scheduleReconnect` |
| `ConnectionLost`, `ChannelLost`, `CloseConfirmed` | the close listeners; the consumer's channel listener closes the connection, the publisher has none |
| `ConsumerCancelled` | the callback of `channel.consume` gets null from the broker and returns |
| `Deliver`, `Finish` | a handler enters and leaves `inFlightHandlers` |
| `ShutDown`, `Cancel`, `AllSettled`, `CloseChannel`, `CloseConnection` | `beforeApplicationShutdown` (consumer), `onApplicationShutdown` (publisher) |
| `Exit` | the end of the process after its hooks |

What amqplib does is external: a connection that closes takes its channel along
and emits both close events; a failed call leaves an open connection behind.
The code leaves four cases open, and a history variable records the links each of
them happened to:

* Between the last answer to `connect` and the continuation that registers the
  listeners a close is not heard (`unheard`, in the publisher `unnoticed`).
* A failed set-up leaves its connection open (`abandoned`).
* A connection that `connect` finished during the shutdown stays open until the
  process ends (`listening \ served`, in the consumer).
* The broker cancels the consumer, as it does when the queue is deleted
  (`cancelled`). The callback gets null and returns
  (`order-notification.consumer.ts:82-84`): channel, connection and fields stay,
  no listener runs, and nothing reconnects until the channel, the connection or
  the process is lost for another reason. From then on this instance consumes
  nothing.

`LeaksExplained` excepts the open connections of the second and third case,
`HealthIsTruthful` and `ConsumesInTheEnd` the links of the first, and
`ConsumesInTheEnd` also those of the fourth. They name these cases and do not
catch them; what they show is that there is no other. `ImplementsSupervisor`
reads `up` from the channel field and so cannot see the first or the fourth. The
publisher's `unnoticed` also holds links whose channel closed alone: nobody
listens, so `isAvailable` stays true. An 'error' event during `connect` finds no
listener and ends the process, which starts in `Init` again.

### ProductCache

One row of `products` as the number of its version, one key `product:<id>`, and
readers and writers on any instances. `Get`, `Read` and `Store` are the awaits of
`findById`, `Update` and `Invalidate` those of `updatePrice`; `GetFails` and
`Lost` are calls that `RedisService` swallows and processes that die. `Create` and
`Remove` are what the seed does to a product. `since[v]` counts the ticks since a
version ceased to be current, so that staleness can be bounded. `MaxDelay` is an
assumption, not code: a reader takes at most that long from its query to its SET.
Without one there is no bound at all.

### OrderNotification and Delivery

`Delivery` instantiates `OutboxPublisher` and `NotificationConsumer` in every API
process. They meet in `published`: what the relay publishes is what arrives in
the main queue (`HandOver`). A `Crash` takes relay and handlers of a process
together. An event stands for its order. `Mishaps` counts what went wrong, and
`Next` lets nothing more go wrong once it has reached `MaxTotal`.
`RepetitionsNeedFaults` is about none and one of them on purpose. That each
mishap costs at most one repetition is not true of several: a channel that closes
sends all its unacked messages back while their handlers run on, so that two
messages of an order can cost it four notifications with one duplicate and one
closed channel. The refinement
mapping reads `committed` from `status`, `told` from `notified` and `parked` from
the messages in the DLQ. That `OrderPlacement` commits an order and its event
together is checked and proved there (`OrderEventPairing`), which is why
`Delivery` may start from the insert of the event.

### Seed

The five statements of `prisma/seed.ts` by any number of operators, against
`PlaceOrder` and `Dies`. `products`, `stocked` and `orders` are the rows with the
seed's name and those that refer to them; the foreign keys of the schema make
`DeleteProducts` fail. Events of the orders it deletes stay in the outbox and are
still relayed: they carry their payload and refer to no row.

## 4. Runs

| Run | Shows | Bounds |
| --- | --- | --- |
| `order` | conservation of stock, one decrement per order, order/event pairing, truthful answers, founded refusals; `OrderPlacement` implements `FlashSale`; every request is answered | 3 requests, quantities -1, 1, 2 against 3 units, an unknown user, a product without inventory |
| `outbox_safety` | no event SENT unpublished, SENT is final, a duplicate needs a recovery, the counter counts | 3 events, batches of 2, 2 instances with 2 slots, 2 faults, 1 stall |
| `outbox_progress` | every event is sent, even if one instance hangs for ever | 2 events, batches of 1, 2 instances, 2 faults, 1 stall |
| `consumer_faults` | no order forgotten, skips are duplicates, every processing-retry round has its own lock owner, handlers kept apart | 2 messages of one order, 2 instances, any 2 faults of all kinds |
| `consumer_recovery` | any three crashes, closed channels, Redis or publish failures leave the buyer notified; retry headers within their limits; circulation ends | 1 message, 3 faults |
| `consumer_idempotence` (violation) | the README's "one notification" does not hold for messages handled at the same time | 2 messages, no fault |
| `consumer_link` | leaks explained, a drained shutdown that ends, consumes in the end unless its link is one of the two kinds named, implements `LinkSupervisor` | 2 handlers, 4 links, any 3 faults, the broker's cancel included, a shutdown at any moment |
| `consumer_link_shutdown` (violation) | a shutdown during `connect` does not stop the consumption | 1 handler, no fault |
| `publisher_link` | only own close events, truthful health, leaks explained, implements `LinkSupervisor` | 4 links, any 3 faults, a shutdown at any moment |
| `cache` | a cause for every stale entry, the bound on staleness, from which it follows that the cache is fresh in the end | 2 readers, 2 writers, 3 versions, TTL 2, delay 1, 2 lost calls |
| `delivery` | no repetition without a mishap and at most one with one, implements `OrderNotification` | 1 order, 2 processes, 1 fault of any kind or the death of a process with both parts at work |
| `seed` | a run that got through alone leaves one product, one of the runs gets through | 2 operators, 4 products, 2 orders, 2 deaths |

Why the bounds are enough: with three requests a third can commit between the
precheck and the update of the second while the first holds the row; three units
make pairs of requests fit, compete or exhaust the stock. A batch smaller than
the table leaves rows behind it; two instances and two slots give every pair of
overlapping cycles. Two messages about one order are the smallest number with a
duplicate; orders share nothing in the consumer but processes, so one order is
checked. `Messages` always exceeds the copies the faults can create, so it never
blocks a publish. Three faults are the largest number the limits of three
retries are meant to survive: with four, `BuyerNotified` fails, and the message
is in the DLQ. Every fault of a link uses up at most one connection, so four links
outlast three faults, and a link can be lost, replaced and lost again while an
older one still has an event to deliver. Two updates by two writers overtake each
other's DEL while a reader holds an old row. `Delivery` allows one mishap because
its parts are checked alone with two and three; what only the composition can
show is a mishap on one side of the queue met by the other, and the death of
both halves of a process.

**Fairness.** `FairSpec` assumes that a step that stays enabled is taken: Node's
event loop, PostgreSQL, the two `@Interval` timers, the reconnect timers and
RabbitMQ's delivery to idle consumers. Weak fairness suffices. It is not assumed
that orders arrive, that faults happen, or that a request or the shutdown
begins. A call of the relay that hangs is exempt (`c \notin stalled`): it may
never be answered. `EveryEventSent` then needs another instance, and with
`MaxStalls` equal to the number of instances it would fail, as it does in the
code. For the links, fairness says that calls to a broker that is up are answered,
a close handshake ends and handlers settle: with a handler that never settled,
`ShutdownEnds` would fail. That RabbitMQ delivers to idle consumers, which
`BuyerNotified`, `CirculationEnds` and `ImplementsOrderNotification` rest on,
presumes an instance whose consumer the broker has not cancelled, or which was
restarted since: `ConsumerConnection` shows that the code does not bring back a
cancelled one. `CirculationEnds` itself does not need the limit of three rounds,
because a lock runs out before the round it caused is over; the limit is in
`TypeOK`, and for more faults than the runs have in `TypeCorrect`.

**The findings.**

* `handleMessage` reads the processed key before it takes the lock and not again
  under it. A handler that read it early and takes the lock after another has
  released it notifies again; no fault is needed (`consumer_idempotence`).
* `connect` looks at `shuttingDown` only before its first await. A shutdown during
  `connect` finds no channel, completes, and `connect` then starts to consume:
  handlers run until the process ends under them (`consumer_link_shutdown`). Their
  messages are redelivered, so nothing is lost, which is what `consumer_faults`
  shows for any crash.

## 5. Proofs

TLC checks each property on one small instance; the theorems state it for every
value of the constants. They are listed in `PROJECT.json`. Each proof module
starts with the inductive invariant `Inv` of its component, has a lemma per
action (what the action does to each conjunct it can disturb), joins them in
`InvNext`, and reads the properties off `Invariance == Spec => []Inv`. TLC has
checked each `Inv` on the instances of section 4.

### Order placement

`OrderPlacementProofs` proves, for any set of requests, products, quantities and
any initial stock (`OrderAssumption`: ids and quantities are integers, the stock
is natural):

* `TypeCorrect`, `StockIsConserved`, `LocksAreExclusive`: from the inductive
  invariant `StockInv == TypeOK /\ StockConserved /\ RowLockDiscipline`.
  `StockConserved` alone is not inductive: `Commit` writes a value that was
  computed by an earlier step, and only the exclusive row lock guarantees that it
  is still the committed stock minus the quantity.
* `StockOnlyFalls`: the action property `StockNeverRises`, from the same
  invariant: an admitted quantity is positive.
* `RefusalsAreFounded`: a conflict step saw too little stock, and the stock never
  rises again.
* `OrdersAndEventsPair`: orders and outbox events pair up one to one. The
  strengthening is `SerialIdsFresh`: an id drawn by an open transaction is on no
  committed row and in no other open transaction, so the rows a commit installs
  are new.
* `OrdersAccountForUnits`: the units taken are the sum of the quantities of the
  orders. The sum is a fold over a set, defined by recursion over its finite
  subsets, and the induction theorems of the library cannot be used. Instead a set
  of orders is mapped to the set of its `Units`, pairs of an order and a number up
  to its quantity, whose cardinality is additive and satisfies the equation of the
  fold (`TotalCountsUnits`). That the equation has one solution only (`SumsUnique`)
  follows from the well-foundedness of strict inclusion: a least subset on which
  two solutions differ has none smaller. A commit then adds the units of one order
  (`TotalOfOneMore`), new because of `SerialIdsFresh`.
* `AnswersAreTruthful`: needs only the types; `AnswersKept` says that a step of
  one request leaves the answer of every other alone.
* `Refinement`: `Spec => ImplementsFlashSale`. `SaleStep` takes the actions one by
  one: a step inside a transaction stutters, an answer is a `Reject`, `Refuse` or
  `Fail` of `FlashSale`, and `Commit` is a `Sell` because of
  `RowLockDiscipline`: the value it installs is the committed stock minus the
  quantity, and there were that many units.

`RowLockDiscipline`, `SerialIdsFresh` and `StockNeverRises` are proved for every
instance and not asked of a run: the first two are strengthenings, and the third
follows from the refinement, which the run checks.

### Outbox relay

`OutboxPublisherProofs`, for any finite set of natural ids, any instances, slots,
batch size and bounds (`OutboxAssumption`):

* `SentRowsWerePublished`: with `BatchHeld`, a cycle at `mark` still has the event
  it published as `Current`, although other cycles shrink the table under it.
* `DuplicatesAreRecoveries`: `copies <= 1 + recoveries` is not inductive, since a
  publish raises the left side alone. `PublishBudget` adds what may still be
  copied without another recovery: one for each cycle about to publish, and one
  for a row that is still to be claimed. A claim moves the unit from the row to
  the cycle, a publish spends it, a recovery pays for a new one.
* `CountersAreExact`: needs the counted set to be finite, which the guard ensures
  even if there are infinitely many slots.
* `SentRowsStaySent`: an action property, from the types alone.

### Notification consumer

`NotificationConsumerProofs`, for any orders, message slots, instances, handlers,
deliveries and faults. `ConsumerAssumption` asks for some order and some slot,
because free slots and idle handlers are reset to one. The conjuncts of `Inv`:

* `LiveHolds`: a handler with an open channel holds an unacked message of its own,
  about the order it read from it. Crashes and closed channels preserve it because
  the broker's requeue and the loss of the channel are one event.
* `Unforgotten`, behind `NothingIsLost`: an order that was published and not
  notified has a message that no handler is about to ack in favour of a copy. A
  handler acks only after a notification, a processed key, or the confirm of a
  copy; `Kept` makes the copy take over before the original goes.
* `NotifiedBefore`, behind `SkippedAreDuplicates`: handlers at `mark`, `release`
  and `ack` have notified, and only `mark` sets a processed key.
* `Rounds`, behind `RoundsOutlastLocks`: the property alone is not inductive. A
  message in the processing-retry queue whose time left does not exceed the
  lock's has been charged with fewer rounds than there were owners. It holds on
  arrival because 35 s are more than 30 s, and both run down together.
* `Owned`, behind `LockIsExclusive`: until something is `disturbed` or `slow`, a
  handler between lock and release has its lock unexpired, and no two share one.

### Broker connections

`PublisherConnectionProofs` and `ConsumerConnectionProofs`, for any links,
handlers and bounds. `Attempting` and `Registered` relate `attempt` to the local
variables, fields and listeners of `connect`; `ShuttingDown` says what the hook
has read; `Channels` and `Quiesced` (consumer) follow the connections that were in
service before the shutdown through cancel and drain. From them follow the health
endpoint's truth, the account of every open connection, the drained shutdown,
and in both modules `SupervisedSafely`: each step is a step of `LinkSupervisor`
or a stutter, the safety half (`LinkSupervisor!Safety`) of what the runs check as
`ImplementsSupervisor`.

### Product cache

`ProductCacheProofs`, for any readers, writers, versions, TTL, delay and faults;
`CacheAssumption` asks for a TTL and a number of versions of at least one.
`StalePricesExpire` rests on `ReadersInTime`: a row a reader still holds ceased to
be current no longer ago than the reader has been waiting, which `MaxDelay`
limits, and an entry's age and remaining time add up from there.

### Seed

`SeedProofs`, for any scripts, ids and deaths. `OneAtATime` describes how far a run
that is alone has come: what it has deleted so far is gone, and only it creates.

### Delivery

`DeliveryProofs`, from the assumptions of both parts (`DeliveryAssumption`).

* `PartsBehave`: every step of the composition is a step, or none, of each part, so
  what is proved of the parts carries over; `SameRelay` and `SameConsumer` identify
  the instances in `Delivery` with those whose theorems are used.
* `PromiseKeptSafely`: the safety half of the refinement of `OrderNotification`.
  `Known` follows an order from its commit into batches, messages and handlers, so
  that whatever is told or parked was committed; a step of a handler is one of a
  few kinds (`HandlerEffects`), and none takes anything out of the DLQ or touches
  two orders.
* `NothingIsLostOnTheWay`: an event is SENT only when the buyer was told or a message
  is in a queue. It joins `SentRowsWerePublished` to `NothingIsLost`.
* `FaultlessIsOnce`: without a mishap a buyer is told at most once. `Smooth` says how
  little can be on its way then: every claimed row has a cycle at work, so none is
  recovered and none published twice; and so there is one message of an order, and
  one handler that finds the lock free. This is where the race of
  `consumer_idempotence` needs a duplicate, and a duplicate needs a fault.
* `OneMishapOneRepetition`: `RepetitionsNeedFaults`, with one mishap at most two
  notifications. `Budget` counts, next to the notifications sent, everything that
  could still lead to one: an open row, the cycles about to publish it, the
  messages in the queues that are consumed, the handlers that have not notified
  yet or hold a message that may return. Steps that are no mishap hand such a
  chance on (a claim from the row to the cycle, a publish from the cycle to a
  message, a delivery from the message to a handler, a nack back), spend it on a
  notification or drop it; a failing or hanging call, a lost confirm or the death
  of a relay adds one. Only a closed channel or the death of a consumer returns
  several messages at once; as the first mishap it still finds one message of each
  order, because of `Smooth`.
* `MishapsAddUp`: in a system without those two (`FaultKinds` without `"channel"` and
  `"crash"`; relays may die), any number of mishaps costs at most as many
  repetitions. TLC has checked `Budget` with one mishap of every kind and, without
  those two kinds, with two mishaps.

### Only model-checked

* Liveness, and the liveness half of `ImplementsSupervisor` and
  `ImplementsOrderNotification`: fairness and ENABLED are outside the prover's reach.

Every invariant and safety action property that a passing run checks is proved. How
many repetitions several closed channels or crashes can cost is open: there is no
such bound per mishap (section 3).

## 6. Not modelled

* Metrics, tracing, logs, the latency interceptor and request ids observe and are
  not observed.
* The Redis and PostgreSQL health indicators are stateless probes; of the RabbitMQ
  one only `isAvailable` is modelled.
* `GET /orders/:id` and `GET /products/:id/stock` only read committed rows.
* `setIfAbsent` has no caller. The Redis client's own reconnect strategy is the
  library's; the models let any call fail.
* What else becomes of a queue that is deleted: the broker's cancel is modelled,
  messages lost with the queue are not. Queues are durable and never deleted by
  the code.
* Deployment scripts and load tests are not part of the program.
* A price update for a product that does not exist rejects and changes nothing.
