--------------------------- MODULE OrderPlacement ---------------------------
(***************************************************************************)
(* POST /orders: OrderController.create, OrderService.create and the       *)
(* Prisma repositories and unit of work below them, run by many requests   *)
(* at once against one PostgreSQL database.                                *)
(*                                                                         *)
(* A request is one process whose steps are its awaits.  The transaction   *)
(* of PrismaOrderUnitOfWork runs at PostgreSQL's default isolation, READ   *)
(* COMMITTED: its writes stay in tx until Commit, and an UPDATE locks   *)
(* the row it changes until the transaction ends.                          *)
(***************************************************************************)
EXTENDS Integers, FiniteSets, FiniteSetsExt

CONSTANTS
  Requests,      \* the POST /orders requests
  UserIds,       \* the user ids, product ids and quantities a body may carry,
  ProductIds,    \* after the JSON parser, before validation
  Quantities,
  Users,         \* the ids that exist in table users
  Inventoried,   \* the products with an inventory row
  InitialStock   \* the stock the seed gives them

ASSUME OrderAssumption ==
  /\ UserIds \subseteq Int
  /\ ProductIds \subseteq Int
  /\ Quantities \subseteq Int
  /\ Inventoried \subseteq ProductIds
  /\ InitialStock \in [Inventoried -> Nat]

VARIABLES
  input,         \* input[r]: the body of request r
  pc,            \* pc[r]: the next step of r, or its HTTP answer
  txOrderId,     \* the writes of r's open transaction: the id of its order,
  txEventId,     \* the id of its event
  txStock,       \* and the stock it leaves in the inventory row (0: none)
  stock,         \* inventories.stock, as committed
  orders,        \* table orders, as committed
  outbox,        \* table outbox_events, as committed (request: who wrote it)
  orderSeq,      \* the autoincrement sequences of the two tables: a value
  outboxSeq,     \* that was drawn is not returned by a rollback
  unitsSold      \* history: the units of p taken by committed orders

vars == <<input, pc, txOrderId, txEventId, txStock, stock, orders, outbox,
          orderSeq, outboxSeq, unitsSold>>

tx == <<txOrderId, txEventId, txStock>>
Database == <<stock, orders, outbox, unitsSold>>
SerialIds == <<orderSeq, outboxSeq>>

Inputs == [userId : UserIds, productId : ProductIds, quantity : Quantities]

InTransaction == {"orderInsert", "outboxInsert", "decrease", "commit"}
Running == {"validate", "precheck"} \cup InTransaction
Answers == {"created", "conflict", "badRequest", "failed"}

Init ==
  /\ input \in [Requests -> Inputs]
  /\ pc = [r \in Requests |-> "validate"]
  /\ txOrderId = [r \in Requests |-> 0]
  /\ txEventId = [r \in Requests |-> 0]
  /\ txStock = [r \in Requests |-> 0]
  /\ stock = InitialStock
  /\ orders = {}
  /\ outbox = {}
  /\ orderSeq = 1
  /\ outboxSeq = 1
  /\ unitsSold = [p \in Inventoried |-> 0]

Goto(r, step) == pc' = [pc EXCEPT ![r] = step]

(* The end of r's transaction, by COMMIT or ROLLBACK.                      *)
CloseTx(r) == /\ txOrderId' = [txOrderId EXCEPT ![r] = 0]
              /\ txEventId' = [txEventId EXCEPT ![r] = 0]
              /\ txStock' = [txStock EXCEPT ![r] = 0]

-----------------------------------------------------------------------------
(* Mutant: a DTO whose quantity lost its @Min(1).                          *)
AnyQuantityAccepted(r) == /\ input[r].userId >= 1
                          /\ input[r].productId >= 1

(* The ValidationPipe on CreateOrderDto: @IsInt and @Min(1) on each field. *)
WellFormed(r) == /\ input[r].userId >= 1
                 /\ input[r].productId >= 1
                 /\ input[r].quantity >= 1

Validate(r) ==
  /\ pc[r] = "validate"
  /\ Goto(r, IF WellFormed(r) THEN "precheck" ELSE "badRequest")
  /\ UNCHANGED <<input, tx, Database, SerialIds>>

(* The committed stock serves r: also the answer of a plain SELECT.        *)
Serves(r) == /\ input[r].productId \in Inventoried
             /\ stock[input[r].productId] >= input[r].quantity

(* Mutant: the last unit is never sold (> for >=).                         *)
ServesStrictly(r) == /\ input[r].productId \in Inventoried
                     /\ stock[input[r].productId] > input[r].quantity

PrecheckStrictly(r) ==
  /\ pc[r] = "precheck"
  /\ Goto(r, IF ServesStrictly(r) THEN "orderInsert" ELSE "conflict")
  /\ UNCHANGED <<input, tx, Database, SerialIds>>

(* findByProductId outside the transaction, and the first conflict: no     *)
(* lock is taken, so the answer may be stale before the next step.         *)
Precheck(r) ==
  /\ pc[r] = "precheck"
  /\ Goto(r, IF Serves(r) THEN "orderInsert" ELSE "conflict")
  /\ UNCHANGED <<input, tx, Database, SerialIds>>

(* Mutant: the id is computed from the committed table, not drawn from the *)
(* sequence.                                                               *)
OrderIdFromCount(r) ==
  /\ pc[r] = "orderInsert"
  /\ input[r].userId \in Users
  /\ txOrderId' = [txOrderId EXCEPT ![r] = Cardinality(orders) + 1]
  /\ Goto(r, "outboxInsert")
  /\ UNCHANGED <<input, txEventId, txStock, Database, SerialIds>>

(* orderRepository.create inside the transaction.  The row's id is drawn   *)
(* from the sequence even when the foreign key to users rejects the row    *)
(* and the request ends with a 500.                                        *)
OrderInsert(r) ==
  /\ pc[r] = "orderInsert"
  /\ orderSeq' = orderSeq + 1
  /\ \/ /\ input[r].userId \in Users
        /\ txOrderId' = [txOrderId EXCEPT ![r] = orderSeq]
        /\ Goto(r, "outboxInsert")
     \/ /\ input[r].userId \notin Users
        /\ Goto(r, "failed")
        /\ UNCHANGED txOrderId
  /\ UNCHANGED <<input, txEventId, txStock, Database, outboxSeq>>

(* Mutant: the event is written by the pool's client, not by tx's.         *)
OutboxInsertOutsideTx(r) ==
  /\ pc[r] = "outboxInsert"
  /\ outboxSeq' = outboxSeq + 1
  /\ outbox' = outbox \cup {[id |-> outboxSeq, orderId |-> txOrderId[r], request |-> r]}
  /\ txEventId' = [txEventId EXCEPT ![r] = outboxSeq]
  /\ Goto(r, "decrease")
  /\ UNCHANGED <<input, txOrderId, txStock, stock, orders, unitsSold, orderSeq>>

(* outboxRepository.create, with the id of the order just inserted.        *)
OutboxInsert(r) ==
  /\ pc[r] = "outboxInsert"
  /\ outboxSeq' = outboxSeq + 1
  /\ txEventId' = [txEventId EXCEPT ![r] = outboxSeq]
  /\ Goto(r, "decrease")
  /\ UNCHANGED <<input, txOrderId, txStock, Database, orderSeq>>

(* Some open transaction has updated p's inventory row.                    *)
RowLocked(p) == \E r \in Requests : pc[r] = "commit" /\ input[r].productId = p

(* Mutant: an UPDATE without "stock >= quantity" in its WHERE.             *)
DecreaseUnconditionally(r) ==
  LET p == input[r].productId IN
  /\ pc[r] = "decrease"
  /\ ~RowLocked(p)
  /\ txStock' = [txStock EXCEPT ![r] = stock[p] - input[r].quantity]
  /\ Goto(r, "commit")
  /\ UNCHANGED <<input, txOrderId, txEventId, Database, SerialIds>>

(* Mutant: SET stock to a value computed from an earlier SELECT, which     *)
(* does not wait for the transaction that is changing the row.             *)
DecreaseToComputedStock(r) ==
  LET p == input[r].productId IN
  /\ pc[r] = "decrease"
  /\ Serves(r)
  /\ txStock' = [txStock EXCEPT ![r] = stock[p] - input[r].quantity]
  /\ Goto(r, "commit")
  /\ UNCHANGED <<input, txOrderId, txEventId, Database, SerialIds>>

(* Mutant: the row is read FOR SHARE before it is updated, so the update   *)
(* waits for every other transaction that has read it.                     *)
DecreaseAfterShareLock(r) ==
  LET p == input[r].productId IN
  /\ pc[r] = "decrease"
  /\ \A other \in Requests \ {r} :
       pc[other] \in {"decrease", "commit"} => input[other].productId # p
  /\ IF Serves(r)
       THEN /\ txStock' = [txStock EXCEPT ![r] = stock[p] - input[r].quantity]
            /\ Goto(r, "commit")
            /\ UNCHANGED <<txOrderId, txEventId>>
       ELSE CloseTx(r) /\ Goto(r, "conflict")
  /\ UNCHANGED <<input, Database, SerialIds>>

(* UPDATE inventories SET stock = stock - q WHERE productId = p AND        *)
(* stock >= q.  A committed row that fails the WHERE is not waited for:    *)
(* count is 0, ConflictException is thrown and the transaction rolls back. *)
(* A row that passes it is locked first and the WHERE evaluated again on   *)
(* the version then committed.                                             *)
DecreaseIfAvailable(r) ==
  LET p == input[r].productId IN
  /\ pc[r] = "decrease"
  /\ \/ /\ ~Serves(r)
        /\ CloseTx(r)
        /\ Goto(r, "conflict")
     \/ /\ Serves(r)
        /\ ~RowLocked(p)
        /\ txStock' = [txStock EXCEPT ![r] = stock[p] - input[r].quantity]
        /\ Goto(r, "commit")
        /\ UNCHANGED <<txOrderId, txEventId>>
  /\ UNCHANGED <<input, Database, SerialIds>>

(* The transaction's rows become visible, its row lock is released.        *)
Install(r) ==
  LET p == input[r].productId
      q == input[r].quantity IN
  /\ stock' = [stock EXCEPT ![p] = txStock[r]]
  /\ orders' = orders \cup {[id |-> txOrderId[r], userId |-> input[r].userId,
                             productId |-> p, quantity |-> q]}
  /\ outbox' = outbox \cup {[id |-> txEventId[r], orderId |-> txOrderId[r],
                             request |-> r]}
  /\ unitsSold' = [unitsSold EXCEPT ![p] = @ + q]
  /\ CloseTx(r)

(* COMMIT.  The answer of the database may be lost with the connection or  *)
(* the process: the order then stands and the client sees a failure.       *)
Commit(r) ==
  /\ pc[r] = "commit"
  /\ Install(r)
  /\ \E answer \in {"created", "failed"} : Goto(r, answer)
  /\ UNCHANGED <<input, SerialIds>>

(* A query fails, the interactive transaction times out, the connection or *)
(* the process is lost: PostgreSQL rolls back and the request fails.       *)
Abort(r) ==
  /\ pc[r] \in Running
  /\ CloseTx(r)
  /\ Goto(r, "failed")
  /\ UNCHANGED <<input, Database, SerialIds>>

-----------------------------------------------------------------------------
Step(r) == \/ Validate(r)
           \/ Precheck(r)
           \/ OrderInsert(r)
           \/ OutboxInsert(r)
           \/ DecreaseIfAvailable(r)
           \/ Commit(r)

(* Every request has been answered: the sale is over.                      *)
Terminated == \A r \in Requests : pc[r] \in Answers

Next == \/ \E r \in Requests : Step(r) \/ Abort(r)
        \/ Terminated /\ UNCHANGED vars

Spec == Init /\ [][Next]_vars

(* Node's event loop and PostgreSQL run every step that can run.           *)
FairSpec == Spec /\ \A r \in Requests : WF_vars(Step(r))

-----------------------------------------------------------------------------
(* Type invariant.  Committed stock is a natural number.                   *)
TypeOK ==
  /\ input \in [Requests -> Inputs]
  /\ pc \in [Requests -> Running \cup Answers]
  /\ txOrderId \in [Requests -> Nat]
  /\ txEventId \in [Requests -> Nat]
  /\ txStock \in [Requests -> Int]
  /\ stock \in [Inventoried -> Nat]
  /\ orders \subseteq [id : Nat, userId : UserIds, productId : Inventoried,
                       quantity : Nat]
  /\ outbox \subseteq [id : Nat, orderId : Nat, request : Requests]
  /\ orderSeq \in Nat \ {0}
  /\ outboxSeq \in Nat \ {0}
  /\ unitsSold \in [Inventoried -> Nat]

(* No overselling and no lost update: whatever the interleaving of         *)
(* prechecks, updates, commits and aborts, the committed stock and the     *)
(* units of the committed orders always add up to the initial stock.       *)
StockConserved ==
  \A p \in Inventoried : stock[p] >= 0 /\ stock[p] + unitsSold[p] = InitialStock[p]

(* A row of orders and the decrement it paid for commit together: the      *)
(* units taken from a product are the quantities of its orders.            *)
SoldCountsOrders ==
  \A p \in Inventoried :
    unitsSold[p] = MapThenSumSet(LAMBDA o : o.quantity,
                                 {o \in orders : o.productId = p})

(* The transactional outbox: every committed order has exactly one event,  *)
(* every event points at a committed order, and ids are primary keys.      *)
OrderEventPairing ==
  /\ \A o \in orders : \E e \in outbox : e.orderId = o.id
  /\ \A e \in outbox : \E o \in orders : o.id = e.orderId
  /\ \A o1, o2 \in orders : o1.id = o2.id => o1 = o2
  /\ \A e1, e2 \in outbox :
       e1.id = e2.id \/ e1.orderId = e2.orderId => e1 = e2

(* What the client is told agrees with the tables: a 201 stands for an     *)
(* order with the requested content, a 409, a 400 and an unfinished        *)
(* request have left no trace; no request has two orders.                  *)
AnswersTruthful ==
  \A r \in Requests :
    LET mine == {e \in outbox : e.request = r} IN
    /\ pc[r] \notin {"created", "failed"} => mine = {}
    /\ pc[r] = "created" => mine # {}
    /\ \A e1, e2 \in mine : e1 = e2
    /\ \A e \in mine :
         [id |-> e.orderId, userId |-> input[r].userId,
          productId |-> input[r].productId, quantity |-> input[r].quantity] \in orders

(* What an open transaction relies on: its request was admitted, and from  *)
(* its UPDATE on it alone holds the inventory row, so that the stock it    *)
(* will write still follows from the committed one.                        *)
RowLockDiscipline ==
  /\ \A r \in Requests : pc[r] \in {"precheck"} \cup InTransaction => WellFormed(r)
  /\ \A r \in Requests : pc[r] \in InTransaction => input[r].productId \in Inventoried
  /\ \A r \in Requests :
       pc[r] = "commit" =>
         /\ txStock[r] = stock[input[r].productId] - input[r].quantity
         /\ txStock[r] >= 0
  /\ \A r, other \in Requests :
       /\ pc[r] = "commit"
       /\ pc[other] = "commit"
       /\ input[r].productId = input[other].productId
       => r = other

HasOrderId(r) == pc[r] \in {"outboxInsert", "decrease", "commit"}
HasEventId(r) == pc[r] \in {"decrease", "commit"}

(* The ids of open transactions are neither shared nor in the tables yet,  *)
(* however far apart transactions draw them and commit.                    *)
SerialIdsFresh ==
  /\ \A o \in orders : o.id < orderSeq
  /\ \A e \in outbox : e.id < outboxSeq
  /\ \A r \in Requests : HasOrderId(r) =>
       txOrderId[r] < orderSeq /\ \A o \in orders : o.id # txOrderId[r]
  /\ \A r \in Requests : HasEventId(r) =>
       txEventId[r] < outboxSeq /\ \A e \in outbox : e.id # txEventId[r]
  /\ \A r, other \in Requests :
       HasOrderId(r) /\ HasOrderId(other) /\ txOrderId[r] = txOrderId[other]
         => r = other
  /\ \A r, other \in Requests :
       HasEventId(r) /\ HasEventId(other) /\ txEventId[r] = txEventId[other]
         => r = other

(* A 409 is only ever given to a request that the stock, now or at any     *)
(* later time, cannot serve: a precheck that reads a stock about to be     *)
(* taken by a transaction that then aborts never refuses a buyer.          *)
NoSpuriousConflict == \A r \in Requests : pc[r] = "conflict" => ~Serves(r)

(* A sale never gives stock back: rollbacks leave the committed stock      *)
(* alone and no accepted quantity is negative.                             *)
StockNeverRises ==
  [][\A p \in Inventoried : stock'[p] <= stock[p]]_vars

(* No request waits for ever for the row lock of another.                  *)
EveryRequestAnswered == \A r \in Requests : <>(pc[r] \in Answers)

(* The refinement mapping: a request has sold when its event is in the     *)
(* outbox, and has been answered when it is done.                          *)
Sold == {e.request : e \in outbox}
Told == [r \in Requests |-> IF pc[r] \in Answers THEN pc[r] ELSE "none"]

Sale == INSTANCE FlashSale WITH sold <- Sold, answer <- Told

(* The transactions implement one indivisible sale per request.            *)
ImplementsFlashSale == Sale!Spec

=============================================================================
