-------------------------------- MODULE Seed --------------------------------
(***************************************************************************)
(* prisma/seed.ts, run while the service sells: five statements without a  *)
(* transaction around them, against orders that arrive in between, a       *)
(* script that dies half-way and is run again, and two runs at a time.     *)
(***************************************************************************)
EXTENDS Integers, FiniteSets

CONSTANTS
  Scripts,       \* who runs the script, one run after the other
  MaxProducts,   \* bound: seed products ever created
  MaxOrders,     \* bound: orders ever placed
  MaxFaults      \* bound: runs that die

ASSUME SeedAssumption == {MaxProducts, MaxOrders, MaxFaults} \subseteq Nat

VARIABLES
  products,   \* the rows of products with the seed's name; ids are serial
  stocked,    \* those that have a row in inventories
  orders,     \* orders[p]: rows of orders that refer to p
  lastId,     \* the sequence of products
  placed,     \* orders placed so far
  pc,         \* the await a run of the script is at
  productIds, \* what it found
  overlapped, \* history: two runs were under way at once
  faults

tables == <<products, stocked, orders, lastId>>
vars == <<tables, placed, pc, productIds, overlapped, faults>>

Ids == 1..MaxProducts
Finished == {"idle", "done"}

Init ==
  /\ products = {} /\ stocked = {}
  /\ orders = [p \in Ids |-> 0]
  /\ lastId = 0 /\ placed = 0
  /\ pc = [s \in Scripts |-> "idle"]
  /\ productIds = [s \in Scripts |-> {}]
  /\ overlapped = FALSE
  /\ faults = 0

Goto(s, step) == pc' = [pc EXCEPT ![s] = step]

-----------------------------------------------------------------------------
(* Mutant: only products that can still be sold are looked for.            *)
Matching == products \cap stocked

(* WHERE name = 'Flash Sale Seed Product'.                                 *)
Named == products

(* The script starts and looks for what earlier runs left.                 *)
Find(s) ==
  /\ pc[s] \in Finished
  /\ lastId < MaxProducts
  /\ productIds' = [productIds EXCEPT ![s] = Named]
  /\ pc' = [t \in Scripts |->
              IF t = s THEN IF Named = {} THEN "create" ELSE "orders"
              ELSE IF pc[t] = "done" THEN "idle" ELSE pc[t]]
  /\ overlapped' = (overlapped \/ \E t \in Scripts : pc[t] \notin Finished)
  /\ UNCHANGED <<tables, placed, faults>>

(* Mutant: the orders of the old products stay.                            *)
KeepOrders(s) ==
  /\ pc[s] = "orders"
  /\ Goto(s, "inventories")
  /\ UNCHANGED <<tables, placed, productIds, overlapped, faults>>

DeleteOrders(s) ==
  /\ pc[s] = "orders"
  /\ orders' = [p \in Ids |-> IF p \in productIds[s] THEN 0 ELSE orders[p]]
  /\ Goto(s, "inventories")
  /\ UNCHANGED <<products, stocked, lastId, placed, productIds, overlapped, faults>>

DeleteInventories(s) ==
  /\ pc[s] = "inventories"
  /\ stocked' = stocked \ productIds[s]
  /\ Goto(s, "products")
  /\ UNCHANGED <<products, orders, lastId, placed, productIds, overlapped, faults>>

(* Mutant: the schema has no foreign keys.                                 *)
DeleteProductsAnyway(s) ==
  /\ pc[s] = "products"
  /\ Goto(s, "create")
  /\ products' = products \ productIds[s]
  /\ UNCHANGED <<stocked, orders, lastId, placed, productIds, overlapped, faults>>

(* The foreign keys of orders and inventories may reject this; the script  *)
(* then ends, and what it has deleted stays deleted.                       *)
DeleteProducts(s) ==
  /\ pc[s] = "products"
  /\ IF \E p \in productIds[s] : orders[p] > 0 \/ p \in stocked
       THEN Goto(s, "idle") /\ UNCHANGED products
       ELSE Goto(s, "create") /\ products' = products \ productIds[s]
  /\ UNCHANGED <<stocked, orders, lastId, placed, productIds, overlapped, faults>>

(* The product with its inventory, in one nested create.                   *)
Create(s) ==
  /\ pc[s] = "create"
  /\ lastId < MaxProducts
  /\ lastId' = lastId + 1
  /\ products' = products \cup {lastId'}
  /\ stocked' = stocked \cup {lastId'}
  /\ Goto(s, "done")
  /\ UNCHANGED <<orders, placed, productIds, overlapped, faults>>

(* The process of the script dies.                                         *)
Dies(s) ==
  /\ pc[s] \notin Finished
  /\ faults < MaxFaults
  /\ faults' = faults + 1
  /\ Goto(s, "idle")
  /\ UNCHANGED <<tables, placed, productIds, overlapped>>

(* OrderService.create commits: whole, and only while there is stock.      *)
PlaceOrder(p) ==
  /\ p \in stocked
  /\ placed < MaxOrders
  /\ placed' = placed + 1
  /\ orders' = [orders EXCEPT ![p] = @ + 1]
  /\ UNCHANGED <<products, stocked, lastId, pc, productIds, overlapped, faults>>

-----------------------------------------------------------------------------
Run(s) == Find(s) \/ DeleteOrders(s) \/ DeleteInventories(s) \/ DeleteProducts(s) \/ Create(s)

Next == \/ \E s \in Scripts : Run(s) \/ Dies(s)
        \/ \E p \in Ids : PlaceOrder(p)
        \/ lastId = MaxProducts /\ UNCHANGED vars

Spec == Init /\ [][Next]_vars

(* Somebody runs the script again until it is through.                     *)
FairSpec == Spec /\ \A s \in Scripts : WF_vars(Run(s))

-----------------------------------------------------------------------------
(* Type invariant, with the foreign keys of the schema.                    *)
TypeOK ==
  /\ products \subseteq 1..lastId /\ lastId \in 0..MaxProducts
  /\ stocked \subseteq products
  /\ orders \in [Ids -> 0..MaxOrders]
  /\ \A p \in Ids : orders[p] > 0 => p \in products
  /\ placed \in 0..MaxOrders
  /\ pc \in [Scripts -> Finished \cup {"orders", "inventories", "products", "create"}]
  /\ productIds \in [Scripts -> SUBSET Ids]
  /\ overlapped \in BOOLEAN
  /\ faults \in 0..MaxFaults

(* However often a run died or was rejected before, one that got through   *)
(* alone leaves exactly one seed product, which can be sold.               *)
SeedLeavesOne ==
  /\ ~overlapped
  /\ \A s \in Scripts : pc[s] \in Finished
  /\ \E s \in Scripts : pc[s] = "done"
  => Cardinality(products) = 1 /\ stocked = products

(* An order that slips in makes at most one run fail: without inventory    *)
(* nothing more is sold, and one of the next runs gets through, unless two *)
(* of them delete each other's rows.                                       *)
SeedGetsThrough ==
  (\E s \in Scripts : pc[s] = "orders") ~> overlapped \/ \E s \in Scripts : pc[s] = "done"

=============================================================================
