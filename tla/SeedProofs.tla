------------------------------ MODULE SeedProofs ------------------------------
(***************************************************************************)
(* Proofs about Seed for any number of scripts, products, orders and runs  *)
(* that die.                                                               *)
(*                                                                         *)
(* A run that is alone sees every row there is: what it found is what      *)
(* there still is (OneAtATime), whatever earlier runs left behind.  The    *)
(* foreign keys hold however many runs there are.                          *)
(***************************************************************************)
EXTENDS Seed, FiniteSetTheorems, TLAPS

(* No product has more orders than were placed.                            *)
OrdersWerePlaced == \A p \in Ids : orders[p] <= placed

(* A run that is under way alone is the last one that did anything, and    *)
(* knows all products until it has deleted them.                           *)
OneAtATime ==
  ~overlapped =>
    /\ \A s, t \in Scripts : pc[s] \notin Finished /\ pc[t] # "idle" => s = t
    /\ \A s \in Scripts :
         /\ pc[s] \in {"orders", "inventories", "products"} => productIds[s] = products
         /\ pc[s] = "create" => products = {}
         /\ pc[s] = "done" => stocked = products /\ \E p \in Ids : products = {p}

Inv == TypeOK /\ OrdersWerePlaced /\ OneAtATime

-----------------------------------------------------------------------------
(* Initially the tables are empty and nobody runs the script.              *)
LEMMA InvInit == Init => Inv
<1> SUFFICES ASSUME Init PROVE Inv
  OBVIOUS
<1>1. TypeOK
  <2>1. 0 \in 0..MaxProducts /\ 0 \in 0..MaxOrders /\ 0 \in 0..MaxFaults
    BY SeedAssumption
  <2>2. /\ orders \in [Ids -> 0..MaxOrders]
        /\ pc \in [Scripts -> Finished \cup {"orders", "inventories", "products", "create"}]
        /\ productIds \in [Scripts -> SUBSET Ids]
    BY <2>1 DEF Init, Finished
  <2>3. \A p \in Ids : orders[p] > 0 => p \in products
    BY DEF Init
  <2> QED
    BY <2>1, <2>2, <2>3 DEF Init, TypeOK
<1>2. OrdersWerePlaced /\ OneAtATime
  BY DEF Init, OrdersWerePlaced, OneAtATime, Finished
<1> QED
  BY <1>1, <1>2 DEF Inv

(* The bounds, and the rows there are.                                     *)
LEMMA Bounds ==
  ASSUME Inv
  PROVE  /\ {MaxProducts, MaxOrders, MaxFaults} \subseteq Nat
         /\ lastId \in Nat /\ lastId <= MaxProducts /\ placed \in Nat
         /\ products \subseteq Ids /\ stocked \subseteq products
         /\ \A p \in Ids : orders[p] \in Nat /\ orders[p] <= placed /\ placed <= MaxOrders
BY SeedAssumption DEF Inv, TypeOK, Ids, OrdersWerePlaced

(* The others' runs are over when a run that is alone starts, and it finds *)
(* every product.                                                          *)
LEMMA FindInv ==
  ASSUME Inv, NEW s \in Scripts, Find(s)
  PROVE  Inv'
<1>0. /\ pc[s] \in Finished
      /\ productIds' = [productIds EXCEPT ![s] = products]
      /\ pc' = [t \in Scripts |->
                  IF t = s THEN IF products = {} THEN "create" ELSE "orders"
                  ELSE IF pc[t] = "done" THEN "idle" ELSE pc[t]]
      /\ overlapped' = (overlapped \/ \E t \in Scripts : pc[t] \notin Finished)
      /\ UNCHANGED <<products, stocked, orders, lastId, placed, faults>>
  BY DEF Find, Named, tables
<1>1. TypeOK'
  <2>1. pc' \in [Scripts -> Finished \cup {"orders", "inventories", "products", "create"}]
    BY <1>0 DEF Inv, TypeOK, Finished
  <2>2. productIds' \in [Scripts -> SUBSET Ids]
    BY <1>0, Bounds DEF Inv, TypeOK
  <2> QED
    BY <1>0, <2>1, <2>2 DEF Inv, TypeOK
<1>2. OneAtATime'
  <2> SUFFICES ASSUME ~overlapped, \A t \in Scripts : pc[t] \in Finished
               PROVE  OneAtATime'
    BY <1>0 DEF OneAtATime
  <2>1. \A t \in Scripts \ {s} : pc'[t] = "idle"
    BY <1>0 DEF Finished
  <2>2. /\ pc'[s] = IF products = {} THEN "create" ELSE "orders"
        /\ productIds'[s] = products
    BY <1>0 DEF Inv, TypeOK
  <2> QED
    BY <1>0, <2>1, <2>2 DEF OneAtATime, Finished
<1> QED
  BY <1>0, <1>1, <1>2 DEF Inv, OrdersWerePlaced

(* A run goes on and leaves the products as they are.                      *)
LEMMA StepKeepsOneAtATime ==
  ASSUME Inv, NEW s \in Scripts, NEW step \in {"idle", "inventories", "products"},
         Goto(s, step), pc[s] \notin Finished,
         step # "idle" => pc[s] \in {"orders", "inventories"},
         UNCHANGED <<products, productIds, overlapped>>
  PROVE  OneAtATime' /\ pc' \in [Scripts -> Finished \cup {"orders", "inventories", "products",
                                                           "create"}]
<1>0. /\ pc' = [pc EXCEPT ![s] = step]
      /\ pc \in [Scripts -> Finished \cup {"orders", "inventories", "products", "create"}]
  BY DEF Goto, Inv, TypeOK
<1>1. \A t \in Scripts : pc'[t] = IF t = s THEN step ELSE pc[t]
  BY <1>0
<1>2. ~overlapped => \A t \in Scripts \ {s} : pc[t] = "idle"
  BY DEF Inv, OneAtATime
<1>3. OneAtATime'
  BY <1>1, <1>2 DEF Inv, OneAtATime, Finished
<1> QED
  BY <1>0, <1>3 DEF Finished

(* The orders of what it found go.                                         *)
LEMMA DeleteOrdersInv ==
  ASSUME Inv, NEW s \in Scripts, DeleteOrders(s)
  PROVE  Inv'
<1>0. /\ pc[s] = "orders" /\ Goto(s, "inventories")
      /\ orders' = [p \in Ids |-> IF p \in productIds[s] THEN 0 ELSE orders[p]]
      /\ UNCHANGED <<products, stocked, lastId, placed, productIds, overlapped, faults>>
  BY DEF DeleteOrders
<1>1. orders' \in [Ids -> 0..MaxOrders]
  BY <1>0, Bounds DEF Inv, TypeOK
<1>2. \A p \in Ids : orders'[p] <= placed /\ (orders'[p] > 0 => orders[p] > 0)
  BY <1>0, Bounds
<1> QED
  BY <1>0, <1>1, <1>2, StepKeepsOneAtATime DEF Inv, TypeOK, OrdersWerePlaced, Finished

(* Then their inventories.                                                 *)
LEMMA DeleteInventoriesInv ==
  ASSUME Inv, NEW s \in Scripts, DeleteInventories(s)
  PROVE  Inv'
<1>0. /\ pc[s] = "inventories" /\ Goto(s, "products")
      /\ stocked' = stocked \ productIds[s]
      /\ UNCHANGED <<products, orders, lastId, placed, productIds, overlapped, faults>>
  BY DEF DeleteInventories
<1> QED
  BY <1>0, StepKeepsOneAtATime DEF Inv, TypeOK, OrdersWerePlaced, Finished

(* The products go all at once, when nothing refers to one of them.        *)
LEMMA DeleteProductsInv ==
  ASSUME Inv, NEW s \in Scripts, DeleteProducts(s)
  PROVE  Inv'
<1>0. /\ pc[s] = "products"
      /\ UNCHANGED <<stocked, orders, lastId, placed, productIds, overlapped, faults>>
  BY DEF DeleteProducts
<1>1. CASE Goto(s, "idle") /\ UNCHANGED products
  BY <1>0, <1>1, StepKeepsOneAtATime DEF Inv, TypeOK, OrdersWerePlaced, Finished
<1>2. CASE /\ \A p \in productIds[s] : ~(orders[p] > 0 \/ p \in stocked)
           /\ Goto(s, "create") /\ products' = products \ productIds[s]
  <2>1. /\ pc' = [pc EXCEPT ![s] = "create"]
        /\ \A t \in Scripts : pc'[t] = IF t = s THEN "create" ELSE pc[t]
    BY <1>2 DEF Goto, Inv, TypeOK
  <2>2. TypeOK'
    BY <1>0, <1>2, <2>1 DEF Inv, TypeOK, Finished
  <2>3. ~overlapped => products' = {} /\ \A t \in Scripts \ {s} : pc[t] = "idle"
    BY <1>0, <1>2 DEF Inv, OneAtATime, Finished
  <2>4. OneAtATime'
    BY <1>0, <2>1, <2>3 DEF OneAtATime, Finished
  <2> QED
    BY <1>0, <2>2, <2>4 DEF Inv, OrdersWerePlaced
<1> QED
  BY <1>1, <1>2 DEF DeleteProducts

(* The new product is the only one, unless another run was under way.      *)
LEMMA CreateInv ==
  ASSUME Inv, NEW s \in Scripts, Create(s)
  PROVE  Inv'
<1> DEFINE new == lastId + 1
<1>0. /\ pc[s] = "create" /\ lastId < MaxProducts /\ lastId' = new
      /\ products' = products \cup {new} /\ stocked' = stocked \cup {new}
      /\ pc' = [pc EXCEPT ![s] = "done"]
      /\ UNCHANGED <<orders, placed, productIds, overlapped, faults>>
  BY DEF Create, Goto
<1>1. new \in Ids /\ new \in 0..MaxProducts /\ 1..lastId \subseteq 1..new
  BY <1>0, Bounds DEF Ids
<1>2. TypeOK'
  <2>1. products' \subseteq 1..lastId' /\ stocked' \subseteq products'
    BY <1>0, <1>1, Bounds DEF Inv, TypeOK
  <2> QED
    BY <1>0, <1>1, <2>1 DEF Inv, TypeOK, Finished
<1>3. OneAtATime'
  <2>1. \A t \in Scripts : pc'[t] = IF t = s THEN "done" ELSE pc[t]
    BY <1>0 DEF Inv, TypeOK
  <2>2. ~overlapped => /\ products = {} /\ stocked = {}
                       /\ \A t \in Scripts \ {s} : pc[t] = "idle"
    BY <1>0, Bounds DEF Inv, OneAtATime, Finished
  <2> QED
    BY <1>0, <1>1, <2>1, <2>2 DEF OneAtATime, Finished
<1> QED
  BY <1>0, <1>2, <1>3 DEF Inv, OrdersWerePlaced

(* A run that dies leaves everything as it was.                            *)
LEMMA DiesInv ==
  ASSUME Inv, NEW s \in Scripts, Dies(s)
  PROVE  Inv'
<1>0. /\ pc[s] \notin Finished /\ Goto(s, "idle")
      /\ UNCHANGED <<products, stocked, orders, lastId, placed, productIds, overlapped>>
      /\ faults' \in 0..MaxFaults
  BY SeedAssumption DEF Dies, tables, Inv, TypeOK
<1> QED
  BY <1>0, StepKeepsOneAtATime DEF Inv, TypeOK, OrdersWerePlaced

(* An order refers to a product that is there.                             *)
LEMMA PlaceOrderInv ==
  ASSUME Inv, NEW p \in Ids, PlaceOrder(p)
  PROVE  Inv'
<1>0. /\ p \in stocked /\ placed < MaxOrders /\ placed' = placed + 1
      /\ orders' = [orders EXCEPT ![p] = @ + 1]
      /\ UNCHANGED <<products, stocked, lastId, pc, productIds, overlapped, faults>>
  BY DEF PlaceOrder
<1>1. placed' \in 0..MaxOrders /\ orders[p] \in Nat /\ orders[p] + 1 \in 0..MaxOrders
  BY <1>0, Bounds
<1>2. \A q \in Ids : orders'[q] <= placed' /\ (orders'[q] > 0 => q \in products)
  BY <1>0, <1>1, Bounds DEF Inv, TypeOK
<1>3. orders' \in [Ids -> 0..MaxOrders]
  BY <1>0, <1>1 DEF Inv, TypeOK
<1> QED
  BY <1>0, <1>1, <1>2, <1>3 DEF Inv, TypeOK, OrdersWerePlaced, OneAtATime

(* Every step of the specification keeps the invariant.                    *)
LEMMA InvNext == Inv /\ [Next]_vars => Inv'
<1> SUFFICES ASSUME Inv, [Next]_vars PROVE Inv'
  OBVIOUS
<1>1. CASE \E s \in Scripts : Run(s) \/ Dies(s)
  BY <1>1, FindInv, DeleteOrdersInv, DeleteInventoriesInv, DeleteProductsInv, CreateInv, DiesInv
     DEF Run
<1>2. CASE \E p \in Ids : PlaceOrder(p)
  BY <1>2, PlaceOrderInv
<1>3. CASE UNCHANGED vars
  BY <1>3 DEF vars, tables, Inv, TypeOK, OrdersWerePlaced, OneAtATime
<1> QED
  BY <1>1, <1>2, <1>3 DEF Next

(* The inductive invariant holds in every reachable state.                 *)
THEOREM Invariance == Spec => []Inv
BY InvInit, InvNext, PTL DEF Spec

(* The tables keep their types and the foreign keys of the schema, however *)
(* many runs and orders there are at a time.                               *)
THEOREM TypeCorrect == Spec => []TypeOK
<1>1. Inv => TypeOK
  BY DEF Inv
<1> QED
  BY <1>1, Invariance, PTL

(* A run that got through alone leaves one product, and it can be sold.    *)
THEOREM OneProductRemains == Spec => []SeedLeavesOne
<1>1. ASSUME Inv, ~overlapped, NEW s \in Scripts, pc[s] = "done"
      PROVE  Cardinality(products) = 1 /\ stocked = products
  <2>1. stocked = products /\ \E p \in Ids : products = {p}
    BY <1>1 DEF Inv, OneAtATime
  <2> QED
    BY <2>1, FS_Singleton
<1>2. Inv => SeedLeavesOne
  BY <1>1 DEF SeedLeavesOne
<1> QED
  BY <1>2, Invariance, PTL

=============================================================================
