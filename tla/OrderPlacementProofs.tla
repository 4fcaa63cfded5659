------------------------ MODULE OrderPlacementProofs ------------------------
(***************************************************************************)
(* Proofs about OrderPlacement for any number of requests, products and    *)
(* units.                                                                  *)
(*                                                                         *)
(* StockConserved is not inductive: a commit writes the stock computed by  *)
(* an earlier UPDATE, so the argument needs RowLockDiscipline, which says  *)
(* that no other commit can have come between.  OrderEventPairing needs    *)
(* SerialIdsFresh in the same way.  SoldCountsOrders speaks of a sum over  *)
(* the rows; it is proved of the number of units in them, which is a       *)
(* cardinality, and the two are shown to be equal.                         *)
(***************************************************************************)
EXTENDS OrderPlacement, FiniteSetTheorems, TLAPS

StockInv == TypeOK /\ StockConserved /\ RowLockDiscipline

(* The fields of a request's body.                                         *)
LEMMA InputTypes ==
  ASSUME TypeOK, NEW r \in Requests
  PROVE  /\ input[r].userId \in UserIds
         /\ input[r].productId \in ProductIds
         /\ input[r].quantity \in Int
BY OrderAssumption DEF TypeOK, Inputs

LEMMA StockInvInit == Init => StockInv
<1> SUFFICES ASSUME Init PROVE StockInv
  OBVIOUS
<1>1. TypeOK
  BY OrderAssumption
     DEF Init, TypeOK, Running, InTransaction, Answers
<1>2. StockConserved
  BY OrderAssumption DEF Init, StockConserved
<1>3. RowLockDiscipline
  BY DEF Init, RowLockDiscipline, InTransaction
<1> QED
  BY <1>1, <1>2, <1>3 DEF StockInv

(* Every action keeps the stock invariant.  Only Commit changes the        *)
(* committed stock; only DecreaseIfAvailable takes a row lock.             *)
LEMMA StockInvNext == StockInv /\ [Next]_vars => StockInv'
<1> SUFFICES ASSUME StockInv, [Next]_vars PROVE StockInv'
  OBVIOUS
<1> USE OrderAssumption
<1>1. ASSUME NEW r \in Requests, Validate(r) PROVE StockInv'
  <2>1. TypeOK'
    BY <1>1 DEF StockInv, TypeOK, Validate, Goto, CloseTx, tx, Database, SerialIds,
                Running, Answers, InTransaction
  <2>2. StockConserved'
    BY <1>1 DEF StockInv, StockConserved, Validate, Database
  <2>3. RowLockDiscipline'
    BY <1>1 DEF StockInv, TypeOK, RowLockDiscipline, Validate, Goto, CloseTx, tx, Database,
                InTransaction, WellFormed
  <2> QED
    BY <2>1, <2>2, <2>3 DEF StockInv
<1>2. ASSUME NEW r \in Requests, Precheck(r) PROVE StockInv'
  <2>1. TypeOK'
    BY <1>2 DEF StockInv, TypeOK, Precheck, Goto, CloseTx, tx, Database, SerialIds,
                Running, Answers, InTransaction
  <2>2. StockConserved'
    BY <1>2 DEF StockInv, StockConserved, Precheck, Database
  <2>3. RowLockDiscipline'
    BY <1>2 DEF StockInv, TypeOK, RowLockDiscipline, Precheck, Goto, CloseTx, tx, Database,
                InTransaction, WellFormed, Serves
  <2> QED
    BY <2>1, <2>2, <2>3 DEF StockInv
<1>3. ASSUME NEW r \in Requests, OrderInsert(r) PROVE StockInv'
  <2>1. TypeOK'
    BY <1>3 DEF StockInv, TypeOK, OrderInsert, Goto, CloseTx, tx, Database,
                Running, Answers, InTransaction
  <2>2. StockConserved'
    BY <1>3 DEF StockInv, StockConserved, OrderInsert, Database
  <2>3. RowLockDiscipline'
    BY <1>3 DEF StockInv, TypeOK, RowLockDiscipline, OrderInsert, Goto, CloseTx, tx, Database,
                InTransaction, WellFormed
  <2> QED
    BY <2>1, <2>2, <2>3 DEF StockInv
<1>4. ASSUME NEW r \in Requests, OutboxInsert(r) PROVE StockInv'
  <2>1. TypeOK'
    BY <1>4 DEF StockInv, TypeOK, OutboxInsert, Goto, CloseTx, tx, Database,
                Running, Answers, InTransaction
  <2>2. StockConserved'
    BY <1>4 DEF StockInv, StockConserved, OutboxInsert, Database
  <2>3. RowLockDiscipline'
    BY <1>4 DEF StockInv, TypeOK, RowLockDiscipline, OutboxInsert, Goto, CloseTx, tx, Database,
                InTransaction, WellFormed
  <2> QED
    BY <2>1, <2>2, <2>3 DEF StockInv
<1>5. ASSUME NEW r \in Requests, DecreaseIfAvailable(r) PROVE StockInv'
  <2> DEFINE pr == input[r].productId
             q == input[r].quantity
  <2>0. q \in Int /\ pc[r] = "decrease" /\ pr \in Inventoried
    BY <1>5, InputTypes DEF StockInv, TypeOK, RowLockDiscipline, DecreaseIfAvailable,
                InTransaction
  <2>1. CASE ~Serves(r)
    <3>1. pc' = [pc EXCEPT ![r] = "conflict"] /\ CloseTx(r)
      BY <1>5, <2>1 DEF DecreaseIfAvailable, Goto
    <3> QED
      BY <1>5, <3>1 DEF StockInv, TypeOK, StockConserved, RowLockDiscipline,
                DecreaseIfAvailable, CloseTx, Database, SerialIds, WellFormed,
                Running, Answers, InTransaction
  <2>2. CASE Serves(r)
    <3>1. /\ pc' = [pc EXCEPT ![r] = "commit"]
          /\ txStock' = [txStock EXCEPT ![r] = stock[pr] - q]
          /\ UNCHANGED <<input, txOrderId, txEventId, stock, orders, outbox,
                         unitsSold, orderSeq, outboxSeq>>
          /\ ~RowLocked(pr)
      BY <1>5, <2>2 DEF DecreaseIfAvailable, Goto, Database, SerialIds
    <3>2. stock[pr] \in Nat /\ stock[pr] >= q
      BY <2>0, <2>2 DEF StockInv, TypeOK, Serves
    <3>3. TypeOK'
      BY <3>1, <3>2, <2>0 DEF StockInv, TypeOK, Running, Answers, InTransaction
    <3>4. StockConserved'
      BY <3>1 DEF StockInv, StockConserved
    <3>5. RowLockDiscipline'
      <4>1. \A s \in Requests : pc'[s] = "commit" =>
              /\ txStock'[s] = stock[input[s].productId] - input[s].quantity
              /\ txStock'[s] >= 0
        BY <3>1, <3>2, <2>0 DEF StockInv, TypeOK, RowLockDiscipline
      <4> QED
        BY <4>1, <3>1, <2>0 DEF StockInv, TypeOK, RowLockDiscipline, RowLocked,
                InTransaction, WellFormed
    <3> QED
      BY <3>3, <3>4, <3>5 DEF StockInv
  <2> QED
    BY <2>1, <2>2
<1>6. ASSUME NEW r \in Requests, Commit(r) PROVE StockInv'
  <2> DEFINE pr == input[r].productId
             q == input[r].quantity
  <2>0. /\ pc[r] = "commit"
        /\ pr \in Inventoried
        /\ q \in Nat
    BY <1>6, InputTypes DEF StockInv, RowLockDiscipline, Commit, WellFormed, InTransaction
  <2>1. txStock[r] = stock[pr] - q /\ txStock[r] \in Nat
    BY <2>0 DEF StockInv, TypeOK, RowLockDiscipline
  <2>2. /\ stock' = [stock EXCEPT ![pr] = txStock[r]]
        /\ unitsSold' = [unitsSold EXCEPT ![pr] = unitsSold[pr] + q]
        /\ CloseTx(r)
        /\ UNCHANGED <<input, orderSeq, outboxSeq>>
        /\ \E answer \in {"created", "failed"} : pc' = [pc EXCEPT ![r] = answer]
    BY <1>6 DEF Commit, Install, Goto, SerialIds
  <2>3. TypeOK'
    <3>1. orders' \subseteq [id : Nat, userId : UserIds, productId : Inventoried,
                             quantity : Nat]
      BY <1>6, <2>0, InputTypes DEF StockInv, TypeOK, Commit, Install
    <3>2. outbox' \subseteq [id : Nat, orderId : Nat, request : Requests]
      BY <1>6 DEF StockInv, TypeOK, Commit, Install
    <3>3. stock' \in [Inventoried -> Nat]
      BY <2>1, <2>2 DEF StockInv, TypeOK
    <3>4. unitsSold' \in [Inventoried -> Nat]
      <4>0. unitsSold[pr] \in Nat
        BY <2>0 DEF StockInv, TypeOK
      <4>1. unitsSold[pr] + q \in Nat
        BY <2>0, <4>0
      <4> QED
        BY <2>2, <4>1 DEF StockInv, TypeOK
    <3> QED
      BY <2>2, <3>1, <3>2, <3>3, <3>4 DEF StockInv, TypeOK, CloseTx, Running, Answers
  <2>4. StockConserved'
    BY <2>0, <2>1, <2>2 DEF StockInv, TypeOK, StockConserved
  <2>5. RowLockDiscipline'
    <3>1. \A s \in Requests : pc'[s] \in Running => s # r /\ pc[s] = pc'[s]
      BY <2>2 DEF StockInv, TypeOK, Running, InTransaction
    <3>2. \A s \in Requests \ {r} : pc[s] = "commit" => input[s].productId # pr
      BY <2>0 DEF StockInv, RowLockDiscipline
    <3>3. \A s \in Requests : pc'[s] = "commit" =>
             /\ stock'[input[s].productId] = stock[input[s].productId]
             /\ txStock'[s] = txStock[s]
      <4> SUFFICES ASSUME NEW s \in Requests, pc'[s] = "commit"
                   PROVE  /\ stock'[input[s].productId] = stock[input[s].productId]
                          /\ txStock'[s] = txStock[s]
        OBVIOUS
      <4>1. s # r /\ pc[s] = "commit"
        BY <3>1 DEF Running, InTransaction
      <4>2. input[s].productId # pr /\ input[s].productId \in Inventoried
        BY <3>2, <4>1 DEF StockInv, RowLockDiscipline, InTransaction
      <4> QED
        BY <2>2, <4>1, <4>2 DEF StockInv, TypeOK, CloseTx
    <3> QED
      BY <2>2, <3>1, <3>3 DEF StockInv, TypeOK, RowLockDiscipline, Running,
                InTransaction, WellFormed
  <2> QED
    BY <2>3, <2>4, <2>5 DEF StockInv
<1>7. ASSUME NEW r \in Requests, Abort(r) PROVE StockInv'
  <2>1. TypeOK'
    BY <1>7 DEF StockInv, TypeOK, Abort, Goto, CloseTx, tx, Database, SerialIds,
                Running, Answers, InTransaction
  <2>2. StockConserved'
    BY <1>7 DEF StockInv, StockConserved, Abort, Database
  <2>3. RowLockDiscipline'
    BY <1>7 DEF StockInv, TypeOK, RowLockDiscipline, Abort, Goto, CloseTx, tx, Database,
                InTransaction, WellFormed
  <2> QED
    BY <2>1, <2>2, <2>3 DEF StockInv
<1>8. CASE UNCHANGED vars
  BY <1>8 DEF StockInv, TypeOK, StockConserved, RowLockDiscipline, WellFormed, vars
<1> QED
  BY <1>1, <1>2, <1>3, <1>4, <1>5, <1>6, <1>7, <1>8 DEF Next, Step

LEMMA StockInvAlways == Spec => []StockInv
BY StockInvInit, StockInvNext, PTL DEF Spec

(* The state of every sale is well typed; in particular no committed stock *)
(* is ever negative.                                                       *)
THEOREM TypeCorrect == Spec => []TypeOK
BY StockInvAlways, PTL DEF StockInv

(* No overselling and no lost update, for any number of buyers.            *)
THEOREM StockIsConserved == Spec => []StockConserved
BY StockInvAlways, PTL DEF StockInv

(* The row lock, held to the end of the transaction, is what makes the     *)
(* decrement safe; the invariant says so of every open transaction.        *)
THEOREM LocksAreExclusive == Spec => []RowLockDiscipline
BY StockInvAlways, PTL DEF StockInv

-----------------------------------------------------------------------------
(* A step of the sale leaves the bodies alone and never raises a stock.    *)
LEMMA StockFalls ==
  ASSUME StockInv, [Next]_vars
  PROVE  input' = input /\ \A p \in Inventoried : stock'[p] <= stock[p]
<1>1. \A p \in Inventoried : stock[p] \in Nat
  BY DEF StockInv, TypeOK
<1>2. ASSUME NEW r \in Requests, Commit(r)
      PROVE  input' = input /\ \A p \in Inventoried : stock'[p] <= stock[p]
  <2>1. /\ input[r].productId \in Inventoried
        /\ input[r].quantity \in Nat
        /\ txStock[r] = stock[input[r].productId] - input[r].quantity
    BY <1>2, InputTypes DEF StockInv, RowLockDiscipline, Commit, WellFormed, InTransaction
  <2>2. stock' = [stock EXCEPT ![input[r].productId] = txStock[r]] /\ input' = input
    BY <1>2 DEF Commit, Install
  <2>3. txStock[r] <= stock[input[r].productId]
    BY <1>1, <2>1
  <2> QED
    BY <1>1, <2>2, <2>3 DEF StockInv, TypeOK
<1>3. ASSUME NEW r \in Requests, Step(r) \/ Abort(r), ~Commit(r)
      PROVE  input' = input /\ stock' = stock
  BY <1>3 DEF Step, Validate, Precheck, OrderInsert, OutboxInsert,
              DecreaseIfAvailable, Abort, Database
<1>4. CASE UNCHANGED vars
  BY <1>1, <1>4 DEF vars
<1> QED
  BY <1>1, <1>2, <1>3, <1>4 DEF Next, Step

(* No step of any request ever gives stock back.                           *)
THEOREM StockOnlyFalls == Spec => StockNeverRises
<1>1. StockInv /\ [Next]_vars
        => [\A p \in Inventoried : stock'[p] <= stock[p]]_vars
  BY StockFalls
<1> QED
  BY <1>1, StockInvAlways, PTL DEF Spec, StockNeverRises

(* A step that ends in a 409 found the committed stock too small; a later  *)
(* step cannot make it large enough again.                                 *)
LEMMA ConflictStep ==
  ASSUME StockInv, NoSpuriousConflict, [Next]_vars
  PROVE  NoSpuriousConflict'
<1> SUFFICES ASSUME NEW s \in Requests, pc'[s] = "conflict", Serves(s)'
             PROVE  FALSE
  BY DEF NoSpuriousConflict
<1>1. Serves(s)
  <2>1. input[s].productId \in Inventoried /\ input' = input
    BY StockFalls DEF Serves
  <2>2. /\ stock'[input[s].productId] <= stock[input[s].productId]
        /\ stock'[input[s].productId] >= input[s].quantity
    BY <2>1, StockFalls DEF Serves
  <2>3. /\ stock[input[s].productId] \in Nat
        /\ stock'[input[s].productId] \in Nat
        /\ input[s].quantity \in Int
    BY <2>1, InputTypes, StockInvNext DEF StockInv, TypeOK
  <2> QED
    BY <2>1, <2>2, <2>3 DEF Serves
<1>2. pc[s] # "conflict"
  BY <1>1 DEF NoSpuriousConflict
<1>3. \A r \in Requests : Step(r) \/ Abort(r) => r = s
  BY <1>2 DEF Step, Validate, Precheck, OrderInsert, OutboxInsert,
              DecreaseIfAvailable, Commit, Abort, Goto, StockInv, TypeOK
<1>4. ~(Step(s) \/ Abort(s))
  BY <1>1 DEF Step, Validate, Precheck, OrderInsert, OutboxInsert,
              DecreaseIfAvailable, Commit, Abort, Goto, StockInv, TypeOK
<1>5. CASE UNCHANGED vars
  BY <1>2, <1>5 DEF vars
<1> QED
  BY <1>3, <1>4, <1>5 DEF Next

(* A refused buyer could not have been served, whatever the transactions   *)
(* that were open when the precheck or the UPDATE looked at the stock.     *)
THEOREM RefusalsAreFounded == Spec => []NoSpuriousConflict
<1>1. Init => NoSpuriousConflict
  BY DEF Init, NoSpuriousConflict
<1>2. StockInv /\ NoSpuriousConflict /\ [Next]_vars => NoSpuriousConflict'
  BY ConflictStep
<1> QED
  BY <1>1, <1>2, StockInvAlways, PTL DEF Spec

-----------------------------------------------------------------------------
(* Ids: an id drawn from a sequence is new, and stays out of the table     *)
(* until its own transaction commits.                                      *)
LEMMA IdsInit == Init => SerialIdsFresh
BY DEF Init, SerialIdsFresh, HasOrderId, HasEventId

LEMMA IdsNext ==
  ASSUME TypeOK, SerialIdsFresh, [Next]_vars
  PROVE  SerialIdsFresh'
<1> USE DEF SerialIdsFresh, HasOrderId, HasEventId
<1>0. \A o \in orders : o.id \in Nat
  BY DEF TypeOK
<1>1. \A e \in outbox : e.id \in Nat
  BY DEF TypeOK
<1>2. ASSUME NEW r \in Requests, Validate(r) \/ Precheck(r) PROVE SerialIdsFresh'
  BY <1>2 DEF TypeOK, Validate, Precheck, Goto, tx, Database, SerialIds
<1>3. ASSUME NEW r \in Requests, OrderInsert(r) PROVE SerialIdsFresh'
  <2>1. CASE input[r].userId \in Users
    BY <1>0, <1>3, <2>1 DEF TypeOK, OrderInsert, Goto, Database
  <2>2. CASE input[r].userId \notin Users
    BY <1>0, <1>3, <2>2 DEF TypeOK, OrderInsert, Goto, Database
  <2> QED
    BY <2>1, <2>2
<1>4. ASSUME NEW r \in Requests, OutboxInsert(r) PROVE SerialIdsFresh'
  BY <1>1, <1>4 DEF TypeOK, OutboxInsert, Goto, Database
<1>5. ASSUME NEW r \in Requests, DecreaseIfAvailable(r) PROVE SerialIdsFresh'
  <2>1. CASE Serves(r)
    BY <1>5, <2>1 DEF TypeOK, DecreaseIfAvailable, Goto, Database, SerialIds
  <2>2. CASE ~Serves(r)
    BY <1>5, <2>2 DEF TypeOK, DecreaseIfAvailable, Goto, CloseTx, Database, SerialIds
  <2> QED
    BY <2>1, <2>2
<1>6. ASSUME NEW r \in Requests, Commit(r) PROVE SerialIdsFresh'
  <2> DEFINE o == [id |-> txOrderId[r], userId |-> input[r].userId,
                   productId |-> input[r].productId, quantity |-> input[r].quantity]
             e == [id |-> txEventId[r], orderId |-> txOrderId[r], request |-> r]
  <2>1. /\ pc[r] = "commit"
        /\ orders' = orders \cup {o}
        /\ outbox' = outbox \cup {e}
        /\ UNCHANGED <<orderSeq, outboxSeq>>
    BY <1>6 DEF Commit, Install, SerialIds
  <2>2. o.id = txOrderId[r] /\ e.id = txEventId[r]
    OBVIOUS
  <2> HIDE DEF o, e
  <2>3. \A s \in Requests : s # r =>
           /\ pc'[s] = pc[s]
           /\ txOrderId'[s] = txOrderId[s]
           /\ txEventId'[s] = txEventId[s]
    BY <1>6 DEF TypeOK, Commit, Install, CloseTx, Goto
  <2>4. pc'[r] \notin {"outboxInsert", "decrease", "commit"}
    BY <1>6 DEF TypeOK, Commit, Goto
  <2> QED
    BY <2>1, <2>2, <2>3, <2>4
<1>7. ASSUME NEW r \in Requests, Abort(r) PROVE SerialIdsFresh'
  BY <1>7 DEF TypeOK, Abort, Goto, CloseTx, Database, SerialIds
<1>8. CASE UNCHANGED vars
  BY <1>8 DEF vars
<1> QED
  BY <1>2, <1>3, <1>4, <1>5, <1>6, <1>7, <1>8 DEF Next, Step

(* Only a commit writes rows.                                              *)
LEMMA RowsUnchanged ==
  ASSUME NEW r \in Requests, Step(r) \/ Abort(r), ~Commit(r)
  PROVE  UNCHANGED Database
BY DEF Step, Validate, Precheck, OrderInsert, OutboxInsert, DecreaseIfAvailable,
       Abort, Database

(* A commit adds one order with a new id and the one event that names it.  *)
LEMMA PairingNext ==
  ASSUME SerialIdsFresh, OrderEventPairing, [Next]_vars
  PROVE  OrderEventPairing'
<1>1. ASSUME NEW r \in Requests, Commit(r) PROVE OrderEventPairing'
  <2> DEFINE o == [id |-> txOrderId[r], userId |-> input[r].userId,
                   productId |-> input[r].productId, quantity |-> input[r].quantity]
             e == [id |-> txEventId[r], orderId |-> txOrderId[r], request |-> r]
  <2>1. orders' = orders \cup {o} /\ outbox' = outbox \cup {e}
    BY <1>1 DEF Commit, Install
  <2>2. o.id = txOrderId[r] /\ e.id = txEventId[r] /\ e.orderId = txOrderId[r]
    OBVIOUS
  <2>3. /\ \A old \in orders : old.id # txOrderId[r]
        /\ \A old \in outbox : old.id # txEventId[r]
    BY <1>1 DEF SerialIdsFresh, HasOrderId, HasEventId, Commit
  <2>4. \A old \in outbox : old.orderId # txOrderId[r]
    BY <2>3 DEF OrderEventPairing
  <2> HIDE DEF o, e
  <2> QED
    BY <2>1, <2>2, <2>3, <2>4 DEF OrderEventPairing
<1>2. ASSUME UNCHANGED Database PROVE OrderEventPairing'
  BY <1>2 DEF OrderEventPairing, Database
<1> QED
  BY <1>1, <1>2, RowsUnchanged DEF Next, vars, Database

(* The transactional outbox, for any number of concurrent transactions.    *)
THEOREM OrdersAndEventsPair == Spec => []OrderEventPairing
<1>1. Init => OrderEventPairing
  BY DEF Init, OrderEventPairing
<1>2. Spec => []SerialIdsFresh
  BY IdsInit, IdsNext, TypeCorrect, PTL DEF Spec
<1> QED
  BY <1>1, <1>2, PairingNext, PTL DEF Spec

-----------------------------------------------------------------------------
(* The units of an order, numbered, and those of a set of orders.          *)
UnitsOf(o) == {<<o, k>> : k \in 1..o.quantity}
Units(S) == UNION {UnitsOf(o) : o \in S}
(* SoldCountsOrders adds up the quantities of orders one by one, in an     *)
(* order that is not known. The sum is shown to be a cardinality, that of  *)
(* the set of their units: there the order of the orders is of no account. *)
Total(S) == MapThenSumSet(LAMBDA o : o.quantity, S)

LEMMA UnitsOfOrder ==
  ASSUME NEW o, o.quantity \in Nat
  PROVE  IsFiniteSet(UnitsOf(o)) /\ Cardinality(UnitsOf(o)) = o.quantity
<1> DEFINE q == o.quantity
           number == [k \in 1..q |-> <<o, k>>]
<1>1. IsFiniteSet(1..q) /\ Cardinality(1..q) = q
  BY FS_Interval
<1>2. number \in Surjection(1..q, UnitsOf(o)) /\ number \in Injection(1..q, UnitsOf(o))
  BY DEF Surjection, Injection, IsInjective, UnitsOf
<1> QED
  BY <1>1, <1>2, FS_Surjection

LEMMA UnitsFinite ==
  ASSUME NEW S, IsFiniteSet(S), \A o \in S : o.quantity \in Nat
  PROVE  IsFiniteSet(Units(S))
<1> DEFINE Sets == {UnitsOf(o) : o \in S}
           units == [o \in S |-> UnitsOf(o)]
<1>1. units \in Surjection(S, Sets)
  BY DEF Surjection
<1>2. IsFiniteSet(Sets)
  BY <1>1, FS_Surjection
<1>3. \A T \in Sets : IsFiniteSet(T)
  BY UnitsOfOrder
<1> QED
  BY <1>2, <1>3, FS_UNION DEF Units

LEMMA UnitsOfOneMore ==
  ASSUME NEW S, IsFiniteSet(S), NEW o, o \notin S,
         \A s \in S \cup {o} : s.quantity \in Nat
  PROVE  Cardinality(Units(S \cup {o})) = Cardinality(Units(S)) + o.quantity
<1>1. Units(S \cup {o}) = Units(S) \cup UnitsOf(o) /\ Units(S) \cap UnitsOf(o) = {}
  BY DEF Units, UnitsOf
<1>2. IsFiniteSet(Units(S)) /\ IsFiniteSet(UnitsOf(o))
  BY UnitsFinite, UnitsOfOrder
<1>3. Cardinality(UnitsOf(o)) = o.quantity /\ Cardinality(Units(S) \cap UnitsOf(o)) = 0
  BY <1>1, UnitsOfOrder, FS_EmptySet
<1>4. Cardinality(Units(S)) \in Nat
  BY <1>2, FS_CardinalityType
<1>5. Cardinality(Units(S) \cup UnitsOf(o))
        = Cardinality(Units(S)) + Cardinality(UnitsOf(o)) - Cardinality(Units(S) \cap UnitsOf(o))
  BY <1>2, FS_Union
<1>6. Cardinality(Units(S \cup {o})) = Cardinality(Units(S) \cup UnitsOf(o))
  BY <1>1, Zenon
<1>7. o.quantity \in Nat
  OBVIOUS
<1> QED
  BY <1>3, <1>4, <1>5, <1>6, <1>7

(* What MapThenSumSet computes with: f takes each subset of S to its sum.  *)
Sums(f, S) == f = [T \in SUBSET S |->
                    IF T = {} THEN 0
                    ELSE (CHOOSE o \in T : TRUE).quantity + f[T \ {CHOOSE o \in T : TRUE}]]

LEMMA TotalIsSum == \A S : Total(S) = (CHOOSE f : Sums(f, S))[S]
BY DEF Total, MapThenSumSet, MapThenFoldSet, Sums

(* Counting units is such a function, whichever order is taken out first.  *)
LEMMA SumsExist ==
  ASSUME NEW S, IsFiniteSet(S), \A o \in S : o.quantity \in Nat
  PROVE  Sums([T \in SUBSET S |-> Cardinality(Units(T))], S)
<1> DEFINE f == [T \in SUBSET S |-> Cardinality(Units(T))]
<1>1. ASSUME NEW T \in SUBSET S, T # {}, NEW o \in T
      PROVE  f[T] = o.quantity + f[T \ {o}]
  <2>1. IsFiniteSet(T \ {o})
    BY FS_Subset
  <2>2. T = (T \ {o}) \cup {o}
    OBVIOUS
  <2>3. Cardinality(Units(T)) = Cardinality(Units(T \ {o})) + o.quantity
    BY <2>1, <2>2, UnitsOfOneMore
  <2>4. Cardinality(Units(T \ {o})) \in Nat
    BY <2>1, UnitsFinite, FS_CardinalityType
  <2> QED
    BY <2>3, <2>4
<1>2. f[{}] = 0
  <2>1. Units({}) = {}
    BY DEF Units
  <2> QED
    BY <2>1, FS_EmptySet
<1>3. ASSUME NEW T \in SUBSET S, T # {}
      PROVE  f[T] = (CHOOSE o \in T : TRUE).quantity + f[T \ {CHOOSE o \in T : TRUE}]
  <2>1. (CHOOSE o \in T : TRUE) \in T
    BY <1>3
  <2> QED
    BY <1>1, <1>3, <2>1
<1>4. f = [T \in SUBSET S |->
            IF T = {} THEN 0
            ELSE (CHOOSE o \in T : TRUE).quantity + f[T \ {CHOOSE o \in T : TRUE}]]
  BY <1>2, <1>3
<1> QED
  BY <1>4 DEF Sums

(* And the only one: there is no smallest set on which two could differ.   *)
LEMMA SumsUnique ==
  ASSUME NEW S, IsFiniteSet(S), NEW f, Sums(f, S), NEW g, Sums(g, S)
  PROVE  f = g
<1> DEFINE D == {T \in SUBSET S : f[T] # g[T]}
           R == StrictSubsetOrdering(S)
<1>1. SUFFICES D = {}
  BY DEF Sums
<1>2. SUFFICES ASSUME D # {} PROVE FALSE
  OBVIOUS
<1>3. IsWellFoundedOn(R, SUBSET S)
  BY FS_StrictSubsetOrderingWellFounded, FS_FiniteSubsetsOfFinite
<1> HIDE DEF R
<1>4. PICK T \in D : \A U \in D : ~(<<U, T>> \in R)
  BY <1>2, <1>3, WFMin
<1> DEFINE U == T \ {CHOOSE o \in T : TRUE}
<1>5. T # {}
  BY DEF Sums
<1>6. U \in SUBSET S /\ U \subseteq T /\ U # T
  BY <1>5
<1>7. U \in D
  BY <1>5, <1>6 DEF Sums
<1>8. <<U, T>> \in R
  BY <1>6 DEF StrictSubsetOrdering, R
<1> QED
  BY <1>4, <1>7, <1>8

(* So the sum is the number of units.                                      *)
LEMMA TotalCountsUnits ==
  ASSUME NEW S, IsFiniteSet(S), \A o \in S : o.quantity \in Nat
  PROVE  Total(S) = Cardinality(Units(S))
<1> DEFINE count == [T \in SUBSET S |-> Cardinality(Units(T))]
<1>1. Sums(count, S)
  BY SumsExist
<1>2. Sums(CHOOSE f : Sums(f, S), S)
  BY <1>1
<1>3. (CHOOSE f : Sums(f, S)) = count
  BY <1>1, <1>2, SumsUnique
<1> QED
  BY <1>3, TotalIsSum

LEMMA TotalOfOneMore ==
  ASSUME NEW S, IsFiniteSet(S), NEW o, o \notin S,
         \A s \in S \cup {o} : s.quantity \in Nat
  PROVE  Total(S \cup {o}) = Total(S) + o.quantity
<1>1. IsFiniteSet(S \cup {o})
  BY FS_AddElement
<1> QED
  BY <1>1, TotalCountsUnits, UnitsOfOneMore

OrdersOf(p) == {o \in orders : o.productId = p}

LEMMA SoldIsTotal ==
  SoldCountsOrders <=> \A p \in Inventoried : unitsSold[p] = Total(OrdersOf(p))
BY DEF SoldCountsOrders, OrdersOf, Total

(* The sum means something for finite sets only.                           *)
OrdersCounted == IsFiniteSet(orders) /\ SoldCountsOrders

(* The row a commit adds to orders is not there yet, for its id is new,    *)
(* and its quantity is what the commit adds to the units sold of its       *)
(* product.                                                                *)
LEMMA CountNext ==
  ASSUME StockInv, SerialIdsFresh, OrdersCounted, [Next]_vars
  PROVE  OrdersCounted'
<1> DEFINE Counted == \A p \in Inventoried : unitsSold[p] = Total(OrdersOf(p))
<1>0. /\ IsFiniteSet(orders) /\ Counted
      /\ IsFiniteSet(orders') /\ Counted' => OrdersCounted'
  <2>1. SoldCountsOrders' <=> Counted'
    BY SoldIsTotal, PTL
  <2> QED
    BY <2>1, SoldIsTotal DEF OrdersCounted
<1>1. ASSUME NEW r \in Requests, Commit(r)
      PROVE  OrdersCounted'
  <2> DEFINE o == [id |-> txOrderId[r], userId |-> input[r].userId,
                   productId |-> input[r].productId, quantity |-> input[r].quantity]
             pr == input[r].productId
             q == input[r].quantity
  <2>1. /\ orders' = orders \cup {o}
        /\ unitsSold' = [unitsSold EXCEPT ![pr] = unitsSold[pr] + q]
    BY <1>1 DEF Commit, Install
  <2>2. o.id = txOrderId[r] /\ o.productId = pr /\ o.quantity = q
    OBVIOUS
  <2>3. pr \in Inventoried /\ q \in Nat
    BY <1>1, InputTypes DEF StockInv, RowLockDiscipline, Commit, WellFormed, InTransaction
  <2>4. o \notin orders
    BY <1>1, <2>2 DEF SerialIdsFresh, HasOrderId, Commit
  <2> HIDE DEF o, pr, q
  <2>5. IsFiniteSet(orders')
    BY <1>0, <2>1, FS_AddElement
  <2>6. ASSUME NEW p \in Inventoried PROVE unitsSold'[p] = Total(OrdersOf(p)')
    <3>1. IsFiniteSet(OrdersOf(p)) /\ \A s \in OrdersOf(p) : s.quantity \in Nat
      BY <1>0, FS_Subset DEF StockInv, TypeOK, OrdersOf
    <3>2. unitsSold[p] = Total(OrdersOf(p))
      BY <1>0
    <3>3. CASE p = pr
      <4>1. OrdersOf(p)' = OrdersOf(p) \cup {o} /\ o \notin OrdersOf(p)
        BY <2>1, <2>2, <2>4, <3>3 DEF OrdersOf
      <4>2. Total(OrdersOf(p) \cup {o}) = Total(OrdersOf(p)) + q
        BY <2>2, <2>3, <3>1, <4>1, TotalOfOneMore
      <4>3. unitsSold'[p] = unitsSold[p] + q
        BY <2>1, <3>3 DEF StockInv, TypeOK
      <4> QED
        BY <3>2, <4>1, <4>2, <4>3
    <3>4. CASE p # pr
      <4>1. OrdersOf(p)' = OrdersOf(p)
        BY <2>1, <2>2, <3>4 DEF OrdersOf
      <4>2. unitsSold'[p] = unitsSold[p]
        BY <2>1, <3>4 DEF StockInv, TypeOK
      <4> QED
        BY <3>2, <4>1, <4>2
    <3> QED
      BY <3>3, <3>4
  <2> QED
    BY <1>0, <2>5, <2>6
<1>2. ASSUME UNCHANGED Database PROVE OrdersCounted'
  BY <1>0, <1>2 DEF OrdersOf, Database
<1> QED
  BY <1>1, <1>2, RowsUnchanged DEF Next, vars, Database

(* A row of orders and the decrement it paid for are never apart: the      *)
(* units taken from each product are the sum of the quantities of its      *)
(* orders.                                                                 *)
THEOREM OrdersAccountForUnits == Spec => []SoldCountsOrders
<1>1. Init => OrdersCounted
  <2> SUFFICES ASSUME Init PROVE OrdersCounted
    OBVIOUS
  <2>1. orders = {} /\ \A p \in Inventoried : unitsSold[p] = 0 /\ OrdersOf(p) = {}
    BY DEF Init, OrdersOf
  <2>2. Units({}) = {} /\ IsFiniteSet({}) /\ Cardinality({}) = 0
    BY FS_EmptySet DEF Units
  <2>3. Total({}) = 0
    BY <2>2, TotalCountsUnits
  <2> QED
    BY <2>1, <2>2, <2>3, SoldIsTotal DEF OrdersCounted
<1>2. Spec => []SerialIdsFresh
  BY IdsInit, IdsNext, TypeCorrect, PTL DEF Spec
<1> QED
  BY <1>1, <1>2, CountNext, StockInvAlways, PTL DEF Spec, OrdersCounted

-----------------------------------------------------------------------------
(* Only a commit gives out a 201, and an answer is given once.             *)
LEMMA AnswersKept ==
  ASSUME TypeOK, NEW r \in Requests, Step(r) \/ Abort(r), NEW s \in Requests
  PROVE  /\ input' = input
         /\ s # r => pc'[s] = pc[s]
         /\ pc[r] \notin Answers
         /\ ~Commit(r) => pc'[r] # "created"
BY DEF TypeOK, Step, Validate, Precheck, OrderInsert, OutboxInsert,
       DecreaseIfAvailable, Commit, Install, Abort, Goto, Running, InTransaction, Answers

LEMMA TruthNext ==
  ASSUME TypeOK, AnswersTruthful, [Next]_vars
  PROVE  AnswersTruthful'
<1>1. ASSUME NEW r \in Requests, Commit(r) PROVE AnswersTruthful'
  <2> DEFINE o == [id |-> txOrderId[r], userId |-> input[r].userId,
                   productId |-> input[r].productId, quantity |-> input[r].quantity]
             e == [id |-> txEventId[r], orderId |-> txOrderId[r], request |-> r]
  <2>1. /\ pc[r] = "commit"
        /\ orders' = orders \cup {o}
        /\ outbox' = outbox \cup {e}
        /\ input' = input
        /\ \A s \in Requests : s # r => pc'[s] = pc[s]
        /\ pc'[r] \in {"created", "failed"}
    BY <1>1 DEF TypeOK, Commit, Install, Goto
  <2>2. \A old \in outbox : old.request # r
    BY <2>1 DEF AnswersTruthful
  <2>3. /\ e.request = r
        /\ o = [id |-> e.orderId, userId |-> input[r].userId,
                productId |-> input[r].productId, quantity |-> input[r].quantity]
    OBVIOUS
  <2> HIDE DEF o, e
  <2>4. ASSUME NEW s \in Requests, s # r
        PROVE  {x \in outbox' : x.request = s} = {x \in outbox : x.request = s}
    BY <2>1, <2>3, <2>4
  <2>5. {x \in outbox' : x.request = r} = {e}
    BY <2>1, <2>2, <2>3
  <2> QED
    BY <2>1, <2>3, <2>4, <2>5 DEF AnswersTruthful
<1>2. ASSUME NEW r \in Requests, Step(r) \/ Abort(r), ~Commit(r)
      PROVE  AnswersTruthful'
  <2>1. orders' = orders /\ outbox' = outbox
    BY <1>2, RowsUnchanged DEF Database
  <2>2. /\ input' = input
        /\ \A s \in Requests : s # r => pc'[s] = pc[s]
        /\ pc[r] \notin Answers
        /\ pc'[r] # "created"
    BY <1>2, AnswersKept
  <2> QED
    BY <2>1, <2>2 DEF AnswersTruthful, Answers
<1>3. CASE UNCHANGED vars
  BY <1>3 DEF vars, AnswersTruthful
<1> QED
  BY <1>1, <1>2, <1>3 DEF Next, Step

(* A 201 stands for exactly one order with the requested content; a 409, a *)
(* 400 or an unfinished request for none.                                  *)
THEOREM AnswersAreTruthful == Spec => []AnswersTruthful
<1>1. Init => AnswersTruthful
  BY DEF Init, AnswersTruthful, Answers
<1> QED
  BY <1>1, TruthNext, TypeCorrect, PTL DEF Spec

-----------------------------------------------------------------------------
(* The refinement.  A step that leads to no answer is a stutter of         *)
(* FlashSale, a step to an answer one of its actions.                      *)
LEMMA Unanswered ==
  ASSUME TypeOK, NEW r \in Requests, NEW step \in Running, Goto(r, step),
         pc[r] \in Running
  PROVE  Told' = Told
BY DEF TypeOK, Goto, Told, Running, InTransaction, Answers

LEMMA Answered ==
  ASSUME TypeOK, NEW r \in Requests, NEW a \in Answers, Goto(r, a),
         pc[r] \in Running
  PROVE  Told[r] = "none" /\ Told' = [Told EXCEPT ![r] = a]
BY DEF TypeOK, Goto, Told, Running, InTransaction, Answers

LEMMA SaleStep ==
  ASSUME StockInv, [Next]_vars
  PROVE  [Sale!Next]_(Sale!vars)
<1> USE DEF StockInv
<1>1. ASSUME NEW r \in Requests, Validate(r) PROVE [Sale!Next]_(Sale!vars)
  <2>0. pc[r] \in Running /\ UNCHANGED <<input, stock, Sold>>
    BY <1>1 DEF Validate, Running, Database, Sold
  <2>1. CASE WellFormed(r)
    BY <1>1, <2>0, <2>1, Unanswered DEF Validate, Running, Sale!vars
  <2>2. CASE ~WellFormed(r)
    <3>1. Sale!Reject(r)
      BY <1>1, <2>0, <2>2, Answered DEF Validate, Answers, Sale!Reject, Sale!WellFormed,
                                        WellFormed
    <3> QED
      BY <3>1 DEF Sale!Next
  <2> QED
    BY <2>1, <2>2
<1>2. ASSUME NEW r \in Requests, Precheck(r) PROVE [Sale!Next]_(Sale!vars)
  <2>0. pc[r] \in Running /\ UNCHANGED <<input, stock, Sold>>
    BY <1>2 DEF Precheck, Running, Database, Sold
  <2>1. CASE Serves(r)
    BY <1>2, <2>0, <2>1, Unanswered DEF Precheck, Running, InTransaction, Sale!vars
  <2>2. CASE ~Serves(r)
    <3>1. Goto(r, "conflict")
      BY <1>2, <2>2 DEF Precheck
    <3>2. Sale!Refuse(r)
      BY <2>0, <2>2, <3>1, Answered, InputTypes
         DEF Answers, Sale!Refuse, Sale!Serves, Serves, TypeOK
    <3> QED
      BY <3>2 DEF Sale!Next
  <2> QED
    BY <2>1, <2>2
<1>3. ASSUME NEW r \in Requests, OrderInsert(r) PROVE [Sale!Next]_(Sale!vars)
  <2>0. pc[r] \in Running /\ UNCHANGED <<input, stock, Sold>>
    BY <1>3 DEF OrderInsert, Running, InTransaction, Database, Sold
  <2>1. CASE input[r].userId \in Users
    BY <1>3, <2>0, <2>1, Unanswered DEF OrderInsert, Running, InTransaction, Sale!vars
  <2>2. CASE input[r].userId \notin Users
    <3>1. Sale!Fail(r)
      BY <1>3, <2>0, <2>2, Answered DEF OrderInsert, Answers, Sale!Fail
    <3> QED
      BY <3>1 DEF Sale!Next
  <2> QED
    BY <2>1, <2>2
<1>4. ASSUME NEW r \in Requests, OutboxInsert(r) PROVE [Sale!Next]_(Sale!vars)
  BY <1>4, Unanswered
     DEF OutboxInsert, Running, InTransaction, Database, Sold, Sale!vars
<1>5. ASSUME NEW r \in Requests, DecreaseIfAvailable(r) PROVE [Sale!Next]_(Sale!vars)
  <2>0. pc[r] \in Running /\ UNCHANGED <<input, stock, Sold>>
    BY <1>5 DEF DecreaseIfAvailable, Running, InTransaction, Database, Sold
  <2>1. CASE Serves(r)
    BY <1>5, <2>0, <2>1, Unanswered
       DEF DecreaseIfAvailable, Running, InTransaction, Sale!vars
  <2>2. CASE ~Serves(r)
    <3>1. Goto(r, "conflict")
      BY <1>5, <2>2 DEF DecreaseIfAvailable
    <3>2. Sale!Refuse(r)
      BY <2>0, <2>2, <3>1, Answered, InputTypes
         DEF Answers, Sale!Refuse, Sale!Serves, Serves, TypeOK
    <3> QED
      BY <3>2 DEF Sale!Next
  <2> QED
    BY <2>1, <2>2
<1>6. ASSUME NEW r \in Requests, Commit(r) PROVE [Sale!Next]_(Sale!vars)
  <2> DEFINE p == input[r].productId
             q == input[r].quantity
  <2>1. /\ pc[r] = "commit"
        /\ pc[r] \in Running
        /\ WellFormed(r)
        /\ p \in Inventoried
        /\ txStock[r] = stock[p] - q
        /\ txStock[r] >= 0
    BY <1>6 DEF Commit, RowLockDiscipline, Running, InTransaction
  <2>2. q \in Int /\ stock[p] \in Nat
    BY <2>1, InputTypes DEF TypeOK
  <2>3. Sale!WellFormed(r) /\ Sale!Serves(r)
    BY <2>1, <2>2 DEF WellFormed, Sale!WellFormed, Sale!Serves
  <2>4. /\ stock' = [stock EXCEPT ![p] = stock[p] - q]
        /\ UNCHANGED input
    BY <1>6, <2>1 DEF Commit, Install
  <2>5. Sold' = Sold \cup {r}
    <3> DEFINE new == [id |-> txEventId[r], orderId |-> txOrderId[r], request |-> r]
    <3>1. outbox' = outbox \cup {new}
      BY <1>6 DEF Commit, Install
    <3>2. new.request = r
      OBVIOUS
    <3> HIDE DEF new
    <3> QED
      BY <3>1, <3>2 DEF Sold
  <2>6. /\ Told[r] = "none"
        /\ \E a \in {"created", "failed"} : Told' = [Told EXCEPT ![r] = a]
    BY <1>6, <2>1, Answered DEF Commit, Answers
  <2>7. Sale!Sell(r)
    BY <2>3, <2>4, <2>5, <2>6 DEF Sale!Sell
  <2> QED
    BY <2>7 DEF Sale!Next
<1>7. ASSUME NEW r \in Requests, Abort(r) PROVE [Sale!Next]_(Sale!vars)
  <2>1. Sale!Fail(r)
    BY <1>7, Answered DEF Abort, Answers, Database, Sold, Sale!Fail
  <2> QED
    BY <2>1 DEF Sale!Next
<1>8. CASE UNCHANGED vars
  BY <1>8 DEF vars, Sale!vars, Sold, Told
<1> QED
  BY <1>1, <1>2, <1>3, <1>4, <1>5, <1>6, <1>7, <1>8 DEF Next, Step

(* Each request is, to its client, one indivisible sale, refusal or        *)
(* failure, whatever the transactions of the others do meanwhile.          *)
THEOREM Refinement == Spec => ImplementsFlashSale
<1>1. Init => Sale!Init
  BY DEF Init, Inputs, Sale!Init, Sold, Told, Answers
<1> QED
  BY <1>1, SaleStep, StockInvAlways, PTL DEF Spec, Sale!Spec, ImplementsFlashSale

=============================================================================
