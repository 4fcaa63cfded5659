------------------------------ MODULE FlashSale ------------------------------
(***************************************************************************)
(* What the ordering side of the flash sale promises to its clients.       *)
(*                                                                         *)
(* Every POST /orders request is answered once.  A sale takes the          *)
(* requested units out of the stock in one indivisible step; a request is  *)
(* refused only when the stock cannot serve it; a request that breaks off  *)
(* has either sold in full or not at all.  OrderPlacement, with its        *)
(* transactions, row locks and failures, implements this specification.    *)
(***************************************************************************)
EXTENDS Integers

CONSTANTS
  Requests,      \* the POST /orders requests
  UserIds,       \* the user ids, product ids and quantities a body may carry
  ProductIds,
  Quantities,
  Inventoried,   \* the products that have an inventory row
  InitialStock   \* their stock when the sale opens

VARIABLES
  input,         \* input[r]: the body of request r
  stock,         \* stock[p]: the units of p that can still be sold
  sold,          \* the requests whose order is on record
  answer         \* answer[r]: what the client was told, "none" before that

vars == <<input, stock, sold, answer>>

WellFormed(r) == /\ input[r].userId >= 1
                 /\ input[r].productId >= 1
                 /\ input[r].quantity >= 1

Serves(r) == /\ input[r].productId \in Inventoried
             /\ input[r].quantity <= stock[input[r].productId]

Init ==
  /\ input \in [Requests -> [userId : UserIds, productId : ProductIds,
                             quantity : Quantities]]
  /\ stock = InitialStock
  /\ sold = {}
  /\ answer = [r \in Requests |-> "none"]

(* The sale of a whole request.  The client may be left without the good   *)
(* news (the answer is then "failed"), but the sale stands.                *)
Sell(r) ==
  /\ answer[r] = "none"
  /\ WellFormed(r)
  /\ Serves(r)
  /\ stock' = [stock EXCEPT ![input[r].productId] = @ - input[r].quantity]
  /\ sold' = sold \cup {r}
  /\ \E a \in {"created", "failed"} : answer' = [answer EXCEPT ![r] = a]
  /\ UNCHANGED input

(* A request the remaining stock cannot serve sells nothing.               *)
Refuse(r) ==
  /\ answer[r] = "none"
  /\ ~Serves(r)
  /\ answer' = [answer EXCEPT ![r] = "conflict"]
  /\ UNCHANGED <<input, stock, sold>>

(* A malformed request sells nothing.                                      *)
Reject(r) ==
  /\ answer[r] = "none"
  /\ ~WellFormed(r)
  /\ answer' = [answer EXCEPT ![r] = "badRequest"]
  /\ UNCHANGED <<input, stock, sold>>

(* A request that breaks off before its sale sells nothing.                *)
Fail(r) ==
  /\ answer[r] = "none"
  /\ answer' = [answer EXCEPT ![r] = "failed"]
  /\ UNCHANGED <<input, stock, sold>>

Next == \E r \in Requests : Sell(r) \/ Refuse(r) \/ Reject(r) \/ Fail(r)

Spec == Init /\ [][Next]_vars

=============================================================================
