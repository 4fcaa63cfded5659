-------------------------- MODULE MCOrderPlacement --------------------------
(***************************************************************************)
(* Small sales for TLC: one product with three units, one without an       *)
(* inventory row, one user id that exists and one that does not, and       *)
(* quantities on both sides of @Min(1).                                    *)
(***************************************************************************)
EXTENDS OrderPlacement

CONSTANTS r1, r2, r3

ThreeUnits == [p \in Inventoried |-> 3]

SomeQuantities == {-1, 1, 2}

=============================================================================
