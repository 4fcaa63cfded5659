------------------------- MODULE MCOutboxPublisher -------------------------
(***************************************************************************)
(* Small relays for TLC: two API instances with room for overlapping       *)
(* cycles, and batches smaller than the table.                             *)
(***************************************************************************)
EXTENDS OutboxPublisher, TLC

CONSTANTS i1, i2, s1, s2

Interchangeable == Permutations(Instances) \cup Permutations(Slots)

=============================================================================
