--------------------------- MODULE MCProductCache ---------------------------
(***************************************************************************)
(* Small catalogues for TLC.                                               *)
(***************************************************************************)
EXTENDS ProductCache, TLC

CONSTANTS r1, r2, w1, w2

Interchangeable == Permutations(Readers) \cup Permutations(Writers)

=============================================================================
