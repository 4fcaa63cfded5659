------------------------------- MODULE MCSeed -------------------------------
(***************************************************************************)
(* Small databases for TLC.                                                *)
(***************************************************************************)
EXTENDS Seed

CONSTANTS a1, a2

=============================================================================
