----------------------- MODULE MCConsumerConnection -----------------------
(***************************************************************************)
(* Small lives of a consumer for TLC.                                      *)
(***************************************************************************)
EXTENDS ConsumerConnection

CONSTANTS h1, h2

=============================================================================
