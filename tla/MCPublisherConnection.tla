----------------------- MODULE MCPublisherConnection -----------------------
(***************************************************************************)
(* Small lives of a publisher for TLC: one connection more than faults.    *)
(***************************************************************************)
EXTENDS PublisherConnection

=============================================================================
