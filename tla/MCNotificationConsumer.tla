----------------------- MODULE MCNotificationConsumer -----------------------
(***************************************************************************)
(* Small workloads for TLC: one or two orders, two instances.              *)
(***************************************************************************)
EXTENDS NotificationConsumer, TLC

CONSTANTS i1, i2, s1, s2, o1, o2

Interchangeable == Permutations(Instances)

=============================================================================
