--------------------------- MODULE LinkSupervisor ---------------------------
(***************************************************************************)
(* What both users of RabbitMQ, the consumer and the publisher, promise    *)
(* about their connection: a lost or failed one is always retried, until   *)
(* the process shuts down.  ConsumerConnection and PublisherConnection,    *)
(* with their awaits, listeners and timers, implement this specification.  *)
(***************************************************************************)

VARIABLE state

Init == state = "attempting"

Connected == state = "attempting" /\ state' = "up"
Failed == state = "attempting" /\ state' = "down"
Lost == state = "up" /\ state' = "down"
Retry == state = "down" /\ state' = "attempting"
Stop == state # "stopped" /\ state' = "stopped"

Next == Connected \/ Failed \/ Lost \/ Retry \/ Stop

(* A link only comes up by an attempt, and one that is down only attempts. *)
Safety == Init /\ [][Next]_state

(* Every attempt ends, and no loss or failure is left without a retry.     *)
Spec == Safety /\ WF_state(Connected \/ Failed) /\ WF_state(Retry)

=============================================================================
