------------------------ MODULE PublisherConnection ------------------------
(***************************************************************************)
(* The RabbitMQ connection of one RabbitMqService, over which the relay    *)
(* publishes and whose fields the health endpoint reads: connect with its  *)
(* awaits, the close listener, the reconnect timer and                     *)
(* onApplicationShutdown.  Publishing leaves all of this alone.            *)
(*                                                                         *)
(* Unlike the consumer, the service does not compare the connection that   *)
(* closed with the one in its field, and does not listen to its channel.   *)
(***************************************************************************)
EXTENDS Integers

CONSTANTS
  Links,         \* bound: the connections a run opens
  None,
  FaultKinds,    \* the faults of this model
  MaxFaults      \* bound: how many of them

AllFaults == {"dial", "setup", "connection", "channel", "unheard"}

ASSUME PublisherLinkAssumption ==
  /\ None \notin Links
  /\ FaultKinds \subseteq AllFaults
  /\ MaxFaults \in Nat

VARIABLES
  link,            \* link[l]: "unused", "open" or "closed"
  usable,          \* the links whose channel is open
  listening,       \* the links whose close listener is registered
  connection,      \* the fields of the service
  channel,
  reconnectTimer,
  shuttingDown,
  attempt,         \* the await connect is at; connecting = (attempt # "idle")
  local,           \* its local connection
  stop,            \* the await of onApplicationShutdown
  stopConnection,  \* what it read from the fields
  stopChannel,
  served,          \* history: links taken into service before the shutdown
  abandoned,       \* history: open links whose setup failed
  unnoticed,       \* history: links of which an end went unnoticed
  faults

broker == <<link, usable>>
fields == <<connection, channel>>
flags == <<reconnectTimer, shuttingDown>>
connecting == <<attempt, local>>
shutdown == <<stop, stopConnection, stopChannel>>
history == <<served, abandoned, unnoticed, faults>>
vars == <<broker, listening, fields, flags, connecting, shutdown, history>>

Init ==
  /\ link = [l \in Links |-> "unused"]
  /\ usable = {} /\ listening = {}
  /\ connection = None /\ channel = None
  /\ reconnectTimer = FALSE /\ shuttingDown = FALSE
  /\ attempt = "dial" /\ local = None
  /\ stop = "running" /\ stopConnection = None /\ stopChannel = None
  /\ served = {} /\ abandoned = {} /\ unnoticed = {}
  /\ faults = 0

Alive == stop # "exited"

Fault(kind) == /\ Alive
               /\ kind \in FaultKinds
               /\ faults < MaxFaults
               /\ faults' = faults + 1

-----------------------------------------------------------------------------
(* connect().                                                              *)

(* Mutant: the listener is registered as soon as the connection is there.  *)
DialListening ==
  /\ attempt = "dial"
  /\ \E l \in Links : link[l] = "unused"
  /\ local' = CHOOSE l \in Links : link[l] = "unused"
  /\ link' = [link EXCEPT ![local'] = "open"]
  /\ listening' = listening \cup {local'}
  /\ attempt' = "setup"
  /\ UNCHANGED <<usable, fields, flags, shutdown, history>>

(* amqp.connect resolves.                                                  *)
Dial ==
  /\ attempt = "dial"
  /\ \E l \in Links : link[l] = "unused"
  /\ local' = CHOOSE l \in Links : link[l] = "unused"
  /\ link' = [link EXCEPT ![local'] = "open"]
  /\ attempt' = "setup"
  /\ UNCHANGED <<usable, listening, fields, flags, shutdown, history>>

(* The confirm channel and the three queues.                               *)
SetUp ==
  /\ attempt = "setup"
  /\ link[local] = "open"
  /\ usable' = usable \cup {local}
  /\ attempt' = "assign"
  /\ UNCHANGED <<link, listening, fields, flags, local, shutdown, history>>

(* The rest of connect, without an await: listeners and fields.            *)
Assign ==
  /\ attempt = "assign"
  /\ listening' = listening \cup {local}
  /\ connection' = local
  /\ channel' = local
  /\ served' = IF shuttingDown THEN served ELSE served \cup {local}
  /\ attempt' = "idle"
  /\ local' = None
  /\ UNCHANGED <<broker, flags, shutdown, abandoned, unnoticed, faults>>

(* scheduleReconnect.                                                      *)
ScheduleReconnect == /\ reconnectTimer' = (reconnectTimer \/ ~shuttingDown)
                     /\ UNCHANGED shuttingDown

(* The catch block.                                                        *)
GiveUp ==
  /\ attempt' = "idle"
  /\ local' = None
  /\ ScheduleReconnect
  /\ UNCHANGED <<listening, fields>>

DialFails ==
  /\ attempt = "dial"
  /\ Fault("dial")
  /\ GiveUp
  /\ UNCHANGED <<broker, shutdown, served, abandoned, unnoticed>>

(* Mutant: no catch block; the rejection goes to the caller.               *)
SetUpThrows ==
  /\ attempt = "setup"
  /\ link[local] = "closed"
  /\ attempt' = "idle"
  /\ local' = None
  /\ UNCHANGED <<broker, listening, fields, flags, shutdown, history>>

(* A call on the new connection rejects: the connection is gone, or only   *)
(* its channel is, and then nobody closes the connection.                  *)
SetUpFails ==
  /\ attempt = "setup"
  /\ \/ link[local] = "closed" /\ UNCHANGED <<abandoned, faults>>
     \/ /\ link[local] = "open"
        /\ Fault("setup")
        /\ abandoned' = abandoned \cup {local}
  /\ GiveUp
  /\ UNCHANGED <<broker, shutdown, served, unnoticed>>

(* The reconnect timer fires and calls connect.                            *)
Reconnect ==
  /\ reconnectTimer
  /\ reconnectTimer' = FALSE
  /\ attempt' = IF attempt = "idle" /\ channel = None /\ ~shuttingDown THEN "dial" ELSE attempt
  /\ UNCHANGED <<broker, listening, fields, shuttingDown, local, shutdown, history>>

-----------------------------------------------------------------------------
(* Mutant: the listener clears the connection only.                        *)
OnCloseKeepingChannel == connection' = None /\ UNCHANGED channel /\ ScheduleReconnect

(* Mutant: the listener schedules the reconnect only.                      *)
OnCloseKeepingFields == UNCHANGED fields /\ ScheduleReconnect

(* The close listener, whichever connection it belongs to.                 *)
OnClose == connection' = None /\ channel' = None /\ ScheduleReconnect

Closed(l) ==
  /\ link' = [link EXCEPT ![l] = "closed"]
  /\ usable' = usable \ {l}
  /\ IF l \in listening THEN OnClose ELSE UNCHANGED <<fields, flags>>

(* connect has its last answer, and its continuation is yet to run: what   *)
(* ends now finds no listener.                                             *)
Unassigned(l) == attempt = "assign" /\ local = l

ConnectionLost(l) ==
  /\ link[l] = "open"
  /\ IF Unassigned(l) THEN Fault("unheard") /\ unnoticed' = unnoticed \cup {l}
                      ELSE Fault("connection") /\ UNCHANGED unnoticed
  /\ Closed(l)
  /\ UNCHANGED <<listening, connecting, shutdown, served, abandoned>>

(* Only the channel closes.  Nobody listens.                               *)
ChannelLost(l) ==
  /\ l \in usable
  /\ Fault("channel")
  /\ usable' = usable \ {l}
  /\ unnoticed' = unnoticed \cup {l}
  /\ UNCHANGED <<link, listening, fields, flags, connecting, shutdown, served, abandoned>>

-----------------------------------------------------------------------------
(* onApplicationShutdown, and the end of the process.                      *)

(* Mutant: the fields are cleared without having been read.                *)
ShutDownForgetting ==
  /\ stop = "running"
  /\ shuttingDown' = TRUE
  /\ reconnectTimer' = FALSE
  /\ stop' = "closeChannel"
  /\ connection' = None
  /\ channel' = None
  /\ UNCHANGED <<broker, listening, connecting, stopConnection, stopChannel, history>>

ShutDown ==
  /\ stop = "running"
  /\ shuttingDown' = TRUE
  /\ reconnectTimer' = FALSE
  /\ stopConnection' = connection
  /\ stopChannel' = channel
  /\ stop' = "closeChannel"
  /\ connection' = None
  /\ channel' = None
  /\ UNCHANGED <<broker, listening, connecting, history>>

CloseChannel ==
  /\ stop = "closeChannel"
  /\ usable' = usable \ {stopChannel}
  /\ stop' = "closeConnection"
  /\ UNCHANGED <<link, listening, fields, flags, connecting, stopConnection, stopChannel,
                 history>>

(* What is closed already is not closed again.                             *)
CloseConnection ==
  /\ stop = "closeConnection"
  /\ stop' = "completed"
  /\ IF stopConnection # None /\ link[stopConnection] = "open"
       THEN Closed(stopConnection) ELSE UNCHANGED <<broker, fields, flags>>
  /\ UNCHANGED <<listening, connecting, stopConnection, stopChannel, history>>

(* The signal ends the process and all it still has.                       *)
Exit ==
  /\ stop = "completed"
  /\ stop' = "exited"
  /\ link' = [l \in Links |-> "closed"]
  /\ usable' = {}
  /\ connection' = None /\ channel' = None
  /\ reconnectTimer' = FALSE
  /\ attempt' = "idle" /\ local' = None
  /\ UNCHANGED <<listening, shuttingDown, stopConnection, stopChannel, history>>

-----------------------------------------------------------------------------
Connect == Dial \/ SetUp \/ Assign \/ SetUpFails \/ Reconnect

Next == \/ Connect
        \/ DialFails
        \/ \E l \in Links : ConnectionLost(l) \/ ChannelLost(l)
        \/ ShutDown \/ CloseChannel \/ CloseConnection \/ Exit
        \/ ~Alive /\ UNCHANGED vars

Spec == Init /\ [][Next]_vars

(* Calls to a broker that is up are answered, and the timer fires.         *)
FairSpec == Spec /\ WF_vars(Connect)

-----------------------------------------------------------------------------
(* isAvailable, what GET /health reports.                                  *)
IsAvailable == connection # None /\ channel # None

(* Type invariant; the two fields are set and cleared together.            *)
TypeOK ==
  /\ link \in [Links -> {"unused", "open", "closed"}]
  /\ usable \subseteq {l \in Links : link[l] = "open"}
  /\ listening \subseteq Links
  /\ {connection, channel, local, stopConnection, stopChannel} \subseteq Links \cup {None}
  /\ connection = channel
  /\ {reconnectTimer, shuttingDown} \subseteq BOOLEAN
  /\ attempt \in {"idle", "dial", "setup", "assign"}
  /\ stop \in {"running", "closeChannel", "closeConnection", "completed", "exited"}
  /\ served \subseteq Links /\ abandoned \subseteq Links /\ unnoticed \subseteq Links
  /\ faults \in 0..MaxFaults

(* The close listener, which does not ask whose close it hears, hears only *)
(* that of the connection in the field: until the shutdown none of another *)
(* connection can take a good one out of service.                          *)
CloseEventsAreOwn ==
  \/ shuttingDown
  \/ \A l \in listening : link[l] = "open" => l \in {local, connection}

(* The health endpoint calls the service available only when it can        *)
(* publish, except over a link an end of which nobody could notice.        *)
HealthIsTruthful == IsAvailable => channel \in usable \cup unnoticed

(* Every open connection is one that connect, a field or the shutdown     *)
(* knows, except those whose setup failed half-way and those that connect  *)
(* finished during the shutdown; a completed shutdown has closed every     *)
(* connection that was in service before it.                               *)
LeaksExplained ==
  /\ stop # "exited" => \A l \in Links : link[l] = "open" =>
       l \in {local, connection, stopConnection} \cup abandoned \cup (listening \ served)
  /\ stop = "completed" => \A l \in served : link[l] # "open"

(* The refinement mapping.                                                 *)
State == IF shuttingDown THEN "stopped"
         ELSE IF attempt # "idle" THEN "attempting"
         ELSE IF channel # None THEN "up" ELSE "down"

Supervisor == INSTANCE LinkSupervisor WITH state <- State

(* The service's connection is supervised.                                 *)
ImplementsSupervisor == Supervisor!Spec

=============================================================================
