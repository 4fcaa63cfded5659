------------------------- MODULE ConsumerConnection -------------------------
(***************************************************************************)
(* The RabbitMQ connection of one OrderNotificationConsumer: connect with  *)
(* its awaits, the close listeners, the reconnect timer, the handlers that *)
(* run on a channel and beforeApplicationShutdown, followed by the end of  *)
(* the process.                                                            *)
(*                                                                         *)
(* A link is a connection with its one channel.  Listeners run within the  *)
(* event that calls them; everything else may come between two awaits.     *)
(***************************************************************************)
EXTENDS Integers, FiniteSets

CONSTANTS
  Links,         \* bound: the connections a run opens
  Handlers,      \* bound: handleMessage calls that run at a time
  None,
  FaultKinds,    \* the faults of this model
  MaxFaults      \* bound: how many of them

AllFaults == {"dial", "setup", "connection", "channel", "cancel", "unheard"}

ASSUME LinkAssumption ==
  /\ None \notin Links
  /\ FaultKinds \subseteq AllFaults
  /\ MaxFaults \in Nat

VARIABLES
  link,            \* link[l]: "unused", "open", "closing" or "closed"
  usable,          \* the links whose channel is open
  consuming,       \* the links on which the broker delivers
  listening,       \* the links whose close listeners are registered
  connection,      \* the fields of the consumer; consumerTag is set and
  channel,         \*   cleared with channel
  reconnectTimer,
  shuttingDown,
  attempt,         \* the await connect is at; connecting = (attempt # "idle")
  local,           \* its local connection
  stop,            \* the await of the shutdown
  stopConnection,  \* what the shutdown read from the fields
  stopChannel,
  awaited,         \* the handlers Promise.all still waits for
  handling,        \* handling[h]: the link handler h got its message on
  served,          \* history: links taken into service before the shutdown
  abandoned,       \* history: open links whose setup failed
  unheard,         \* history: links lost before their listeners were there
  cancelled,       \* history: links on which the broker cancelled the consumer
  faults

broker == <<link, usable, consuming>>
fields == <<connection, channel, reconnectTimer, shuttingDown>>
connecting == <<attempt, local, listening>>
shutdown == <<stop, stopConnection, stopChannel, awaited>>
history == <<served, abandoned, unheard, cancelled>>
vars == <<broker, fields, connecting, shutdown, handling, history, faults>>

Init ==
  /\ link = [l \in Links |-> "unused"]
  /\ usable = {} /\ consuming = {} /\ listening = {}
  /\ connection = None /\ channel = None
  /\ reconnectTimer = FALSE /\ shuttingDown = FALSE
  /\ attempt = "dial" /\ local = None
  /\ stop = "running" /\ stopConnection = None /\ stopChannel = None
  /\ awaited = {}
  /\ handling = [h \in Handlers |-> None]
  /\ served = {} /\ abandoned = {} /\ unheard = {} /\ cancelled = {}
  /\ faults = 0

Alive == stop # "exited"
InFlight == {h \in Handlers : handling[h] # None}

Fault(kind) == /\ Alive
               /\ kind \in FaultKinds
               /\ faults < MaxFaults
               /\ faults' = faults + 1

-----------------------------------------------------------------------------
(* connect().                                                              *)

(* amqp.connect resolves.                                                  *)
Dial ==
  /\ attempt = "dial"
  /\ \E l \in Links : link[l] = "unused"
  /\ local' = CHOOSE l \in Links : link[l] = "unused"
  /\ link' = [link EXCEPT ![local'] = "open"]
  /\ attempt' = "setup"
  /\ UNCHANGED <<usable, consuming, fields, listening, shutdown, handling, history, faults>>

(* The channel, the four queues and the prefetch.                          *)
SetUp ==
  /\ attempt = "setup"
  /\ link[local] = "open"
  /\ usable' = usable \cup {local}
  /\ attempt' = "consume"
  /\ UNCHANGED <<link, consuming, fields, local, listening, shutdown, handling, history,
                 faults>>

(* The broker answers channel.consume, and may deliver from now on.        *)
Consume ==
  /\ attempt = "consume"
  /\ local \in usable
  /\ consuming' = consuming \cup {local}
  /\ attempt' = "assign"
  /\ UNCHANGED <<link, usable, fields, local, listening, shutdown, handling, history, faults>>

(* The rest of connect, without an await: listeners and fields.            *)
Assign ==
  /\ attempt = "assign"
  /\ listening' = listening \cup {local}
  /\ connection' = local
  /\ channel' = local
  /\ served' = IF shuttingDown THEN served ELSE served \cup {local}
  /\ attempt' = "idle"
  /\ local' = None
  /\ UNCHANGED <<broker, reconnectTimer, shuttingDown, shutdown, handling, abandoned, unheard,
                 cancelled, faults>>

(* The catch block.                                                        *)
GiveUp ==
  /\ attempt' = "idle"
  /\ local' = None
  /\ reconnectTimer' = (reconnectTimer \/ ~shuttingDown)
  /\ UNCHANGED <<connection, channel, shuttingDown, listening>>

DialFails ==
  /\ attempt = "dial"
  /\ Fault("dial")
  /\ GiveUp
  /\ UNCHANGED <<broker, shutdown, handling, history>>

(* Mutant: a failed setup is not retried.                                  *)
SetUpFailsForGood ==
  /\ attempt \in {"setup", "consume"}
  /\ \/ link[local] = "closed" /\ UNCHANGED <<usable, abandoned, faults>>
     \/ /\ link[local] = "open"
        /\ Fault("setup")
        /\ usable' = usable \ {local}
        /\ abandoned' = abandoned \cup {local}
  /\ attempt' = "idle"
  /\ local' = None
  /\ UNCHANGED <<link, consuming, fields, listening, shutdown, handling, served, unheard,
                 cancelled>>

(* A call on the new connection rejects: the connection is gone, or only   *)
(* its channel is, and then nobody closes the connection.                  *)
SetUpFails ==
  /\ attempt \in {"setup", "consume"}
  /\ \/ link[local] = "closed" /\ UNCHANGED <<usable, abandoned, faults>>
     \/ /\ link[local] = "open"
        /\ Fault("setup")
        /\ usable' = usable \ {local}
        /\ abandoned' = abandoned \cup {local}
  /\ GiveUp
  /\ UNCHANGED <<link, consuming, shutdown, handling, served, unheard, cancelled>>

(* The reconnect timer fires and calls connect.                            *)
Reconnect ==
  /\ reconnectTimer
  /\ reconnectTimer' = FALSE
  /\ attempt' = IF attempt = "idle" /\ channel = None /\ ~shuttingDown THEN "dial" ELSE attempt
  /\ UNCHANGED <<broker, connection, channel, shuttingDown, local, listening, shutdown,
                 handling, history, faults>>

-----------------------------------------------------------------------------
(* The listeners.                                                          *)

(* The connection of l is closed, and with it the channel: both listeners  *)
(* run.  (The one of the channel finds the connection closed.)             *)
Closed(l) ==
  /\ link' = [link EXCEPT ![l] = "closed"]
  /\ usable' = usable \ {l}
  /\ consuming' = consuming \ {l}
  /\ IF l \in listening /\ connection = l
       THEN /\ connection' = None
            /\ channel' = None
            /\ reconnectTimer' = (reconnectTimer \/ ~shuttingDown)
       ELSE UNCHANGED <<connection, channel, reconnectTimer>>
  /\ UNCHANGED shuttingDown

(* connect has its last answer, and its continuation is yet to run: close  *)
(* events find no listener.                                                *)
Unassigned(l) == attempt = "assign" /\ local = l

ConnectionLost(l) ==
  /\ link[l] \in {"open", "closing"}
  /\ IF Unassigned(l) THEN Fault("unheard") /\ unheard' = unheard \cup {l}
                      ELSE Fault("connection") /\ UNCHANGED unheard
  /\ Closed(l)
  /\ UNCHANGED <<connecting, shutdown, handling, served, abandoned, cancelled>>

(* Mutant: the listener schedules the reconnect itself and forgets the     *)
(* connection instead of closing it.                                       *)
ChannelLostForgets(l) ==
  /\ l \in usable \cap listening
  /\ Fault("channel")
  /\ usable' = usable \ {l}
  /\ consuming' = consuming \ {l}
  /\ connection' = IF connection = l THEN None ELSE connection
  /\ channel' = IF channel = l THEN None ELSE channel
  /\ reconnectTimer' = (reconnectTimer \/ (~shuttingDown /\ connection = l))
  /\ UNCHANGED <<link, shuttingDown, connecting, shutdown, handling, history>>

(* Mutant: the listener clears the channel and leaves the connection be.   *)
ChannelLostAlone(l) ==
  /\ l \in usable \cap listening
  /\ Fault("channel")
  /\ usable' = usable \ {l}
  /\ consuming' = consuming \ {l}
  /\ channel' = IF channel = l THEN None ELSE channel
  /\ UNCHANGED <<link, connection, reconnectTimer, shuttingDown, connecting, shutdown,
                 handling, history>>

(* Only the channel closes: its listener closes the connection, so that    *)
(* the listener of the connection reconnects.                              *)
ChannelLost(l) ==
  /\ l \in usable
  /\ \/ /\ l \in listening
        /\ Fault("channel")
        /\ channel' = IF channel = l THEN None ELSE channel
        /\ link' = IF ~shuttingDown /\ connection = l
                     THEN [link EXCEPT ![l] = "closing"] ELSE link
        /\ UNCHANGED unheard
     \/ /\ Unassigned(l)
        /\ Fault("unheard")
        /\ unheard' = unheard \cup {l}
        /\ UNCHANGED <<channel, link>>
  /\ usable' = usable \ {l}
  /\ consuming' = consuming \ {l}
  /\ UNCHANGED <<connection, reconnectTimer, shuttingDown, connecting, shutdown, handling,
                 served, abandoned, cancelled>>

(* The broker confirms connection.close.                                   *)
CloseConfirmed(l) ==
  /\ link[l] = "closing"
  /\ Closed(l)
  /\ UNCHANGED <<connecting, shutdown, handling, history, faults>>

-----------------------------------------------------------------------------
(* The callback of channel.consume.                                        *)

(* The broker cancels the consumer, as when its queue is deleted: the      *)
(* callback gets null and returns.  Channel, connection and fields stay as *)
(* they are, no listener runs, and nothing is delivered any more.          *)
ConsumerCancelled(l) ==
  /\ l \in consuming
  /\ Fault("cancel")
  /\ consuming' = consuming \ {l}
  /\ cancelled' = cancelled \cup {l}
  /\ UNCHANGED <<link, usable, fields, connecting, shutdown, handling, served, abandoned, unheard>>

(* A message arrives and its handler enters inFlightHandlers.              *)
Deliver(l, h) ==
  /\ l \in consuming
  /\ handling[h] = None
  /\ handling' = [handling EXCEPT ![h] = l]
  /\ UNCHANGED <<broker, fields, connecting, shutdown, history, faults>>

(* Its promise settles, whatever became of its channel.                    *)
Finish(h) ==
  /\ handling[h] # None
  /\ handling' = [handling EXCEPT ![h] = None]
  /\ awaited' = awaited \ {h}
  /\ UNCHANGED <<broker, fields, connecting, stop, stopConnection, stopChannel, history,
                 faults>>

-----------------------------------------------------------------------------
(* beforeApplicationShutdown, and the end of the process.                  *)

(* Mutant: the channel field is not cleared.                               *)
DrainedKeepingChannel == stop' = "closeChannel" /\ connection' = None /\ channel' = channel

(* After the drain the fields are cleared.                                 *)
Drained == stop' = "closeChannel" /\ connection' = None /\ channel' = None

Drain ==
  /\ awaited' = InFlight
  /\ IF InFlight = {} THEN Drained ELSE stop' = "drain" /\ UNCHANGED <<connection, channel>>

ShutDown ==
  /\ stop = "running"
  /\ shuttingDown' = TRUE
  /\ reconnectTimer' = FALSE
  /\ stopConnection' = connection
  /\ stopChannel' = channel
  /\ IF channel # None THEN stop' = "cancel" /\ UNCHANGED <<awaited, connection, channel>>
                       ELSE Drain
  /\ UNCHANGED <<broker, connecting, handling, history, faults>>

(* Mutant: the drain does not wait for the handlers.                       *)
CancelWithoutDrain ==
  /\ stop = "cancel"
  /\ consuming' = consuming \ {stopChannel}
  /\ Drained
  /\ UNCHANGED <<link, usable, reconnectTimer, shuttingDown, connecting, stopConnection,
                 stopChannel, awaited, handling, history, faults>>

(* channel.cancel resolves, or rejects because the channel is closed.      *)
Cancel ==
  /\ stop = "cancel"
  /\ consuming' = consuming \ {stopChannel}
  /\ Drain
  /\ UNCHANGED <<link, usable, reconnectTimer, shuttingDown, connecting, stopConnection,
                 stopChannel, handling, history, faults>>

(* Mutant: the drain waits until the set inFlightHandlers is empty.        *)
SetEmptied ==
  /\ stop = "drain"
  /\ InFlight = {}
  /\ Drained
  /\ UNCHANGED <<broker, reconnectTimer, shuttingDown, connecting, stopConnection, stopChannel,
                 awaited, handling, history, faults>>

(* Promise.all over the handlers there were when the cancel was answered.  *)
AllSettled ==
  /\ stop = "drain"
  /\ awaited = {}
  /\ Drained
  /\ UNCHANGED <<broker, reconnectTimer, shuttingDown, connecting, stopConnection, stopChannel,
                 awaited, handling, history, faults>>

(* What is closed already is not closed again.                             *)
CloseChannel ==
  /\ stop = "closeChannel"
  /\ usable' = usable \ {stopChannel}
  /\ consuming' = consuming \ {stopChannel}
  /\ stop' = "closeConnection"
  /\ UNCHANGED <<link, fields, connecting, stopConnection, stopChannel, awaited, handling,
                 history, faults>>

CloseConnection ==
  /\ stop = "closeConnection"
  /\ link' = [l \in Links |-> IF l = stopConnection /\ link[l] = "open" THEN "closed" ELSE link[l]]
  /\ usable' = usable \ {stopConnection}
  /\ consuming' = consuming \ {stopConnection}
  /\ stop' = "completed"
  /\ UNCHANGED <<fields, connecting, stopConnection, stopChannel, awaited, handling, history,
                 faults>>

(* The HTTP server closes, the onApplicationShutdown hooks run (Redis      *)
(* quits), and the signal ends the process and all it still has.           *)
Exit ==
  /\ stop = "completed"
  /\ stop' = "exited"
  /\ link' = [l \in Links |-> "closed"]
  /\ usable' = {}
  /\ consuming' = {}
  /\ attempt' = "idle"
  /\ local' = None
  /\ connection' = None
  /\ channel' = None
  /\ reconnectTimer' = FALSE
  /\ handling' = [h \in Handlers |-> None]
  /\ UNCHANGED <<shuttingDown, listening, stopConnection, stopChannel, awaited, history, faults>>

-----------------------------------------------------------------------------
Connect == Dial \/ SetUp \/ Consume \/ Assign \/ SetUpFails \/ Reconnect
Stopping == Cancel \/ AllSettled \/ CloseChannel \/ CloseConnection \/ Exit

Next == \/ Connect
        \/ DialFails
        \/ \E l \in Links : ConnectionLost(l) \/ ChannelLost(l) \/ CloseConfirmed(l)
        \/ \E l \in Links : ConsumerCancelled(l)
        \/ \E l \in Links, h \in Handlers : Deliver(l, h)
        \/ \E h \in Handlers : Finish(h)
        \/ ShutDown
        \/ Stopping
        \/ ~Alive /\ UNCHANGED vars

Spec == Init /\ [][Next]_vars

(* Calls to a broker that is up are answered, a close handshake ends, the  *)
(* timer fires and handlers settle.                                        *)
FairSpec ==
  /\ Spec
  /\ WF_vars(Connect)
  /\ WF_vars(Stopping)
  /\ \A l \in Links : WF_vars(CloseConfirmed(l))
  /\ \A h \in Handlers : WF_vars(Finish(h))

-----------------------------------------------------------------------------
(* Type invariant; the fields never hold a channel without its connection. *)
TypeOK ==
  /\ link \in [Links -> {"unused", "open", "closing", "closed"}]
  /\ usable \subseteq Links
  /\ consuming \subseteq usable
  /\ listening \subseteq Links
  /\ {connection, channel, local, stopConnection, stopChannel} \subseteq Links \cup {None}
  /\ connection = None => channel = None
  /\ {reconnectTimer, shuttingDown} \subseteq BOOLEAN
  /\ attempt \in {"idle", "dial", "setup", "consume", "assign"}
  /\ stop \in {"running", "cancel", "drain", "closeChannel", "closeConnection", "completed",
               "exited"}
  /\ awaited \subseteq Handlers
  /\ handling \in [Handlers -> Links \cup {None}]
  /\ served \subseteq Links /\ abandoned \subseteq Links
  /\ unheard \subseteq Links /\ cancelled \subseteq Links
  /\ faults \in 0..MaxFaults

(* Every open connection is one that connect, a field or the shutdown      *)
(* knows, except those whose setup failed half-way and those that          *)
(* connect finished during the shutdown.                                   *)
LeaksExplained ==
  Alive => \A l \in Links : link[l] = "open" =>
    l \in {local, connection, stopConnection} \cup abandoned \cup (listening \ served)

(* The shutdown hook closes nothing under a handler and returns only when  *)
(* everything the consumer had in service before it is quiet and closed;   *)
(* messages delivered while the cancel was under way included.             *)
ServedIsDrained ==
  /\ stop \in {"closeChannel", "closeConnection", "completed"} =>
       consuming \cap served = {} /\ \A h \in Handlers : handling[h] \notin served
  /\ stop = "completed" => \A l \in served : link[l] # "open"

(* The title of a test of the shutdown: it stops the consumption, and the  *)
(* connection is closed once the work in flight is done.                   *)
ShutdownStopsConsuming == stop = "completed" => consuming = {} /\ InFlight = {}

(* When faults end, the consumer ends up consuming, unless it believes in  *)
(* a link that was lost before its listeners were there, or in one on      *)
(* which the broker cancelled it: of neither does an event tell it.        *)
ConsumesInTheEnd ==
  <>[](\/ shuttingDown
       \/ channel \in consuming
       \/ connection \in unheard
       \/ channel \in cancelled)

(* SIGTERM ends the process: the drain does not wait for ever.             *)
ShutdownEnds == shuttingDown ~> stop = "exited"

(* The refinement mapping.                                                 *)
State == IF shuttingDown THEN "stopped"
         ELSE IF attempt # "idle" THEN "attempting"
         ELSE IF channel # None THEN "up" ELSE "down"

Supervisor == INSTANCE LinkSupervisor WITH state <- State

(* The consumer's connection is supervised.                                *)
ImplementsSupervisor == Supervisor!Spec

=============================================================================
