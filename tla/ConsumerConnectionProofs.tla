----------------------- MODULE ConsumerConnectionProofs -----------------------
(***************************************************************************)
(* Proofs about ConsumerConnection for any number of connections, handlers *)
(* and faults of every kind.                                               *)
(*                                                                         *)
(* ServedIsDrained needs to know, long before the shutdown closes anything,*)
(* that it has the only link in its hands that was in service and still is *)
(* open: this is what Attempting, Registered and ShuttingDown say together *)
(* with LeaksExplained.  Quiesced follows the messages of that link from    *)
(* the cancel to the last handler.  The same invariant gives the safety    *)
(* half of LinkSupervisor; what must happen in the end is left to TLC.     *)
(***************************************************************************)
EXTENDS ConsumerConnection, TLAPS

(* connect has a link of its own, and only runs while no field has one.    *)
Attempting ==
  /\ attempt \in {"setup", "consume", "assign"} => /\ local \in Links
                                                   /\ link[local] # "unused"
                                                   /\ local \notin listening \cup abandoned
  /\ attempt \in {"setup", "consume"} => local \notin consuming
  /\ attempt \in {"idle", "dial"} => local = None
  /\ attempt # "idle" => connection = None
  /\ reconnectTimer => attempt = "idle" /\ connection = None /\ ~shuttingDown

(* What is or was in a field has its listeners; what was given up has none.*)
Registered ==
  /\ {connection, stopConnection} \subseteq listening \cup {None}
  /\ served \subseteq listening
  /\ listening \cap abandoned = {}
  /\ \A l \in listening \cup abandoned : link[l] # "unused"
  /\ \A l \in usable : link[l] = "open"

(* A channel is that of its connection; while the consumer runs, one that  *)
(* is no longer in the field is closed.                                    *)
Channels ==
  /\ channel \in {None, connection}
  /\ stopChannel \in {None, stopConnection}
  /\ ~shuttingDown /\ channel = None => connection \notin usable

(* The shutdown has what was in service, if anything was; what connect     *)
(* finishes after it never is.                                             *)
ShuttingDown ==
  /\ shuttingDown <=> stop # "running"
  /\ stopConnection \in served \cup {None}
  /\ IF shuttingDown THEN connection = stopConnection \/ connection \notin served
                     ELSE connection \in served \cup {None} /\ stopConnection = None
  /\ stop = "cancel" => stopChannel # None

(* What was in service no longer delivers, is still being waited for, is   *)
(* quiet, is closed.                                                       *)
Quiesced ==
  /\ stop \notin {"running", "cancel"} => consuming \cap served = {}
  /\ stop = "drain" => \A h \in Handlers : handling[h] \in served => h \in awaited
  /\ stop \notin {"running", "cancel", "drain"} => \A h \in Handlers : handling[h] \notin served
  /\ stop = "completed" => \A l \in served : link[l] # "open"

Inv == /\ TypeOK
       /\ Attempting
       /\ Registered
       /\ Channels
       /\ ShuttingDown
       /\ Quiesced
       /\ LeaksExplained

-----------------------------------------------------------------------------
(* The only link that was in service and may be open is in the field, or,  *)
(* once the shutdown has begun, in its hands.                              *)
LEMMA ServedOpen ==
  ASSUME Inv, Alive, NEW l \in served, link[l] = "open"
  PROVE  l = IF shuttingDown THEN stopConnection ELSE connection
<1>1. l \in Links /\ l \in listening /\ l \notin abandoned
  BY DEF Inv, TypeOK, Registered
<1>2. l # local
  BY <1>1, LinkAssumption DEF Inv, TypeOK, Attempting
<1>3. l \in {connection, stopConnection}
  BY <1>1, <1>2 DEF Inv, LeaksExplained
<1> QED
  BY <1>1, <1>3, LinkAssumption DEF Inv, ShuttingDown

(* Initially no link was used.                                             *)
LEMMA InvInit == Init => Inv
<1> SUFFICES ASSUME Init PROVE Inv
  OBVIOUS
<1>1. TypeOK
  <2>1. /\ link \in [Links -> {"unused", "open", "closing", "closed"}]
        /\ handling \in [Handlers -> Links \cup {None}]
        /\ faults \in 0..MaxFaults
    BY LinkAssumption DEF Init
  <2> QED
    BY <2>1 DEF Init, TypeOK
<1>2. Attempting /\ Registered /\ Channels /\ ShuttingDown
  BY DEF Init, Attempting, Registered, Channels, ShuttingDown
<1>3. Quiesced /\ LeaksExplained
  BY DEF Init, Quiesced, LeaksExplained
<1> QED
  BY <1>1, <1>2, <1>3 DEF Inv

(* A new link is in nobody's hands but connect's.                          *)
LEMMA DialInv == Inv /\ Dial => Inv'
<1> SUFFICES ASSUME Inv, Dial PROVE Inv'
  OBVIOUS
<1>0. /\ attempt = "dial" /\ attempt' = "setup"
      /\ local' \in Links /\ link[local'] = "unused"
      /\ link' = [link EXCEPT ![local'] = "open"]
      /\ UNCHANGED <<usable, consuming, connection, channel, reconnectTimer, shuttingDown,
                     listening, stop, stopConnection, stopChannel, awaited, handling, served,
                     abandoned, unheard, cancelled, faults>>
  BY DEF Dial, fields, shutdown, history
<1>1. local' \notin listening \cup abandoned
  BY <1>0 DEF Inv, Registered
<1>2. TypeOK'
  BY <1>0 DEF Inv, TypeOK
<1>3. Attempting' /\ Registered' /\ Channels' /\ ShuttingDown'
  BY <1>0, <1>1 DEF Inv, TypeOK, Attempting, Registered, Channels, ShuttingDown
<1>4. Quiesced'
  BY <1>0, <1>1 DEF Inv, TypeOK, Registered, Quiesced
<1>5. LeaksExplained'
  BY <1>0, <1>1, LinkAssumption DEF Inv, TypeOK, Attempting, LeaksExplained, Alive
<1> QED
  BY <1>2, <1>3, <1>4, <1>5 DEF Inv

(* Its channel opens.                                                      *)
LEMMA SetUpInv == Inv /\ SetUp => Inv'
<1> SUFFICES ASSUME Inv, SetUp PROVE Inv'
  OBVIOUS
<1>0. /\ attempt = "setup" /\ attempt' = "consume"
      /\ link[local] = "open" /\ usable' = usable \cup {local}
      /\ UNCHANGED <<link, consuming, connection, channel, reconnectTimer, shuttingDown, local,
                     listening, stop, stopConnection, stopChannel, awaited, handling, served,
                     abandoned, unheard, cancelled, faults>>
  BY DEF SetUp, fields, shutdown, history
<1>1. local \in Links /\ connection = None
  BY <1>0 DEF Inv, Attempting
<1>2. TypeOK'
  BY <1>0, <1>1 DEF Inv, TypeOK
<1>3. Attempting' /\ Registered' /\ Channels' /\ ShuttingDown'
  BY <1>0, <1>1, LinkAssumption
     DEF Inv, TypeOK, Attempting, Registered, Channels, ShuttingDown
<1>4. Quiesced' /\ LeaksExplained'
  BY <1>0 DEF Inv, Quiesced, LeaksExplained, Alive
<1> QED
  BY <1>2, <1>3, <1>4 DEF Inv

(* The broker may deliver on a link that is not in service yet.            *)
LEMMA ConsumeInv == Inv /\ Consume => Inv'
<1> SUFFICES ASSUME Inv, Consume PROVE Inv'
  OBVIOUS
<1>0. /\ attempt = "consume" /\ attempt' = "assign"
      /\ local \in usable /\ consuming' = consuming \cup {local}
      /\ UNCHANGED <<link, usable, connection, channel, reconnectTimer, shuttingDown, local,
                     listening, stop, stopConnection, stopChannel, awaited, handling, served,
                     abandoned, unheard, cancelled, faults>>
  BY DEF Consume, fields, shutdown, history
<1>1. local \notin served
  BY <1>0 DEF Inv, Attempting, Registered
<1>2. TypeOK'
  BY <1>0 DEF Inv, TypeOK
<1>3. Attempting' /\ Registered' /\ Channels' /\ ShuttingDown'
  BY <1>0 DEF Inv, Attempting, Registered, Channels, ShuttingDown
<1>4. Quiesced' /\ LeaksExplained'
  BY <1>0, <1>1 DEF Inv, Quiesced, LeaksExplained, Alive
<1> QED
  BY <1>2, <1>3, <1>4 DEF Inv

(* It gets its listeners and goes into the fields, in service unless the   *)
(* shutdown has begun.                                                     *)
LEMMA AssignInv == Inv /\ Assign => Inv'
<1> SUFFICES ASSUME Inv, Assign PROVE Inv'
  OBVIOUS
<1>0. /\ attempt = "assign" /\ attempt' = "idle" /\ local' = None
      /\ listening' = listening \cup {local}
      /\ connection' = local /\ channel' = local
      /\ served' = IF shuttingDown THEN served ELSE served \cup {local}
      /\ UNCHANGED <<link, usable, consuming, reconnectTimer, shuttingDown, stop,
                     stopConnection, stopChannel, awaited, handling, abandoned, unheard, cancelled,
                     faults>>
  BY DEF Assign, broker, shutdown
<1>1. /\ local \in Links /\ local \notin listening \cup abandoned
      /\ link[local] # "unused" /\ connection = None /\ ~reconnectTimer
  BY <1>0 DEF Inv, TypeOK, Attempting
<1>2. TypeOK'
  BY <1>0, <1>1, LinkAssumption DEF Inv, TypeOK
<1>3. Attempting' /\ Registered' /\ Channels' /\ ShuttingDown'
  BY <1>0, <1>1, LinkAssumption
     DEF Inv, TypeOK, Attempting, Registered, Channels, ShuttingDown
<1>4. Quiesced'
  BY <1>0, <1>1 DEF Inv, ShuttingDown, Quiesced
<1>5. LeaksExplained'
  BY <1>0, <1>1, LinkAssumption DEF Inv, TypeOK, Registered, ShuttingDown, LeaksExplained, Alive
<1> QED
  BY <1>2, <1>3, <1>4, <1>5 DEF Inv

(* An attempt ends without success: its link is closed, there was none, or *)
(* it is abandoned.                                                        *)
LEMMA GiveUpInv ==
  ASSUME Inv, GiveUp, UNCHANGED <<link, consuming, shutdown, handling, served, unheard, cancelled>>,
         attempt \in {"dial", "setup", "consume"}, faults' \in 0..MaxFaults,
         consuming \subseteq usable',
         \/ abandoned' = abandoned /\ usable' = usable
            /\ (attempt # "dial" => link[local] = "closed")
         \/ attempt # "dial" /\ abandoned' = abandoned \cup {local} /\ usable' = usable \ {local}
  PROVE  Inv'
<1>0. /\ attempt' = "idle" /\ local' = None
      /\ reconnectTimer' = (reconnectTimer \/ ~shuttingDown)
      /\ UNCHANGED <<link, consuming, connection, channel, shuttingDown, listening, stop,
                     stopConnection, stopChannel, awaited, handling, served, unheard, cancelled>>
      /\ connection = None
  BY DEF GiveUp, shutdown, Inv, Attempting
<1>1. TypeOK'
  BY <1>0 DEF Inv, TypeOK, Attempting
<1>2. Attempting' /\ Registered' /\ Channels' /\ ShuttingDown'
  BY <1>0, LinkAssumption DEF Inv, TypeOK, Attempting, Registered, Channels, ShuttingDown
<1>3. Quiesced'
  BY <1>0 DEF Inv, Quiesced
<1>4. LeaksExplained'
  BY <1>0, LinkAssumption DEF Inv, TypeOK, Attempting, LeaksExplained, Alive
<1> QED
  BY <1>1, <1>2, <1>3, <1>4 DEF Inv

(* amqp.connect rejects.                                                   *)
LEMMA DialFailsInv == Inv /\ DialFails => Inv'
BY GiveUpInv, LinkAssumption DEF DialFails, Fault, broker, history, Inv, TypeOK

(* A call on the new connection rejects.                                   *)
LEMMA SetUpFailsInv == Inv /\ SetUpFails => Inv'
<1> SUFFICES ASSUME Inv, SetUpFails PROVE Inv'
  OBVIOUS
<1>1. /\ GiveUp /\ attempt \in {"setup", "consume"}
      /\ UNCHANGED <<link, consuming, shutdown, handling, served, unheard, cancelled>>
      /\ faults' \in 0..MaxFaults
      /\ \/ abandoned' = abandoned /\ usable' = usable /\ link[local] = "closed"
         \/ abandoned' = abandoned \cup {local} /\ usable' = usable \ {local}
  BY LinkAssumption DEF SetUpFails, Fault, Inv, TypeOK
<1>2. consuming \subseteq usable'
  BY <1>1 DEF Inv, TypeOK, Attempting
<1> QED
  BY <1>1, <1>2, GiveUpInv

(* The timer fires.                                                        *)
LEMMA ReconnectInv == Inv /\ Reconnect => Inv'
<1> SUFFICES ASSUME Inv, Reconnect PROVE Inv'
  OBVIOUS
<1>0. /\ reconnectTimer /\ reconnectTimer' = FALSE
      /\ attempt' = attempt \/ (attempt = "idle" /\ channel = None /\ attempt' = "dial")
      /\ UNCHANGED <<link, usable, consuming, connection, channel, shuttingDown, local, listening,
                     stop, stopConnection, stopChannel, awaited, handling, served, abandoned,
                     unheard, cancelled, faults>>
  BY DEF Reconnect, broker, shutdown, history
<1>1. TypeOK'
  BY <1>0 DEF Inv, TypeOK
<1>2. Attempting' /\ Registered' /\ Channels' /\ ShuttingDown'
  BY <1>0 DEF Inv, Attempting, Registered, Channels, ShuttingDown
<1>3. Quiesced' /\ LeaksExplained'
  BY <1>0 DEF Inv, Quiesced, LeaksExplained, Alive
<1> QED
  BY <1>1, <1>2, <1>3 DEF Inv

(* A link closes.  If it is the one in the field, the field is cleared.    *)
LEMMA ClosedInv ==
  ASSUME Inv, NEW l \in Links, link[l] # "unused", Closed(l),
         UNCHANGED <<connecting, shutdown, handling, served, abandoned, cancelled>>,
         unheard' \subseteq Links, faults' \in 0..MaxFaults
  PROVE  Inv'
<1>0. /\ link' = [link EXCEPT ![l] = "closed"]
      /\ usable' = usable \ {l} /\ consuming' = consuming \ {l}
      /\ UNCHANGED <<shuttingDown, attempt, local, listening, stop, stopConnection, stopChannel,
                     awaited, handling, served, abandoned, cancelled>>
  BY DEF Closed, connecting, shutdown
<1>1. \/ /\ l \in listening /\ connection = l
         /\ connection' = None /\ channel' = None
         /\ reconnectTimer' = (reconnectTimer \/ ~shuttingDown)
      \/ ~(l \in listening /\ connection = l)
         /\ UNCHANGED <<connection, channel, reconnectTimer>>
  BY DEF Closed
<1>2. TypeOK'
  BY <1>0, <1>1 DEF Inv, TypeOK
<1>3. Attempting'
  BY <1>0, <1>1, LinkAssumption DEF Inv, TypeOK, Attempting
<1>4. Registered' /\ Channels' /\ ShuttingDown'
  BY <1>0, <1>1, LinkAssumption
     DEF Inv, TypeOK, Attempting, Registered, Channels, ShuttingDown
<1>5. Quiesced'
  BY <1>0 DEF Inv, TypeOK, Quiesced
<1>6. LeaksExplained'
  BY <1>0, <1>1, LinkAssumption DEF Inv, TypeOK, LeaksExplained, Alive
<1> QED
  BY <1>2, <1>3, <1>4, <1>5, <1>6 DEF Inv

(* A connection is lost, in service or not.                                *)
LEMMA ConnectionLostInv ==
  ASSUME Inv, NEW l \in Links, ConnectionLost(l)
  PROVE  Inv'
<1>1. /\ link[l] # "unused" /\ Closed(l)
      /\ UNCHANGED <<connecting, shutdown, handling, served, abandoned, cancelled>>
      /\ unheard' \subseteq Links /\ faults' \in 0..MaxFaults
  BY LinkAssumption DEF ConnectionLost, Fault, Inv, TypeOK
<1> QED
  BY <1>1, ClosedInv

(* A close handshake ends.                                                 *)
LEMMA CloseConfirmedInv ==
  ASSUME Inv, NEW l \in Links, CloseConfirmed(l)
  PROVE  Inv'
<1>1. /\ link[l] # "unused" /\ Closed(l)
      /\ UNCHANGED <<connecting, shutdown, handling, served, abandoned, cancelled>>
      /\ unheard' \subseteq Links /\ faults' \in 0..MaxFaults
  BY DEF CloseConfirmed, history, Inv, TypeOK
<1> QED
  BY <1>1, ClosedInv

(* A channel is lost; its connection follows while the consumer runs.      *)
LEMMA ChannelLostInv ==
  ASSUME Inv, NEW l \in Links, ChannelLost(l)
  PROVE  Inv'
<1>0. /\ l \in usable /\ link[l] = "open"
      /\ usable' = usable \ {l} /\ consuming' = consuming \ {l}
      /\ unheard' \subseteq Links /\ faults' \in 0..MaxFaults
      /\ UNCHANGED <<connection, reconnectTimer, shuttingDown, attempt, local, listening, stop,
                     stopConnection, stopChannel, awaited, handling, served, abandoned, cancelled>>
      /\ channel' = channel \/ (channel = l /\ channel' = None)
      /\ link' = link \/ (connection = l /\ link' = [link EXCEPT ![l] = "closing"])
  BY LinkAssumption DEF ChannelLost, Fault, connecting, shutdown, Inv, TypeOK, Registered
<1>1. TypeOK'
  BY <1>0 DEF Inv, TypeOK
<1>2. Attempting'
  BY <1>0 DEF Inv, TypeOK, Attempting
<1>3. Registered' /\ Channels' /\ ShuttingDown'
  BY <1>0 DEF Inv, TypeOK, Registered, Channels, ShuttingDown
<1>4. Quiesced'
  BY <1>0 DEF Inv, TypeOK, Quiesced
<1>5. LeaksExplained'
  BY <1>0 DEF Inv, TypeOK, LeaksExplained, Alive
<1> QED
  BY <1>1, <1>2, <1>3, <1>4, <1>5 DEF Inv

-----------------------------------------------------------------------------
(* The broker stops delivering on a link.                                  *)
LEMMA ConsumerCancelledInv ==
  ASSUME Inv, NEW l \in Links, ConsumerCancelled(l)
  PROVE  Inv'
<1>0. /\ consuming' = consuming \ {l} /\ cancelled' = cancelled \cup {l}
      /\ faults' \in 0..MaxFaults
      /\ UNCHANGED <<link, usable, connection, channel, reconnectTimer, shuttingDown, attempt,
                     local, listening, stop, stopConnection, stopChannel, awaited, handling,
                     served, abandoned, unheard>>
  BY LinkAssumption
     DEF ConsumerCancelled, Fault, fields, connecting, shutdown, Inv, TypeOK
<1>1. TypeOK'
  BY <1>0 DEF Inv, TypeOK
<1>2. Attempting' /\ Registered' /\ Channels' /\ ShuttingDown'
  BY <1>0 DEF Inv, Attempting, Registered, Channels, ShuttingDown
<1>3. Quiesced' /\ LeaksExplained'
  BY <1>0 DEF Inv, Quiesced, LeaksExplained, Alive
<1> QED
  BY <1>1, <1>2, <1>3 DEF Inv

(* A message of a link that no longer counts as served does not matter.    *)
LEMMA DeliverInv ==
  ASSUME Inv, NEW l \in Links, NEW h \in Handlers, Deliver(l, h)
  PROVE  Inv'
<1>0. /\ l \in consuming /\ handling' = [handling EXCEPT ![h] = l]
      /\ UNCHANGED <<link, usable, consuming, connection, channel, reconnectTimer, shuttingDown,
                     attempt, local, listening, stop, stopConnection, stopChannel, awaited,
                     served, abandoned, unheard, cancelled, faults>>
  BY DEF Deliver, broker, fields, connecting, shutdown, history
<1>1. TypeOK'
  BY <1>0 DEF Inv, TypeOK
<1>2. Attempting' /\ Registered' /\ Channels' /\ ShuttingDown'
  BY <1>0 DEF Inv, Attempting, Registered, Channels, ShuttingDown
<1>3. Quiesced' /\ LeaksExplained'
  BY <1>0 DEF Inv, TypeOK, Quiesced, LeaksExplained, Alive
<1> QED
  BY <1>1, <1>2, <1>3 DEF Inv

(* A handler that is done is no longer waited for.                         *)
LEMMA FinishInv ==
  ASSUME Inv, NEW h \in Handlers, Finish(h)
  PROVE  Inv'
<1>0. /\ handling' = [handling EXCEPT ![h] = None] /\ awaited' = awaited \ {h}
      /\ UNCHANGED <<link, usable, consuming, connection, channel, reconnectTimer, shuttingDown,
                     attempt, local, listening, stop, stopConnection, stopChannel,
                     served, abandoned, unheard, cancelled, faults>>
  BY DEF Finish, broker, fields, connecting, history
<1>1. TypeOK'
  BY <1>0 DEF Inv, TypeOK
<1>2. Attempting' /\ Registered' /\ Channels' /\ ShuttingDown'
  BY <1>0 DEF Inv, Attempting, Registered, Channels, ShuttingDown
<1>3. Quiesced' /\ LeaksExplained'
  BY <1>0, LinkAssumption DEF Inv, TypeOK, Quiesced, LeaksExplained, Alive
<1> QED
  BY <1>1, <1>2, <1>3 DEF Inv

(* The drain waits for the handlers of what was in service.                *)
LEMMA DrainStarts ==
  ASSUME Inv, Drain
  PROVE  /\ stop' \in {"drain", "closeChannel"} /\ awaited' \subseteq Handlers
         /\ stop' = "drain" => \A h \in Handlers : handling[h] \in served => h \in awaited'
         /\ stop' = "closeChannel" => \A h \in Handlers : handling[h] \notin served
         /\ UNCHANGED <<connection, channel>> \/ (connection' = None /\ channel' = None)
<1>1. awaited' = InFlight
  BY DEF Drain
<1>2. \A h \in Handlers : handling[h] \in served => h \in InFlight
  BY LinkAssumption DEF InFlight, Inv, TypeOK
<1> QED
  BY <1>1, <1>2 DEF Drain, Drained, InFlight

(* The shutdown takes over what is in the fields.                          *)
LEMMA ShutDownInv == Inv /\ ShutDown => Inv'
<1> SUFFICES ASSUME Inv, ShutDown PROVE Inv'
  OBVIOUS
<1>0. /\ stop = "running" /\ shuttingDown' = TRUE /\ reconnectTimer' = FALSE
      /\ stopConnection' = connection /\ stopChannel' = channel
      /\ UNCHANGED <<link, usable, consuming, attempt, local, listening, handling, served,
                     abandoned, unheard, cancelled, faults>>
      /\ ~shuttingDown /\ Alive
      /\ connection \in served \cup {None}
  BY DEF ShutDown, broker, connecting, history, Inv, ShuttingDown, Alive
<1>1. /\ UNCHANGED <<connection, channel>> \/ (connection' = None /\ channel' = None)
      /\ stop' \in {"cancel", "drain", "closeChannel"}
      /\ awaited' \subseteq Handlers
      /\ stop' = "cancel" => channel # None
      /\ stop' # "cancel" => channel = None
      /\ stop' = "drain" => \A h \in Handlers : handling[h] \in served => h \in awaited'
      /\ stop' = "closeChannel" => \A h \in Handlers : handling[h] \notin served
  BY DrainStarts DEF ShutDown, Inv, TypeOK
<1>2. TypeOK'
  BY <1>0, <1>1 DEF Inv, TypeOK
<1>3. Attempting'
  BY <1>0, <1>1 DEF Inv, Attempting
<1>4. Registered'
  BY <1>0, <1>1 DEF Inv, Registered
<1>5. Channels' /\ ShuttingDown'
  BY <1>0, <1>1, LinkAssumption DEF Inv, TypeOK, Channels, ShuttingDown
<1>6. Quiesced'
  <2>1. channel = None => consuming \cap served = {}
    <3> SUFFICES ASSUME channel = None, NEW l \in consuming \cap served PROVE FALSE
      OBVIOUS
    <3>1. l \in usable /\ link[l] = "open"
      BY DEF Inv, TypeOK, Registered
    <3>2. l = connection
      BY <1>0, <3>1, ServedOpen
    <3> QED
      BY <1>0, <3>1, <3>2 DEF Inv, Channels
  <2> QED
    BY <1>0, <1>1, <2>1 DEF Quiesced
<1>7. LeaksExplained'
  BY <1>0, <1>1, LinkAssumption DEF Inv, TypeOK, ShuttingDown, LeaksExplained, Alive
<1> QED
  BY <1>2, <1>3, <1>4, <1>5, <1>6, <1>7 DEF Inv

(* The consumption is cancelled where it was served.                       *)
LEMMA CancelInv == Inv /\ Cancel => Inv'
<1> SUFFICES ASSUME Inv, Cancel PROVE Inv'
  OBVIOUS
<1>0. /\ stop = "cancel" /\ consuming' = consuming \ {stopChannel}
      /\ UNCHANGED <<link, usable, reconnectTimer, shuttingDown, attempt, local, listening,
                     stopConnection, stopChannel, handling, served, abandoned, unheard, cancelled,
                     faults>>
      /\ shuttingDown /\ Alive /\ stopChannel = stopConnection
  BY DEF Cancel, connecting, history, Inv, ShuttingDown, Channels, Alive
<1>1. /\ UNCHANGED <<connection, channel>> \/ (connection' = None /\ channel' = None)
      /\ stop' \in {"drain", "closeChannel"}
      /\ awaited' \subseteq Handlers
      /\ stop' = "drain" => \A h \in Handlers : handling[h] \in served => h \in awaited'
      /\ stop' = "closeChannel" => \A h \in Handlers : handling[h] \notin served
  BY DrainStarts DEF Cancel
<1>2. TypeOK'
  BY <1>0, <1>1 DEF Inv, TypeOK
<1>3. Attempting' /\ Registered'
  BY <1>0, <1>1 DEF Inv, Attempting, Registered
<1>4. Channels' /\ ShuttingDown'
  BY <1>0, <1>1, LinkAssumption DEF Inv, TypeOK, Channels, ShuttingDown
<1>5. Quiesced'
  <2>1. consuming' \cap served = {}
    <3> SUFFICES ASSUME NEW l \in consuming \cap served, l # stopChannel PROVE FALSE
      BY <1>0
    <3>1. link[l] = "open"
      BY DEF Inv, TypeOK, Registered
    <3> QED
      BY <1>0, <3>1, ServedOpen
  <2> QED
    BY <1>0, <1>1, <2>1 DEF Quiesced
<1>6. LeaksExplained'
  BY <1>0, <1>1, LinkAssumption DEF Inv, TypeOK, Registered, ShuttingDown, LeaksExplained, Alive
<1> QED
  BY <1>2, <1>3, <1>4, <1>5, <1>6 DEF Inv

(* Nothing is waited for any more.                                         *)
LEMMA AllSettledInv == Inv /\ AllSettled => Inv'
<1> SUFFICES ASSUME Inv, AllSettled PROVE Inv'
  OBVIOUS
<1>0. /\ stop = "drain" /\ stop' = "closeChannel" /\ awaited = {}
      /\ connection' = None /\ channel' = None
      /\ UNCHANGED <<link, usable, consuming, reconnectTimer, shuttingDown, attempt, local,
                     listening, stopConnection, stopChannel, awaited, handling, served, abandoned,
                     unheard, cancelled, faults>>
  BY DEF AllSettled, Drained, broker, connecting, history
<1>1. TypeOK'
  BY <1>0 DEF Inv, TypeOK
<1>2. Attempting' /\ Registered'
  BY <1>0 DEF Inv, Attempting, Registered
<1>3. Channels' /\ ShuttingDown'
  BY <1>0, LinkAssumption DEF Inv, TypeOK, Channels, ShuttingDown
<1>4. Quiesced'
  BY <1>0 DEF Inv, Quiesced
<1>5. LeaksExplained'
  BY <1>0, LinkAssumption DEF Inv, TypeOK, Registered, ShuttingDown, LeaksExplained, Alive
<1> QED
  BY <1>1, <1>2, <1>3, <1>4, <1>5 DEF Inv

(* The channel is closed.                                                  *)
LEMMA CloseChannelInv == Inv /\ CloseChannel => Inv'
<1> SUFFICES ASSUME Inv, CloseChannel PROVE Inv'
  OBVIOUS
<1>0. /\ stop = "closeChannel" /\ stop' = "closeConnection"
      /\ usable' = usable \ {stopChannel} /\ consuming' = consuming \ {stopChannel}
      /\ UNCHANGED <<link, connection, channel, reconnectTimer, shuttingDown, attempt, local,
                     listening, stopConnection, stopChannel, awaited, handling, served, abandoned,
                     unheard, cancelled, faults>>
  BY DEF CloseChannel, fields, connecting, history
<1>1. TypeOK'
  BY <1>0 DEF Inv, TypeOK
<1>2. Attempting' /\ Registered' /\ Channels' /\ ShuttingDown'
  BY <1>0 DEF Inv, Attempting, Registered, Channels, ShuttingDown
<1>3. Quiesced' /\ LeaksExplained'
  BY <1>0 DEF Inv, Quiesced, LeaksExplained, Alive
<1> QED
  BY <1>1, <1>2, <1>3 DEF Inv

(* The connection is closed, the only one in service that may be open.     *)
LEMMA CloseConnectionInv == Inv /\ CloseConnection => Inv'
<1> SUFFICES ASSUME Inv, CloseConnection PROVE Inv'
  OBVIOUS
<1>0. /\ stop = "closeConnection" /\ stop' = "completed"
      /\ link' = [l \in Links |-> IF l = stopConnection /\ link[l] = "open" THEN "closed"
                                                                             ELSE link[l]]
      /\ usable' = usable \ {stopConnection} /\ consuming' = consuming \ {stopConnection}
      /\ UNCHANGED <<connection, channel, reconnectTimer, shuttingDown, attempt, local,
                     listening, stopConnection, stopChannel, awaited, handling, served, abandoned,
                     unheard, cancelled, faults>>
      /\ shuttingDown /\ Alive
  BY DEF CloseConnection, fields, connecting, history, Inv, ShuttingDown, Alive
<1>1. TypeOK'
  BY <1>0 DEF Inv, TypeOK
<1>2. Attempting' /\ Registered' /\ Channels' /\ ShuttingDown'
  BY <1>0 DEF Inv, TypeOK, Attempting, Registered, Channels, ShuttingDown
<1>3. Quiesced'
  <2>1. ASSUME NEW l \in served PROVE link'[l] # "open"
    <3>1. l \in Links
      BY DEF Inv, TypeOK
    <3>2. link[l] = "open" => l = stopConnection
      BY <1>0, ServedOpen
    <3> QED
      BY <1>0, <3>1, <3>2
  <2> QED
    BY <1>0, <2>1 DEF Inv, Quiesced
<1>4. LeaksExplained'
  BY <1>0 DEF Inv, LeaksExplained, Alive
<1> QED
  BY <1>1, <1>2, <1>3, <1>4 DEF Inv

(* With the process everything it had is gone.                             *)
LEMMA ExitInv == Inv /\ Exit => Inv'
<1> SUFFICES ASSUME Inv, Exit PROVE Inv'
  OBVIOUS
<1>0. /\ stop = "completed" /\ stop' = "exited"
      /\ link' = [l \in Links |-> "closed"] /\ usable' = {} /\ consuming' = {}
      /\ connection' = None /\ channel' = None /\ reconnectTimer' = FALSE
      /\ attempt' = "idle" /\ local' = None
      /\ handling' = [h \in Handlers |-> None]
      /\ UNCHANGED <<listening, shuttingDown, stopConnection, stopChannel, awaited, served,
                     abandoned, unheard, cancelled, faults>>
  BY DEF Exit, history
<1>1. TypeOK'
  BY <1>0 DEF Inv, TypeOK
<1>2. Attempting' /\ Registered' /\ Channels' /\ ShuttingDown'
  BY <1>0, LinkAssumption DEF Inv, TypeOK, Attempting, Registered, Channels, ShuttingDown
<1>3. Quiesced' /\ LeaksExplained'
  BY <1>0, LinkAssumption DEF Inv, TypeOK, Quiesced, LeaksExplained, Alive
<1> QED
  BY <1>1, <1>2, <1>3 DEF Inv

(* Every step of the specification keeps the invariant.                    *)
LEMMA InvNext == Inv /\ [Next]_vars => Inv'
<1> SUFFICES ASSUME Inv, [Next]_vars PROVE Inv'
  OBVIOUS
<1>1. CASE Connect
  BY <1>1, DialInv, SetUpInv, ConsumeInv, AssignInv, SetUpFailsInv, ReconnectInv DEF Connect
<1>2. CASE DialFails
  BY <1>2, DialFailsInv
<1>3. CASE \E l \in Links : \/ ConnectionLost(l) \/ ChannelLost(l) \/ CloseConfirmed(l)
                             \/ ConsumerCancelled(l)
  BY <1>3, ConnectionLostInv, ChannelLostInv, CloseConfirmedInv, ConsumerCancelledInv
<1>4. CASE \E h \in Handlers : Finish(h) \/ \E l \in Links : Deliver(l, h)
  BY <1>4, DeliverInv, FinishInv
<1>5. CASE ShutDown \/ Stopping
  BY <1>5, ShutDownInv, CancelInv, AllSettledInv, CloseChannelInv, CloseConnectionInv, ExitInv
     DEF Stopping
<1>6. CASE UNCHANGED vars
  <2>0. UNCHANGED <<link, usable, consuming, connection, channel, reconnectTimer, shuttingDown,
                    attempt, local, listening, stop, stopConnection, stopChannel, awaited,
                    handling, served, abandoned, unheard, cancelled, faults>>
    BY <1>6 DEF vars, broker, fields, connecting, shutdown, history
  <2>1. TypeOK' /\ Attempting' /\ Registered' /\ Channels' /\ ShuttingDown'
    BY <2>0 DEF Inv, TypeOK, Attempting, Registered, Channels, ShuttingDown
  <2>2. Quiesced' /\ LeaksExplained'
    BY <2>0 DEF Inv, Quiesced, LeaksExplained, Alive
  <2> QED
    BY <2>1, <2>2 DEF Inv
<1> QED
  BY <1>1, <1>2, <1>3, <1>4, <1>5, <1>6 DEF Next

(* The inductive invariant holds in every reachable state.                 *)
THEOREM Invariance == Spec => []Inv
BY InvInit, InvNext, PTL DEF Spec

(* The fields and locals of the consumer have their types; it never has a  *)
(* channel without its connection.                                         *)
THEOREM TypeCorrect == Spec => []TypeOK
<1>1. Inv => TypeOK
  BY DEF Inv
<1> QED
  BY <1>1, Invariance, PTL

(* No open connection is lost track of, apart from the two kinds named in  *)
(* the invariant.                                                          *)
THEOREM NoOtherLeaks == Spec => []LeaksExplained
<1>1. Inv => LeaksExplained
  BY DEF Inv
<1> QED
  BY <1>1, Invariance, PTL

(* The shutdown drains what was in service: it closes nothing under a      *)
(* handler, leaves no subscription behind and no connection open.          *)
THEOREM ShutdownDrains == Spec => []ServedIsDrained
<1>1. Inv => ServedIsDrained
  BY DEF Inv, Quiesced, ServedIsDrained
<1> QED
  BY <1>1, Invariance, PTL

-----------------------------------------------------------------------------
(* What a step changes of the abstract link is one of its steps.           *)
LEMMA StepsSupervised == Inv /\ [Next]_vars => [Supervisor!Next]_State
<1> SUFFICES ASSUME Inv, [Next]_vars PROVE [Supervisor!Next]_State
  OBVIOUS
<1> USE DEF State, Supervisor!Next, Supervisor!Connected, Supervisor!Failed, Supervisor!Lost,
            Supervisor!Retry, Supervisor!Stop
<1>0. /\ attempt # "idle" => channel = None
      /\ attempt = "assign" => local # None
      /\ attempt \in {"idle", "dial", "setup", "consume", "assign"}
      /\ shuttingDown \in BOOLEAN
      /\ shuttingDown <=> stop # "running"
  BY LinkAssumption DEF Inv, TypeOK, Attempting, Channels, ShuttingDown
<1>1. CASE Dial \/ SetUp \/ Consume
  BY <1>0, <1>1 DEF Dial, SetUp, Consume, fields
<1>2. CASE Assign
  BY <1>0, <1>2 DEF Assign
<1>3. CASE DialFails \/ SetUpFails
  BY <1>0, <1>3 DEF DialFails, SetUpFails, GiveUp
<1>4. CASE Reconnect
  BY <1>0, <1>4 DEF Reconnect
<1>5. ASSUME NEW l \in Links, ConnectionLost(l) \/ CloseConfirmed(l)
      PROVE  [Supervisor!Next]_State
  BY <1>0, <1>5 DEF ConnectionLost, CloseConfirmed, Closed, connecting
<1>6. ASSUME NEW l \in Links, ChannelLost(l) PROVE [Supervisor!Next]_State
  BY <1>0, <1>6 DEF ChannelLost, connecting
<1>7. CASE ShutDown
  BY <1>0, <1>7 DEF ShutDown
<1>8. CASE Stopping
  BY <1>0, <1>8
     DEF Stopping, Cancel, AllSettled, CloseChannel, CloseConnection, Exit, fields, connecting
<1>9. CASE \/ \E l \in Links : ConsumerCancelled(l)
           \/ \E h \in Handlers : Finish(h) \/ \E l \in Links : Deliver(l, h)
  BY <1>9 DEF Finish, Deliver, ConsumerCancelled, fields, connecting
<1>10. CASE UNCHANGED vars
  BY <1>10 DEF vars, fields, connecting
<1> QED
  BY <1>1, <1>2, <1>3, <1>4, <1>5, <1>6, <1>7, <1>8, <1>9, <1>10 DEF Next, Connect

(* The safety half of the refinement: the consumer's link comes up only by *)
(* an attempt, a lost or failed one is down until the next attempt, and    *)
(* the shutdown is final.                                                  *)
THEOREM SupervisedSafely == Spec => Supervisor!Safety
<1>1. Init => Supervisor!Init
  BY DEF Init, State, Supervisor!Init
<1> QED
  BY <1>1, StepsSupervised, Invariance, PTL DEF Spec, Supervisor!Safety

=============================================================================
