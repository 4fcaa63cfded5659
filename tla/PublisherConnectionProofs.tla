---------------------- MODULE PublisherConnectionProofs ----------------------
(***************************************************************************)
(* Proofs about PublisherConnection for any number of connections and of   *)
(* faults of every kind.                                                   *)
(*                                                                         *)
(* The three invariants depend on each other and on what connect, the      *)
(* fields and the shutdown may say of a link (Attempting, Registered,      *)
(* ShuttingDown): a link is in at most one of their hands, and one that    *)
(* has its listener is never handed to connect again.  The same invariant  *)
(* gives the safety half of LinkSupervisor; that attempts end and failures *)
(* are retried is liveness, and left to TLC.                               *)
(***************************************************************************)
EXTENDS PublisherConnection, TLAPS

(* connect has a link of its own, and only runs while no field has one.    *)
Attempting ==
  /\ attempt \in {"setup", "assign"} => /\ local \in Links
                                        /\ link[local] # "unused"
                                        /\ local \notin listening \cup abandoned
  /\ attempt \in {"idle", "dial"} => local = None
  /\ attempt # "idle" => channel = None
  /\ attempt = "assign" => local \in usable \cup unnoticed

(* What is or was in a field has its listener; what was given up has none. *)
Registered ==
  /\ {connection, stopConnection} \subseteq listening \cup {None}
  /\ served \subseteq listening
  /\ listening \cap abandoned = {}
  /\ \A l \in listening \cup abandoned : link[l] # "unused"

(* What the shutdown closes was in service, what connect finishes after it *)
(* never is.                                                               *)
ShuttingDown ==
  /\ shuttingDown <=> stop # "running"
  /\ stopConnection = stopChannel
  /\ ~shuttingDown => stopConnection = None
  /\ stopConnection \in served \cup {None}
  /\ IF shuttingDown THEN connection \notin served ELSE connection \in served \cup {None}

Inv == /\ TypeOK
       /\ Attempting
       /\ Registered
       /\ ShuttingDown
       /\ CloseEventsAreOwn
       /\ HealthIsTruthful
       /\ LeaksExplained

-----------------------------------------------------------------------------
(* Initially no link was used.                                             *)
LEMMA InvInit == Init => Inv
<1> SUFFICES ASSUME Init PROVE Inv
  OBVIOUS
<1>1. TypeOK
  <2>1. link \in [Links -> {"unused", "open", "closed"}] /\ faults \in 0..MaxFaults
    BY PublisherLinkAssumption DEF Init
  <2> QED
    BY <2>1 DEF Init, TypeOK
<1>2. Attempting /\ Registered /\ ShuttingDown
  BY DEF Init, Attempting, Registered, ShuttingDown
<1>3. CloseEventsAreOwn /\ HealthIsTruthful /\ LeaksExplained
  BY DEF Init, CloseEventsAreOwn, HealthIsTruthful, IsAvailable, LeaksExplained
<1> QED
  BY <1>1, <1>2, <1>3 DEF Inv

(* A new link is in nobody's hands but connect's.                          *)
LEMMA DialInv == Inv /\ Dial => Inv'
<1> SUFFICES ASSUME Inv, Dial PROVE Inv'
  OBVIOUS
<1>0. /\ attempt = "dial" /\ attempt' = "setup"
      /\ local' \in Links /\ link[local'] = "unused"
      /\ link' = [link EXCEPT ![local'] = "open"]
      /\ UNCHANGED <<usable, listening, connection, channel, reconnectTimer, shuttingDown, stop,
                     stopConnection, stopChannel, served, abandoned, unnoticed, faults>>
  BY DEF Dial, fields, flags, shutdown, history
<1>1. local' \notin listening \cup abandoned
  BY <1>0 DEF Inv, Registered
<1>2. TypeOK'
  BY <1>0 DEF Inv, TypeOK
<1>3. Attempting' /\ Registered' /\ ShuttingDown'
  BY <1>0, <1>1 DEF Inv, TypeOK, Attempting, Registered, ShuttingDown
<1>4. CloseEventsAreOwn' /\ HealthIsTruthful'
  BY <1>0, <1>1
     DEF Inv, TypeOK, Attempting, CloseEventsAreOwn, HealthIsTruthful, IsAvailable
<1>5. LeaksExplained'
  BY <1>0, <1>1, PublisherLinkAssumption DEF Inv, TypeOK, Attempting, Registered, LeaksExplained
<1> QED
  BY <1>2, <1>3, <1>4, <1>5 DEF Inv

(* Its channel opens.                                                      *)
LEMMA SetUpInv == Inv /\ SetUp => Inv'
<1> SUFFICES ASSUME Inv, SetUp PROVE Inv'
  OBVIOUS
<1>0. /\ attempt = "setup" /\ attempt' = "assign"
      /\ link[local] = "open" /\ usable' = usable \cup {local}
      /\ UNCHANGED <<link, listening, connection, channel, reconnectTimer, shuttingDown, local,
                     stop, stopConnection, stopChannel, served, abandoned, unnoticed, faults>>
  BY DEF SetUp, fields, flags, shutdown, history
<1>1. TypeOK'
  BY <1>0 DEF Inv, TypeOK, Attempting
<1>2. Attempting' /\ Registered' /\ ShuttingDown'
  BY <1>0 DEF Inv, TypeOK, Attempting, Registered, ShuttingDown
<1>3. CloseEventsAreOwn' /\ HealthIsTruthful' /\ LeaksExplained'
  BY <1>0 DEF Inv, CloseEventsAreOwn, HealthIsTruthful, IsAvailable, LeaksExplained
<1> QED
  BY <1>1, <1>2, <1>3 DEF Inv

(* It gets its listener and goes into the fields, in service unless the    *)
(* shutdown has begun.                                                     *)
LEMMA AssignInv == Inv /\ Assign => Inv'
<1> SUFFICES ASSUME Inv, Assign PROVE Inv'
  OBVIOUS
<1>0. /\ attempt = "assign" /\ attempt' = "idle" /\ local' = None
      /\ listening' = listening \cup {local}
      /\ connection' = local /\ channel' = local
      /\ served' = IF shuttingDown THEN served ELSE served \cup {local}
      /\ UNCHANGED <<link, usable, reconnectTimer, shuttingDown, stop, stopConnection,
                     stopChannel, abandoned, unnoticed, faults>>
  BY DEF Assign, broker, flags, shutdown
<1>1. /\ local \in Links /\ local \notin listening \cup abandoned
      /\ link[local] # "unused" /\ connection = None
      /\ local \in usable \cup unnoticed
  BY <1>0 DEF Inv, TypeOK, Attempting
<1>2. TypeOK'
  BY <1>0, <1>1 DEF Inv, TypeOK
<1>3. Attempting' /\ Registered' /\ ShuttingDown'
  BY <1>0, <1>1, PublisherLinkAssumption DEF Inv, TypeOK, Attempting, Registered, ShuttingDown
<1>4. CloseEventsAreOwn' /\ HealthIsTruthful'
  BY <1>0, <1>1, PublisherLinkAssumption
     DEF Inv, TypeOK, Registered, CloseEventsAreOwn, HealthIsTruthful, IsAvailable
<1>5. LeaksExplained'
  BY <1>0, <1>1, PublisherLinkAssumption
     DEF Inv, TypeOK, Registered, ShuttingDown, LeaksExplained
<1> QED
  BY <1>2, <1>3, <1>4, <1>5 DEF Inv

(* An attempt ends without success: its link is closed, there was none, or *)
(* it is abandoned.                                                        *)
LEMMA GiveUpInv ==
  ASSUME Inv, GiveUp, UNCHANGED <<broker, shutdown, served, unnoticed>>,
         attempt \in {"dial", "setup"}, faults' \in 0..MaxFaults,
         \/ abandoned' = abandoned
            /\ (attempt = "setup" => link[local] = "closed")
         \/ attempt = "setup" /\ abandoned' = abandoned \cup {local}
  PROVE  Inv'
<1>0. /\ attempt' = "idle" /\ local' = None
      /\ reconnectTimer' = (reconnectTimer \/ ~shuttingDown)
      /\ UNCHANGED <<link, usable, listening, connection, channel, shuttingDown, stop,
                     stopConnection, stopChannel, served, unnoticed>>
  BY DEF GiveUp, ScheduleReconnect, broker, fields, shutdown
<1>1. TypeOK'
  BY <1>0 DEF Inv, TypeOK, Attempting
<1>2. Attempting' /\ Registered' /\ ShuttingDown'
  BY <1>0 DEF Inv, TypeOK, Attempting, Registered, ShuttingDown
<1>3. CloseEventsAreOwn' /\ HealthIsTruthful'
  BY <1>0 DEF Inv, TypeOK, Attempting, Registered, CloseEventsAreOwn, HealthIsTruthful, IsAvailable
<1>4. LeaksExplained'
  BY <1>0, PublisherLinkAssumption DEF Inv, TypeOK, Attempting, LeaksExplained
<1> QED
  BY <1>1, <1>2, <1>3, <1>4 DEF Inv

(* amqp.connect rejects.                                                   *)
LEMMA DialFailsInv == Inv /\ DialFails => Inv'
BY GiveUpInv, PublisherLinkAssumption DEF DialFails, Fault, Inv, TypeOK

(* A call on the new connection rejects.                                   *)
LEMMA SetUpFailsInv == Inv /\ SetUpFails => Inv'
BY GiveUpInv, PublisherLinkAssumption DEF SetUpFails, Fault, Inv, TypeOK

(* The timer fires.                                                        *)
LEMMA ReconnectInv == Inv /\ Reconnect => Inv'
<1> SUFFICES ASSUME Inv, Reconnect PROVE Inv'
  OBVIOUS
<1>0. /\ reconnectTimer' = FALSE
      /\ attempt' = attempt \/ (attempt = "idle" /\ channel = None /\ attempt' = "dial")
      /\ UNCHANGED <<link, usable, listening, connection, channel, shuttingDown, local, stop,
                     stopConnection, stopChannel, served, abandoned, unnoticed, faults>>
  BY DEF Reconnect, broker, fields, shutdown, history
<1>1. TypeOK'
  BY <1>0 DEF Inv, TypeOK
<1>2. Attempting' /\ Registered' /\ ShuttingDown'
  BY <1>0 DEF Inv, Attempting, Registered, ShuttingDown
<1>3. CloseEventsAreOwn' /\ HealthIsTruthful' /\ LeaksExplained'
  BY <1>0 DEF Inv, CloseEventsAreOwn, HealthIsTruthful, IsAvailable, LeaksExplained
<1> QED
  BY <1>1, <1>2, <1>3 DEF Inv

(* An open link closes.  If it has its listener it is the one in the field *)
(* or, during the shutdown, perhaps another one; if connect has it and     *)
(* nobody noticed, unnoticed says so.                                      *)
LEMMA ClosedInv ==
  ASSUME Inv, NEW l \in Links, link[l] = "open", Closed(l),
         UNCHANGED <<listening, connecting, stopConnection, stopChannel, served, abandoned>>,
         unnoticed \subseteq unnoticed', unnoticed' \subseteq Links, faults' \in 0..MaxFaults,
         attempt = "assign" => local # l \/ l \in unnoticed',
         \/ stop' = stop
         \/ stop = "closeConnection" /\ stop' = "completed" /\ l = stopConnection
  PROVE  Inv'
<1>0. /\ link' = [link EXCEPT ![l] = "closed"]
      /\ usable' = usable \ {l}
      /\ shuttingDown' = shuttingDown
      /\ UNCHANGED <<listening, attempt, local, stopConnection, stopChannel, served, abandoned>>
  BY DEF Closed, OnClose, ScheduleReconnect, flags, connecting
<1>1. \/ /\ l \in listening /\ connection' = None /\ channel' = None
         /\ reconnectTimer' = (reconnectTimer \/ ~shuttingDown)
      \/ l \notin listening /\ UNCHANGED <<connection, channel, reconnectTimer>>
  BY DEF Closed, OnClose, ScheduleReconnect, fields, flags
<1>2. TypeOK'
  BY <1>0, <1>1 DEF Inv, TypeOK
<1>3. Attempting' /\ Registered' /\ ShuttingDown'
  BY <1>0, <1>1, PublisherLinkAssumption DEF Inv, TypeOK, Attempting, Registered, ShuttingDown
<1>4. CloseEventsAreOwn' /\ HealthIsTruthful'
  BY <1>0, <1>1, PublisherLinkAssumption
     DEF Inv, TypeOK, Attempting, Registered, CloseEventsAreOwn, HealthIsTruthful, IsAvailable
<1>5. LeaksExplained'
  BY <1>0, <1>1, PublisherLinkAssumption
     DEF Inv, TypeOK, Attempting, Registered, ShuttingDown, CloseEventsAreOwn, LeaksExplained
<1> QED
  BY <1>2, <1>3, <1>4, <1>5 DEF Inv

(* A connection is lost, in service or not.                                *)
LEMMA ConnectionLostInv ==
  ASSUME Inv, NEW l \in Links, ConnectionLost(l)
  PROVE  Inv'
<1>1. /\ link[l] = "open" /\ Closed(l)
      /\ UNCHANGED <<listening, connecting, stop, stopConnection, stopChannel, served, abandoned>>
      /\ faults' \in 0..MaxFaults
      /\ \/ Unassigned(l) /\ unnoticed' = unnoticed \cup {l}
         \/ ~Unassigned(l) /\ unnoticed' = unnoticed
  BY PublisherLinkAssumption DEF ConnectionLost, Fault, shutdown, Inv, TypeOK
<1>2. /\ unnoticed \subseteq unnoticed' /\ unnoticed' \subseteq Links
      /\ attempt = "assign" => local # l \/ l \in unnoticed'
  BY <1>1 DEF Unassigned, Inv, TypeOK
<1> QED
  BY <1>1, <1>2, ClosedInv

(* A channel is lost, and nobody hears of it.                              *)
LEMMA ChannelLostInv ==
  ASSUME Inv, NEW l \in Links, ChannelLost(l)
  PROVE  Inv'
<1>0. /\ usable' = usable \ {l} /\ unnoticed' = unnoticed \cup {l}
      /\ faults' \in 0..MaxFaults
      /\ UNCHANGED <<link, listening, connection, channel, reconnectTimer, shuttingDown, attempt,
                     local, stop, stopConnection, stopChannel, served, abandoned>>
  BY PublisherLinkAssumption
     DEF ChannelLost, Fault, fields, flags, connecting, shutdown, Inv, TypeOK
<1>1. TypeOK'
  BY <1>0 DEF Inv, TypeOK
<1>2. Attempting' /\ Registered' /\ ShuttingDown'
  BY <1>0 DEF Inv, Attempting, Registered, ShuttingDown
<1>3. CloseEventsAreOwn' /\ HealthIsTruthful' /\ LeaksExplained'
  BY <1>0 DEF Inv, CloseEventsAreOwn, HealthIsTruthful, IsAvailable, LeaksExplained
<1> QED
  BY <1>1, <1>2, <1>3 DEF Inv

(* The shutdown takes over what is in the fields.                          *)
LEMMA ShutDownInv == Inv /\ ShutDown => Inv'
<1> SUFFICES ASSUME Inv, ShutDown PROVE Inv'
  OBVIOUS
<1>0. /\ stop = "running" /\ stop' = "closeChannel"
      /\ shuttingDown' = TRUE /\ reconnectTimer' = FALSE
      /\ stopConnection' = connection /\ stopChannel' = channel
      /\ connection' = None /\ channel' = None
      /\ UNCHANGED <<link, usable, listening, attempt, local, served, abandoned, unnoticed, faults>>
  BY DEF ShutDown, broker, connecting, history
<1>1. TypeOK'
  BY <1>0 DEF Inv, TypeOK
<1>2. Attempting' /\ Registered' /\ ShuttingDown'
  BY <1>0, PublisherLinkAssumption DEF Inv, TypeOK, Attempting, Registered, ShuttingDown
<1>3. CloseEventsAreOwn' /\ HealthIsTruthful'
  BY <1>0 DEF CloseEventsAreOwn, HealthIsTruthful, IsAvailable
<1>4. LeaksExplained'
  BY <1>0, PublisherLinkAssumption DEF Inv, TypeOK, ShuttingDown, LeaksExplained
<1> QED
  BY <1>1, <1>2, <1>3, <1>4 DEF Inv

(* It closes the channel it took over, which is in no field any more.      *)
LEMMA CloseChannelInv == Inv /\ CloseChannel => Inv'
<1> SUFFICES ASSUME Inv, CloseChannel PROVE Inv'
  OBVIOUS
<1>0. /\ stop = "closeChannel" /\ stop' = "closeConnection"
      /\ usable' = usable \ {stopChannel}
      /\ UNCHANGED <<link, listening, connection, channel, reconnectTimer, shuttingDown, attempt,
                     local, stopConnection, stopChannel, served, abandoned, unnoticed, faults>>
  BY DEF CloseChannel, fields, flags, connecting, history
<1>1. stopChannel \notin {connection, local} \/ stopChannel = None
  BY <1>0 DEF Inv, TypeOK, Attempting, Registered, ShuttingDown
<1>2. TypeOK'
  BY <1>0 DEF Inv, TypeOK
<1>3. Attempting' /\ Registered' /\ ShuttingDown'
  BY <1>0, <1>1, PublisherLinkAssumption DEF Inv, TypeOK, Attempting, Registered, ShuttingDown
<1>4. CloseEventsAreOwn' /\ HealthIsTruthful' /\ LeaksExplained'
  BY <1>0, <1>1, PublisherLinkAssumption
     DEF Inv, TypeOK, CloseEventsAreOwn, HealthIsTruthful, IsAvailable, LeaksExplained
<1> QED
  BY <1>2, <1>3, <1>4 DEF Inv

(* It closes the connection it took over, the only one that was in service *)
(* and may still be open.                                                  *)
LEMMA CloseConnectionInv == Inv /\ CloseConnection => Inv'
<1> SUFFICES ASSUME Inv, CloseConnection PROVE Inv'
  OBVIOUS
<1>0. /\ stop = "closeConnection" /\ stop' = "completed"
      /\ UNCHANGED <<listening, connecting, stopConnection, stopChannel, history>>
      /\ UNCHANGED <<attempt, local, served, abandoned, unnoticed, faults>>
      /\ stopConnection \in Links \cup {None}
  BY DEF CloseConnection, connecting, history, Inv, TypeOK
<1>1. CASE stopConnection # None /\ link[stopConnection] = "open"
  <2>1. Closed(stopConnection) /\ stopConnection \in Links
    BY <1>0, <1>1 DEF CloseConnection
  <2>2. attempt = "assign" => local # stopConnection
    BY <1>1 DEF Inv, Attempting, Registered
  <2>3. unnoticed' \subseteq Links /\ faults' \in 0..MaxFaults
    BY <1>0 DEF Inv, TypeOK
  <2> QED
    BY <1>0, <1>1, <2>1, <2>2, <2>3, ClosedInv
<1>2. CASE ~(stopConnection # None /\ link[stopConnection] = "open")
  <2>0. UNCHANGED <<link, usable, connection, channel, reconnectTimer, shuttingDown>>
    BY <1>2 DEF CloseConnection, broker, fields, flags
  <2>1. TypeOK'
    BY <1>0, <2>0 DEF Inv, TypeOK
  <2>2. Attempting' /\ Registered' /\ ShuttingDown'
    BY <1>0, <2>0 DEF Inv, Attempting, Registered, ShuttingDown
  <2>3. CloseEventsAreOwn' /\ HealthIsTruthful'
    BY <1>0, <2>0 DEF Inv, CloseEventsAreOwn, HealthIsTruthful, IsAvailable
  <2>4. LeaksExplained'
    BY <1>0, <1>2, <2>0, PublisherLinkAssumption
       DEF Inv, TypeOK, Attempting, Registered, ShuttingDown, LeaksExplained
  <2> QED
    BY <2>1, <2>2, <2>3, <2>4 DEF Inv
<1> QED
  BY <1>1, <1>2

(* With the process everything it had is gone.                             *)
LEMMA ExitInv == Inv /\ Exit => Inv'
<1> SUFFICES ASSUME Inv, Exit PROVE Inv'
  OBVIOUS
<1>0. /\ stop = "completed" /\ stop' = "exited"
      /\ link' = [l \in Links |-> "closed"] /\ usable' = {}
      /\ connection' = None /\ channel' = None /\ reconnectTimer' = FALSE
      /\ attempt' = "idle" /\ local' = None
      /\ UNCHANGED <<listening, shuttingDown, stopConnection, stopChannel, served, abandoned,
                     unnoticed, faults>>
  BY DEF Exit, history
<1>1. TypeOK'
  BY <1>0 DEF Inv, TypeOK
<1>2. Attempting' /\ Registered' /\ ShuttingDown'
  BY <1>0, PublisherLinkAssumption DEF Inv, TypeOK, Attempting, Registered, ShuttingDown
<1>3. CloseEventsAreOwn' /\ HealthIsTruthful' /\ LeaksExplained'
  BY <1>0 DEF Inv, TypeOK, CloseEventsAreOwn, HealthIsTruthful, IsAvailable, LeaksExplained
<1> QED
  BY <1>1, <1>2, <1>3 DEF Inv

(* Every step of the specification keeps the invariant.                    *)
LEMMA InvNext == Inv /\ [Next]_vars => Inv'
<1> SUFFICES ASSUME Inv, [Next]_vars PROVE Inv'
  OBVIOUS
<1>1. CASE Connect
  BY <1>1, DialInv, SetUpInv, AssignInv, SetUpFailsInv, ReconnectInv DEF Connect
<1>2. CASE DialFails
  BY <1>2, DialFailsInv
<1>3. CASE \E l \in Links : ConnectionLost(l) \/ ChannelLost(l)
  BY <1>3, ConnectionLostInv, ChannelLostInv
<1>4. CASE ShutDown \/ CloseChannel \/ CloseConnection \/ Exit
  BY <1>4, ShutDownInv, CloseChannelInv, CloseConnectionInv, ExitInv
<1>5. CASE UNCHANGED vars
  <2>0. UNCHANGED <<link, usable, listening, connection, channel, reconnectTimer, shuttingDown,
                    attempt, local, stop, stopConnection, stopChannel, served, abandoned,
                    unnoticed, faults>>
    BY <1>5 DEF vars, broker, fields, flags, connecting, shutdown, history
  <2>1. TypeOK' /\ Attempting' /\ Registered' /\ ShuttingDown'
    BY <2>0 DEF Inv, TypeOK, Attempting, Registered, ShuttingDown
  <2>2. CloseEventsAreOwn' /\ HealthIsTruthful' /\ LeaksExplained'
    BY <2>0 DEF Inv, CloseEventsAreOwn, HealthIsTruthful, IsAvailable, LeaksExplained
  <2> QED
    BY <2>1, <2>2 DEF Inv
<1> QED
  BY <1>1, <1>2, <1>3, <1>4, <1>5 DEF Next

(* The inductive invariant holds in every reachable state.                 *)
THEOREM Invariance == Spec => []Inv
BY InvInit, InvNext, PTL DEF Spec

(* The fields and locals of the service have their types; a usable channel *)
(* has an open connection, and the two fields go together.                 *)
THEOREM TypeCorrect == Spec => []TypeOK
<1>1. Inv => TypeOK
  BY DEF Inv
<1> QED
  BY <1>1, Invariance, PTL

(* Not to ask which connection closed is harmless before the shutdown: of  *)
(* the connections with a listener only the one in the field can be open.  *)
THEOREM ListenersHearTheirOwn == Spec => []CloseEventsAreOwn
<1>1. Inv => CloseEventsAreOwn
  BY DEF Inv
<1> QED
  BY <1>1, Invariance, PTL

(* GET /health reports a publisher as available that can publish, unless   *)
(* its channel ended where the code does not listen.                       *)
THEOREM HealthTellsTheTruth == Spec => []HealthIsTruthful
<1>1. Inv => HealthIsTruthful
  BY DEF Inv
<1> QED
  BY <1>1, Invariance, PTL

(* No open connection is lost track of, apart from the two kinds named in  *)
(* the invariant, and none that was in service survives the shutdown.      *)
THEOREM NoOtherLeaks == Spec => []LeaksExplained
<1>1. Inv => LeaksExplained
  BY DEF Inv
<1> QED
  BY <1>1, Invariance, PTL

-----------------------------------------------------------------------------
(* Step simulation: attempts, losses and retries of the abstract link.     *)

(* What a step changes of the abstract link is one of its steps.           *)
LEMMA StepsSupervised == Inv /\ [Next]_vars => [Supervisor!Next]_State
<1> SUFFICES ASSUME Inv, [Next]_vars PROVE [Supervisor!Next]_State
  OBVIOUS
<1> USE DEF State, Supervisor!Next, Supervisor!Connected, Supervisor!Failed, Supervisor!Lost,
            Supervisor!Retry, Supervisor!Stop
<1>0. /\ attempt # "idle" => channel = None
      /\ attempt \in {"setup", "assign"} => local # None
      /\ attempt \in {"idle", "dial", "setup", "assign"}
      /\ shuttingDown \in BOOLEAN
      /\ shuttingDown <=> stop # "running"
  BY PublisherLinkAssumption DEF Inv, TypeOK, Attempting, ShuttingDown
<1>1. CASE Dial \/ SetUp
  BY <1>0, <1>1 DEF Dial, SetUp, fields, flags
<1>2. CASE Assign
  BY <1>0, <1>2 DEF Assign, flags
<1>3. CASE DialFails \/ SetUpFails
  BY <1>0, <1>3 DEF DialFails, SetUpFails, GiveUp, ScheduleReconnect, fields
<1>4. CASE Reconnect
  BY <1>0, <1>4 DEF Reconnect, fields
<1>5. ASSUME NEW l \in Links, ConnectionLost(l) PROVE [Supervisor!Next]_State
  BY <1>0, <1>5
     DEF ConnectionLost, Closed, OnClose, ScheduleReconnect, connecting, fields, flags
<1>6. ASSUME NEW l \in Links, ChannelLost(l) PROVE [Supervisor!Next]_State
  BY <1>6 DEF ChannelLost, connecting, fields, flags
<1>7. CASE ShutDown
  BY <1>0, <1>7 DEF ShutDown
<1>8. CASE CloseChannel \/ Exit
  BY <1>0, <1>8 DEF CloseChannel, Exit, fields, flags, connecting
<1>9. CASE CloseConnection
  BY <1>0, <1>9
     DEF CloseConnection, Closed, OnClose, ScheduleReconnect, fields, flags, connecting
<1>10. CASE UNCHANGED vars
  BY <1>10 DEF vars, fields, flags, connecting
<1> QED
  BY <1>1, <1>2, <1>3, <1>4, <1>5, <1>6, <1>7, <1>8, <1>9, <1>10 DEF Next, Connect

(* The safety half of the refinement: the service's link comes up only by  *)
(* an attempt, a lost or failed one is down until the next attempt, and    *)
(* the shutdown is final.                                                  *)
THEOREM SupervisedSafely == Spec => Supervisor!Safety
<1>1. Init => Supervisor!Init
  BY DEF Init, State, Supervisor!Init
<1> QED
  BY <1>1, StepsSupervised, Invariance, PTL DEF Spec, Supervisor!Safety

=============================================================================
