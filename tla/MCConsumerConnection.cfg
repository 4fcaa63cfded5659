SPECIFICATION FairSpec
CONSTANTS
  h1 = h1
  h2 = h2
  None = None
  Links = {1, 2, 3, 4}
  Handlers = {h1, h2}
  FaultKinds = {"dial", "setup", "connection", "channel", "cancel", "unheard"}
  MaxFaults = 3
INVARIANTS
  TypeOK
  LeaksExplained
  ServedIsDrained
PROPERTIES
  ConsumesInTheEnd
  ShutdownEnds
  ImplementsSupervisor
