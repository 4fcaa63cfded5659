SPECIFICATION FairSpec
CONSTANTS
  None = None
  Links = {1, 2, 3, 4}
  FaultKinds = {"dial", "setup", "connection", "channel", "unheard"}
  MaxFaults = 3
INVARIANTS
  TypeOK
  CloseEventsAreOwn
  HealthIsTruthful
  LeaksExplained
PROPERTIES
  ImplementsSupervisor
