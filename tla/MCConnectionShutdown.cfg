SPECIFICATION Spec
CONSTANTS
  h1 = h1
  h2 = h2
  None = None
  Links = {1, 2, 3, 4}
  Handlers = {h1}
  FaultKinds = {}
  MaxFaults = 0
INVARIANTS
  ShutdownStopsConsuming
