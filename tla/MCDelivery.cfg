SPECIFICATION FairSpec
CONSTANTS
  i1 = i1
  i2 = i2
  s1 = s1
  Orders = {1}
  Instances = {i1, i2}
  RelaySlots = {s1}
  Slots = {s1}
  Messages = {1, 2, 3, 4, 5, 6}
  BatchSize = 1
  Deliveries = 3
  FaultKinds = {"crash", "channel", "redis", "forget", "publish", "notify", "slow"}
  MaxFaults = 1
  MaxRelayFaults = 1
  MaxStalls = 1
  MaxTotal = 1
INVARIANTS
  RepetitionsNeedFaults
PROPERTIES
  ImplementsOrderNotification
