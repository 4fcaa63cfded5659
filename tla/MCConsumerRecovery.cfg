SPECIFICATION FairSpec
CONSTANTS
  i1 = i1
  i2 = i2
  s1 = s1
  s2 = s2
  o1 = o1
  o2 = o2
  Orders = {o1}
  Messages = {1, 2, 3, 4, 5, 6}
  Instances = {i1, i2}
  Slots = {s1}
  Deliveries = 1
  FaultKinds = {"crash", "channel", "redis", "forget", "publish"}
  MaxFaults = 3
INVARIANTS
  TypeOK
PROPERTIES
  BuyerNotified
  CirculationEnds
