SPECIFICATION FairSpec
CONSTANTS
  a1 = a1
  a2 = a2
  Scripts = {a1, a2}
  MaxProducts = 4
  MaxOrders = 2
  MaxFaults = 2
INVARIANTS
  TypeOK
  SeedLeavesOne
PROPERTIES
  SeedGetsThrough
