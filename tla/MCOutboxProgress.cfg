SPECIFICATION FairSpec
CONSTANTS
  i1 = i1
  i2 = i2
  s1 = s1
  s2 = s2
  Events = {1, 2}
  Instances = {i1, i2}
  Slots = {s1}
  BatchSize = 1
  MaxFaults = 2
  MaxStalls = 1
PROPERTIES
  EveryEventSent
