SPECIFICATION Spec
CONSTANTS
  i1 = i1
  i2 = i2
  s1 = s1
  s2 = s2
  Events = {1, 2, 3}
  Instances = {i1, i2}
  Slots = {s1, s2}
  BatchSize = 2
  MaxFaults = 2
  MaxStalls = 1
SYMMETRY Interchangeable
INVARIANTS
  TypeOK
  SentWasPublished
  DuplicatesNeedRecovery
  ExecutionsCounted
PROPERTIES
  SentIsFinal
