SPECIFICATION Spec
CONSTANTS
  r1 = r1
  r2 = r2
  w1 = w1
  w2 = w2
  Readers = {r1, r2}
  Writers = {w1, w2}
  TTL = 2
  MaxDelay = 1
  MaxVersions = 3
  MaxFaults = 2
SYMMETRY Interchangeable
INVARIANTS
  TypeOK
  StaleNeedsCause
  StalenessBounded
