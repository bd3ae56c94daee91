SPECIFICATION Spec
CONSTANTS
  Refreshes = {r1, r2}
  Initiators = {i1, i2}
  MaxId = 5
  Generated = 2
  Uploaded = 1
  Batch = 2
  Threshold = 2
  Quota = 3
  Registration = Registration
  None = None
INVARIANTS
  TypeOK
  OnlyContendedTwice
  OfferedHasSecret
SYMMETRY Symmetry
CHECK_DEADLOCK FALSE
