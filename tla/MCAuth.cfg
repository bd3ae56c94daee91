SPECIFICATION Spec
CONSTANTS
  Requests = {r1, r2, r3, r4}
  Users = {u, v}
  Devices = {d1, d2}
  None = None
INVARIANTS
  TypeOK
  NameGivenOnce
  SessionOnOwnDevice
  EndedStaysEnded
  AnsweredHasRow
SYMMETRY Symmetry
CHECK_DEADLOCK FALSE
