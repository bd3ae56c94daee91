SPECIFICATION Spec
CONSTANTS
  Requests = {r1, r2, r3}
  Devices = {d1, d2}
  XrayProtocols = {"vless"}
  PoolSize = 2
  None = None
INVARIANTS
  TypeOK
  ConfigMatchesRow
  XrayAdmitsRow
PROPERTIES
  AddressKept
  ImplementsPool
SYMMETRY Symmetry
CHECK_DEADLOCK FALSE
