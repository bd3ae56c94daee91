SPECIFICATION Spec
CONSTANTS
  k1 = k1
  k2 = k2
  k3 = k3
  h1 = h1
  h2 = h2
  Requests = {r1, r2, r3}
  Keys = {k1, k2, k3}
  Hosts = {h1, h2}
  HostOf <- MCHostOf
  MaxStops = 2
  None = None
INVARIANTS
  TypeOK
  AnsweredIsDurable
  ConfigIsIdempotent
  RouteToOwnNode
PROPERTY ImplementsPool
SYMMETRY Symmetry
CHECK_DEADLOCK FALSE
