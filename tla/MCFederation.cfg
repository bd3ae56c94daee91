SPECIFICATION Spec
CONSTANTS
  home = home
  main = main
  dest = dest
  mainUpper = mainUpper
  hs = hs
  ms = ms
  ds = ds
  m1 = m1
  m2 = m2
  Servers = {hs, ms, ds}
  Names = {home, main, dest, mainUpper}
  HostOf <- MCHostOf
  DomainOf <- MCDomainOf
  MainOf <- MCMainOf
  Listed <- MCListed
  Published <- MCPublished
  Trusted <- MCTrusted
  Messages = {m1, m2}
  HomeOf <- MCHomeOf
  DestOf <- MCDestOf
  Requests = {r1, r2}
  Mode = "auto"
  Failing = {ds}
  Threshold = 1
  MaxHops = 2
  MaxUnread = 1
  None = None
INVARIANTS
  TypeOK
  AcceptedArrived
  StoredAtDestination
  AllowlistFileOnce
SYMMETRY Symmetry
CHECK_DEADLOCK FALSE
