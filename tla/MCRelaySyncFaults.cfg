SPECIFICATION Spec
CONSTANTS
  alice = alice
  bob = bob
  carol = carol
  room = room
  Users = {alice, bob, carol}
  Rooms = {room}
  Devices = {b1}
  MaxEvents = 3
  Slots = {s1, s2}
  PageSize = 2
  Faults = TRUE
  NoDevice = NoDevice
  Owner <- MCOwner
  Members <- MCMembers
  SenderOf <- MCSender
  RecipientOf <- MCMixedRecipient
INVARIANTS
  TypeOK
  CursorSkipsNothing
SYMMETRY Symmetry
