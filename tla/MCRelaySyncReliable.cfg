SPECIFICATION FairSpec
CONSTANTS
  alice = alice
  bob = bob
  carol = carol
  room = room
  Users = {alice, bob, carol}
  Rooms = {room}
  Devices = {b1}
  MaxEvents = 4
  Slots = {s1, s2}
  PageSize = 2
  Faults = FALSE
  NoDevice = NoDevice
  Owner <- MCOwner
  Members <- MCMembers
  SenderOf <- MCSender
  RecipientOf <- MCMixedRecipient
INVARIANT NothingOutOfReach
PROPERTY EventuallyReceived
