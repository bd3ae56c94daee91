SPECIFICATION RoomsSpec
CONSTANTS
  RoomIds = {room}
  Users = {u1, u2, u3}
  RoomRequests = {q1, q2, q3}
  NoUser = NoUser
INVARIANTS RoomsTypeOK OneCreator
SYMMETRY Symmetry
CHECK_DEADLOCK FALSE
