------------------------------ MODULE MCRooms -------------------------------
(* One room suffices: no operation looks at two.  Three users make a       *)
(* creator and two rival targets.                                          *)
EXTENDS Rooms, TLC

Symmetry == Permutations(Users) \cup Permutations(RoomRequests)
=============================================================================
