---------------------------- MODULE MCRelaySync -----------------------------
(* Alice writes to Bob, and in one run once to a room; with pages of two,  *)
(* three rows cut a first load and four rows a later page.                 *)
EXTENDS RelaySync, TLC

CONSTANTS alice, bob, carol, room

MCOwner == [d \in Devices |-> bob]
MCMembers == [r \in Rooms |-> {alice, bob, carol}]
MCSender == [e \in Events |-> alice]
MCRecipient == [e \in Events |-> bob]
MCMixedRecipient == [e \in Events |-> IF e = 2 THEN room ELSE bob]

\* The requests are alike.
Symmetry == Permutations(Slots)
=============================================================================
