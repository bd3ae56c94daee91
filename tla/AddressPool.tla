---------------------------- MODULE AddressPool -----------------------------
(***************************************************************************)
(* What handing out addresses promises, whoever does it (the coordinator   *)
(* of the mesh, the VPN service): an address is granted to one owner only, *)
(* and a grant stands.  Grants are forgotten only in a moment in which the *)
(* pool is known not to have them in store, or starts without its store.   *)
(***************************************************************************)
CONSTANTS Owners, Addresses

VARIABLES granted,   \* set of grants in force
          unstored,  \* some grant may be missing in the store
          unread     \* the pool has started without reading the store

Grants == [owner : Owners, address : Addresses]

Init == granted = {}

Grant ==
  \E g \in granted' \cap Grants :
    /\ \A o \in granted : o.address # g.address
    /\ granted' = granted \cup {g}

Forget ==
  /\ unstored \/ unread'
  /\ granted' \subseteq granted

Next == Grant \/ Forget

Spec == Init /\ [][Next]_granted
=============================================================================
