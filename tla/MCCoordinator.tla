--------------------------- MODULE MCCoordinator ----------------------------
EXTENDS Coordinator, TLC

CONSTANTS k1, k2, k3, h1, h2

\* Two nodes share a host: a node that was set up again with a new key.
MCHostOf == k1 :> h1 @@ k2 :> h1 @@ k3 :> h2

Symmetry == Permutations(Requests)
=============================================================================
