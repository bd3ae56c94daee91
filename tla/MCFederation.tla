---------------------------- MODULE MCFederation ----------------------------
(* A home server in main_only mode, a main server and a destination.  One  *)
(* message spells the main server's domain in another way.                 *)
EXTENDS Federation, TLC

CONSTANTS home, main, mainUpper, dest, hs, ms, ds, m1, m2

MCHostOf == (home :> hs) @@ (main :> ms) @@ (mainUpper :> ms) @@ (dest :> ds)
MCDomainOf == (hs :> home) @@ (ms :> main) @@ (ds :> dest)
MCMainOf == (hs :> main) @@ (ms :> None) @@ (ds :> None)
MCListed == [s \in Servers |-> {}]
MCPublished == (hs :> {}) @@ (ms :> {}) @@ (ds :> {main})
MCTrusted == (hs :> {}) @@ (ms :> {home}) @@ (ds :> {})
MCHomeOf == [m \in Messages |-> hs]
MCDestOf == (m1 :> dest) @@ (m2 :> mainUpper)

Symmetry == Permutations(Requests)
=============================================================================
