------------------------------ MODULE MCKeyDir ------------------------------
(* A registration that uploads one of its two one-time prekeys, refreshes  *)
(* that add two, and initiators enough to use them up.                     *)
EXTENDS KeyDir, TLC

Symmetry == Permutations(Initiators) \cup Permutations(Refreshes)
=============================================================================
