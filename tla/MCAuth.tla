------------------------------- MODULE MCAuth -------------------------------
EXTENDS Auth, TLC

Symmetry == Permutations(Requests) \cup Permutations(Users) \cup Permutations(Devices)
=============================================================================
