------------------------------- MODULE MCVpn --------------------------------
EXTENDS Vpn, TLC

Symmetry == Permutations(Requests) \cup Permutations(Devices)
=============================================================================
