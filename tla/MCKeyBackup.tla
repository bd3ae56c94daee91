---------------------------- MODULE MCKeyBackup -----------------------------
EXTENDS KeyBackup, TLC

Symmetry == Permutations(Browsers)
=============================================================================
