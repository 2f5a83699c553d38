----------------------------- MODULE MCGroupRun -----------------------------
EXTENDS GroupRun, TLC

Symmetry == Permutations(Runs)
=============================================================================
