---------------------------- MODULE MCRuntimeTurn ----------------------------
EXTENDS RuntimeTurn, TLC

Symmetry == Permutations(Messages) \cup Permutations(Profiles)
=============================================================================
