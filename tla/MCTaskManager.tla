---------------------------- MODULE MCTaskManager ----------------------------
EXTENDS TaskManager, TLC
Symmetry == Permutations(Callers)
=============================================================================
