------------------------------ MODULE MCTickCache -----------------------------
EXTENDS TickCache, TLC

Symmetry == Permutations(Flows)
==============================================================================
