----------------------------- MODULE MCDispatching ----------------------------
EXTENDS Dispatching, TLC

Symmetry == Permutations(Calls) \cup Permutations(Servers)
==============================================================================
