----------------------------- MODULE MCAmqpHolder -----------------------------
EXTENDS AmqpHolder, TLC

Symmetry == Permutations(Flows)
==============================================================================
