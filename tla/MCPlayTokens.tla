----------------------------- MODULE MCPlayTokens -----------------------------
EXTENDS PlayTokens, TLC

Symmetry == Permutations(Auths) \cup Permutations(Sessions)
==============================================================================
