----------------------------- MODULE MCStoreWorker ----------------------------
EXTENDS StoreWorker, TLC

Symmetry == Permutations(Workers)
==============================================================================
