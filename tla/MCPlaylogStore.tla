---------------------------- MODULE MCPlaylogStore ----------------------------
(* Instance of PlaylogStore for TLC. *)
EXTENDS PlaylogStore, TLC
Symmetry == Permutations(Clients)
==============================================================================
