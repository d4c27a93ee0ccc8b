--------------------------- MODULE MCPlaylogMetadata ---------------------------
(* Instance of PlaylogMetadata for TLC. *)
EXTENDS PlaylogMetadata, TLC
Symmetry == Permutations(Clients)
==============================================================================
