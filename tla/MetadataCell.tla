----------------------------- MODULE MetadataCell -----------------------------
(***************************************************************************)
(* What the metadata store promises: the metadata of a play is a cell      *)
(* whose fields are set one at a time, each update in one instant, and a   *)
(* last access time is replaced only by one at least a resolution away.    *)
(* PlaylogStore relies on the first part for its two flags.                *)
(***************************************************************************)
EXTENDS Naturals

CONSTANTS
  Times,        \* instants, in a unit finer than the resolution
  Never,        \* no access has been recorded
  Resolution    \* lastAccessTimeResolution, in that unit

VARIABLES cellArchived, cellPruned, cellAccess

cellVars == <<cellArchived, cellPruned, cellAccess>>

Far(t, u) == t + Resolution <= u \/ u + Resolution <= t

CellInit ==
  /\ cellArchived = FALSE
  /\ cellPruned = FALSE
  /\ cellAccess = Never

SetArchived(b) ==
  /\ cellArchived' = b
  /\ UNCHANGED <<cellPruned, cellAccess>>

SetPruned(b) ==
  /\ cellPruned' = b
  /\ UNCHANGED <<cellArchived, cellAccess>>

SetAccess(t) ==
  /\ cellAccess = Never \/ Far(t, cellAccess)
  /\ cellAccess' = t
  /\ UNCHANGED <<cellArchived, cellPruned>>

CellNext ==
  \/ \E b \in BOOLEAN : SetArchived(b) \/ SetPruned(b)
  \/ \E t \in Times : SetAccess(t)

CellSpec == CellInit /\ [][CellNext]_cellVars
==============================================================================
