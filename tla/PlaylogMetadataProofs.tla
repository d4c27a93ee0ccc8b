------------------------- MODULE PlaylogMetadataProofs -------------------------
(***************************************************************************)
(* The optimistic lock of the metadata store is sound for any number of    *)
(* clients, calls and retries: PlaylogStore may take a flag update as one  *)
(* atomic step.                                                            *)
(***************************************************************************)
EXTENDS PlaylogMetadata, TLAPS

(* Revisions start at 1, and a copy of the current revision is the current *)
(* metadata.                                                               *)
CopyInv ==
  /\ Current.revision >= 1
  /\ \A c \in Clients : pc[c] = "update" =>
       /\ copy[c].revision >= 1
       /\ copy[c].revision <= Current.revision
       /\ copy[c].revision = Current.revision => copy[c] = Current

(* An access time about to be stored is a resolution away from the one it  *)
(* replaces.                                                               *)
AccessInv ==
  \A c \in Clients :
    (pc[c] = "update" /\ op[c].field = "lastAccessTime") =>
      copy[c].lastAccessTime = Never \/ Far(op[c].value, copy[c].lastAccessTime)

(* Each lost attempt of a call stands for an update of another one.        *)
RetryInv ==
  \A c \in Clients :
    /\ pc[c] # "idle" => Current.revision >= startRevision[c] + retry[c]
    /\ pc[c] = "update" => copy[c].revision >= startRevision[c] + retry[c]

MetadataInv == TypeOK /\ CopyInv /\ AccessInv /\ RetryInv /\ ConflictJustified

(* The metadata a client reads are metadata.                               *)
LEMMA CurrentType ==
  ASSUME TypeOK PROVE Current \in Metadata
BY BoundsAssumption DEF TypeOK, Current, DefaultMetadata, Metadata

(* The end of a call keeps the types.                                      *)
LEMMA ReturnType ==
  ASSUME TypeOK, NEW c \in Clients,
         NEW r \in {"none", "ok", "unchanged", "conflict", "error"}, Return(c, r)
  PROVE  /\ pc' \in [Clients -> {"idle", "find", "update"}]
         /\ op' \in [Clients -> Ops]
         /\ copy' \in [Clients -> Metadata]
         /\ retry' \in [Clients -> Nat]
         /\ result' \in [Clients -> {"none", "ok", "unchanged", "conflict", "error"}]
<1>1. DefaultMetadata \in Metadata
  BY BoundsAssumption DEF DefaultMetadata, Metadata
<1>2. NoOp \in Ops
  BY DEF NoOp, Ops, FlagOps
<1> QED  BY <1>1, <1>2 DEF Return, TypeOK

(* What updateOne writes is metadata.                                      *)
LEMMA UpdatedType ==
  ASSUME TypeOK, NEW c \in Clients
  PROVE  Updated(c) \in Metadata
BY DEF TypeOK, Updated, Metadata, Ops, FlagOps, AccessOps

(* Types are kept by every step.                                           *)
LEMMA TypeStep == TypeOK /\ [Next]_vars => TypeOK'
<1> SUFFICES ASSUME TypeOK, [Next]_vars PROVE TypeOK'
  OBVIOUS
<1>1. CASE Tick
  BY <1>1, BoundsAssumption DEF Tick, TypeOK, Times
<1>2. CASE UNCHANGED vars
  BY <1>2 DEF vars, TypeOK
<1>3. ASSUME NEW c \in Clients, Begin(c) PROVE TypeOK'
  <2>1. Requests \subseteq Ops
    BY BoundsAssumption DEF Requests, Ops, FlagOps, AccessOps, Times
  <2>2. Current.revision \in Nat
    BY CurrentType DEF Metadata
  <2> QED  BY <1>3, <2>1, <2>2, BoundsAssumption DEF Begin, TypeOK
<1>4. ASSUME NEW c \in Clients, Find(c) PROVE TypeOK'
  <2>1. CASE Return(c, "unchanged")
    BY <1>4, <2>1, ReturnType DEF Find, TypeOK
  <2>2. CASE ~Return(c, "unchanged")
    <3>1. [field |-> "lastAccessTime", value |-> now] \in Ops
      BY DEF TypeOK, Ops, AccessOps
    <3>2. op' \in [Clients -> Ops] /\ copy' \in [Clients -> Metadata]
      BY <1>4, <2>2, <3>1, CurrentType DEF Find, TypeOK
    <3>3. /\ pc' = [pc EXCEPT ![c] = "update"]
          /\ UNCHANGED <<retry, result, document, now, calls, startRevision>>
      BY <1>4, <2>2 DEF Find
    <3> QED  BY <3>2, <3>3 DEF TypeOK
  <2> QED  BY <2>1, <2>2
<1>5. ASSUME NEW c \in Clients, UpdateOne(c) PROVE TypeOK'
  <2>1. CASE Return(c, "ok") /\ document' = Updated(c)
    BY <1>5, <2>1, ReturnType, UpdatedType DEF UpdateOne, TypeOK
  <2>2. CASE Return(c, "conflict") /\ UNCHANGED document
    BY <1>5, <2>2, ReturnType DEF UpdateOne, TypeOK
  <2>3. CASE /\ retry' = [retry EXCEPT ![c] = retry[c] + 1]
             /\ pc' = [pc EXCEPT ![c] = "find"]
             /\ UNCHANGED <<document, op, copy, result>>
    BY <1>5, <2>3 DEF UpdateOne, TypeOK
  <2> QED  BY <1>5, <2>1, <2>2, <2>3 DEF UpdateOne
<1>6. ASSUME NEW c \in Clients, Fail(c) PROVE TypeOK'
  BY <1>6, ReturnType DEF Fail, TypeOK
<1> QED  BY <1>1, <1>2, <1>3, <1>4, <1>5, <1>6 DEF Next, Step

(* An update that goes through was computed from the stored metadata.      *)
LEMMA MatchMeansCurrent ==
  ASSUME MetadataInv, NEW c \in Clients, pc[c] = "update", Matches(c)
  PROVE  copy[c] = Current
BY CurrentType DEF MetadataInv, TypeOK, CopyInv, Matches, Current, DefaultMetadata, Metadata

(* The revision goes up by one with every update.                          *)
LEMMA RevisionStep ==
  ASSUME MetadataInv, NEW c \in Clients, pc[c] = "update", Matches(c), document' = Updated(c)
  PROVE  Current' = Updated(c) /\ Current'.revision = Current.revision + 1
<1>1. Updated(c) # NoDocument
  BY UpdatedType, NoDocumentAssumption DEF MetadataInv
<1>2. Current' = Updated(c)
  BY <1>1 DEF Current
<1> QED  BY <1>2, MatchMeansCurrent DEF Updated

(* The invariant is inductive.                                             *)
LEMMA InvStep == MetadataInv /\ [Next]_vars => MetadataInv'
<1> SUFFICES ASSUME MetadataInv, [Next]_vars PROVE MetadataInv'
  OBVIOUS
<1>0. TypeOK' /\ Current \in Metadata /\ Current' \in Metadata
  <2>1. TypeOK'
    BY TypeStep DEF MetadataInv
  <2>2. Current \in Metadata
    BY CurrentType DEF MetadataInv
  <2>3. Current' \in Metadata
    BY <2>1, BoundsAssumption DEF TypeOK, Current, DefaultMetadata, Metadata
  <2> QED  BY <2>1, <2>2, <2>3
<1> USE DEF MetadataInv, CopyInv, AccessInv, RetryInv, ConflictJustified, TypeOK, Metadata
<1>1. CASE Tick \/ UNCHANGED vars
  <2>1. Current' = Current
    BY <1>1 DEF Tick, vars, Current
  <2> QED  BY <1>0, <1>1, <2>1 DEF Tick, vars
<1>2. ASSUME NEW c \in Clients, Begin(c) PROVE MetadataInv'
  <2>1. Current' = Current
    BY <1>2 DEF Begin, Current
  <2> QED  BY <1>0, <1>2, <2>1 DEF Begin
<1>3. ASSUME NEW c \in Clients, Find(c) PROVE MetadataInv'
  <2>1. Current' = Current
    BY <1>3 DEF Find, Current
  <2>2. CASE Return(c, "unchanged")
    BY <1>0, <1>3, <2>1, <2>2 DEF Find, Return
  <2>3. CASE ~Return(c, "unchanged")
    <3>1. /\ pc' = [pc EXCEPT ![c] = "update"]
          /\ copy' = [copy EXCEPT ![c] = Current]
          /\ UNCHANGED <<retry, result, startRevision>>
          /\ pc[c] = "find"
      BY <1>3, <2>3 DEF Find
    <3>2. CopyInv' /\ RetryInv' /\ ConflictJustified'
      BY <1>0, <2>1, <3>1
    <3>3. AccessInv'
      <4>1. \A d \in Clients \ {c} : op'[d] = op[d]
        BY <1>3, <2>3 DEF Find
      <4>2. op[c].field = "lastAccessTime" => op'[c].value = now
        BY <1>3, <2>3 DEF Find
      <4>3. op'[c].field = op[c].field
        BY <1>3, <2>3 DEF Find
      <4>4. op[c].field = "lastAccessTime" => ~Fresh(Current)
        BY <1>3, <2>3 DEF Find
      <4> QED  BY <3>1, <4>1, <4>2, <4>3, <4>4 DEF Fresh, Far
    <3> QED  BY <1>0, <3>2, <3>3
  <2> QED  BY <2>2, <2>3
<1>4. ASSUME NEW c \in Clients, UpdateOne(c) PROVE MetadataInv'
  <2>1. CASE Matches(c) /\ document' = Updated(c) /\ Return(c, "ok")
    <3>1. Current'.revision = Current.revision + 1
      BY <1>4, <2>1, RevisionStep DEF UpdateOne
    <3>2. \A d \in Clients : pc'[d] # "idle" =>
            d # c /\ pc'[d] = pc[d] /\ copy'[d] = copy[d] /\ retry'[d] = retry[d] /\ op'[d] = op[d]
      BY <2>1 DEF Return
    <3>3. \A d \in Clients : result'[d] = "conflict" => result[d] = "conflict"
      BY <2>1 DEF Return
    <3>4. startRevision' = startRevision
      BY <1>4 DEF UpdateOne
    <3>5. CopyInv'
      BY <1>0, <3>1, <3>2
    <3>6. RetryInv' /\ ConflictJustified'
      BY <1>0, <3>1, <3>2, <3>3, <3>4, BoundsAssumption
    <3>7. AccessInv'
      BY <3>2 DEF Far
    <3> QED  BY <1>0, <3>5, <3>6, <3>7
  <2>2. CASE ~Matches(c) /\ UNCHANGED document
    <3>1. Current' = Current /\ document # NoDocument /\ Current = document
      BY <2>2 DEF Current, Matches
    <3>2. Current.revision >= copy[c].revision + 1
      <4>1. Current.revision # copy[c].revision
        BY <2>2, <3>1 DEF Matches
      <4>2. copy[c].revision \in Nat /\ Current.revision \in Nat
        BY <1>0
      <4>3. copy[c].revision <= Current.revision
        BY <1>4 DEF UpdateOne
      <4>4. \A a, b \in Nat : b <= a /\ a # b => a >= b + 1
        OBVIOUS
      <4> QED  BY <4>1, <4>2, <4>3, <4>4
    <3>3. Current.revision >= startRevision[c] + retry[c] + 1
      BY <1>0, <1>4, <3>2 DEF UpdateOne
    <3>4. CASE LastTry(c) /\ Return(c, "conflict")
      BY <1>0, <1>4, <3>1, <3>3, <3>4, BoundsAssumption DEF UpdateOne, Return, LastTry
    <3>5. CASE /\ retry' = [retry EXCEPT ![c] = retry[c] + 1]
               /\ pc' = [pc EXCEPT ![c] = "find"]
               /\ UNCHANGED <<op, copy, result>>
      BY <1>0, <1>4, <3>1, <3>3, <3>5 DEF UpdateOne
    <3> QED  BY <1>4, <2>2, <3>4, <3>5 DEF UpdateOne
  <2> QED  BY <1>4, <2>1, <2>2 DEF UpdateOne
<1>5. ASSUME NEW c \in Clients, Fail(c) PROVE MetadataInv'
  <2>1. Current' = Current
    BY <1>5 DEF Fail, Current
  <2> QED  BY <1>0, <1>5, <2>1 DEF Fail, Return
<1> QED  BY <1>1, <1>2, <1>3, <1>4, <1>5 DEF Next, Step

(* The invariant holds in every reachable state.                           *)
THEOREM Invariant == Spec => []MetadataInv
<1>1. Init => MetadataInv
  <2> SUFFICES ASSUME Init PROVE MetadataInv
    OBVIOUS
  <2>1. Current = DefaultMetadata /\ DefaultMetadata \in Metadata /\ NoOp \in Ops
    BY BoundsAssumption DEF Init, Current, DefaultMetadata, Metadata, NoOp, Ops, FlagOps
  <2>2. TypeOK
    BY <2>1, BoundsAssumption DEF Init, TypeOK, Times
  <2> QED
    BY <2>1, <2>2 DEF Init, MetadataInv, CopyInv, AccessInv, RetryInv, ConflictJustified,
                     DefaultMetadata
<1> QED  BY <1>1, InvStep, PTL DEF Spec

(* The stored document and the copies of the setters keep their type.      *)
THEOREM TypeCorrect == Spec => []TypeOK
<1>1. MetadataInv => TypeOK
  BY DEF MetadataInv
<1> QED  BY <1>1, Invariant, PTL

(* A setter that gives up has met maxRetryCount updates of others.         *)
THEOREM ConflictsJustified == Spec => []ConflictJustified
<1>1. MetadataInv => ConflictJustified
  BY DEF MetadataInv
<1> QED  BY <1>1, Invariant, PTL

(* Every step is an update of one field, or leaves the metadata alone.     *)
LEMMA CellStep ==
  ASSUME MetadataInv, [Next]_vars
  PROVE  [Cell!CellNext]_(Cell!cellVars)
<1>1. CASE Tick \/ UNCHANGED vars
  BY <1>1 DEF Tick, vars, Current, Cell!cellVars
<1>2. ASSUME NEW c \in Clients, Begin(c) \/ Find(c) \/ Fail(c)
      PROVE  [Cell!CellNext]_(Cell!cellVars)
  BY <1>2 DEF Begin, Find, Fail, Current, Cell!cellVars
<1>3. ASSUME NEW c \in Clients, UpdateOne(c)
      PROVE  [Cell!CellNext]_(Cell!cellVars)
  <2>1. CASE UNCHANGED document
    BY <2>1 DEF Current, Cell!cellVars
  <2>2. CASE Matches(c) /\ document' = Updated(c)
    <3>1. copy[c] = Current /\ Current' = Updated(c)
      BY <1>3, <2>2, MatchMeansCurrent, RevisionStep DEF UpdateOne
    <3>2. op[c] \in Ops /\ pc[c] = "update"
      BY <1>3 DEF MetadataInv, TypeOK, UpdateOne
    <3>3. CASE op[c].field = "hasArchived"
      <4>1. op[c].value \in BOOLEAN
        BY <3>2, <3>3 DEF Ops, FlagOps, AccessOps
      <4>2. Cell!SetArchived(op[c].value)
        BY <3>1, <3>3 DEF Updated, Cell!SetArchived
      <4> QED  BY <4>1, <4>2 DEF Cell!CellNext
    <3>4. CASE op[c].field = "shouldGetFromArchive"
      <4>1. op[c].value \in BOOLEAN
        BY <3>2, <3>4 DEF Ops, FlagOps, AccessOps
      <4>2. Cell!SetPruned(op[c].value)
        BY <3>1, <3>4 DEF Updated, Cell!SetPruned
      <4> QED  BY <4>1, <4>2 DEF Cell!CellNext
    <3>5. CASE op[c].field = "lastAccessTime"
      <4>1. op[c].value \in Times
        BY <3>2, <3>5 DEF Ops, FlagOps, AccessOps
      <4>2. Current.lastAccessTime = Never \/ Far(op[c].value, Current.lastAccessTime)
        BY <3>1, <3>2, <3>5 DEF MetadataInv, AccessInv
      <4>3. Cell!SetAccess(op[c].value)
        BY <3>1, <3>5, <4>2 DEF Updated, Far, Cell!SetAccess, Cell!Far
      <4> QED  BY <4>1, <4>3 DEF Cell!CellNext
    <3> QED  BY <3>2, <3>3, <3>4, <3>5 DEF Ops, FlagOps, AccessOps
  <2> QED  BY <1>3, <2>1, <2>2 DEF UpdateOne
<1> QED  BY <1>1, <1>2, <1>3 DEF Next, Step

(* No metadata update is lost: concurrent setters act on one atomic cell.  *)
THEOREM CellRefinement == Spec => ImplementsCell
<1>1. Init => Cell!CellInit
  BY DEF Init, Current, DefaultMetadata, Cell!CellInit
<1>2. MetadataInv /\ [Next]_vars => [Cell!CellNext]_(Cell!cellVars)
  BY CellStep
<1> QED  BY <1>1, <1>2, Invariant, PTL DEF Spec, ImplementsCell, Cell!CellSpec
==============================================================================
