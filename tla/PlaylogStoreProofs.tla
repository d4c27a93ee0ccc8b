-------------------------- MODULE PlaylogStoreProofs --------------------------
(***************************************************************************)
(* Theorems about PlaylogStore, for every set of clients, frames and       *)
(* values.  The first group needs no assumption about the callers; the     *)
(* second one takes ArchiveAfterDrain, which the violation run of the      *)
(* store shows to be needed.                                               *)
(***************************************************************************)
EXTENDS PlaylogStore, TLAPS

------------------------------------------------------------------------------
(* Inductive invariants.                                                   *)

(* Only the holder of the row lock is inside a locked section.             *)
LockInv == \A c \in Clients : pc[c] \in InLock => lock = c

(* What a bulk operation has read is there, and outside its loops a        *)
(* client's index is at the first collection.                              *)
SnapInv ==
  \A c \in Clients :
    /\ pc[c] \notin {"arcLoad", "arcStore", "rstLoad", "rstDelete", "rstInsert", "prnDelete"}
         => at[c] = 1
    /\ pc[c] \in {"arcLoad", "rstLoad"} =>
         \A k \in Coll : k < at[c] => snap[c][k] # NoObject
    /\ pc[c] \in {"arcStore", "arcSet", "rstDelete", "rstInsert"} =>
         \A k \in Coll : snap[c][k] # NoObject

(* What an archiver has read and stored when it reaches a step.            *)
ArchiverInv ==
  \A c \in Clients :
    /\ pc[c] \in {"arcLoad", "arcStore", "arcSet"} => ~hasArchived
    /\ pc[c] \in {"arcStore", "arcSet"} => ~NoData(snap[c])
    /\ pc[c] = "arcStore" => \A k \in Coll : k < at[c] => archive[k] = snap[c][k]
    /\ pc[c] = "arcSet" => archive = snap[c]

(* A pruner past its checks works on an archived play.                     *)
PrunerInv ==
  \A c \in Clients :
    /\ pc[c] \in {"prnSet", "prnDelete"} => hasArchived
    /\ pc[c] = "prnDelete" => shouldGetFromArchive

SafetyInv == SnapInv /\ LockInv /\ ArchiverInv /\ PrunerInv /\ ArchiveComplete
StoreInv == TypeOK /\ SafetyInv

(* Writers and archivers do not meet.                                      *)
DrainInv ==
  /\ \A c, d \in Clients : pc[c] \in Archiving => pc[d] \notin Writing
  /\ hasArchived =>
       \A d \in Clients : pc[d] \notin {"putInsert", "updFirst", "updProbe", "updSecond"}

(* An archiver's copy is the active store, so far as it has got.           *)
CopyInv ==
  \A c \in Clients :
    /\ pc[c] = "arcLoad" => \A k \in Coll : k < at[c] => snap[c][k] = active[k]
    /\ pc[c] \in {"arcStore", "arcSet"} => snap[c] = active

(* A restore works on a pruned play and rebuilds the archive's content     *)
(* collection by collection.                                               *)
RestorerInv ==
  \A c \in Clients :
    /\ pc[c] \in {"rstLoad", "rstDelete", "rstInsert", "rstClear"} => shouldGetFromArchive
    /\ pc[c] = "rstCommit" => ~shouldGetFromArchive
    /\ pc[c] = "rstLoad" => \A k \in Coll : k < at[c] => snap[c][k] = archive[k]
    /\ pc[c] \in {"rstDelete", "rstInsert"} => snap[c] = archive
    /\ pc[c] = "rstDelete" => \A k \in Coll : k < at[c] => active[k] = Empty
    /\ pc[c] = "rstInsert" =>
         \A k \in Coll : active[k] = IF k < at[c] THEN archive[k] ELSE Empty
    /\ pc[c] = "rstClear" => active = archive

(* Both stores agree while the play is archived and not pruned.            *)
MirrorInv == hasArchived /\ ~shouldGetFromArchive => active = archive

(* A reader no prune has started under finds the play unpruned.            *)
ReaderInv ==
  \A c \in Clients :
    pc[c] \in {"getRead", "getFallback"} /\ c \notin overlap => ~shouldGetFromArchive

DrainedInv == DrainInv /\ CopyInv /\ RestorerInv /\ MirrorInv /\ ReaderInv

------------------------------------------------------------------------------
(* Lemmas on the operators the actions are built from.                     *)

(* An empty collection is a collection, and the argument of a call that    *)
(* takes none is an argument.                                              *)
LEMMA Constants ==
  /\ Empty \in Docs
  /\ NoArg \in Args
  /\ NoSnap \in [Coll -> Objects]
  /\ NoObject \notin Docs
BY FramesAssumption, ValuesAssumption, NoObjectAssumption
   DEF Empty, Docs, NoArg, Args, NoSnap, Objects, Coll, Original

(* The end of a call keeps the types of what it resets.                    *)
LEMMA LeaveType ==
  ASSUME TypeOK, NEW c \in Clients, Leave(c)
  PROVE  /\ lock' \in Clients \cup {NoClient}
         /\ pc' \in [Clients -> PCs]
         /\ at' \in [Clients -> Coll]
         /\ arg' \in [Clients -> Args]
         /\ snap' \in [Clients -> [Coll -> Objects]]
         /\ overlap' \subseteq Clients
BY Constants DEF TypeOK, Leave, Goto, PCs, Coll

(* A step of a loop over the collections keeps the index in range.         *)
LEMMA LoopType ==
  ASSUME TypeOK, NEW c \in Clients, NEW l \in PCs, NEW n \in PCs, Loop(c, l, n)
  PROVE  /\ pc' \in [Clients -> PCs]
         /\ at' \in [Clients -> Coll]
BY DEF TypeOK, Loop, Goto, Coll

(* So does a call.                                                         *)
LEMMA CallType ==
  ASSUME TypeOK, NEW c \in Clients, NEW l \in PCs, NEW a \in Args, Call(c, l, a)
  PROVE  TypeOK'
BY DEF TypeOK, Call, Goto, stores, flags

(* And taking the lock.                                                    *)
LEMMA LockType ==
  ASSUME TypeOK, NEW c \in Clients, NEW l \in PCs, NEW n \in PCs, WithPlaylogLock(c, l, n)
  PROVE  TypeOK'
<1>1. CASE ~hasRow
  BY <1>1, LeaveType DEF TypeOK, WithPlaylogLock, stores, flags
<1>2. CASE hasRow
  BY <1>2 DEF TypeOK, WithPlaylogLock, Goto, stores, flags, locals
<1> QED  BY <1>1, <1>2

------------------------------------------------------------------------------
(* The steps of a client, one by one.                                      *)
LEMMA TypeStep == TypeOK /\ SnapInv /\ [Next]_vars => TypeOK'
<1> SUFFICES ASSUME TypeOK, SnapInv, [Next]_vars PROVE TypeOK'
  OBVIOUS
<1> USE Constants
<1>1. CASE SetPlaying
  BY <1>1 DEF SetPlaying, TypeOK, stores, flags, locals
<1>2. CASE UNCHANGED vars
  BY <1>2 DEF vars, TypeOK
<1>3. ASSUME NEW c \in Clients, Fail(c) PROVE TypeOK'
  BY <1>3, LeaveType DEF Fail, TypeOK, stores, flags
<1>4. ASSUME NEW c \in Clients, Commit(c) PROVE TypeOK'
  BY <1>4, LeaveType DEF Commit, TypeOK, stores, flags
<1>5. ASSUME NEW c \in Clients, Write(c) PROVE TypeOK'
  <2>1. CASE CallPut(c)
    BY <2>1, CallType DEF CallPut, PCs, Writing
  <2>2. CASE CallUpdateTick(c)
    BY <2>2, CallType DEF CallUpdateTick, PCs, Writing
  <2>3. ASSUME NEW l, NEW n \in PCs, CheckNotArchived(c, l, n) PROVE TypeOK'
    BY <2>3, LeaveType DEF CheckNotArchived, TypeOK, Goto, stores, flags, locals
  <2>4. CASE PutInsert(c)
    <3>1. active' \in [Coll -> Docs]
      BY <2>4 DEF PutInsert, TypeOK, Args, Docs
    <3> QED  BY <2>4, <3>1, LeaveType DEF PutInsert, TypeOK, flags
  <2>5. WriteOriginal(c) => active' \in [Coll -> Docs]
    BY DEF WriteOriginal, TypeOK, Args, Docs, Coll, Original
  <2>6. CASE UpdFirst(c)
    BY <2>5, <2>6 DEF UpdFirst, TypeOK, Goto, PCs, Writing, flags, locals
  <2>7. CASE UpdProbe(c)
    BY <2>7, LeaveType DEF UpdProbe, TypeOK, Goto, PCs, Writing, stores, flags, locals
  <2>8. CASE UpdSecond(c)
    BY <2>5, <2>8, LeaveType DEF UpdSecond, TypeOK, flags
  <2> QED
    BY <1>5, <2>1, <2>2, <2>3, <2>4, <2>6, <2>7, <2>8 DEF Write, PCs, Writing
<1>6. ASSUME NEW c \in Clients, Get(c) PROVE TypeOK'
  <2>1. CASE CallGet(c)
    <3>1. PICK k \in Coll : Call(c, "getCheck", [NoArg EXCEPT !.coll = k])
      BY <2>1 DEF CallGet
    <3>2. [NoArg EXCEPT !.coll = k] \in Args
      BY DEF Args
    <3> QED  BY <3>1, <3>2, CallType DEF PCs, Reading
  <2>2. CASE GetCheck(c)
    BY <2>2 DEF GetCheck, TypeOK, Goto, PCs, Reading, Restoring, stores, flags, locals
  <2>3. CASE GetRead(c)
    BY <2>3, LeaveType DEF GetRead, TypeOK, Goto, PCs, Reading, stores, flags, locals
  <2>4. CASE GetFallback(c)
    BY <2>4, LeaveType DEF GetFallback, TypeOK, stores, flags
  <2>5. CASE WithPlaylogLock(c, "rstLock", "rstCheck")
    BY <2>5, LockType DEF PCs, Restoring
  <2>6. CASE RstCheck(c)
    BY <2>6 DEF RstCheck, TypeOK, Goto, PCs, Restoring, stores, flags, locals
  <2>7. CASE RstLoad(c)
    <3> DEFINE s == [snap[c] EXCEPT ![at[c]] = archive[at[c]]]
    <3>1. s \in [Coll -> Objects]
      BY DEF TypeOK
    <3>2. CASE archive[at[c]] = NoObject \/ (at[c] = 3 /\ NoData(s))
      BY <2>7, <3>2, LeaveType DEF RstLoad, TypeOK, stores, flags
    <3>3. CASE ~(archive[at[c]] = NoObject \/ (at[c] = 3 /\ NoData(s)))
      <4>1. snap' = [snap EXCEPT ![c] = s] /\ Loop(c, "rstLoad", "rstDelete")
        BY <2>7, <3>3 DEF RstLoad
      <4> QED
        BY <2>7, <3>1, <3>3, <4>1, LoopType DEF RstLoad, TypeOK, PCs, Restoring, stores, flags
    <3> QED  BY <3>2, <3>3
  <2>8. CASE DeleteMany(c, "rstDelete", "rstInsert")
    BY <2>8, LoopType DEF DeleteMany, TypeOK, PCs, Restoring, flags
  <2>9. CASE RstInsert(c)
    <3>1. snap[c][at[c]] \in Docs
      BY <2>9 DEF RstInsert, TypeOK, SnapInv, Objects
    <3>2. active' \in [Coll -> Docs]
      BY <2>9, <3>1 DEF RstInsert, TypeOK, Docs
    <3>3. CASE Leave(c)
      BY <2>9, <3>2, <3>3, LeaveType DEF RstInsert, TypeOK, flags
    <3>4. CASE ~Leave(c)
      BY <2>9, <3>2, <3>4, LoopType DEF RstInsert, TypeOK, PCs, Restoring, flags
    <3> QED  BY <3>3, <3>4
  <2>10. CASE RstClear(c)
    BY <2>10 DEF RstClear, TypeOK, Goto, PCs, Restoring, stores, locals
  <2>11. CASE RstCommit(c)
    BY <2>11 DEF RstCommit, TypeOK, Goto, PCs, Reading, stores, flags
  <2> QED
    BY <1>6, <2>1, <2>2, <2>3, <2>4, <2>5, <2>6, <2>7, <2>8, <2>9, <2>10, <2>11 DEF Get
<1>7. ASSUME NEW c \in Clients, CreateArchive(c) PROVE TypeOK'
  <2>1. CASE CallCreateArchive(c)
    BY <2>1, CallType DEF CallCreateArchive, PCs, Archiving
  <2>2. CASE WithPlaylogLock(c, "arcLock", "arcCheck")
    BY <2>2, LockType DEF PCs, Archiving
  <2>3. CASE ArcCheck(c)
    BY <2>3 DEF ArcCheck, TypeOK, Goto, PCs, Archiving, stores, flags, locals
  <2>4. CASE ArcLoad(c)
    <3> DEFINE s == [snap[c] EXCEPT ![at[c]] = active[at[c]]]
    <3>1. s \in [Coll -> Objects]
      BY DEF TypeOK, Objects
    <3>2. CASE at[c] = 3 /\ NoData(s)
      BY <2>4, <3>2, LeaveType DEF ArcLoad, TypeOK, stores, flags
    <3>3. CASE ~(at[c] = 3 /\ NoData(s))
      <4>1. snap' = [snap EXCEPT ![c] = s] /\ Loop(c, "arcLoad", "arcStore")
        BY <2>4, <3>3 DEF ArcLoad
      <4> QED
        BY <2>4, <3>1, <3>3, <4>1, LoopType DEF ArcLoad, TypeOK, PCs, Archiving, stores, flags
    <3> QED  BY <3>2, <3>3
  <2>5. CASE ArcStore(c)
    BY <2>5, LoopType DEF ArcStore, TypeOK, PCs, Archiving, flags
  <2>6. CASE ArcSet(c)
    BY <2>6 DEF ArcSet, TypeOK, Goto, PCs, stores, locals
  <2> QED  BY <1>7, <2>1, <2>2, <2>3, <2>4, <2>5, <2>6 DEF CreateArchive
<1>8. ASSUME NEW c \in Clients, PruneActive(c) PROVE TypeOK'
  <2>1. CASE CallPruneActive(c)
    BY <2>1, CallType DEF CallPruneActive, PCs, Pruning
  <2>2. CASE WithPlaylogLock(c, "prnLock", "prnCheck")
    BY <2>2, LockType DEF PCs, Pruning
  <2>3. CASE PrnCheck(c)
    BY <2>3 DEF PrnCheck, TypeOK, Goto, PCs, Pruning, stores, flags, locals
  <2>4. CASE PrnCheckHas(c)
    BY <2>4, LeaveType DEF PrnCheckHas, TypeOK, Goto, PCs, Pruning, stores, flags, locals
  <2>5. CASE PrnSet(c)
    BY <2>5 DEF PrnSet, TypeOK, Goto, PCs, Pruning, stores, locals
  <2>6. CASE DeleteMany(c, "prnDelete", "commit")
    BY <2>6, LoopType DEF DeleteMany, TypeOK, PCs, Pruning, flags
  <2> QED  BY <1>8, <2>1, <2>2, <2>3, <2>4, <2>5, <2>6 DEF PruneActive
<1> QED
  BY <1>1, <1>2, <1>3, <1>4, <1>5, <1>6, <1>7, <1>8 DEF Next, Step

------------------------------------------------------------------------------
(* The end of a call, normal or not, keeps the safety of the archive.      *)
LEMMA LeaveSafe ==
  ASSUME TypeOK, SafetyInv, NEW c \in Clients, Leave(c), UNCHANGED <<archive, flags>>
  PROVE  SafetyInv'
BY NoClientAssumption
   DEF Leave, Goto, flags, TypeOK, SafetyInv, SnapInv, LockInv, ArchiverInv, PrunerInv,
       ArchiveComplete, InLock, Restoring, Archiving, Pruning, LockWaits

(* No step, of any client and with any failure, breaks the safety of the   *)
(* archive.                                                                *)
LEMMA SafetyStep == TypeOK /\ SafetyInv /\ [Next]_vars => SafetyInv'
<1> SUFFICES ASSUME TypeOK, SafetyInv, [Next]_vars PROVE SafetyInv'
  OBVIOUS
<1> USE NoClientAssumption, Constants
      DEF SafetyInv, SnapInv, LockInv, ArchiverInv, PrunerInv, ArchiveComplete, TypeOK,
          InLock, Restoring, Archiving, Pruning, LockWaits, Coll,
          stores, flags, locals, Goto
<1>1. CASE SetPlaying
  BY <1>1 DEF SetPlaying
<1>2. CASE UNCHANGED vars
  BY <1>2 DEF vars
<1>3. ASSUME NEW c \in Clients, Fail(c) PROVE SafetyInv'
  BY <1>3, LeaveSafe DEF Fail
<1>4. ASSUME NEW c \in Clients, Commit(c) PROVE SafetyInv'
  BY <1>4, LeaveSafe DEF Commit
<1>5. ASSUME NEW c \in Clients, Write(c) PROVE SafetyInv'
  <2>1. CASE CallPut(c)
    BY <2>1 DEF CallPut, Call
  <2>2. CASE CallUpdateTick(c)
    BY <2>2 DEF CallUpdateTick, Call
  <2>3. CASE CheckNotArchived(c, "putCheck", "putInsert")
    BY <2>3 DEF CheckNotArchived, Leave
  <2>4. CASE PutInsert(c)
    BY <2>4, LeaveSafe DEF PutInsert
  <2>5. CASE CheckNotArchived(c, "updCheck", "updFirst")
    BY <2>5 DEF CheckNotArchived, Leave
  <2>6. CASE UpdFirst(c)
    BY <2>6 DEF UpdFirst
  <2>7. CASE UpdProbe(c)
    <3>1. CASE active[Original][1] = NoDoc
      BY <2>7, <3>1, LeaveSafe DEF UpdProbe
    <3>2. CASE active[Original][1] # NoDoc
      BY <2>7, <3>2 DEF UpdProbe
    <3> QED  BY <3>1, <3>2
  <2>8. CASE UpdSecond(c)
    BY <2>8, LeaveSafe DEF UpdSecond
  <2> QED  BY <1>5, <2>1, <2>2, <2>3, <2>4, <2>5, <2>6, <2>7, <2>8 DEF Write
<1>6. ASSUME NEW c \in Clients, Get(c) PROVE SafetyInv'
  <2>1. CASE CallGet(c)
    BY <2>1 DEF CallGet, Call
  <2>2. CASE GetCheck(c)
    BY <2>2 DEF GetCheck
  <2>3. CASE GetRead(c)
    BY <2>3 DEF GetRead, Leave
  <2>4. CASE GetFallback(c)
    BY <2>4, LeaveSafe DEF GetFallback
  <2>5. CASE WithPlaylogLock(c, "rstLock", "rstCheck")
    <3>1. CASE ~hasRow
      BY <2>5, <3>1, LeaveSafe DEF WithPlaylogLock
    <3>2. CASE hasRow
      BY <2>5, <3>2 DEF WithPlaylogLock
    <3> QED  BY <3>1, <3>2
  <2>6. CASE RstCheck(c)
    BY <2>6 DEF RstCheck
  <2>7. CASE RstLoad(c)
    <3> DEFINE s == [snap[c] EXCEPT ![at[c]] = archive[at[c]]]
    <3>1. CASE archive[at[c]] = NoObject \/ (at[c] = 3 /\ NoData(s))
      BY <2>7, <3>1, LeaveSafe DEF RstLoad
    <3>2. CASE ~(archive[at[c]] = NoObject \/ (at[c] = 3 /\ NoData(s)))
      <4>1. /\ pc[c] = "rstLoad"
            /\ snap' = [snap EXCEPT ![c] = s]
            /\ Loop(c, "rstLoad", "rstDelete")
            /\ UNCHANGED <<lock, stores, flags>>
        BY <2>7, <3>2 DEF RstLoad
      <4>2. CASE at[c] < 3
        BY <3>2, <4>1, <4>2 DEF Loop
      <4>3. CASE at[c] = 3
        BY <3>2, <4>1, <4>3 DEF Loop, Objects
      <4> QED  BY <4>2, <4>3 DEF TypeOK, Coll
    <3> QED  BY <3>1, <3>2
  <2>8. CASE DeleteMany(c, "rstDelete", "rstInsert")
    BY <2>8 DEF DeleteMany, Loop
  <2>9. CASE RstInsert(c)
    BY <2>9 DEF RstInsert, Loop, Leave
  <2>10. CASE RstClear(c)
    BY <2>10 DEF RstClear
  <2>11. CASE RstCommit(c)
    BY <2>11 DEF RstCommit
  <2> QED  BY <1>6, <2>1, <2>2, <2>3, <2>4, <2>5, <2>6, <2>7, <2>8, <2>9, <2>10, <2>11 DEF Get
<1>7. ASSUME NEW c \in Clients, CreateArchive(c) PROVE SafetyInv'
  <2>1. CASE CallCreateArchive(c)
    BY <2>1 DEF CallCreateArchive, Call
  <2>2. CASE WithPlaylogLock(c, "arcLock", "arcCheck")
    <3>1. CASE ~hasRow
      BY <2>2, <3>1, LeaveSafe DEF WithPlaylogLock
    <3>2. CASE hasRow
      BY <2>2, <3>2 DEF WithPlaylogLock
    <3> QED  BY <3>1, <3>2
  <2>3. CASE ArcCheck(c)
    BY <2>3 DEF ArcCheck
  <2>4. CASE ArcLoad(c)
    <3> DEFINE s == [snap[c] EXCEPT ![at[c]] = active[at[c]]]
    <3>1. CASE at[c] = 3 /\ NoData(s)
      BY <2>4, <3>1, LeaveSafe DEF ArcLoad
    <3>2. CASE ~(at[c] = 3 /\ NoData(s))
      <4>1. /\ pc[c] = "arcLoad"
            /\ snap' = [snap EXCEPT ![c] = s]
            /\ Loop(c, "arcLoad", "arcStore")
            /\ UNCHANGED <<lock, stores, flags>>
        BY <2>4, <3>2 DEF ArcLoad
      <4>2. CASE at[c] < 3
        BY <3>2, <4>1, <4>2 DEF Loop
      <4>3. CASE at[c] = 3
        BY <3>2, <4>1, <4>3 DEF Loop, Objects
      <4> QED  BY <4>2, <4>3 DEF TypeOK, Coll
    <3> QED  BY <3>1, <3>2
  <2>5. CASE ArcStore(c)
    BY <2>5 DEF ArcStore, Loop
  <2>6. CASE ArcSet(c)
    BY <2>6 DEF ArcSet, NoData
  <2> QED  BY <1>7, <2>1, <2>2, <2>3, <2>4, <2>5, <2>6 DEF CreateArchive
<1>8. ASSUME NEW c \in Clients, PruneActive(c) PROVE SafetyInv'
  <2>1. CASE CallPruneActive(c)
    BY <2>1 DEF CallPruneActive, Call
  <2>2. CASE WithPlaylogLock(c, "prnLock", "prnCheck")
    <3>1. CASE ~hasRow
      BY <2>2, <3>1, LeaveSafe DEF WithPlaylogLock
    <3>2. CASE hasRow
      BY <2>2, <3>2 DEF WithPlaylogLock
    <3> QED  BY <3>1, <3>2
  <2>3. CASE PrnCheck(c)
    BY <2>3 DEF PrnCheck
  <2>4. CASE PrnCheckHas(c)
    BY <2>4 DEF PrnCheckHas, Leave
  <2>5. CASE PrnSet(c)
    BY <2>5 DEF PrnSet
  <2>6. CASE DeleteMany(c, "prnDelete", "commit")
    BY <2>6 DEF DeleteMany, Loop
  <2> QED  BY <1>8, <2>1, <2>2, <2>3, <2>4, <2>5, <2>6 DEF PruneActive
<1> QED
  BY <1>1, <1>2, <1>3, <1>4, <1>5, <1>6, <1>7, <1>8 DEF Next, Step

(* The first state has the types and the safety of the archive.            *)
LEMMA InitSafe == Init => StoreInv
<1> SUFFICES ASSUME Init PROVE StoreInv
  OBVIOUS
<1>1. active \in [Coll -> Docs] /\ archive \in [Coll -> Objects]
  BY Constants DEF Init
<1>2. /\ pc \in [Clients -> PCs]
      /\ at \in [Clients -> Coll]
      /\ arg \in [Clients -> Args]
      /\ snap \in [Clients -> [Coll -> Objects]]
  BY Constants DEF Init, PCs, Coll
<1>3. TypeOK
  BY <1>1, <1>2 DEF Init, TypeOK
<1>4. SafetyInv
  BY DEF Init, SafetyInv, SnapInv, LockInv, ArchiverInv, PrunerInv, ArchiveComplete,
         InLock, Restoring, Archiving, Pruning, LockWaits
<1> QED  BY <1>3, <1>4 DEF StoreInv

(* The invariant of the archive holds in every reachable state.            *)
THEOREM Safe == Spec => []StoreInv
<1>1. StoreInv /\ [Next]_vars => StoreInv'
  BY TypeStep, SafetyStep DEF StoreInv, SafetyInv
<1> QED  BY <1>1, InitSafe, PTL DEF Spec

(* So does the type invariant.                                             *)
THEOREM Typed == Spec => []TypeOK
<1>1. StoreInv => TypeOK
  BY DEF StoreInv
<1> QED  BY <1>1, Safe, PTL

(* No play is ever half archived (createArchive, pruneActive), whatever    *)
(* fails between two steps and however the calls interleave: a play marked *)
(* archived or pruned has all its objects, and data in them.               *)
THEOREM ArchiveIsComplete == Spec => []ArchiveComplete
<1>1. StoreInv => ArchiveComplete
  BY DEF StoreInv, SafetyInv
<1> QED  BY <1>1, Safe, PTL

(* The archive of a play is written once.                                  *)
THEOREM ArchiveIsFrozen == Spec => ArchiveFrozen
<1>1. StoreInv /\ [Next]_vars => [hasArchived => hasArchived' /\ archive' = archive]_vars
  <2> SUFFICES ASSUME StoreInv, Next, hasArchived
               PROVE  hasArchived' /\ archive' = archive
    BY DEF vars
  <2>1. CASE SetPlaying
    BY <2>1 DEF SetPlaying, stores, flags
  <2>2. ASSUME NEW c \in Clients, Write(c) PROVE hasArchived' /\ archive' = archive
    BY <2>2 DEF Write, CallPut, CallUpdateTick, Call, CheckNotArchived, PutInsert, UpdFirst,
               UpdProbe, UpdSecond, stores, flags
  <2>3. ASSUME NEW c \in Clients, Get(c) PROVE hasArchived' /\ archive' = archive
    BY <2>3 DEF Get, CallGet, Call, GetCheck, GetRead, GetFallback, WithPlaylogLock, RstCheck,
               RstLoad, DeleteMany, RstInsert, RstClear, RstCommit, stores, flags
  <2>4. ASSUME NEW c \in Clients, CreateArchive(c) PROVE hasArchived' /\ archive' = archive
    <3>1. pc[c] # "arcStore"
      BY DEF StoreInv, SafetyInv, ArchiverInv
    <3> QED
      BY <2>4, <3>1 DEF CreateArchive, CallCreateArchive, Call, WithPlaylogLock, ArcCheck,
                       ArcLoad, ArcStore, ArcSet, stores, flags
  <2>5. ASSUME NEW c \in Clients, PruneActive(c) PROVE hasArchived' /\ archive' = archive
    BY <2>5 DEF PruneActive, CallPruneActive, Call, WithPlaylogLock, PrnCheck, PrnCheckHas,
               PrnSet, DeleteMany, stores, flags
  <2>6. ASSUME NEW c \in Clients, Commit(c) \/ Fail(c) PROVE hasArchived' /\ archive' = archive
    BY <2>6 DEF Commit, Fail, stores, flags
  <2> QED  BY <2>1, <2>2, <2>3, <2>4, <2>5, <2>6 DEF Next, Step
<1> QED  BY <1>1, Safe, PTL DEF Spec, ArchiveFrozen

------------------------------------------------------------------------------
(* The same for the invariant of the drained store.                        *)
LEMMA LeaveDrained ==
  ASSUME TypeOK, SafetyInv, DrainedInv,
         NEW c \in Clients, Leave(c), UNCHANGED <<stores, flags>>
  PROVE  DrainedInv'
BY NoClientAssumption
   DEF Leave, Goto, stores, flags, TypeOK, DrainedInv, DrainInv, CopyInv, RestorerInv,
       MirrorInv, ReaderInv, Archiving, Writing

(* When plays are archived only after their writers are done, no step      *)
(* separates the active store from the archive.                            *)
LEMMA DrainedStep ==
  ArchiveAfterDrain /\ TypeOK /\ SafetyInv /\ DrainedInv /\ [Next]_vars => DrainedInv'
<1> SUFFICES ASSUME ArchiveAfterDrain, TypeOK, SafetyInv, DrainedInv, [Next]_vars
             PROVE  DrainedInv'
  OBVIOUS
<1> USE NoClientAssumption, Constants
      DEF DrainedInv, DrainInv, CopyInv, RestorerInv, MirrorInv, ReaderInv,
          SafetyInv, SnapInv, LockInv, ArchiverInv, PrunerInv, ArchiveComplete, TypeOK,
          InLock, Writing, Restoring, Archiving, Pruning, LockWaits, Coll,
          stores, flags, locals, Goto
<1>1. CASE SetPlaying
  BY <1>1 DEF SetPlaying
<1>2. CASE UNCHANGED vars
  BY <1>2 DEF vars
<1>3. ASSUME NEW c \in Clients, Fail(c) PROVE DrainedInv'
  BY <1>3, LeaveDrained DEF Fail
<1>4. ASSUME NEW c \in Clients, Commit(c) PROVE DrainedInv'
  BY <1>4, LeaveDrained DEF Commit
<1>5. ASSUME NEW c \in Clients, Write(c) PROVE DrainedInv'
  <2>1. CASE CallPut(c)
    BY <2>1 DEF CallPut, Call, WritesAllowed
  <2>2. CASE CallUpdateTick(c)
    BY <2>2 DEF CallUpdateTick, Call, WritesAllowed
  <2>3. CASE CheckNotArchived(c, "putCheck", "putInsert")
    <3>1. CASE hasArchived
      BY <2>3, <3>1, LeaveDrained DEF CheckNotArchived
    <3>2. CASE ~hasArchived
      BY <2>3, <3>2 DEF CheckNotArchived
    <3> QED  BY <3>1, <3>2
  <2>4. CASE PutInsert(c)
    <3>1. ~hasArchived /\ \A d \in Clients : pc[d] \notin Archiving
      BY <2>4 DEF PutInsert
    <3>2. \A d \in Clients : pc[d] \notin {"rstLoad", "rstDelete", "rstInsert", "rstClear"}
      BY <3>1
    <3>3. /\ pc' = [pc EXCEPT ![c] = "idle"]
          /\ overlap' = overlap \ {c}
          /\ UNCHANGED <<archive, flags>>
      BY <2>4 DEF PutInsert, Leave
    <3> QED
      BY <3>1, <3>2, <3>3
  <2>5. CASE CheckNotArchived(c, "updCheck", "updFirst")
    <3>1. CASE hasArchived
      BY <2>5, <3>1, LeaveDrained DEF CheckNotArchived
    <3>2. CASE ~hasArchived
      BY <2>5, <3>2 DEF CheckNotArchived
    <3> QED  BY <3>1, <3>2
  <2>6. CASE UpdFirst(c)
    BY <2>6 DEF UpdFirst
  <2>7. CASE UpdProbe(c)
    <3>1. CASE active[Original][1] = NoDoc
      BY <2>7, <3>1, LeaveDrained DEF UpdProbe
    <3>2. CASE active[Original][1] # NoDoc
      BY <2>7, <3>2 DEF UpdProbe
    <3> QED  BY <3>1, <3>2
  <2>8. CASE UpdSecond(c)
    BY <2>8 DEF UpdSecond, Leave
  <2> QED  BY <1>5, <2>1, <2>2, <2>3, <2>4, <2>5, <2>6, <2>7, <2>8 DEF Write
<1>6. ASSUME NEW c \in Clients, Get(c) PROVE DrainedInv'
  <2>1. CASE CallGet(c)
    BY <2>1 DEF CallGet, Call
  <2>2. CASE GetCheck(c)
    BY <2>2 DEF GetCheck
  <2>3. CASE GetRead(c)
    BY <2>3, SMTT(60) DEF GetRead, Leave
  <2>4. CASE GetFallback(c)
    BY <2>4, LeaveDrained DEF GetFallback
  <2>5. CASE WithPlaylogLock(c, "rstLock", "rstCheck")
    <3>1. CASE ~hasRow
      BY <2>5, <3>1, LeaveDrained DEF WithPlaylogLock
    <3>2. CASE hasRow
      BY <2>5, <3>2 DEF WithPlaylogLock
    <3> QED  BY <3>1, <3>2
  <2>6. CASE RstCheck(c)
    BY <2>6 DEF RstCheck
  <2>7. CASE RstLoad(c)
    <3> DEFINE s == [snap[c] EXCEPT ![at[c]] = archive[at[c]]]
    <3>1. CASE archive[at[c]] = NoObject \/ (at[c] = 3 /\ NoData(s))
      BY <2>7, <3>1, LeaveDrained DEF RstLoad
    <3>2. CASE ~(archive[at[c]] = NoObject \/ (at[c] = 3 /\ NoData(s)))
      <4>1. /\ pc[c] = "rstLoad"
            /\ snap' = [snap EXCEPT ![c] = s]
            /\ Loop(c, "rstLoad", "rstDelete")
            /\ UNCHANGED <<lock, overlap, stores, flags>>
        BY <2>7, <3>2 DEF RstLoad
      <4>2. \A k \in Coll : k <= at[c] => s[k] = archive[k]
        BY <4>1
      <4>3. s \in [Coll -> Objects]
        OBVIOUS
      <4>4. CASE at[c] < 3
        BY <3>2, <4>1, <4>2, <4>3, <4>4 DEF Loop
      <4>5. CASE at[c] = 3
        <5>1. s = archive
          BY <4>2, <4>3, <4>5
        <5> HIDE DEF s
        <5> QED  BY <4>1, <4>5, <5>1 DEF Loop
      <4> QED  BY <4>4, <4>5
    <3> QED  BY <3>1, <3>2
  <2>8. CASE DeleteMany(c, "rstDelete", "rstInsert")
    <3>1. hasArchived /\ shouldGetFromArchive /\ lock = c
      BY <2>8 DEF DeleteMany
    <3>2. CASE at[c] < 3
      BY <2>8, <3>1, <3>2 DEF DeleteMany, Loop
    <3>3. CASE at[c] = 3
      <4>1. \A k \in Coll : active'[k] = Empty
        BY <2>8, <3>3 DEF DeleteMany
      <4> QED  BY <2>8, <3>1, <3>3, <4>1, SMTT(30) DEF DeleteMany, Loop
    <3> QED  BY <3>2, <3>3
  <2>9. CASE RstInsert(c)
    <3>1. hasArchived /\ shouldGetFromArchive /\ lock = c
      BY <2>9 DEF RstInsert
    <3>2. snap[c] = archive /\ active[at[c]] = Empty /\ archive[at[c]] \in Docs
      BY <2>9 DEF RstInsert, Objects
    <3>3. Taken(c) = {}
      BY <3>2 DEF Taken, Empty
    <3>4. active' = [active EXCEPT ![at[c]] = archive[at[c]]]
      <4>1. \A f \in Frames : IF f \in Batch(c) THEN TRUE ELSE archive[at[c]][f] = NoDoc
        BY <3>2, <3>3 DEF Batch
      <4>2. [f \in Frames |-> IF f \in Batch(c) THEN snap[c][at[c]][f] ELSE active[at[c]][f]]
              = archive[at[c]]
        BY <3>2, <4>1 DEF Empty, Docs
      <4> QED  BY <2>9, <4>2 DEF RstInsert
    <3>5. CASE snap[c][at[c]] = Empty
      <4>1. Leave(c) /\ pc[c] = "rstInsert" /\ UNCHANGED <<archive, flags>>
        BY <2>9, <3>5 DEF RstInsert
      <4> QED  BY <3>1, <4>1 DEF Leave
    <3>6. CASE snap[c][at[c]] # Empty
      <4>1. /\ Loop(c, "rstInsert", "rstClear")
            /\ UNCHANGED <<lock, snap, overlap, archive, flags>>
        BY <2>9, <3>3, <3>6 DEF RstInsert
      <4>2. pc[c] = "rstInsert"
        BY <2>9 DEF RstInsert
      <4>3. CASE at[c] < 3
        BY <3>1, <3>2, <3>4, <4>1, <4>2, <4>3, SMTT(30) DEF Loop
      <4>4. CASE at[c] = 3
        <5>1. \A k \in Coll : active'[k] = archive[k]
          BY <3>4, <4>2, <4>4
        <5>2. active' = archive
          BY <3>4, <5>1
        <5>3. /\ pc' = [pc EXCEPT ![c] = "rstClear"]
              /\ at' = [at EXCEPT ![c] = 1]
          BY <4>1, <4>4 DEF Loop
        <5> QED  BY <3>1, <4>1, <4>2, <5>2, <5>3, ZenonT(60)
      <4> QED  BY <4>3, <4>4
    <3> QED  BY <3>5, <3>6
  <2>10. CASE RstClear(c)
    BY <2>10 DEF RstClear
  <2>11. CASE RstCommit(c)
    BY <2>11 DEF RstCommit
  <2> QED  BY <1>6, <2>1, <2>2, <2>3, <2>4, <2>5, <2>6, <2>7, <2>8, <2>9, <2>10, <2>11 DEF Get
<1>7. ASSUME NEW c \in Clients, CreateArchive(c) PROVE DrainedInv'
  <2>1. CASE CallCreateArchive(c)
    BY <2>1 DEF CallCreateArchive, Call
  <2>2. CASE WithPlaylogLock(c, "arcLock", "arcCheck")
    <3>1. CASE ~hasRow
      BY <2>2, <3>1, LeaveDrained DEF WithPlaylogLock
    <3>2. CASE hasRow
      BY <2>2, <3>2 DEF WithPlaylogLock
    <3> QED  BY <3>1, <3>2
  <2>3. CASE ArcCheck(c)
    BY <2>3 DEF ArcCheck
  <2>4. CASE ArcLoad(c)
    <3> DEFINE s == [snap[c] EXCEPT ![at[c]] = active[at[c]]]
    <3>1. CASE at[c] = 3 /\ NoData(s)
      BY <2>4, <3>1, LeaveDrained DEF ArcLoad
    <3>2. CASE ~(at[c] = 3 /\ NoData(s))
      <4>1. /\ pc[c] = "arcLoad"
            /\ snap' = [snap EXCEPT ![c] = s]
            /\ Loop(c, "arcLoad", "arcStore")
            /\ UNCHANGED <<lock, stores, flags>>
        BY <2>4, <3>2 DEF ArcLoad
      <4>2. CASE at[c] < 3
        BY <3>2, <4>1, <4>2 DEF Loop
      <4>3. CASE at[c] = 3
        BY <3>2, <4>1, <4>3 DEF Loop, Objects
      <4> QED  BY <4>2, <4>3 DEF TypeOK, Coll
    <3> QED  BY <3>1, <3>2
  <2>5. CASE ArcStore(c)
    BY <2>5 DEF ArcStore, Loop
  <2>6. CASE ArcSet(c)
    BY <2>6 DEF ArcSet, NoData
  <2> QED  BY <1>7, <2>1, <2>2, <2>3, <2>4, <2>5, <2>6 DEF CreateArchive
<1>8. ASSUME NEW c \in Clients, PruneActive(c) PROVE DrainedInv'
  <2>1. CASE CallPruneActive(c)
    BY <2>1 DEF CallPruneActive, Call
  <2>2. CASE WithPlaylogLock(c, "prnLock", "prnCheck")
    <3>1. CASE ~hasRow
      BY <2>2, <3>1, LeaveDrained DEF WithPlaylogLock
    <3>2. CASE hasRow
      BY <2>2, <3>2 DEF WithPlaylogLock
    <3> QED  BY <3>1, <3>2
  <2>3. CASE PrnCheck(c)
    BY <2>3 DEF PrnCheck
  <2>4. CASE PrnCheckHas(c)
    BY <2>4 DEF PrnCheckHas, Leave
  <2>5. CASE PrnSet(c)
    BY <2>5 DEF PrnSet
  <2>6. CASE DeleteMany(c, "prnDelete", "commit")
    <3>1. hasArchived /\ shouldGetFromArchive /\ lock = c /\ pc[c] = "prnDelete"
      BY <2>6 DEF DeleteMany
    <3>2. CASE at[c] < 3
      <4>1. pc' = [pc EXCEPT ![c] = "prnDelete"] /\ at' = [at EXCEPT ![c] = at[c] + 1]
        BY <2>6, <3>1, <3>2 DEF DeleteMany, Loop
      <4> QED  BY <2>6, <3>1, <4>1 DEF DeleteMany
    <3>3. CASE at[c] = 3
      <4>1. pc' = [pc EXCEPT ![c] = "commit"] /\ at' = [at EXCEPT ![c] = 1]
        BY <2>6, <3>1, <3>3 DEF DeleteMany, Loop
      <4> QED  BY <2>6, <3>1, <4>1 DEF DeleteMany
    <3> QED  BY <3>2, <3>3
  <2> QED  BY <1>8, <2>1, <2>2, <2>3, <2>4, <2>5, <2>6 DEF PruneActive
<1> QED
  BY <1>1, <1>2, <1>3, <1>4, <1>5, <1>6, <1>7, <1>8 DEF Next, Step

(* The invariant of the drained store holds in every reachable state.      *)
THEOREM Drained == ArchiveAfterDrain /\ Spec => [](StoreInv /\ DrainedInv)
<1> SUFFICES ASSUME ArchiveAfterDrain PROVE Spec => [](StoreInv /\ DrainedInv)
  OBVIOUS
<1>1. Init => DrainedInv
  BY DEF Init, DrainedInv, DrainInv, CopyInv, RestorerInv, MirrorInv, ReaderInv,
         Archiving, Writing
<1>2. StoreInv /\ DrainedInv /\ [Next]_vars => DrainedInv'
  BY DrainedStep DEF StoreInv
<1> QED  BY <1>1, <1>2, Safe, PTL DEF Spec

(* A reader of an archived play that no prune overtakes sees exactly the   *)
(* archive, in spite of restores, failed restores and failed prunes.       *)
THEOREM ReadsSeeArchive == ArchiveAfterDrain /\ Spec => []ReadSeesArchive
<1>1. DrainedInv => ReadSeesArchive
  BY DEF DrainedInv, MirrorInv, ReaderInv, ReadSeesArchive
<1> QED  BY <1>1, Drained, PTL

------------------------------------------------------------------------------
(* Refinement.                                                             *)

(* Every step of the store is a step of Playlog or leaves what callers see *)
(* as it is.                                                               *)
LEMMA RefinedStep ==
  ASSUME ArchiveAfterDrain, StoreInv, DrainedInv, [Next]_vars
  PROVE  [Abstract!PlaylogNext]_(Abstract!playlogVars)
<1> DEFINE Same == Visible' = Visible /\ hasArchived' = hasArchived
<1>0. Same => UNCHANGED Abstract!playlogVars
  BY DEF Abstract!playlogVars
<1> USE DEF StoreInv, TypeOK, SafetyInv, ArchiveComplete, DrainedInv, stores, flags
<1>1. CASE SetPlaying \/ UNCHANGED vars
  BY <1>0, <1>1 DEF SetPlaying, vars, Visible
<1>2. ASSUME NEW c \in Clients, Commit(c) \/ Fail(c)
      PROVE  [Abstract!PlaylogNext]_(Abstract!playlogVars)
  BY <1>0, <1>2 DEF Commit, Fail, Visible
<1>3. ASSUME NEW c \in Clients, Write(c)
      PROVE  [Abstract!PlaylogNext]_(Abstract!playlogVars)
  <2>1. CASE PutInsert(c)
    <3>1. ~hasArchived /\ Visible = active /\ Visible' = active'
      BY <2>1 DEF PutInsert, DrainInv, Visible
    <3>2. arg[c].coll \in Coll /\ arg[c].frame \in Frames /\ arg[c].value \in Values
      BY DEF Args
    <3>3. CASE active[arg[c].coll][arg[c].frame] = NoDoc
      <4>1. Abstract!Append(arg[c].coll, arg[c].frame, arg[c].value)
        BY <2>1, <3>1, <3>3 DEF PutInsert, Abstract!Append
      <4> QED  BY <3>2, <4>1 DEF Abstract!PlaylogNext, Abstract!Coll, Coll
    <3>4. CASE active[arg[c].coll][arg[c].frame] # NoDoc
      BY <1>0, <2>1, <3>1, <3>4 DEF PutInsert
    <3> QED  BY <3>3, <3>4
  <2>2. CASE UpdFirst(c) \/ UpdSecond(c)
    <3>1. ~hasArchived /\ Visible = active /\ Visible' = active'
      BY <2>2 DEF UpdFirst, UpdSecond, DrainInv, Visible
    <3>2. arg[c].frame \in Frames /\ arg[c].value \in Values
      BY DEF Args
    <3>3. WriteOriginal(c) /\ hasArchived' = hasArchived
      BY <2>2 DEF UpdFirst, UpdSecond
    <3>4. CASE active[Original][arg[c].frame] # NoDoc
      <4>1. Abstract!Update(arg[c].frame, arg[c].value)
        BY <3>1, <3>3, <3>4 DEF WriteOriginal, Abstract!Update, Abstract!Original, Original
      <4> QED  BY <3>2, <4>1 DEF Abstract!PlaylogNext
    <3>5. CASE active[Original][arg[c].frame] = NoDoc
      BY <1>0, <3>1, <3>3, <3>5 DEF WriteOriginal
    <3> QED  BY <3>4, <3>5
  <2>3. CASE Write(c) /\ ~PutInsert(c) /\ ~UpdFirst(c) /\ ~UpdSecond(c)
    BY <1>0, <2>3 DEF Write, CallPut, CallUpdateTick, Call, CheckNotArchived, UpdProbe, Visible
  <2> QED  BY <1>3, <2>1, <2>2, <2>3
<1>4. ASSUME NEW c \in Clients, Get(c)
      PROVE  [Abstract!PlaylogNext]_(Abstract!playlogVars)
  <2>1. CASE RstClear(c)
    BY <1>0, <2>1 DEF RstClear, RestorerInv, Visible
  <2>2. CASE RstInsert(c) \/ DeleteMany(c, "rstDelete", "rstInsert")
    BY <1>0, <2>2 DEF RstInsert, DeleteMany, RestorerInv, Visible
  <2>3. CASE /\ ~RstClear(c)
             /\ ~RstInsert(c)
             /\ ~DeleteMany(c, "rstDelete", "rstInsert")
    BY <1>0, <1>4, <2>3 DEF Get, CallGet, Call, GetCheck, GetRead, GetFallback, WithPlaylogLock,
                           RstCheck, RstLoad, RstCommit, Visible
  <2> QED  BY <2>1, <2>2, <2>3
<1>5. ASSUME NEW c \in Clients, CreateArchive(c)
      PROVE  [Abstract!PlaylogNext]_(Abstract!playlogVars)
  <2>1. CASE ArcSet(c)
    <3>1. /\ ~hasArchived
          /\ Visible = active /\ Visible' = active
          /\ active = snap[c] /\ ~NoData(active)
      BY <2>1 DEF ArcSet, ArchiverInv, CopyInv, Visible
    <3>2. Abstract!Seal
      BY <2>1, <3>1 DEF ArcSet, NoData, Empty, Original, StartPoints, Abstract!Seal,
                        Abstract!Original, Abstract!StartPoints, Abstract!Empty
    <3> QED  BY <3>2 DEF Abstract!PlaylogNext
  <2>2. CASE ArcStore(c)
    BY <1>0, <2>2 DEF ArcStore, ArchiverInv, Visible
  <2>3. CASE ~ArcSet(c) /\ ~ArcStore(c)
    BY <1>0, <1>5, <2>3 DEF CreateArchive, CallCreateArchive, Call, WithPlaylogLock, ArcCheck,
                           ArcLoad, Visible
  <2> QED  BY <2>1, <2>2, <2>3
<1>6. ASSUME NEW c \in Clients, PruneActive(c)
      PROVE  [Abstract!PlaylogNext]_(Abstract!playlogVars)
  <2>1. CASE PrnSet(c)
    BY <1>0, <2>1 DEF PrnSet, PrunerInv, MirrorInv, Visible
  <2>2. CASE DeleteMany(c, "prnDelete", "commit")
    BY <1>0, <2>2 DEF DeleteMany, PrunerInv, Visible
  <2>3. CASE ~PrnSet(c) /\ ~DeleteMany(c, "prnDelete", "commit")
    BY <1>0, <1>6, <2>3 DEF PruneActive, CallPruneActive, Call, WithPlaylogLock, PrnCheck,
                           PrnCheckHas, Visible
  <2> QED  BY <2>1, <2>2, <2>3
<1> QED  BY <1>1, <1>2, <1>3, <1>4, <1>5, <1>6 DEF Next, Step

(* The facade with its two stores and its lock implements the playlog its  *)
(* callers are promised: archiving, pruning and restoring never add, drop  *)
(* or change a document, and an archived play never changes.               *)
THEOREM Refinement == ArchiveAfterDrain /\ Spec => ImplementsPlaylog
<1> SUFFICES ASSUME ArchiveAfterDrain PROVE Spec => ImplementsPlaylog
  OBVIOUS
<1>1. Init => Abstract!PlaylogInit
  BY DEF Init, Visible, Coll, Empty, Abstract!PlaylogInit, Abstract!Coll, Abstract!Empty
<1>2. StoreInv /\ DrainedInv /\ [Next]_vars => [Abstract!PlaylogNext]_(Abstract!playlogVars)
  BY RefinedStep
<1> QED  BY <1>1, <1>2, Drained, PTL DEF Spec, ImplementsPlaylog, Abstract!PlaylogSpec
==============================================================================
