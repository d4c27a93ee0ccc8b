----------------------------- MODULE PlaylogStore -----------------------------
(***************************************************************************)
(* PlaylogStoreFacade for one play: the active store (MongoDBStore), the   *)
(* archive store (PlaylogS3Store), the metadata flags, and the row lock of *)
(* PlaylogDatabase.withPlaylogLock.  Its callers are the store worker, the *)
(* playlog servers and the system API servers; every one is a separate     *)
(* process, and every await of the code is a point where another may run.  *)
(* One step of a client is one round trip to MongoDB, S3 or MySQL.         *)
(*                                                                         *)
(* The play is fixed: all state is kept per playId and no operation        *)
(* touches two plays.  A metadata update is atomic here; PlaylogMetadata   *)
(* shows that the optimistic lock makes it so.                             *)
(***************************************************************************)
EXTENDS Naturals

CONSTANTS
  Clients,            \* processes calling the facade
  Frames,             \* frame numbers
  Values,             \* contents of a tick or a start point
  NoDoc,              \* no document under a frame
  NoObject,           \* no object under an S3 key
  NoClient,           \* the row lock is free
  ArchiveAfterDrain   \* operators archive a play only once its writers are done

ASSUME FramesAssumption == Frames \subseteq Nat /\ 1 \in Frames
ASSUME ValuesAssumption == Values # {} /\ NoDoc \notin Values
ASSUME NoObjectAssumption == NoObject \notin [Frames -> Values \cup {NoDoc}]
ASSUME NoClientAssumption == NoClient \notin Clients
ASSUME DrainAssumption == ArchiveAfterDrain \in BOOLEAN

VARIABLES
  active,                \* MongoDB: collection -> frame -> document
  archive,               \* S3: collection -> object
  hasArchived,           \* metadata flag
  shouldGetFromArchive,  \* metadata flag: pruned from the active store
  hasRow,                \* the playlogs table has a row for the play
  lock,                  \* who holds SELECT ... FOR UPDATE on that row
  pc,                    \* where a client is
  at,                    \* collection a bulk loop has reached
  arg,                   \* collection, frame and value of a put, update or get
  snap,                  \* what a bulk operation has read so far
  overlap                \* history: readers a prune has started under

stores == <<active, archive>>
flags == <<hasArchived, shouldGetFromArchive>>
locals == <<at, arg, snap>>
vars == <<active, archive, hasArchived, shouldGetFromArchive, hasRow, lock,
          pc, at, arg, snap, overlap>>

------------------------------------------------------------------------------
(* Collections, in the order in which the bulk operations walk them.       *)
Original == 1
ExcludedIgnorable == 2
StartPoints == 3
Coll == 1 .. 3

Docs == [Frames -> Values \cup {NoDoc}]
Empty == [f \in Frames |-> NoDoc]
Objects == Docs \cup {NoObject}
NoSnap == [k \in Coll |-> NoObject]

Writing == {"putCheck", "putInsert", "updCheck", "updFirst", "updProbe", "updSecond"}
Reading == {"getCheck", "getRead", "getFallback"}
Restoring == {"rstLock", "rstCheck", "rstLoad", "rstDelete", "rstInsert", "rstClear", "rstCommit"}
Archiving == {"arcLock", "arcCheck", "arcLoad", "arcStore", "arcSet"}
Pruning == {"prnLock", "prnCheck", "prnCheckHas", "prnSet", "prnDelete"}
PCs == {"idle", "commit"} \cup Writing \cup Reading \cup Restoring \cup Archiving \cup Pruning
LockWaits == {"rstLock", "arcLock", "prnLock"}
InLock == ({"commit"} \cup Restoring \cup Archiving \cup Pruning) \ LockWaits

Args == [coll : Coll, frame : Frames, value : Values]
NoArg == [coll |-> Original, frame |-> 1, value |-> CHOOSE v \in Values : TRUE]

Init ==
  /\ active = [k \in Coll |-> Empty]
  /\ archive = NoSnap
  /\ hasArchived = FALSE
  /\ shouldGetFromArchive = FALSE
  /\ hasRow = FALSE
  /\ lock = NoClient
  /\ pc = [c \in Clients |-> "idle"]
  /\ at = [c \in Clients |-> 1]
  /\ arg = [c \in Clients |-> NoArg]
  /\ snap = [c \in Clients |-> NoSnap]
  /\ overlap = {}

Goto(c, label) == pc' = [pc EXCEPT ![c] = label]

(* Mutant: the loop runs past the last collection. *)
LoopPastEnd(c, label, next) ==
  IF at[c] < 4
  THEN /\ Goto(c, label)
       /\ at' = [at EXCEPT ![c] = at[c] + 1]
  ELSE /\ Goto(c, next)
       /\ at' = [at EXCEPT ![c] = 1]

(* Walk the collections: stay at `label` for the next one, or leave the    *)
(* loop for `next`.                                                        *)
Loop(c, label, next) ==
  IF at[c] < 3
  THEN /\ Goto(c, label)
       /\ at' = [at EXCEPT ![c] = at[c] + 1]
  ELSE /\ Goto(c, next)
       /\ at' = [at EXCEPT ![c] = 1]

(* Mutant: no rollback after an exception. *)
LeaveWithoutRollback(c) ==
  /\ Goto(c, "idle")
  /\ at' = [at EXCEPT ![c] = 1]
  /\ snap' = [snap EXCEPT ![c] = NoSnap]
  /\ lock' = IF lock = c /\ pc[c] = "commit" THEN NoClient ELSE lock
  /\ overlap' = overlap \ {c}
  /\ arg' = [arg EXCEPT ![c] = NoArg]

(* The call ends: by returning (outside the lock) or by an exception, for  *)
(* which transaction() rolls back and so frees the row.                    *)
Leave(c) ==
  /\ Goto(c, "idle")
  /\ at' = [at EXCEPT ![c] = 1]
  /\ snap' = [snap EXCEPT ![c] = NoSnap]
  /\ lock' = IF lock = c THEN NoClient ELSE lock
  /\ overlap' = overlap \ {c}
  /\ arg' = [arg EXCEPT ![c] = NoArg]

Call(c, label, a) ==
  /\ pc[c] = "idle"
  /\ Goto(c, label)
  /\ arg' = [arg EXCEPT ![c] = a]
  /\ UNCHANGED <<stores, flags, hasRow, lock, at, snap, overlap>>

(* withPlaylogLock: a play without a row cannot be locked and is refused.  *)
WithPlaylogLock(c, from, inLock) ==
  /\ pc[c] = from
  /\ \/ /\ ~hasRow
        /\ Leave(c)
     \/ /\ hasRow
        /\ lock = NoClient
        /\ lock' = c
        /\ Goto(c, inLock)
        /\ UNCHANGED <<locals, overlap>>
  /\ UNCHANGED <<stores, flags, hasRow>>

------------------------------------------------------------------------------
(* setPlaying, when the play is first started.                             *)
SetPlaying ==
  /\ ~hasRow
  /\ hasRow' = TRUE
  /\ UNCHANGED <<stores, flags, lock, pc, locals, overlap>>

------------------------------------------------------------------------------
(* putTick, putStartPoint and updateTick: the flag is read first and the   *)
(* active store is written by a later step, with no lock around the two.   *)

WritesAllowed == ArchiveAfterDrain => \A c \in Clients : pc[c] \notin Archiving

CallPut(c) ==
  /\ WritesAllowed
  /\ \E a \in Args : Call(c, "putCheck", a)

CallUpdateTick(c) ==
  /\ WritesAllowed
  /\ \E a \in Args : a.coll = Original /\ Call(c, "updCheck", a)

(* Mutant: the flag is not looked at. *)
CheckNothing(c, from, to) ==
  /\ pc[c] = from
  /\ Goto(c, to)
  /\ UNCHANGED <<stores, flags, hasRow, lock, locals, overlap>>

CheckNotArchived(c, from, to) ==
  /\ pc[c] = from
  /\ IF hasArchived
     THEN Leave(c)
     ELSE Goto(c, to) /\ UNCHANGED <<lock, locals, overlap>>
  /\ UNCHANGED <<stores, flags, hasRow>>

(* insertOne: the unique index on (playId, frame) refuses a second one.    *)
PutInsert(c) ==
  /\ pc[c] = "putInsert"
  /\ LET k == arg[c].coll
         f == arg[c].frame
     IN active' = IF active[k][f] = NoDoc
                  THEN [active EXCEPT ![k] = [@ EXCEPT ![f] = arg[c].value]]
                  ELSE active
  /\ Leave(c)
  /\ UNCHANGED <<archive, flags, hasRow>>

(* findOneAndUpdate on the original key, which does nothing without a      *)
(* document of that frame.                                                 *)
WriteOriginal(c) ==
  LET f == arg[c].frame
  IN active' = IF active[Original][f] = NoDoc
               THEN active
               ELSE [active EXCEPT ![Original] = [@ EXCEPT ![f] = arg[c].value]]

UpdFirst(c) ==
  /\ pc[c] = "updFirst"
  /\ WriteOriginal(c)
  /\ Goto(c, "updProbe")
  /\ UNCHANGED <<archive, flags, hasRow, lock, locals, overlap>>

(* getTick(playId, 1, {ignorable: false}): the original key once more.     *)
UpdProbe(c) ==
  /\ pc[c] = "updProbe"
  /\ IF active[Original][1] = NoDoc
     THEN Leave(c)
     ELSE Goto(c, "updSecond") /\ UNCHANGED <<lock, locals, overlap>>
  /\ UNCHANGED <<stores, flags, hasRow>>

(* The second update is addressed to the original key too, so the copy     *)
(* without ignorable events keeps its old content.                         *)
UpdSecond(c) ==
  /\ pc[c] = "updSecond"
  /\ WriteOriginal(c)
  /\ Leave(c)
  /\ UNCHANGED <<archive, flags, hasRow>>

Write(c) ==
  \/ CallPut(c)
  \/ CallUpdateTick(c)
  \/ CheckNotArchived(c, "putCheck", "putInsert")
  \/ PutInsert(c)
  \/ CheckNotArchived(c, "updCheck", "updFirst")
  \/ UpdFirst(c)
  \/ UpdProbe(c)
  \/ UpdSecond(c)

------------------------------------------------------------------------------
(* getTick, getTicks, getTicksRaw, getStartPoint(s), getClosest...: the    *)
(* flag decides about a restore, and a later step reads the active store.  *)

CallGet(c) == \E k \in Coll : Call(c, "getCheck", [NoArg EXCEPT !.coll = k])

GetCheck(c) ==
  /\ pc[c] = "getCheck"
  /\ Goto(c, IF shouldGetFromArchive THEN "rstLock" ELSE "getRead")
  /\ UNCHANGED <<stores, flags, hasRow, lock, locals, overlap>>

(* Ticks without ignorable events that are not there are asked for again   *)
(* under the original key.                                                 *)
GetRead(c) ==
  /\ pc[c] = "getRead"
  /\ IF arg[c].coll = ExcludedIgnorable /\ active[ExcludedIgnorable] = Empty
     THEN Goto(c, "getFallback") /\ UNCHANGED <<lock, locals, overlap>>
     ELSE Leave(c)
  /\ UNCHANGED <<stores, flags, hasRow>>

GetFallback(c) ==
  /\ pc[c] = "getFallback"
  /\ Leave(c)
  /\ UNCHANGED <<stores, flags, hasRow>>

------------------------------------------------------------------------------
(* restore, inside a get that found the play pruned.                       *)

(* Mutant: the flag is not looked at again under the lock. *)
RstCheckSkipped(c) ==
  /\ pc[c] = "rstCheck"
  /\ Goto(c, "rstLoad")
  /\ UNCHANGED <<stores, flags, hasRow, lock, locals, overlap>>

RstCheck(c) ==
  /\ pc[c] = "rstCheck"
  /\ Goto(c, IF shouldGetFromArchive THEN "rstLoad" ELSE "rstCommit")
  /\ UNCHANGED <<stores, flags, hasRow, lock, locals, overlap>>

(* Neither the ticks nor the start points of an archive may be empty.      *)
NoData(s) == s[Original] = Empty \/ s[StartPoints] = Empty

RstLoad(c) ==
  /\ pc[c] = "rstLoad"
  /\ LET s == [snap[c] EXCEPT ![at[c]] = archive[at[c]]]
     IN IF archive[at[c]] = NoObject \/ (at[c] = 3 /\ NoData(s))
        THEN Leave(c)
        ELSE /\ snap' = [snap EXCEPT ![c] = s]
             /\ Loop(c, "rstLoad", "rstDelete")
             /\ UNCHANGED <<lock, arg, overlap>>
  /\ UNCHANGED <<stores, flags, hasRow>>

(* deleteMany of one collection, then on to the next.                      *)
DeleteMany(c, label, next) ==
  /\ pc[c] = label
  /\ active' = [active EXCEPT ![at[c]] = Empty]
  /\ Loop(c, label, next)
  /\ UNCHANGED <<archive, flags, hasRow, lock, arg, snap, overlap>>

(* insertMany (ordered): the driver refuses an empty batch, and a document *)
(* whose frame is taken stops the batch after the ones before it.          *)
Taken(c) == {f \in Frames : snap[c][at[c]][f] # NoDoc /\ active[at[c]][f] # NoDoc}
Batch(c) == {f \in Frames : /\ snap[c][at[c]][f] # NoDoc
                            /\ \A g \in Taken(c) : f < g}

RstInsert(c) ==
  /\ pc[c] = "rstInsert"
  /\ active' = [active EXCEPT ![at[c]] =
                 [f \in Frames |-> IF f \in Batch(c) THEN snap[c][at[c]][f] ELSE @[f]]]
  /\ IF snap[c][at[c]] = Empty \/ Taken(c) # {}
     THEN Leave(c)
     ELSE Loop(c, "rstInsert", "rstClear") /\ UNCHANGED <<lock, arg, snap, overlap>>
  /\ UNCHANGED <<archive, flags, hasRow>>

RstClear(c) ==
  /\ pc[c] = "rstClear"
  /\ shouldGetFromArchive' = FALSE
  /\ Goto(c, "rstCommit")
  /\ UNCHANGED <<stores, hasArchived, hasRow, lock, locals, overlap>>

RstCommit(c) ==
  /\ pc[c] = "rstCommit"
  /\ lock' = NoClient
  /\ snap' = [snap EXCEPT ![c] = NoSnap]
  /\ Goto(c, "getRead")
  /\ UNCHANGED <<stores, flags, hasRow, at, arg, overlap>>

Get(c) ==
  \/ CallGet(c)
  \/ GetCheck(c)
  \/ GetRead(c)
  \/ GetFallback(c)
  \/ WithPlaylogLock(c, "rstLock", "rstCheck")
  \/ RstCheck(c)
  \/ RstLoad(c)
  \/ DeleteMany(c, "rstDelete", "rstInsert")
  \/ RstInsert(c)
  \/ RstClear(c)
  \/ RstCommit(c)

------------------------------------------------------------------------------
(* createArchive.  Who calls it, and when, is left to the operators of the *)
(* system: with ArchiveAfterDrain they wait for the writers of the play.   *)

CallCreateArchive(c) ==
  /\ ArchiveAfterDrain => \A d \in Clients : pc[d] \notin Writing
  /\ Call(c, "arcLock", NoArg)

(* Mutant: the play may be archived again. *)
ArcCheckSkipped(c) ==
  /\ pc[c] = "arcCheck"
  /\ Goto(c, "arcLoad")
  /\ UNCHANGED <<stores, flags, hasRow, lock, locals, overlap>>

ArcCheck(c) ==
  /\ pc[c] = "arcCheck"
  /\ Goto(c, IF hasArchived THEN "commit" ELSE "arcLoad")
  /\ UNCHANGED <<stores, flags, hasRow, lock, locals, overlap>>

(* Mutant: an empty play is archived too. *)
ArcLoadUnchecked(c) ==
  /\ pc[c] = "arcLoad"
  /\ snap' = [snap EXCEPT ![c][at[c]] = active[at[c]]]
  /\ Loop(c, "arcLoad", "arcStore")
  /\ UNCHANGED <<stores, flags, hasRow, lock, arg, overlap>>

ArcLoad(c) ==
  /\ pc[c] = "arcLoad"
  /\ LET s == [snap[c] EXCEPT ![at[c]] = active[at[c]]]
     IN IF at[c] = 3 /\ NoData(s)
        THEN Leave(c)
        ELSE /\ snap' = [snap EXCEPT ![c] = s]
             /\ Loop(c, "arcLoad", "arcStore")
             /\ UNCHANGED <<lock, arg, overlap>>
  /\ UNCHANGED <<stores, flags, hasRow>>

ArcStore(c) ==
  /\ pc[c] = "arcStore"
  /\ archive' = [archive EXCEPT ![at[c]] = snap[c][at[c]]]
  /\ Loop(c, "arcStore", "arcSet")
  /\ UNCHANGED <<active, flags, hasRow, lock, arg, snap, overlap>>

ArcSet(c) ==
  /\ pc[c] = "arcSet"
  /\ hasArchived' = TRUE
  /\ Goto(c, "commit")
  /\ UNCHANGED <<stores, shouldGetFromArchive, hasRow, lock, locals, overlap>>

CreateArchive(c) ==
  \/ CallCreateArchive(c)
  \/ WithPlaylogLock(c, "arcLock", "arcCheck")
  \/ ArcCheck(c)
  \/ ArcLoad(c)
  \/ ArcStore(c)
  \/ ArcSet(c)

------------------------------------------------------------------------------
(* pruneActive.                                                            *)

CallPruneActive(c) == Call(c, "prnLock", NoArg)

PrnCheck(c) ==
  /\ pc[c] = "prnCheck"
  /\ Goto(c, IF shouldGetFromArchive THEN "commit" ELSE "prnCheckHas")
  /\ UNCHANGED <<stores, flags, hasRow, lock, locals, overlap>>

PrnCheckHas(c) ==
  /\ pc[c] = "prnCheckHas"
  /\ IF hasArchived
     THEN Goto(c, "prnSet") /\ UNCHANGED <<lock, locals, overlap>>
     ELSE Leave(c)
  /\ UNCHANGED <<stores, flags, hasRow>>

PrnSet(c) ==
  /\ pc[c] = "prnSet"
  /\ shouldGetFromArchive' = TRUE
  /\ Goto(c, "prnDelete")
  /\ overlap' = overlap \cup {d \in Clients : pc[d] \in {"getRead", "getFallback"}}
  /\ UNCHANGED <<stores, hasArchived, hasRow, lock, locals>>

PruneActive(c) ==
  \/ CallPruneActive(c)
  \/ WithPlaylogLock(c, "prnLock", "prnCheck")
  \/ PrnCheck(c)
  \/ PrnCheckHas(c)
  \/ PrnSet(c)
  \/ DeleteMany(c, "prnDelete", "commit")

------------------------------------------------------------------------------
(* The transaction of createArchive or pruneActive commits.                *)
Commit(c) ==
  /\ pc[c] = "commit"
  /\ Leave(c)
  /\ UNCHANGED <<stores, flags, hasRow>>

(* An error of a database, of S3 or of a metadata update, or a crash of    *)
(* the process: the call ends where it is and MySQL frees the row.         *)
Fail(c) ==
  /\ pc[c] # "idle"
  /\ Leave(c)
  /\ UNCHANGED <<stores, flags, hasRow>>

Step(c) == Write(c) \/ Get(c) \/ CreateArchive(c) \/ PruneActive(c) \/ Commit(c)

Next ==
  \/ SetPlaying
  \/ \E c \in Clients : Step(c) \/ Fail(c)

Spec == Init /\ [][Next]_vars

------------------------------------------------------------------------------
(* A call that has begun goes on (Node runs every callback whose I/O has   *)
(* ended), and InnoDB grants a row lock to its waiters in turn.            *)
Progress(c) == pc[c] # "idle" /\ pc[c] \notin LockWaits /\ Step(c)
Acquire(c) == pc[c] \in LockWaits /\ Step(c)

FairSpec ==
  /\ Spec
  /\ \A c \in Clients : WF_vars(Progress(c)) /\ SF_vars(Acquire(c))

------------------------------------------------------------------------------
(* Type invariant of the store's data and of its clients.                  *)
TypeOK ==
  /\ active \in [Coll -> Docs]
  /\ archive \in [Coll -> Objects]
  /\ hasArchived \in BOOLEAN
  /\ shouldGetFromArchive \in BOOLEAN
  /\ hasRow \in BOOLEAN
  /\ lock \in Clients \cup {NoClient}
  /\ pc \in [Clients -> PCs]
  /\ at \in [Clients -> Coll]
  /\ arg \in [Clients -> Args]
  /\ snap \in [Clients -> [Coll -> Objects]]
  /\ overlap \subseteq Clients

(* createArchive and pruneActive leave no play half archived, although     *)
(* they may fail or crash between any two steps: once hasArchived is set   *)
(* all three objects exist and restore does not find the play without      *)
(* data, and a play is read from the archive only if it is archived.  It   *)
(* does not follow that restore succeeds: the object without ignorable     *)
(* events may be empty, and insertMany refuses an empty list (RstInsert).  *)
ArchiveComplete ==
  /\ hasArchived => /\ \A k \in Coll : archive[k] # NoObject
                    /\ ~NoData(archive)
  /\ shouldGetFromArchive => hasArchived

(* The objects of an archived play are never written again, however many   *)
(* createArchive calls race, and a play never stops being archived.        *)
ArchiveFrozen ==
  [][hasArchived => hasArchived' /\ archive' = archive]_vars

(* What a caller gets from an archived play is what was archived: a reader *)
(* at the point where it reads the active store finds exactly the archived *)
(* documents, unless a prune has started since it looked at the flag.      *)
ReadSeesArchive ==
  \A c \in Clients :
    (pc[c] \in {"getRead", "getFallback"} /\ hasArchived /\ c \notin overlap)
      => active = archive

(* Archiving, pruning and restoring are invisible to callers: the play's   *)
(* documents, wherever they are kept, behave as Playlog promises.          *)
Visible == IF shouldGetFromArchive THEN archive ELSE active
Abstract == INSTANCE Playlog WITH content <- Visible, sealed <- hasArchived
ImplementsPlaylog == Abstract!PlaylogSpec

(* Every call of the facade comes to an end, lock waits included.          *)
CallsEnd == \A c \in Clients : pc[c] # "idle" ~> pc[c] = "idle"
==============================================================================
