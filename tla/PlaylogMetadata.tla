---------------------------- MODULE PlaylogMetadata ----------------------------
(***************************************************************************)
(* PlaylogMetadataMongoDBStore for one play.  Every setter goes through    *)
(* setPlaylogMetadata: read the document, change a copy of it, write the   *)
(* whole copy back if the revision is still the one that was read, and     *)
(* start again, at most maxRetryCount times, if it is not.  The setters    *)
(* run in many processes; updateLastAccessTime takes no lock at all.       *)
(***************************************************************************)
EXTENDS Naturals

CONSTANTS
  Clients,          \* processes calling the setters
  MaxTime,          \* bound: the clock stops there
  MaxCalls,         \* bound: calls begun in a behaviour
  Never,            \* null as a last access time
  NoDocument,       \* the collection has no document of the play
  MaxRetryCount,    \* maxRetryCount
  Resolution        \* lastAccessTimeResolution

Times == 0 .. MaxTime

ASSUME BoundsAssumption ==
  MaxTime \in Nat /\ MaxCalls \in Nat /\ MaxRetryCount \in Nat \ {0} /\ Resolution \in Nat \ {0}
ASSUME NeverAssumption == Never \notin Nat

VARIABLES
  document,     \* the stored document
  now,          \* the clock
  calls,        \* calls begun
  pc,           \* "idle", "find" or "update"
  op,           \* field to set and its value
  copy,         \* the metadata a client has read
  retry,        \* retry
  result,       \* how the last call of a client ended
  startRevision \* history: the revision when the call began

vars == <<document, now, calls, pc, op, copy, retry, result, startRevision>>

Metadata ==
  [revision : Nat, hasArchived : BOOLEAN, shouldGetFromArchive : BOOLEAN,
   lastAccessTime : Times \cup {Never}]

ASSUME NoDocumentAssumption == NoDocument \notin Metadata

(* defaultMetadata, which stands for a missing document.                   *)
DefaultMetadata ==
  [revision |-> 1, hasArchived |-> FALSE, shouldGetFromArchive |-> FALSE,
   lastAccessTime |-> Never]

(* getPlaylogMetadata.                                                     *)
Current == IF document = NoDocument THEN DefaultMetadata ELSE document

(* What a setter sets.  The value of an access time is chosen by Find.     *)
FlagOps == [field : {"hasArchived", "shouldGetFromArchive"}, value : BOOLEAN]
AccessOps == [field : {"lastAccessTime"}, value : Times]
Ops == FlagOps \cup AccessOps
Requests == FlagOps \cup [field : {"lastAccessTime"}, value : {0}]

NoOp == [field |-> "hasArchived", value |-> FALSE]

Init ==
  /\ document = NoDocument
  /\ now = 0
  /\ calls = 0
  /\ pc = [c \in Clients |-> "idle"]
  /\ op = [c \in Clients |-> NoOp]
  /\ copy = [c \in Clients |-> DefaultMetadata]
  /\ retry = [c \in Clients |-> 0]
  /\ result = [c \in Clients |-> "none"]
  /\ startRevision = [c \in Clients |-> 1]

Tick ==
  /\ now < MaxTime
  /\ now' = now + 1
  /\ UNCHANGED <<document, calls, pc, op, copy, retry, result, startRevision>>

(* setHasArchived, setShouldGetFromArchive or updateLastAccessTime.        *)
Begin(c) ==
  /\ pc[c] = "idle"
  /\ calls < MaxCalls
  /\ calls' = calls + 1
  /\ \E o \in Requests : op' = [op EXCEPT ![c] = o]
  /\ pc' = [pc EXCEPT ![c] = "find"]
  /\ retry' = [retry EXCEPT ![c] = 0]
  /\ result' = [result EXCEPT ![c] = "none"]
  /\ startRevision' = [startRevision EXCEPT ![c] = Current.revision]
  /\ UNCHANGED <<document, now, copy>>

Far(t, u) == t + Resolution <= u \/ u + Resolution <= t

(* getNow() is not worth storing.                                          *)
Fresh(m) == m.lastAccessTime # Never /\ ~Far(now, m.lastAccessTime)

Return(c, r) ==
  /\ pc' = [pc EXCEPT ![c] = "idle"]
  /\ op' = [op EXCEPT ![c] = NoOp]
  /\ copy' = [copy EXCEPT ![c] = DefaultMetadata]
  /\ retry' = [retry EXCEPT ![c] = 0]
  /\ result' = [result EXCEPT ![c] = r]

(* findOne, and updateFunc on what it found; the clock is read here.       *)
Find(c) ==
  /\ pc[c] = "find"
  /\ IF op[c].field = "lastAccessTime" /\ Fresh(Current)
     THEN Return(c, "unchanged")
     ELSE /\ pc' = [pc EXCEPT ![c] = "update"]
          /\ copy' = [copy EXCEPT ![c] = Current]
          /\ op' = IF op[c].field = "lastAccessTime"
                   THEN [op EXCEPT ![c] = [field |-> "lastAccessTime", value |-> now]]
                   ELSE op
          /\ UNCHANGED <<retry, result>>
  /\ UNCHANGED <<document, now, calls, startRevision>>

(* Mutant: the access time is left out of what is written. *)
UpdatedFlagsOnly(c) ==
  [revision |-> copy[c].revision + 1,
   hasArchived |->
     IF op[c].field = "hasArchived" THEN op[c].value ELSE copy[c].hasArchived,
   shouldGetFromArchive |->
     IF op[c].field = "shouldGetFromArchive" THEN op[c].value
     ELSE copy[c].shouldGetFromArchive]

(* The copy that is written: all fields of it, with the next revision.     *)
Updated(c) ==
  [revision |-> copy[c].revision + 1,
   hasArchived |->
     IF op[c].field = "hasArchived" THEN op[c].value ELSE copy[c].hasArchived,
   shouldGetFromArchive |->
     IF op[c].field = "shouldGetFromArchive" THEN op[c].value
     ELSE copy[c].shouldGetFromArchive,
   lastAccessTime |->
     IF op[c].field = "lastAccessTime" THEN op[c].value ELSE copy[c].lastAccessTime]

(* Mutant: the filter leaves out the revision. *)
AnyRevision(c) == TRUE

(* updateOne({playId, revision}, $set, upsert): without a document that    *)
(* matches, the upsert inserts one, which the unique index on playId       *)
(* refuses (E11000) if the play has a document of another revision.        *)
Matches(c) == document # NoDocument => document.revision = copy[c].revision

(* Mutant: one attempt too few. *)
LastTryEarly(c) == retry[c] + 2 >= MaxRetryCount

(* Leaving the loop with lastError set.                                    *)
LastTry(c) == retry[c] + 1 >= MaxRetryCount

UpdateOne(c) ==
  /\ pc[c] = "update"
  /\ \/ /\ Matches(c)
        /\ document' = Updated(c)
        /\ Return(c, "ok")
     \/ /\ ~Matches(c)
        /\ LastTry(c)
        /\ Return(c, "conflict")
        /\ UNCHANGED document
     \/ /\ ~Matches(c)
        /\ ~LastTry(c)
        /\ retry' = [retry EXCEPT ![c] = retry[c] + 1]
        /\ pc' = [pc EXCEPT ![c] = "find"]
        /\ UNCHANGED <<document, op, copy, result>>
  /\ UNCHANGED <<now, calls, startRevision>>

(* Any other error of the database ends the call.                          *)
Fail(c) ==
  /\ pc[c] # "idle"
  /\ Return(c, "error")
  /\ UNCHANGED <<document, now, calls, startRevision>>

Step(c) == Begin(c) \/ Find(c) \/ UpdateOne(c) \/ Fail(c)

Next == Tick \/ \E c \in Clients : Step(c)

Spec == Init /\ [][Next]_vars

------------------------------------------------------------------------------
(* Type invariant of the metadata and of its clients.                      *)
TypeOK ==
  /\ document \in Metadata \cup {NoDocument}
  /\ now \in Times
  /\ calls \in 0 .. MaxCalls
  /\ pc \in [Clients -> {"idle", "find", "update"}]
  /\ op \in [Clients -> Ops]
  /\ copy \in [Clients -> Metadata]
  /\ retry \in [Clients -> Nat]
  /\ result \in [Clients -> {"none", "ok", "unchanged", "conflict", "error"}]
  /\ startRevision \in [Clients -> Nat]

(* Although every setter writes all fields of an earlier copy, no update   *)
(* is ever lost: the stored metadata change one field at a time, as an     *)
(* atomic cell's would, and an access time only by a resolution or more.   *)
Cell == INSTANCE MetadataCell
          WITH cellArchived <- Current.hasArchived,
               cellPruned <- Current.shouldGetFromArchive,
               cellAccess <- Current.lastAccessTime
ImplementsCell == Cell!CellSpec

(* A setter gives up with a conflict only if as many other updates as it   *)
(* had attempts went through during the call.                              *)
ConflictJustified ==
  \A c \in Clients :
    result[c] = "conflict" => Current.revision >= startRevision[c] + MaxRetryCount
==============================================================================
