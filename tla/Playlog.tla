------------------------------- MODULE Playlog -------------------------------
(***************************************************************************)
(* What the playlog store promises its callers about one play, with no     *)
(* word about where the data is kept: three collections of documents that  *)
(* only grow by an append and change by an update of an existing tick,     *)
(* until the play is archived; from then on nothing ever changes.          *)
(*                                                                         *)
(* The promise is read off IPlaylogStore and the facade's refusals         *)
(* ("putTick on an archived play").  PlaylogStore is the detailed          *)
(* specification shown to implement it.                                    *)
(***************************************************************************)
EXTENDS Naturals

CONSTANTS
  Frames,     \* frame numbers of the play
  Values,     \* what a tick or a start point may contain
  NoDoc       \* no document is stored under a frame

VARIABLES
  content,    \* content[k][f]: the document of frame f in collection k
  sealed      \* the play has been archived

playlogVars == <<content, sealed>>

(* The three collections, in the order in which every bulk operation of    *)
(* the code walks them: ticks, ticks without ignorable events, and start   *)
(* points.                                                                 *)
Original == 1
ExcludedIgnorable == 2
StartPoints == 3
Coll == 1 .. 3

Docs == [Frames -> Values \cup {NoDoc}]
Empty == [f \in Frames |-> NoDoc]

PlaylogInit ==
  /\ content = [k \in Coll |-> Empty]
  /\ sealed = FALSE

(* putTick, putStartPoint: a document is added under a free frame.         *)
Append(k, f, v) ==
  /\ ~sealed
  /\ content[k][f] = NoDoc
  /\ content' = [content EXCEPT ![k] = [@ EXCEPT ![f] = v]]
  /\ UNCHANGED sealed

(* updateTick: an existing tick is replaced.                               *)
Update(f, v) ==
  /\ ~sealed
  /\ content[Original][f] # NoDoc
  /\ content' = [content EXCEPT ![Original] = [@ EXCEPT ![f] = v]]
  /\ UNCHANGED sealed

(* createArchive: only a play with ticks and start points can be archived. *)
Seal ==
  /\ ~sealed
  /\ content[Original] # Empty
  /\ content[StartPoints] # Empty
  /\ sealed' = TRUE
  /\ UNCHANGED content

PlaylogNext ==
  \/ \E k \in Coll, f \in Frames, v \in Values : Append(k, f, v)
  \/ \E f \in Frames, v \in Values : Update(f, v)
  \/ Seal

PlaylogSpec == PlaylogInit /\ [][PlaylogNext]_playlogVars
==============================================================================
