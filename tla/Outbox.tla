-------------------------------- MODULE Outbox --------------------------------
(***************************************************************************)
(* What the holder of a play's connection promises the flows that publish  *)
(* through it: messages of each kind are numbered as they are given, and   *)
(* are handed over once and in that order: at once, when none waits, or    *)
(* later, all that wait together.  Once dropped, nothing is given or       *)
(* handed over any more.                                                   *)
(***************************************************************************)
EXTENDS Naturals, Sequences

CONSTANT Kinds   \* kinds of messages

VARIABLES
  given,     \* messages given so far
  handed,    \* messages handed over
  dropped    \* the outbox is gone, with what waits in it

outboxVars == <<given, handed, dropped>>

Upto(n) == [i \in 1 .. n |-> i]

OutboxInit ==
  /\ given = [k \in Kinds |-> 0]
  /\ handed = [k \in Kinds |-> <<>>]
  /\ dropped = FALSE

(* A message is given and waits.                                           *)
Put(k) ==
  /\ ~dropped
  /\ given' = [given EXCEPT ![k] = @ + 1]
  /\ UNCHANGED <<handed, dropped>>

(* A message is given and handed over; none may be waiting, of any kind.   *)
PutThrough(k) ==
  /\ ~dropped
  /\ \A l \in Kinds : handed[l] = Upto(given[l])
  /\ given' = [given EXCEPT ![k] = @ + 1]
  /\ handed' = [handed EXCEPT ![k] = Append(@, given[k] + 1)]
  /\ UNCHANGED dropped

(* All that waits is handed over.                                          *)
HandOverAll ==
  /\ ~dropped
  /\ handed' = [k \in Kinds |-> Upto(given[k])]
  /\ UNCHANGED <<given, dropped>>

Drop ==
  /\ dropped' = TRUE
  /\ UNCHANGED <<given, handed>>

OutboxNext ==
  \/ \E k \in Kinds : Put(k) \/ PutThrough(k)
  \/ HandOverAll
  \/ Drop

OutboxSpec == OutboxInit /\ [][OutboxNext]_outboxVars
===============================================================================
