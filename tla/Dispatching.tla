------------------------------ MODULE Dispatching ------------------------------
(***************************************************************************)
(* How a client of one play is given a seat on a playlog server: the       *)
(* Dispatcher of the system API server, the capacity and client counts it  *)
(* shares with the playlog servers in Redis (DispatchingRedis), the        *)
(* reservations and sessions of a playlog server (SessionManager), and     *)
(* their wiring in Application.                                            *)
(*                                                                         *)
(* A call of dispatch carries a token made for it alone (TokensController) *)
(* and tries a server at most once, so a pair <<call, server>> names one   *)
(* seat; `seat` says how far it is.  Counting is by separate commands of   *)
(* the dispatcher and of the server, any of which may fail, come late or   *)
(* fall on either side of a server's restart.                              *)
(***************************************************************************)
EXTENDS Integers, FiniteSets

CONSTANTS
  Calls,        \* dispatch calls
  Servers,      \* playlog servers of the trait
  Limit,        \* maxClients of every server
  MaxRestarts,  \* bound: how often servers stop or crash, in all
  NoServer,     \* a call has no server in hand
  Absent        \* Redis has no such member

ASSUME CallsAssumption == IsFiniteSet(Calls)
ASSUME LimitAssumption == Limit \in Nat \ {0}
ASSUME MaxRestartsAssumption == MaxRestarts \in Nat
ASSUME NoServerAssumption == NoServer \notin Servers
ASSUME AbsentAssumption == Absent \notin Int

VARIABLES
  call,      \* each call: "idle", "choosing", "busy", "assigned" or "failed"
  todo,      \* candidate servers the call has not tried
  target,    \* the server the call has in hand, or the one it returned
  seat,      \* seat[c][s]: how far call c's seat on server s is
  capacity,  \* Redis: the capacity entry of each server
  clients,   \* Redis: the client count of each server for the play
  server,    \* "up", "stopping", "down" or "starting"
  crossed,   \* calls whose seat was taken before the server's last restart
  restarts   \* restarts so far

redis == <<capacity, clients>>
calls == <<call, todo, target>>
vars == <<call, todo, target, seat, capacity, clients, server, crossed,
          restarts>>

(* The life of a seat.  "undo": the capacity was used up and is given back *)
(* next; "seated": capacity taken; "posted": client counted, the           *)
(* reservation is on its way; "leaving": expired or ended, the server      *)
(* gives capacity back next; "left": and the client count next.  A seat    *)
(* ends as "returned"; "leaked" or "orphan" (lost before or after the      *)
(* client was counted); "stuck" (the capacity was given back, the client   *)
(* stays counted); "limited" (refused by _start); "gone" or "void" (its    *)
(* capacity entry was replaced, counted as a client or not).               *)
SeatPhases == {"none", "undo", "seated", "posted", "reserved", "started",
               "leaving", "left", "returned", "leaked", "orphan", "stuck",
               "limited", "gone", "void"}

Init ==
  /\ call = [c \in Calls |-> "idle"]
  /\ todo = [c \in Calls |-> {}]
  /\ target = [c \in Calls |-> NoServer]
  /\ seat = [c \in Calls |-> [s \in Servers |-> "none"]]
  /\ capacity = [s \in Servers |-> Limit]
  /\ clients = [s \in Servers |-> Absent]
  /\ server = [s \in Servers |-> "up"]
  /\ crossed = [s \in Servers |-> {}]
  /\ restarts = 0

(* ZINCRBY: a missing member counts from zero.                             *)
Zincrby(score, increment) ==
  IF score = Absent THEN increment ELSE score + increment

Seat(c, s, phase) == seat' = [seat EXCEPT ![c][s] = phase]

IncreaseCapacity(s, n) == capacity' = [capacity EXCEPT ![s] = Zincrby(@, n)]

IncreaseClient(s, n) == clients' = [clients EXCEPT ![s] = Zincrby(@, n)]

------------------------------------------------------------------------------
(* The dispatcher.                                                         *)

(* A server is listed for its clients of the play or for its capacity, but *)
(* not with a capacity entry of zero.                                      *)
Candidate(s) ==
  /\ capacity[s] # 0
  /\ \/ clients[s] # Absent /\ clients[s] >= 0
     \/ capacity[s] # Absent /\ capacity[s] > 0

(* Mutant: a server that is not found is tried all the same. *)
DispatchUnchecked(c) ==
  /\ call[c] = "idle"
  /\ call' = [call EXCEPT ![c] = "choosing"]
  /\ todo' = [todo EXCEPT ![c] = {NoServer}]
  /\ UNCHANGED <<target, seat, redis, server, crossed, restarts>>

(* doDispatch begins.  Which listed servers are taken for alive and not    *)
(* excluded depends on caches of any age; a forced server is taken as it   *)
(* is.                                                                     *)
Dispatch(c) ==
  /\ call[c] = "idle"
  /\ call' = [call EXCEPT ![c] = "choosing"]
  /\ \/ \E alive \in SUBSET Servers :
          todo' = [todo EXCEPT ![c] = {s \in alive : Candidate(s)}]
     \/ \E s \in Servers : todo' = [todo EXCEPT ![c] = {s}]
  /\ UNCHANGED <<target, seat, redis, server, crossed, restarts>>

(* Mutant: the seat is taken however little capacity is left. *)
TakeAnySeat(c, s) ==
  /\ call[c] = "choosing"
  /\ s \in todo[c]
  /\ call' = [call EXCEPT ![c] = "busy"]
  /\ todo' = [todo EXCEPT ![c] = @ \ {s}]
  /\ target' = [target EXCEPT ![c] = s]
  /\ IncreaseCapacity(s, -1)
  /\ Seat(c, s, "seated")
  /\ UNCHANGED <<clients, server, crossed, restarts>>

(* isProcessIncreased takes one from the capacity of the next candidate.   *)
TakeSeat(c, s) ==
  /\ call[c] = "choosing"
  /\ s \in todo[c]
  /\ call' = [call EXCEPT ![c] = "busy"]
  /\ todo' = [todo EXCEPT ![c] = @ \ {s}]
  /\ target' = [target EXCEPT ![c] = s]
  /\ IncreaseCapacity(s, -1)
  /\ Seat(c, s, IF capacity'[s] < 0 THEN "undo" ELSE "seated")
  /\ UNCHANGED <<clients, server, crossed, restarts>>

(* The command fails: it was carried out or it was not.                    *)
TakeSeatFails(c, s) ==
  /\ call[c] = "choosing"
  /\ s \in todo[c]
  /\ todo' = [todo EXCEPT ![c] = @ \ {s}]
  /\ \/ IncreaseCapacity(s, -1) /\ Seat(c, s, "leaked")
     \/ UNCHANGED <<capacity, seat>>
  /\ UNCHANGED <<call, target, clients, server, crossed, restarts>>

(* The call goes on to its next candidate.                                 *)
NextCandidate(c) ==
  /\ call' = [call EXCEPT ![c] = "choosing"]
  /\ target' = [target EXCEPT ![c] = NoServer]

(* Mutant: the capacity is not given back. *)
UndoNothing(c, s) ==
  /\ call[c] = "busy" /\ target[c] = s /\ seat[c][s] = "undo"
  /\ Seat(c, s, "returned")
  /\ NextCandidate(c)
  /\ UNCHANGED <<todo, redis, server, crossed, restarts>>

(* Mutant: the same server is tried again. *)
UndoAndRetry(c, s) ==
  /\ call[c] = "busy" /\ target[c] = s /\ seat[c][s] = "undo"
  /\ IncreaseCapacity(s, 1) /\ Seat(c, s, "returned")
  /\ NextCandidate(c)
  /\ todo' = [todo EXCEPT ![c] = @ \cup {s}]
  /\ UNCHANGED <<clients, server, crossed, restarts>>

(* Capacity was below zero: one is given back.                             *)
Undo(c, s) ==
  /\ call[c] = "busy" /\ target[c] = s /\ seat[c][s] = "undo"
  /\ \/ IncreaseCapacity(s, 1) /\ Seat(c, s, "returned")
     \/ UNCHANGED capacity /\ Seat(c, s, "leaked")
  /\ NextCandidate(c)
  /\ UNCHANGED <<todo, clients, server, crossed, restarts>>

(* increaseClient; the POST of reserveEndpoint is sent next.               *)
CountClient(c, s) ==
  /\ call[c] = "busy" /\ target[c] = s /\ seat[c][s] = "seated"
  /\ IncreaseClient(s, 1)
  /\ Seat(c, s, "posted")
  /\ UNCHANGED <<calls, capacity, server, crossed, restarts>>

(* increaseClient fails, carried out or not; the capacity is not given     *)
(* back.                                                                   *)
CountClientFails(c, s) ==
  /\ call[c] = "busy" /\ target[c] = s /\ seat[c][s] = "seated"
  /\ \/ IncreaseClient(s, 1) /\ Seat(c, s, "orphan")
     \/ UNCHANGED clients /\ Seat(c, s, "leaked")
  /\ NextCandidate(c)
  /\ UNCHANGED <<todo, capacity, server, crossed, restarts>>

(* The POST is answered: the call returns the server's endpoint.           *)
Assign(c, s) ==
  /\ call[c] = "busy" /\ target[c] = s
  /\ seat[c][s] \notin {"undo", "seated", "posted"}
  /\ call' = [call EXCEPT ![c] = "assigned"]
  /\ UNCHANGED <<todo, target, seat, redis, server, crossed, restarts>>

(* The POST is not answered well within 200 ms: the next candidate is      *)
(* tried, and the server may still make the reservation.                   *)
GiveUp(c, s) ==
  /\ call[c] = "busy" /\ target[c] = s
  /\ seat[c][s] \notin {"undo", "seated"}
  /\ NextCandidate(c)
  /\ UNCHANGED <<todo, seat, redis, server, crossed, restarts>>

(* No candidate is left.                                                   *)
Fail(c) ==
  /\ call[c] = "choosing" /\ todo[c] = {}
  /\ call' = [call EXCEPT ![c] = "failed"]
  /\ UNCHANGED <<todo, target, seat, redis, server, crossed, restarts>>

------------------------------------------------------------------------------
(* The playlog server.                                                     *)

Running(s) == server[s] \in {"up", "stopping"}

(* reserve: the reservation is kept and its timer set.                     *)
Reserve(c, s) ==
  /\ Running(s) /\ seat[c][s] = "posted"
  /\ Seat(c, s, "reserved")
  /\ UNCHANGED <<calls, capacity, clients, server, crossed, restarts>>

(* The POST is not carried out: it is refused, or lost on its way.         *)
PostLost(c, s) ==
  /\ seat[c][s] = "posted"
  /\ Seat(c, s, "orphan")
  /\ IF call[c] = "busy" /\ target[c] = s
     THEN NextCandidate(c)
     ELSE UNCHANGED <<call, target>>
  /\ UNCHANGED <<todo, redis, server, crossed, restarts>>

(* Mutant: only a reservation somebody may come for expires. *)
TimeoutOfAssigned(c, s) ==
  /\ Running(s) /\ seat[c][s] = "reserved"
  /\ call[c] = "assigned"
  /\ Seat(c, s, "leaving")
  /\ UNCHANGED <<calls, capacity, clients, server, crossed, restarts>>

(* The timer of the reservation fires.                                     *)
Timeout(c, s) ==
  /\ Running(s) /\ seat[c][s] = "reserved"
  /\ Seat(c, s, "leaving")
  /\ UNCHANGED <<calls, capacity, clients, server, crossed, restarts>>

Started(s) == {c \in Calls : seat[c][s] = "started"}

(* _start: the client comes to the endpoint it was given with its token    *)
(* (a client that comes without a reservation is denied and changes        *)
(* nothing).  Beyond the limit nothing but the reservation goes.           *)
Start(c, s) ==
  /\ Running(s) /\ call[c] = "assigned" /\ target[c] = s
  /\ seat[c][s] = "reserved"
  /\ Seat(c, s, IF Cardinality(Started(s)) >= Limit THEN "limited" ELSE "started")
  /\ UNCHANGED <<calls, capacity, clients, server, crossed, restarts>>

(* The session closes: _endBySession.                                      *)
End(c, s) ==
  /\ Running(s) /\ seat[c][s] = "started"
  /\ Seat(c, s, "leaving")
  /\ UNCHANGED <<calls, capacity, clients, server, crossed, restarts>>

(* The "end" and "timeout" handlers of Application: capacity, then client  *)
(* count.  A rejected command, carried out or not, ends the handler; it is *)
(* logged as an unhandled rejection and the server goes on.                *)
ReturnSeat(c, s) ==
  /\ Running(s) /\ seat[c][s] = "leaving"
  /\ \/ IncreaseCapacity(s, 1) /\ Seat(c, s, "left")
     \/ IncreaseCapacity(s, 1) /\ Seat(c, s, "stuck")
     \/ UNCHANGED capacity /\ Seat(c, s, "orphan")
  /\ UNCHANGED <<calls, clients, server, crossed, restarts>>

UncountClient(c, s) ==
  /\ Running(s) /\ seat[c][s] = "left"
  /\ \/ IncreaseClient(s, -1) /\ Seat(c, s, "returned")
     \/ UNCHANGED clients /\ Seat(c, s, "stuck")
  /\ UNCHANGED <<calls, capacity, server, crossed, restarts>>

(* stop: the capacity entry is removed while sessions are still closing.   *)
Stop(s) ==
  /\ server[s] = "up" /\ restarts < MaxRestarts
  /\ server' = [server EXCEPT ![s] = "stopping"]
  /\ capacity' = [capacity EXCEPT ![s] = Absent]
  /\ restarts' = restarts + 1
  /\ UNCHANGED <<calls, seat, clients, crossed>>

(* What the server kept and had not written to Redis goes with it.         *)
Memory == {"reserved", "started", "leaving", "left"}

Down(s) ==
  /\ server' = [server EXCEPT ![s] = "down"]
  /\ seat' = [c \in Calls |->
                [seat[c] EXCEPT ![s] = IF @ \in Memory THEN "gone" ELSE @]]

Exit(s) ==
  /\ server[s] = "stopping"
  /\ Down(s)
  /\ UNCHANGED <<calls, redis, crossed, restarts>>

Crash(s) ==
  /\ server[s] = "up" /\ restarts < MaxRestarts
  /\ Down(s)
  /\ restarts' = restarts + 1
  /\ UNCHANGED <<calls, redis, crossed>>

(* assignCapacity removes the old entry ...                                *)
RemoveCapacity(s) ==
  /\ server[s] = "down"
  /\ server' = [server EXCEPT ![s] = "starting"]
  /\ capacity' = [capacity EXCEPT ![s] = Absent]
  /\ UNCHANGED <<calls, seat, clients, crossed, restarts>>

Crossing == {"undo", "seated", "posted"}

(* Seats the dispatcher or the limit lost are part of the old entry.       *)
Written(phase) ==
  CASE phase \in {"orphan", "limited"} -> "gone"
    [] phase = "leaked" -> "void"
    [] OTHER -> phase

(* ... and writes a new one; then the server listens.                      *)
AddCapacity(s) ==
  /\ server[s] = "starting"
  /\ server' = [server EXCEPT ![s] = "up"]
  /\ capacity' = [capacity EXCEPT ![s] = Limit]
  /\ crossed' = [crossed EXCEPT ![s] = {c \in Calls : seat[c][s] \in Crossing}]
  /\ seat' = [c \in Calls |-> [seat[c] EXCEPT ![s] = Written(@)]]
  /\ UNCHANGED <<calls, clients, restarts>>

------------------------------------------------------------------------------
DispatcherStep(c) ==
  \/ Fail(c)
  \/ \E s \in Servers :
       \/ TakeSeat(c, s) \/ TakeSeatFails(c, s) \/ Undo(c, s)
       \/ CountClient(c, s) \/ CountClientFails(c, s)
       \/ Assign(c, s) \/ GiveUp(c, s)

ServerStep(c, s) ==
  Timeout(c, s) \/ ReturnSeat(c, s) \/ UncountClient(c, s)

Delivery(c, s) == Reserve(c, s) \/ PostLost(c, s)

Restart(s) == RemoveCapacity(s) \/ AddCapacity(s)

Next ==
  \/ \E c \in Calls : Dispatch(c) \/ DispatcherStep(c)
  \/ \E c \in Calls, s \in Servers :
       ServerStep(c, s) \/ Delivery(c, s) \/ Start(c, s) \/ End(c, s)
  \/ \E s \in Servers : Stop(s) \/ Exit(s) \/ Crash(s) \/ Restart(s)

Spec == Init /\ [][Next]_vars

(* Calls go on, POSTs are delivered or lost, timers fire and the commands  *)
(* they cause are answered or rejected; nobody has to connect, hang up, or *)
(* start a server again.                                                   *)
FairSpec ==
  /\ Spec
  /\ \A c \in Calls : WF_vars(DispatcherStep(c))
  /\ \A c \in Calls, s \in Servers :
       WF_vars(ServerStep(c, s)) /\ WF_vars(Delivery(c, s))

------------------------------------------------------------------------------
TypeOK ==
  /\ call \in [Calls -> {"idle", "choosing", "busy", "assigned", "failed"}]
  /\ todo \in [Calls -> SUBSET Servers]
  /\ target \in [Calls -> Servers \cup {NoServer}]
  /\ seat \in [Calls -> [Servers -> SeatPhases]]
  /\ capacity \in [Servers -> Int \cup {Absent}]
  /\ clients \in [Servers -> Int \cup {Absent}]
  /\ server \in [Servers -> {"up", "stopping", "down", "starting"}]
  /\ crossed \in [Servers -> SUBSET Calls]
  /\ restarts \in Nat

(* Phases in which a seat is missing from the capacity, in which a client  *)
(* is counted, and in which the capacity has been given back.              *)
Holding == {"undo", "seated", "posted", "reserved", "started", "leaving",
            "leaked", "orphan", "limited"}

Counted == {"posted", "reserved", "started", "leaving", "left", "orphan",
            "stuck", "limited", "gone"}

GivenBack == {"left", "stuck", "returned"}

Taken(s) == {c \in Calls \ crossed[s] : seat[c][s] \in Holding}
Surplus(s) == {c \in crossed[s] : seat[c][s] \in GivenBack}
CountedAt(s) == {c \in Calls : seat[c][s] \in Counted}

(* While a server is up, its capacity in Redis is its limit less the seats *)
(* taken from this entry and not given back, plus the ones given back that *)
(* were taken from an earlier entry; the client count is the number of     *)
(* clients counted and not uncounted.  isProcessIncreased, the rollback,   *)
(* the handlers of "end" and "timeout" and assignCapacity keep it so       *)
(* between them.                                                           *)
SeatsAccounted ==
  \A s \in Servers :
    /\ server[s] = "up" =>
         capacity[s] = Limit - Cardinality(Taken(s)) + Cardinality(Surplus(s))
    /\ clients[s] = Absent => CountedAt(s) = {}
    /\ clients[s] # Absent => clients[s] = Cardinality(CountedAt(s))

(* A server that is up has refused no more clients with a reservation for  *)
(* its limit (_start) than there were dispatch calls that straddled its    *)
(* last restart: taking a seat and giving it back is so counted that the   *)
(* limit never meets a client otherwise.                                   *)
AdmittedUnlessCrossed ==
  \A s \in Servers :
    server[s] = "up" =>
      Cardinality({c \in Calls : seat[c][s] = "limited"})
        <= Cardinality(crossed[s])

(* Every dispatch call ends, whatever fails on the way: of the finitely    *)
(* many calls, none is for ever choosing or busy with a server.            *)
DispatchEnds ==
  <>[](\A c \in Calls : call[c] \in {"idle", "assigned", "failed"})

(* No seat stays in between for ever: each becomes a session, is given     *)
(* back, or is lost to a command or a POST that failed, to the limit or to *)
(* a restart.  A reservation nobody comes for is among these: its timer    *)
(* lets it go (SessionManager.reserve, the handlers of Application).       *)
SeatSettles ==
  <>[](\A c \in Calls, s \in Servers :
         seat[c][s] \in {"none", "started", "returned", "leaked", "orphan",
                        "stuck", "limited", "gone", "void"})
==============================================================================
