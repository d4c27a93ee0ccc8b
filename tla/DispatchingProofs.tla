--------------------------- MODULE DispatchingProofs ---------------------------
(***************************************************************************)
(* Proofs about Dispatching for any number of calls, servers, seats and    *)
(* restarts: the counts in Redis are exact, and the limit of a server      *)
(* refuses at most as many clients as there are calls that straddled its   *)
(* restart.                                                                *)
(***************************************************************************)
EXTENDS Dispatching, FiniteSetTheorems, TLAPS

(* Seats of the present entry that were granted: capacity was not below    *)
(* zero when they were taken.                                              *)
Granted == {"seated", "posted", "reserved", "started", "leaving", "orphan",
            "limited"}
GrantedAt(s) == {c \in Calls \ crossed[s] : seat[c][s] \in Granted}
LimitedAt(s) == {c \in Calls : seat[c][s] = "limited"}

(* A seat is taken once, and only a running server has one in memory.      *)
FreshInv ==
  \A c \in Calls, s \in Servers :
    /\ s \in todo[c] => seat[c][s] = "none"
    /\ call[c] = "idle" => seat[c][s] = "none"
    /\ c \in crossed[s] => seat[c][s] # "none"
    /\ server[s] \in {"down", "starting"} => seat[c][s] \notin Memory

CapacityOK(s) ==
  server[s] = "up" =>
    capacity[s] = Limit - Cardinality(Taken(s)) + Cardinality(Surplus(s))

ClientsOK(s) ==
  /\ clients[s] = Absent => CountedAt(s) = {}
  /\ clients[s] # Absent => clients[s] = Cardinality(CountedAt(s))

(* Seats granted are bounded by what the entry offered.                    *)
GrantedOK(s) ==
  server[s] = "up" => Cardinality(GrantedAt(s)) <= Limit + Cardinality(Surplus(s))

LimitOK(s) ==
  server[s] = "up" => Cardinality(LimitedAt(s)) <= Cardinality(crossed[s])

CountInv ==
  \A s \in Servers : CapacityOK(s) /\ ClientsOK(s) /\ GrantedOK(s) /\ LimitOK(s)

IInv == TypeOK /\ FreshInv /\ CountInv

------------------------------------------------------------------------------
(* What the steps are made of keeps its type.                              *)
LEMMA SeatType ==
  ASSUME TypeOK, NEW c \in Calls, NEW s \in Servers, NEW b \in SeatPhases,
         Seat(c, s, b)
  PROVE  seat' \in [Calls -> [Servers -> SeatPhases]]
BY DEF TypeOK, Seat

LEMMA CapacityType ==
  ASSUME TypeOK, NEW s \in Servers, NEW n \in Int, IncreaseCapacity(s, n)
  PROVE  /\ capacity' \in [Servers -> Int \cup {Absent}]
         /\ capacity'[s] \in Int
         /\ capacity[s] # Absent => capacity'[s] = capacity[s] + n
         /\ \A t \in Servers : t # s => capacity'[t] = capacity[t]
BY AbsentAssumption DEF TypeOK, IncreaseCapacity, Zincrby

LEMMA ClientType ==
  ASSUME TypeOK, NEW s \in Servers, NEW n \in Int, IncreaseClient(s, n)
  PROVE  /\ clients' \in [Servers -> Int \cup {Absent}]
         /\ clients'[s] \in Int
         /\ clients'[s] = IF clients[s] = Absent THEN n ELSE clients[s] + n
         /\ \A t \in Servers : t # s => clients'[t] = clients[t]
BY AbsentAssumption DEF TypeOK, IncreaseClient, Zincrby

LEMMA NextCandidateType ==
  ASSUME TypeOK, NEW c \in Calls, NextCandidate(c)
  PROVE  /\ call' \in [Calls -> {"idle", "choosing", "busy", "assigned", "failed"}]
         /\ target' \in [Calls -> Servers \cup {NoServer}]
BY DEF TypeOK, NextCandidate

(* The type invariant.                                                     *)
LEMMA TypeStep == TypeOK /\ [Next]_vars => TypeOK'
<1> SUFFICES ASSUME TypeOK, [Next]_vars PROVE TypeOK'
    OBVIOUS
<1> USE DEF TypeOK, calls, redis
<1> /\ "undo" \in SeatPhases /\ "seated" \in SeatPhases /\ "posted" \in SeatPhases
    /\ "reserved" \in SeatPhases /\ "started" \in SeatPhases /\ "leaving" \in SeatPhases
    /\ "left" \in SeatPhases /\ "returned" \in SeatPhases /\ "leaked" \in SeatPhases
    /\ "orphan" \in SeatPhases /\ "limited" \in SeatPhases
    /\ "stuck" \in SeatPhases
  BY DEF SeatPhases
<1>1. CASE UNCHANGED vars
  BY <1>1 DEF vars
<1>2. ASSUME NEW c \in Calls, Dispatch(c) PROVE TypeOK'
  <2>1. /\ UNCHANGED <<target, seat, redis, server, crossed, restarts>>
        /\ call' = [call EXCEPT ![c] = "choosing"]
    BY <1>2 DEF Dispatch
  <2>2. PICK S \in SUBSET Servers : todo' = [todo EXCEPT ![c] = S]
    <3>1. CASE \E alive \in SUBSET Servers :
                 todo' = [todo EXCEPT ![c] = {s \in alive : Candidate(s)}]
      BY <3>1
    <3>2. CASE \E s \in Servers : todo' = [todo EXCEPT ![c] = {s}]
      BY <3>2
    <3> QED
      BY <1>2, <3>1, <3>2 DEF Dispatch
  <2> QED
    BY <2>1, <2>2
<1>3. ASSUME NEW c \in Calls, Fail(c) PROVE TypeOK'
  BY <1>3 DEF Fail
<1>4. ASSUME NEW c \in Calls, NEW s \in Servers, DispatcherStep(c) PROVE TypeOK'
  <2>1. CASE Fail(c)
    BY <2>1 DEF Fail
  <2>2. ASSUME NEW t \in Servers, TakeSeat(c, t) PROVE TypeOK'
    BY <2>2, SeatType, CapacityType DEF TakeSeat
  <2>3. ASSUME NEW t \in Servers, TakeSeatFails(c, t) PROVE TypeOK'
    BY <2>3, SeatType, CapacityType DEF TakeSeatFails
  <2>4. ASSUME NEW t \in Servers, Undo(c, t) PROVE TypeOK'
    BY <2>4, SeatType, CapacityType, NextCandidateType DEF Undo
  <2>5. ASSUME NEW t \in Servers, CountClient(c, t) PROVE TypeOK'
    BY <2>5, SeatType, ClientType DEF CountClient
  <2>6. ASSUME NEW t \in Servers, CountClientFails(c, t) PROVE TypeOK'
    BY <2>6, SeatType, ClientType, NextCandidateType DEF CountClientFails
  <2>7. ASSUME NEW t \in Servers, Assign(c, t) PROVE TypeOK'
    BY <2>7 DEF Assign
  <2>8. ASSUME NEW t \in Servers, GiveUp(c, t) PROVE TypeOK'
    BY <2>8, NextCandidateType DEF GiveUp
  <2> QED
    BY <1>4, <2>1, <2>2, <2>3, <2>4, <2>5, <2>6, <2>7, <2>8 DEF DispatcherStep
<1>5. ASSUME NEW c \in Calls, NEW s \in Servers,
             ServerStep(c, s) \/ Delivery(c, s) \/ Start(c, s) \/ End(c, s)
      PROVE TypeOK'
  <2>1. CASE Timeout(c, s)
    BY <2>1, SeatType DEF Timeout
  <2>2. CASE ReturnSeat(c, s)
    BY <2>2, SeatType, CapacityType DEF ReturnSeat
  <2>3. CASE UncountClient(c, s)
    BY <2>3, SeatType, ClientType DEF UncountClient
  <2>4. CASE Reserve(c, s)
    BY <2>4, SeatType DEF Reserve
  <2>5. CASE PostLost(c, s)
    BY <2>5, SeatType, NextCandidateType DEF PostLost
  <2>6. CASE Start(c, s)
    BY <2>6, SeatType DEF Start
  <2>7. CASE End(c, s)
    BY <2>7, SeatType DEF End
  <2> QED
    BY <1>5, <2>1, <2>2, <2>3, <2>4, <2>5, <2>6, <2>7 DEF ServerStep, Delivery
<1>6. ASSUME NEW s \in Servers, Stop(s) \/ Exit(s) \/ Crash(s) \/ Restart(s)
      PROVE TypeOK'
  <2>1. CASE Stop(s)
    BY <2>1, MaxRestartsAssumption DEF Stop
  <2>2. CASE Exit(s)
    BY <2>2 DEF Exit, Down, SeatPhases
  <2>3. CASE Crash(s)
    BY <2>3, MaxRestartsAssumption DEF Crash, Down, SeatPhases
  <2>4. CASE RemoveCapacity(s)
    BY <2>4 DEF RemoveCapacity
  <2>5. CASE AddCapacity(s)
    BY <2>5, LimitAssumption DEF AddCapacity, Written, SeatPhases
  <2> QED
    BY <1>6, <2>1, <2>2, <2>3, <2>4, <2>5 DEF Restart
<1> QED
  <2>1. CASE \E c \in Calls : Dispatch(c) \/ DispatcherStep(c)
    <3>1. PICK c \in Calls : Dispatch(c) \/ DispatcherStep(c)
      BY <2>1
    <3>2. CASE Dispatch(c)
      BY <3>2, <1>2
    <3>3. CASE Fail(c)
      BY <3>3, <1>3
    <3>4. CASE DispatcherStep(c) /\ ~Fail(c)
      BY <3>4, <1>4 DEF DispatcherStep
    <3> QED
      BY <3>1, <3>2, <3>3, <3>4
  <2> QED
    BY <1>1, <1>5, <1>6, <2>1 DEF Next

------------------------------------------------------------------------------
(* Counting.                                                               *)

One(b) == IF b THEN 1 ELSE 0

(* Two sets that agree but for one element.                                *)
LEMMA CardChange ==
  ASSUME NEW A, NEW B, NEW c, IsFiniteSet(A),
         \A x : x # c => (x \in A <=> x \in B)
  PROVE  /\ IsFiniteSet(B)
         /\ Cardinality(A) \in Nat /\ Cardinality(B) \in Nat
         /\ Cardinality(B) = Cardinality(A) + One(c \in B) - One(c \in A)
<1>1. Cardinality(A) \in Nat
  BY FS_CardinalityType
<1>2. CASE (c \in A) <=> (c \in B)
  <2>1. A = B
    BY <1>2
  <2> QED
    BY <1>1, <2>1 DEF One
<1>3. CASE c \in A /\ c \notin B
  <2>1. B = A \ {c}
    BY <1>3
  <2>2. IsFiniteSet(B) /\ Cardinality(B) = Cardinality(A) - 1
    BY <1>3, <2>1, FS_RemoveElement
  <2>3. Cardinality(B) \in Nat
    BY <2>2, FS_CardinalityType
  <2> QED
    BY <1>1, <1>3, <2>2, <2>3 DEF One
<1>4. CASE c \notin A /\ c \in B
  <2>1. B = A \cup {c}
    BY <1>4
  <2>2. IsFiniteSet(B) /\ Cardinality(B) = Cardinality(A) + 1
    BY <1>4, <2>1, FS_AddElement
  <2> QED
    BY <1>1, <1>4, <2>2 DEF One
<1> QED
  BY <1>2, <1>3, <1>4

LEMMA DisjointUnion ==
  ASSUME NEW A, NEW B, IsFiniteSet(A), IsFiniteSet(B), A \cap B = {}
  PROVE  /\ IsFiniteSet(A \cup B)
         /\ Cardinality(A \cup B) = Cardinality(A) + Cardinality(B)
<1>1. Cardinality(A) \in Nat /\ Cardinality(B) \in Nat
  BY FS_CardinalityType
<1>2. Cardinality(A \cap B) = 0
  BY FS_EmptySet
<1>3. /\ IsFiniteSet(A \cup B)
      /\ Cardinality(A \cup B) = Cardinality(A) + Cardinality(B) - Cardinality(A \cap B)
  BY FS_Union
<1> QED
  BY <1>1, <1>2, <1>3

(* The sets that are counted are finite.                                   *)
LEMMA Finite ==
  ASSUME TypeOK, NEW s \in Servers
  PROVE  /\ IsFiniteSet(Taken(s)) /\ Cardinality(Taken(s)) \in Nat
         /\ IsFiniteSet(Surplus(s)) /\ Cardinality(Surplus(s)) \in Nat
         /\ IsFiniteSet(CountedAt(s)) /\ Cardinality(CountedAt(s)) \in Nat
         /\ IsFiniteSet(GrantedAt(s)) /\ Cardinality(GrantedAt(s)) \in Nat
         /\ IsFiniteSet(LimitedAt(s)) /\ Cardinality(LimitedAt(s)) \in Nat
         /\ IsFiniteSet(crossed[s]) /\ Cardinality(crossed[s]) \in Nat
<1>1. /\ Taken(s) \in SUBSET Calls /\ Surplus(s) \in SUBSET Calls
      /\ CountedAt(s) \in SUBSET Calls /\ GrantedAt(s) \in SUBSET Calls
      /\ LimitedAt(s) \in SUBSET Calls /\ crossed[s] \in SUBSET Calls
  BY DEF TypeOK, Taken, Surplus, CountedAt, GrantedAt, LimitedAt
<1>2. \A S \in SUBSET Calls : IsFiniteSet(S) /\ Cardinality(S) \in Nat
  BY CallsAssumption, FS_Subset, FS_CardinalityType
<1> QED
  BY <1>1, <1>2

(* One seat moves from one phase to another: what becomes of the counts.   *)
LEMMA SeatMoves ==
  ASSUME TypeOK, NEW c \in Calls, NEW s \in Servers, NEW b,
         Seat(c, s, b), crossed' = crossed
  PROVE  /\ seat'[c][s] = b
         /\ IsFiniteSet(Taken(s)') /\ Cardinality(Taken(s)') \in Nat
         /\ Cardinality(Surplus(s)') \in Nat /\ Cardinality(GrantedAt(s)') \in Nat
         /\ Cardinality(Taken(s)') = Cardinality(Taken(s))
              + One(c \notin crossed[s] /\ b \in Holding)
              - One(c \notin crossed[s] /\ seat[c][s] \in Holding)
         /\ Cardinality(Surplus(s)') = Cardinality(Surplus(s))
              + One(c \in crossed[s] /\ b \in GivenBack)
              - One(c \in crossed[s] /\ seat[c][s] \in GivenBack)
         /\ Cardinality(CountedAt(s)') = Cardinality(CountedAt(s))
              + One(b \in Counted) - One(seat[c][s] \in Counted)
         /\ Cardinality(GrantedAt(s)') = Cardinality(GrantedAt(s))
              + One(c \notin crossed[s] /\ b \in Granted)
              - One(c \notin crossed[s] /\ seat[c][s] \in Granted)
         /\ Cardinality(LimitedAt(s)') = Cardinality(LimitedAt(s))
              + One(b = "limited") - One(seat[c][s] = "limited")
<1>1. seat'[c][s] = b /\ \A x \in Calls : x # c => seat'[x][s] = seat[x][s]
  BY DEF Seat, TypeOK
<1>2. /\ Cardinality(Taken(s)') = Cardinality(Taken(s))
           + One(c \in Taken(s)') - One(c \in Taken(s))
      /\ IsFiniteSet(Taken(s)') /\ Cardinality(Taken(s)') \in Nat
  <2>1. \A x : x # c => (x \in Taken(s) <=> x \in Taken(s)')
    BY <1>1 DEF Taken
  <2> QED
    BY <2>1, Finite, CardChange
<1>3. /\ Cardinality(Surplus(s)') = Cardinality(Surplus(s))
           + One(c \in Surplus(s)') - One(c \in Surplus(s))
      /\ Cardinality(Surplus(s)') \in Nat
  <2>1. \A x : x # c => (x \in Surplus(s) <=> x \in Surplus(s)')
    BY <1>1 DEF Surplus, TypeOK
  <2> QED
    BY <2>1, Finite, CardChange
<1>4. Cardinality(CountedAt(s)') = Cardinality(CountedAt(s))
        + One(c \in CountedAt(s)') - One(c \in CountedAt(s))
  <2>1. \A x : x # c => (x \in CountedAt(s) <=> x \in CountedAt(s)')
    BY <1>1 DEF CountedAt
  <2> QED
    BY <2>1, Finite, CardChange
<1>5. /\ Cardinality(GrantedAt(s)') = Cardinality(GrantedAt(s))
           + One(c \in GrantedAt(s)') - One(c \in GrantedAt(s))
      /\ Cardinality(GrantedAt(s)') \in Nat
  <2>1. \A x : x # c => (x \in GrantedAt(s) <=> x \in GrantedAt(s)')
    BY <1>1 DEF GrantedAt
  <2> QED
    BY <2>1, Finite, CardChange
<1>6. Cardinality(LimitedAt(s)') = Cardinality(LimitedAt(s))
        + One(c \in LimitedAt(s)') - One(c \in LimitedAt(s))
  <2>1. \A x : x # c => (x \in LimitedAt(s) <=> x \in LimitedAt(s)')
    BY <1>1 DEF LimitedAt
  <2> QED
    BY <2>1, Finite, CardChange
<1>7. /\ (c \in Taken(s)) <=> (c \notin crossed[s] /\ seat[c][s] \in Holding)
      /\ (c \in Taken(s)') <=> (c \notin crossed[s] /\ b \in Holding)
      /\ (c \in Surplus(s)) <=> (c \in crossed[s] /\ seat[c][s] \in GivenBack)
      /\ (c \in Surplus(s)') <=> (c \in crossed[s] /\ b \in GivenBack)
      /\ (c \in CountedAt(s)) <=> (seat[c][s] \in Counted)
      /\ (c \in CountedAt(s)') <=> (b \in Counted)
      /\ (c \in GrantedAt(s)) <=> (c \notin crossed[s] /\ seat[c][s] \in Granted)
      /\ (c \in GrantedAt(s)') <=> (c \notin crossed[s] /\ b \in Granted)
      /\ (c \in LimitedAt(s)) <=> (seat[c][s] = "limited")
      /\ (c \in LimitedAt(s)') <=> (b = "limited")
  BY <1>1 DEF Taken, Surplus, CountedAt, GrantedAt, LimitedAt
<1> QED
  BY <1>1, <1>2, <1>3, <1>4, <1>5, <1>6, <1>7 DEF One

(* Other servers' counts stay as they are.                                 *)
LEMMA OthersStay ==
  ASSUME TypeOK, NEW t \in Servers, CountInv,
         \A x \in Calls : seat'[x][t] = seat[x][t],
         crossed'[t] = crossed[t], server'[t] = server[t],
         capacity'[t] = capacity[t], clients'[t] = clients[t]
  PROVE  (CapacityOK(t) /\ ClientsOK(t) /\ GrantedOK(t) /\ LimitOK(t))'
<1>1. /\ Taken(t)' = Taken(t) /\ Surplus(t)' = Surplus(t)
      /\ CountedAt(t)' = CountedAt(t) /\ GrantedAt(t)' = GrantedAt(t)
      /\ LimitedAt(t)' = LimitedAt(t)
  BY DEF Taken, Surplus, CountedAt, GrantedAt, LimitedAt, TypeOK
<1> QED
  BY <1>1 DEF CountInv, CapacityOK, ClientsOK, GrantedOK, LimitOK

(* A step that moves the seat <<c, s>> and keeps the counts of s keeps     *)
(* every count.                                                            *)
LEMMA Moved ==
  ASSUME IInv, NEW c \in Calls, NEW s \in Servers, NEW b,
         Seat(c, s, b), crossed' = crossed, server' = server,
         \A t \in Servers : t # s => capacity'[t] = capacity[t] /\ clients'[t] = clients[t],
         (CapacityOK(s) /\ ClientsOK(s) /\ GrantedOK(s) /\ LimitOK(s))'
  PROVE  CountInv'
<1>1. ASSUME NEW t \in Servers, t # s
      PROVE  (CapacityOK(t) /\ ClientsOK(t) /\ GrantedOK(t) /\ LimitOK(t))'
  <2>1. \A x \in Calls : seat'[x][t] = seat[x][t]
    BY <1>1 DEF Seat, IInv, TypeOK
  <2> QED
    BY <1>1, <2>1, OthersStay DEF IInv
<1> QED
  BY <1>1 DEF CountInv

(* What a move of one seat has to do to the numbers in Redis.              *)
LEMMA MovedRight ==
  ASSUME IInv, NEW c \in Calls, NEW s \in Servers, NEW b,
         Seat(c, s, b), crossed' = crossed, server' = server,
         \A t \in Servers : t # s => capacity'[t] = capacity[t] /\ clients'[t] = clients[t],
         server[s] = "up" =>
           capacity'[s] = capacity[s]
              + One(c \in crossed[s] /\ b \in GivenBack)
              - One(c \in crossed[s] /\ seat[c][s] \in GivenBack)
              + One(c \notin crossed[s] /\ seat[c][s] \in Holding)
              - One(c \notin crossed[s] /\ b \in Holding),
         ClientsOK(s)',
         b \in Granted => (seat[c][s] \in Granted \/ capacity'[s] >= 0),
         seat[c][s] \in GivenBack => b \in GivenBack,
         b # "limited"
  PROVE  CountInv'
<1> USE DEF IInv
<1>1. CapacityOK(s) /\ GrantedOK(s) /\ LimitOK(s)
  BY DEF CountInv
<1>2. CapacityOK(s)'
  <2> SUFFICES ASSUME server[s] = "up"
               PROVE  capacity'[s] = Limit - Cardinality(Taken(s)') + Cardinality(Surplus(s)')
    BY DEF CapacityOK
  <2>1. capacity[s] = Limit - Cardinality(Taken(s)) + Cardinality(Surplus(s))
    BY <1>1 DEF CapacityOK
  <2> DEFINE gained == One(c \in crossed[s] /\ b \in GivenBack)
             lost   == One(c \in crossed[s] /\ seat[c][s] \in GivenBack)
             freed  == One(c \notin crossed[s] /\ seat[c][s] \in Holding)
             held   == One(c \notin crossed[s] /\ b \in Holding)
  <2>2. gained \in Int /\ lost \in Int /\ freed \in Int /\ held \in Int
    BY DEF One
  <2>3. capacity'[s] = capacity[s] + gained - lost + freed - held
    OBVIOUS
  <2>4. /\ Cardinality(Taken(s)') = Cardinality(Taken(s)) + held - freed
        /\ Cardinality(Surplus(s)') = Cardinality(Surplus(s)) + gained - lost
    BY SeatMoves, Zenon
  <2>5. Limit \in Int /\ Cardinality(Taken(s)) \in Int /\ Cardinality(Surplus(s)) \in Int
    BY Finite, LimitAssumption
  <2> HIDE DEF gained, lost, freed, held
  <2> QED
    BY <2>1, <2>2, <2>3, <2>4, <2>5
<1>3. GrantedOK(s)'
  <2> SUFFICES ASSUME server[s] = "up"
               PROVE  Cardinality(GrantedAt(s)') <= Limit + Cardinality(Surplus(s)')
    BY DEF GrantedOK
  <2>0. Cardinality(GrantedAt(s)) <= Limit + Cardinality(Surplus(s))
    BY <1>1 DEF GrantedOK
  <2>1. CASE b \in Granted /\ seat[c][s] \notin Granted
    <3>1. capacity'[s] >= 0
      BY <2>1
    <3>2. Cardinality(Taken(s)') <= Limit + Cardinality(Surplus(s)')
      <4>1. capacity'[s] = Limit - Cardinality(Taken(s)') + Cardinality(Surplus(s)')
        BY <1>2 DEF CapacityOK
      <4> QED
        BY <3>1, <4>1, SeatMoves, LimitAssumption
    <3>3. GrantedAt(s)' \in SUBSET Taken(s)'
      BY DEF GrantedAt, Taken, Granted, Holding
    <3>4. Cardinality(GrantedAt(s)') <= Cardinality(Taken(s)')
      BY <3>3, SeatMoves, FS_Subset
    <3> QED
      BY <3>2, <3>4, SeatMoves, LimitAssumption
  <2>2. CASE ~(b \in Granted /\ seat[c][s] \notin Granted)
    BY <2>0, <2>2, SeatMoves, Finite, LimitAssumption DEF One
  <2> QED
    BY <2>1, <2>2
<1>4. LimitOK(s)'
  BY <1>1, SeatMoves, Finite DEF LimitOK, One, TypeOK
<1> QED
  BY <1>2, <1>3, <1>4, Moved

(* ClientsOK under a move of one seat.                                     *)
LEMMA ClientsMoved ==
  ASSUME IInv, NEW c \in Calls, NEW s \in Servers, NEW b,
         Seat(c, s, b), crossed' = crossed,
         \/ /\ clients' = clients
            /\ (b \in Counted) <=> (seat[c][s] \in Counted)
         \/ /\ IncreaseClient(s, 1)
            /\ b \in Counted /\ seat[c][s] \notin Counted
         \/ /\ IncreaseClient(s, -1)
            /\ b \notin Counted /\ seat[c][s] \in Counted
  PROVE  ClientsOK(s)'
<1> USE DEF IInv
<1>1. ClientsOK(s)
  BY DEF CountInv
<1>2. /\ Cardinality(CountedAt(s)) \in Nat
      /\ CountedAt(s) = {} => Cardinality(CountedAt(s)) = 0
      /\ seat[c][s] \in Counted => c \in CountedAt(s)
  BY Finite, FS_EmptySet DEF CountedAt
<1>3. CASE clients' = clients /\ ((b \in Counted) <=> (seat[c][s] \in Counted))
  <2>1. CountedAt(s)' = CountedAt(s)
    BY <1>3 DEF CountedAt, Seat, TypeOK
  <2> QED
    BY <1>1, <1>3, <2>1 DEF ClientsOK
<1>4. CASE IncreaseClient(s, 1) /\ b \in Counted /\ seat[c][s] \notin Counted
  <2>1. Cardinality(CountedAt(s)') = Cardinality(CountedAt(s)) + 1
    BY <1>2, <1>4, SeatMoves DEF One
  <2> QED
    BY <1>1, <1>2, <1>4, <2>1, ClientType, AbsentAssumption DEF ClientsOK
<1>5. CASE IncreaseClient(s, -1) /\ b \notin Counted /\ seat[c][s] \in Counted
  <2>1. Cardinality(CountedAt(s)') = Cardinality(CountedAt(s)) - 1
    BY <1>2, <1>5, SeatMoves DEF One
  <2>2. clients[s] # Absent
    BY <1>1, <1>2, <1>5 DEF ClientsOK
  <2> QED
    BY <1>1, <1>2, <1>5, <2>1, <2>2, ClientType, AbsentAssumption DEF ClientsOK
<1> QED
  BY <1>3, <1>4, <1>5

(* The entry of a server that is up exists.                                *)
LEMMA UpCapacity ==
  ASSUME IInv, NEW s \in Servers, server[s] = "up"
  PROVE  capacity[s] \in Int /\ capacity[s] # Absent
BY Finite, LimitAssumption, AbsentAssumption DEF IInv, CountInv, CapacityOK

(* Steps that touch no seat and no count.                                  *)
LEMMA SameCounts ==
  ASSUME IInv, UNCHANGED <<seat, capacity, clients, server, crossed>>
  PROVE  CountInv'
BY OthersStay DEF IInv, CountInv

LEMMA DispatcherCounts ==
  ASSUME IInv, NEW c \in Calls, DispatcherStep(c)
  PROVE  CountInv'
<1> USE DEF calls, redis
<1>1. CASE Fail(c)
  BY <1>1, SameCounts DEF Fail
<1>2. ASSUME NEW s \in Servers, Assign(c, s) \/ GiveUp(c, s) PROVE CountInv'
  BY <1>2, SameCounts DEF Assign, GiveUp
<1>3. ASSUME NEW s \in Servers, TakeSeat(c, s) PROVE CountInv'
  <2>1. seat[c][s] = "none" /\ c \notin crossed[s]
    BY <1>3 DEF TakeSeat, IInv, FreshInv
  <2>2. PICK b \in {"undo", "seated"} :
          Seat(c, s, b) /\ (b = "seated" => capacity'[s] >= 0)
    <3>1. capacity'[s] \in Int
      BY <1>3, CapacityType DEF TakeSeat, IInv
    <3> QED
      BY <1>3, <3>1 DEF TakeSeat
  <2>3. ClientsOK(s)'
    BY <1>3, <2>1, <2>2, ClientsMoved DEF TakeSeat, Counted
  <2>4. /\ server[s] = "up" => capacity'[s] = capacity[s] - 1
        /\ \A t \in Servers : t # s => capacity'[t] = capacity[t]
    BY <1>3, CapacityType, UpCapacity DEF TakeSeat, IInv
  <2>5. server[s] = "up" => capacity[s] \in Int
    BY UpCapacity
  <2> QED
    BY <1>3, <2>1, <2>2, <2>3, <2>4, <2>5, MovedRight
       DEF TakeSeat, One, Holding, Granted, GivenBack
<1>4. ASSUME NEW s \in Servers, TakeSeatFails(c, s) PROVE CountInv'
  <2>1. seat[c][s] = "none" /\ c \notin crossed[s]
    BY <1>4 DEF TakeSeatFails, IInv, FreshInv
  <2>2. CASE UNCHANGED <<capacity, seat>>
    BY <1>4, <2>2, SameCounts DEF TakeSeatFails
  <2>3. CASE IncreaseCapacity(s, -1) /\ Seat(c, s, "leaked")
    <3>1. ClientsOK(s)'
      BY <1>4, <2>1, <2>3, ClientsMoved DEF TakeSeatFails, Counted
    <3>2. /\ server[s] = "up" => capacity'[s] = capacity[s] - 1
          /\ \A t \in Servers : t # s => capacity'[t] = capacity[t]
          /\ server[s] = "up" => capacity[s] \in Int
      BY <2>3, CapacityType, UpCapacity DEF IInv
    <3> QED
      BY <1>4, <2>1, <2>3, <3>1, <3>2, MovedRight
         DEF TakeSeatFails, One, Holding, Granted, GivenBack
  <2> QED
    BY <1>4, <2>2, <2>3 DEF TakeSeatFails
<1>5. ASSUME NEW s \in Servers, Undo(c, s) PROVE CountInv'
  <2>1. seat[c][s] = "undo"
    BY <1>5 DEF Undo
  <2>2. CASE IncreaseCapacity(s, 1) /\ Seat(c, s, "returned")
    <3>1. ClientsOK(s)'
      BY <1>5, <2>1, <2>2, ClientsMoved DEF Undo, Counted
    <3>2. /\ server[s] = "up" => capacity'[s] = capacity[s] + 1
          /\ \A t \in Servers : t # s => capacity'[t] = capacity[t]
          /\ server[s] = "up" => capacity[s] \in Int
      BY <2>2, CapacityType, UpCapacity DEF IInv
    <3> QED
      BY <1>5, <2>1, <2>2, <3>1, <3>2, MovedRight
         DEF Undo, One, Holding, Granted, GivenBack
  <2>3. CASE UNCHANGED capacity /\ Seat(c, s, "leaked")
    <3>1. ClientsOK(s)'
      BY <1>5, <2>1, <2>3, ClientsMoved DEF Undo, Counted
    <3>2. server[s] = "up" => capacity[s] \in Int
      BY UpCapacity
    <3> QED
      BY <1>5, <2>1, <2>3, <3>1, <3>2, MovedRight
         DEF Undo, One, Holding, Granted, GivenBack
  <2> QED
    BY <1>5, <2>2, <2>3 DEF Undo
<1>6. ASSUME NEW s \in Servers, CountClient(c, s) PROVE CountInv'
  <2>1. seat[c][s] = "seated" /\ Seat(c, s, "posted")
    BY <1>6 DEF CountClient
  <2>2. ClientsOK(s)'
    BY <1>6, <2>1, ClientsMoved DEF CountClient, Counted
  <2>3. /\ server[s] = "up" => capacity[s] \in Int
        /\ \A t \in Servers : t # s => clients'[t] = clients[t]
    BY <1>6, UpCapacity, ClientType DEF CountClient, IInv
  <2> QED
    BY <1>6, <2>1, <2>2, <2>3, MovedRight DEF CountClient, One, Holding, Granted, GivenBack
<1>7. ASSUME NEW s \in Servers, CountClientFails(c, s) PROVE CountInv'
  <2>1. seat[c][s] = "seated"
    BY <1>7 DEF CountClientFails
  <2>2. PICK b \in {"orphan", "leaked"} :
          /\ Seat(c, s, b)
          /\ b = "orphan" => IncreaseClient(s, 1)
          /\ b = "leaked" => UNCHANGED clients
    BY <1>7 DEF CountClientFails
  <2>3. ClientsOK(s)'
    BY <1>7, <2>1, <2>2, ClientsMoved DEF CountClientFails, Counted
  <2>4. /\ server[s] = "up" => capacity[s] \in Int
        /\ \A t \in Servers : t # s => clients'[t] = clients[t]
    BY <2>2, UpCapacity, ClientType DEF IInv
  <2> QED
    BY <1>7, <2>1, <2>2, <2>3, <2>4, MovedRight
       DEF CountClientFails, One, Holding, Granted, GivenBack
<1> QED
  BY <1>1, <1>2, <1>3, <1>4, <1>5, <1>6, <1>7 DEF DispatcherStep

(* A client that meets the limit: every started seat beyond what the       *)
(* present entry granted belongs to a call that straddled the restart.     *)
LEMMA LimitMet ==
  ASSUME IInv, NEW c \in Calls, NEW s \in Servers, server[s] = "up",
         seat[c][s] = "reserved", Cardinality(Started(s)) >= Limit
  PROVE  Cardinality(LimitedAt(s)) + 1 <= Cardinality(crossed[s])
<1> USE DEF IInv
<1> DEFINE All == Started(s) \cup LimitedAt(s)
           Old == {x \in crossed[s] : seat[x][s] \in {"reserved", "started", "limited"}}
<1>1. /\ IsFiniteSet(Started(s)) /\ Cardinality(Started(s)) \in Nat
      /\ IsFiniteSet(Old) /\ Cardinality(Old) \in Nat
  <2>1. Started(s) \in SUBSET Calls /\ Old \in SUBSET Calls
    BY DEF Started, TypeOK
  <2> QED
    BY <2>1, CallsAssumption, FS_Subset, FS_CardinalityType
<1>2. Started(s) \cap LimitedAt(s) = {}
  BY DEF Started, LimitedAt
<1>3. IsFiniteSet(All) /\ Cardinality(All) = Cardinality(Started(s)) + Cardinality(LimitedAt(s))
  BY <1>1, <1>2, Finite, DisjointUnion
<1>4. c \notin All
  BY DEF Started, LimitedAt
<1>5. /\ IsFiniteSet(All \cup {c})
      /\ Cardinality(All \cup {c}) = Cardinality(Started(s)) + Cardinality(LimitedAt(s)) + 1
  BY <1>3, <1>4, FS_AddElement
<1>6. All \cup {c} \in SUBSET (GrantedAt(s) \cup Old)
  BY DEF Started, LimitedAt, GrantedAt, Granted
<1>7. IsFiniteSet(GrantedAt(s) \cup Old)
      /\ Cardinality(GrantedAt(s) \cup Old)
           = Cardinality(GrantedAt(s)) + Cardinality(Old)
  <2>1. GrantedAt(s) \cap Old = {}
    BY DEF GrantedAt
  <2> HIDE DEF Old
  <2> QED
    BY <1>1, <2>1, Finite, DisjointUnion
<1>8. Cardinality(All \cup {c}) <= Cardinality(GrantedAt(s)) + Cardinality(Old)
  BY <1>6, <1>7, FS_Subset
<1>9. Cardinality(Surplus(s)) + Cardinality(Old) <= Cardinality(crossed[s])
  <2>1. Surplus(s) \cap Old = {}
    BY DEF Surplus, GivenBack
  <2>2. Surplus(s) \cup Old \in SUBSET crossed[s]
    BY DEF Surplus
  <2> HIDE DEF Old
  <2>3. Cardinality(Surplus(s) \cup Old) = Cardinality(Surplus(s)) + Cardinality(Old)
    BY <1>1, <2>1, Finite, DisjointUnion
  <2> QED
    BY <2>2, <2>3, Finite, FS_Subset
<1>10. Cardinality(GrantedAt(s)) <= Limit + Cardinality(Surplus(s))
  BY DEF CountInv, GrantedOK
<1> QED
  BY <1>1, <1>5, <1>8, <1>9, <1>10, Finite, LimitAssumption

LEMMA ServerCounts ==
  ASSUME IInv, NEW c \in Calls, NEW s \in Servers,
         ServerStep(c, s) \/ Delivery(c, s) \/ Start(c, s) \/ End(c, s)
  PROVE  CountInv'
<1> USE DEF calls, redis
<1>0. server[s] = "up" => capacity[s] \in Int
  BY UpCapacity
<1>1. CASE Timeout(c, s)
  <2>1. seat[c][s] = "reserved" /\ Seat(c, s, "leaving")
    BY <1>1 DEF Timeout
  <2>2. ClientsOK(s)'
    BY <1>1, <2>1, ClientsMoved DEF Timeout, Counted
  <2> QED
    BY <1>0, <1>1, <2>1, <2>2, MovedRight DEF Timeout, One, Holding, Granted, GivenBack
<1>2. CASE Reserve(c, s)
  <2>1. seat[c][s] = "posted" /\ Seat(c, s, "reserved")
    BY <1>2 DEF Reserve
  <2>2. ClientsOK(s)'
    BY <1>2, <2>1, ClientsMoved DEF Reserve, Counted
  <2> QED
    BY <1>0, <1>2, <2>1, <2>2, MovedRight DEF Reserve, One, Holding, Granted, GivenBack
<1>3. CASE PostLost(c, s)
  <2>1. seat[c][s] = "posted" /\ Seat(c, s, "orphan")
    BY <1>3 DEF PostLost
  <2>2. ClientsOK(s)'
    BY <1>3, <2>1, ClientsMoved DEF PostLost, Counted
  <2> QED
    BY <1>0, <1>3, <2>1, <2>2, MovedRight DEF PostLost, One, Holding, Granted, GivenBack
<1>4. CASE End(c, s)
  <2>1. seat[c][s] = "started" /\ Seat(c, s, "leaving")
    BY <1>4 DEF End
  <2>2. ClientsOK(s)'
    BY <1>4, <2>1, ClientsMoved DEF End, Counted
  <2> QED
    BY <1>0, <1>4, <2>1, <2>2, MovedRight DEF End, One, Holding, Granted, GivenBack
<1>5. CASE ReturnSeat(c, s)
  <2>1. seat[c][s] = "leaving" /\ UNCHANGED <<clients, crossed, server>>
    BY <1>5 DEF ReturnSeat
  <2>2. ASSUME NEW b \in {"left", "stuck"}, IncreaseCapacity(s, 1), Seat(c, s, b)
        PROVE  CountInv'
    <3>1. ClientsOK(s)'
      BY <2>1, <2>2, ClientsMoved DEF Counted
    <3>2. /\ server[s] = "up" => capacity'[s] = capacity[s] + 1
          /\ \A t \in Servers : t # s => capacity'[t] = capacity[t]
      BY <2>2, CapacityType, UpCapacity DEF IInv
    <3> QED
      BY <1>0, <2>1, <2>2, <3>1, <3>2, MovedRight DEF One, Holding, Granted, GivenBack
  <2>3. CASE UNCHANGED capacity /\ Seat(c, s, "orphan")
    <3>1. ClientsOK(s)'
      BY <2>1, <2>3, ClientsMoved DEF Counted
    <3> QED
      BY <1>0, <2>1, <2>3, <3>1, MovedRight DEF One, Holding, Granted, GivenBack
  <2> QED
    BY <1>5, <2>2, <2>3 DEF ReturnSeat
<1>6. CASE UncountClient(c, s)
  <2>1. seat[c][s] = "left" /\ UNCHANGED <<capacity, crossed, server>>
    BY <1>6 DEF UncountClient
  <2>2. PICK b \in {"stuck", "returned"} :
          /\ Seat(c, s, b)
          /\ b = "returned" => IncreaseClient(s, -1)
          /\ b = "stuck" => UNCHANGED clients
    BY <1>6 DEF UncountClient
  <2>3. ClientsOK(s)'
    BY <2>1, <2>2, ClientsMoved DEF Counted
  <2>4. \A t \in Servers : t # s => clients'[t] = clients[t]
    BY <2>2, ClientType DEF IInv
  <2> QED
    BY <1>0, <2>1, <2>2, <2>3, <2>4, MovedRight DEF One, Holding, Granted, GivenBack
<1>7. CASE Start(c, s) /\ Seat(c, s, "started")
  <2>1. seat[c][s] = "reserved"
    BY <1>7 DEF Start
  <2>2. ClientsOK(s)'
    BY <1>7, <2>1, ClientsMoved DEF Start, Counted
  <2> QED
    BY <1>0, <1>7, <2>1, <2>2, MovedRight DEF Start, One, Holding, Granted, GivenBack
<1>8. CASE Start(c, s) /\ Seat(c, s, "limited") /\ Cardinality(Started(s)) >= Limit
  <2>1. seat[c][s] = "reserved"
    BY <1>8 DEF Start
  <2>2. ClientsOK(s)'
    BY <1>8, <2>1, ClientsMoved DEF Start, Counted
  <2>3. CapacityOK(s) /\ GrantedOK(s)
    BY DEF IInv, CountInv
  <2>4. /\ Cardinality(Taken(s)') = Cardinality(Taken(s))
        /\ Cardinality(Surplus(s)') = Cardinality(Surplus(s))
        /\ Cardinality(GrantedAt(s)') = Cardinality(GrantedAt(s))
        /\ Cardinality(LimitedAt(s)') = Cardinality(LimitedAt(s)) + 1
    BY <1>8, <2>1, SeatMoves, Finite DEF Start, One, Holding, Granted, GivenBack, IInv
  <2>5. CapacityOK(s)' /\ GrantedOK(s)'
    BY <1>8, <2>3, <2>4 DEF CapacityOK, GrantedOK, Start
  <2>6. LimitOK(s)'
    BY <1>8, <2>1, <2>4, LimitMet DEF LimitOK, Start
  <2> QED
    BY <1>8, <2>2, <2>5, <2>6, Moved DEF Start
<1> QED
  BY <1>1, <1>2, <1>3, <1>4, <1>5, <1>6, <1>7, <1>8
     DEF ServerStep, Delivery, Start

LEMMA RestartCounts ==
  ASSUME IInv, NEW s \in Servers, Stop(s) \/ Exit(s) \/ Crash(s) \/ Restart(s)
  PROVE  CountInv'
<1> USE DEF calls, redis, IInv
<1>1. ASSUME NEW t \in Servers, t # s
      PROVE  (CapacityOK(t) /\ ClientsOK(t) /\ GrantedOK(t) /\ LimitOK(t))'
  <2>1. /\ \A x \in Calls : seat'[x][t] = seat[x][t]
        /\ crossed'[t] = crossed[t] /\ server'[t] = server[t]
        /\ capacity'[t] = capacity[t] /\ clients'[t] = clients[t]
    BY <1>1 DEF Stop, Exit, Crash, Restart, RemoveCapacity, AddCapacity, Down, TypeOK
  <2> QED
    BY <2>1, OthersStay
<1>2. CASE Stop(s) \/ RemoveCapacity(s)
  <2>1. server'[s] # "up" /\ CountedAt(s)' = CountedAt(s) /\ clients'[s] = clients[s]
    BY <1>2 DEF Stop, RemoveCapacity, CountedAt, TypeOK
  <2> QED
    BY <1>1, <2>1 DEF CountInv, CapacityOK, ClientsOK, GrantedOK, LimitOK
<1>3. CASE Exit(s) \/ Crash(s)
  <2>1. /\ server'[s] # "up" /\ clients'[s] = clients[s]
        /\ \A x \in Calls : seat'[x][s] = IF seat[x][s] \in Memory THEN "gone" ELSE seat[x][s]
    BY <1>3 DEF Exit, Crash, Down, TypeOK
  <2>2. CountedAt(s)' = CountedAt(s)
    BY <2>1 DEF CountedAt, Counted, Memory
  <2> QED
    BY <1>1, <2>1, <2>2 DEF CountInv, CapacityOK, ClientsOK, GrantedOK, LimitOK
<1>4. CASE AddCapacity(s)
  <2>1. /\ clients'[s] = clients[s] /\ capacity'[s] = Limit
        /\ crossed'[s] = {x \in Calls : seat[x][s] \in Crossing}
        /\ \A x \in Calls : seat'[x][s] = Written(seat[x][s])
        /\ \A x \in Calls : seat[x][s] \notin Memory
    BY <1>4 DEF AddCapacity, TypeOK, FreshInv
  <2>2. CountedAt(s)' = CountedAt(s)
    BY <2>1 DEF CountedAt, Counted, Written
  <2>3. Taken(s)' = {} /\ Surplus(s)' = {} /\ GrantedAt(s)' = {} /\ LimitedAt(s)' = {}
    <3>1. \A x \in Calls : seat'[x][s] \in {"none", "returned", "stuck", "gone", "void"} \cup Crossing
      BY <2>1 DEF Written, Crossing, Memory, TypeOK, SeatPhases
    <3>2. \A x \in Calls : x \in crossed'[s] <=> seat'[x][s] \in Crossing
      BY <2>1 DEF Written, Crossing
    <3>3. Taken(s)' = {} /\ GrantedAt(s)' = {}
      BY <3>1, <3>2 DEF Taken, GrantedAt, Holding, Granted, Crossing
    <3>4. Surplus(s)' = {}
      BY <2>1, <3>2 DEF Surplus, Crossing, GivenBack
    <3>5. LimitedAt(s)' = {}
      BY <3>1 DEF LimitedAt, Crossing
    <3> QED
      BY <3>3, <3>4, <3>5
  <2>4. crossed'[s] \in SUBSET Calls
    BY <2>1
  <2>5. Cardinality(crossed'[s]) \in Nat
    BY <2>4, CallsAssumption, FS_Subset, FS_CardinalityType
  <2>6. (CapacityOK(s) /\ GrantedOK(s) /\ LimitOK(s))'
    BY <2>1, <2>3, <2>5, FS_EmptySet, LimitAssumption DEF CapacityOK, GrantedOK, LimitOK
  <2> QED
    BY <1>1, <2>1, <2>2, <2>6 DEF CountInv, ClientsOK
<1> QED
  BY <1>2, <1>3, <1>4 DEF Restart

------------------------------------------------------------------------------
LEMMA FreshStep == IInv /\ [Next]_vars => FreshInv'
<1> SUFFICES ASSUME IInv, [Next]_vars PROVE FreshInv'
    OBVIOUS
<1> USE DEF IInv, TypeOK, FreshInv, calls, redis, Seat, NextCandidate, Memory
<1>1. CASE UNCHANGED vars
  BY <1>1 DEF vars
<1>2. ASSUME NEW c \in Calls, Dispatch(c) PROVE FreshInv'
  BY <1>2 DEF Dispatch
<1>3. ASSUME NEW c \in Calls, DispatcherStep(c) PROVE FreshInv'
  <2>1. CASE Fail(c)
    BY <2>1 DEF Fail
  <2>2. ASSUME NEW t \in Servers, TakeSeat(c, t) PROVE FreshInv'
    BY <2>2 DEF TakeSeat
  <2>3. ASSUME NEW t \in Servers, TakeSeatFails(c, t) PROVE FreshInv'
    BY <2>3 DEF TakeSeatFails
  <2>4. ASSUME NEW t \in Servers, Undo(c, t) PROVE FreshInv'
    BY <2>4 DEF Undo
  <2>5. ASSUME NEW t \in Servers, CountClient(c, t) PROVE FreshInv'
    BY <2>5 DEF CountClient
  <2>6. ASSUME NEW t \in Servers, CountClientFails(c, t) PROVE FreshInv'
    BY <2>6 DEF CountClientFails
  <2>7. ASSUME NEW t \in Servers, Assign(c, t) PROVE FreshInv'
    BY <2>7 DEF Assign
  <2>8. ASSUME NEW t \in Servers, GiveUp(c, t) PROVE FreshInv'
    BY <2>8 DEF GiveUp
  <2> QED
    BY <1>3, <2>1, <2>2, <2>3, <2>4, <2>5, <2>6, <2>7, <2>8 DEF DispatcherStep
<1>4. ASSUME NEW c \in Calls, NEW s \in Servers,
             ServerStep(c, s) \/ Delivery(c, s) \/ Start(c, s) \/ End(c, s)
      PROVE FreshInv'
  <2> USE DEF Running
  <2>1. CASE Timeout(c, s)
    BY <2>1 DEF Timeout
  <2>2. CASE ReturnSeat(c, s)
    BY <2>2 DEF ReturnSeat
  <2>3. CASE UncountClient(c, s)
    BY <2>3 DEF UncountClient
  <2>4. CASE Reserve(c, s)
    BY <2>4 DEF Reserve
  <2>5. CASE PostLost(c, s)
    BY <2>5 DEF PostLost
  <2>6. CASE Start(c, s)
    <3>1. /\ Running(s) /\ seat[c][s] = "reserved"
          /\ Seat(c, s, "limited") \/ Seat(c, s, "started")
          /\ UNCHANGED <<calls, server, crossed>>
      BY <2>6 DEF Start
    <3>2. CASE Seat(c, s, "limited")
      BY <3>1, <3>2
    <3>3. CASE Seat(c, s, "started")
      BY <3>1, <3>3
    <3> QED
      BY <3>1, <3>2, <3>3
  <2>7. CASE End(c, s)
    BY <2>7 DEF End
  <2> QED
    BY <1>4, <2>1, <2>2, <2>3, <2>4, <2>5, <2>6, <2>7 DEF ServerStep, Delivery
<1>5. ASSUME NEW s \in Servers, Stop(s) \/ Exit(s) \/ Crash(s) \/ Restart(s)
      PROVE FreshInv'
  <2>1. CASE Stop(s)
    BY <2>1 DEF Stop
  <2>2. CASE Exit(s)
    BY <2>2 DEF Exit, Down
  <2>3. CASE Crash(s)
    BY <2>3 DEF Crash, Down
  <2>4. CASE RemoveCapacity(s)
    BY <2>4 DEF RemoveCapacity
  <2>5. CASE AddCapacity(s)
    BY <2>5 DEF AddCapacity, Written, Crossing
  <2> QED
    BY <1>5, <2>1, <2>2, <2>3, <2>4, <2>5 DEF Restart
<1> QED
  BY <1>1, <1>2, <1>3, <1>4, <1>5 DEF Next

LEMMA CountStep == IInv /\ [Next]_vars => CountInv'
<1> SUFFICES ASSUME IInv, [Next]_vars PROVE CountInv'
    OBVIOUS
<1>1. CASE UNCHANGED vars
  BY <1>1, SameCounts DEF vars
<1>2. ASSUME NEW c \in Calls, Dispatch(c) PROVE CountInv'
  BY <1>2, SameCounts DEF Dispatch, redis
<1> QED
  BY <1>1, <1>2, DispatcherCounts, ServerCounts, RestartCounts DEF Next

LEMMA InitIInv == Init => IInv
<1> SUFFICES ASSUME Init PROVE IInv
    OBVIOUS
<1> USE DEF Init
<1>1. TypeOK
  BY LimitAssumption DEF TypeOK, SeatPhases
<1>2. FreshInv
  BY DEF FreshInv, Memory
<1>3. ASSUME NEW s \in Servers
      PROVE  CapacityOK(s) /\ ClientsOK(s) /\ GrantedOK(s) /\ LimitOK(s)
  <2>1. /\ Taken(s) = {} /\ Surplus(s) = {} /\ CountedAt(s) = {}
        /\ GrantedAt(s) = {} /\ LimitedAt(s) = {} /\ crossed[s] = {}
    BY DEF Taken, Surplus, CountedAt, GrantedAt, LimitedAt, Holding, Counted, Granted
  <2> QED
    BY <2>1, FS_EmptySet, LimitAssumption DEF CapacityOK, ClientsOK, GrantedOK, LimitOK
<1> QED
  BY <1>1, <1>2, <1>3 DEF IInv, CountInv

(* The inductive invariant holds in every behaviour.                       *)
THEOREM Inductive == Spec => []IInv
<1>1. IInv /\ [Next]_vars => IInv'
  BY TypeStep, FreshStep, CountStep DEF IInv
<1> QED
  BY <1>1, InitIInv, PTL DEF Spec

(* The state keeps its type (all of Dispatching).                          *)
THEOREM TypeCorrect == Spec => []TypeOK
<1>1. IInv => TypeOK
  BY DEF IInv
<1> QED
  BY <1>1, Inductive, PTL

(* However many dispatch calls take, undo, lose and return seats of        *)
(* however many servers, and however these restart, capacity and client    *)
(* counts in Redis are exact (isProcessIncreased, _handleSessionManager,   *)
(* assignCapacity).                                                        *)
THEOREM CountsExact == Spec => []SeatsAccounted
<1>1. IInv => SeatsAccounted
  BY DEF IInv, CountInv, CapacityOK, ClientsOK, SeatsAccounted
<1> QED
  BY <1>1, Inductive, PTL

(* The limit of a server (_start) refuses no more reserved clients than    *)
(* there are calls that straddled its restart; without a restart, none.    *)
THEOREM LimitNeverMet == Spec => []AdmittedUnlessCrossed
<1>1. IInv => AdmittedUnlessCrossed
  BY DEF IInv, CountInv, LimitOK, LimitedAt, AdmittedUnlessCrossed
<1> QED
  BY <1>1, Inductive, PTL
==============================================================================
