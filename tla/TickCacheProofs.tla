--------------------------- MODULE TickCacheProofs ----------------------------
(***************************************************************************)
(* Proofs about the tick cache for any number of flows, frames and fetches *)
(* under way: whoever waits for ticks waits for a fetch that can answer,   *)
(* in whatever order ticks come; and no list that is handed out has a gap, *)
(* provided that ticks reach the store in the order of their frames.       *)
(***************************************************************************)
EXTENDS TickCache, FiniteSetTheorems, WellFoundedInduction, TLAPS

Typed ==
  /\ stored \subseteq Frames
  /\ nextLive \in Bounds
  /\ ticks \in [Frames -> Frames \cup {Missing}]
  /\ complementings \in Seq(Complementings)
  /\ request \in [Flows -> Ranges \cup {NoRequest, Asked}]

(* Who waits for a fetch has all ticks before it.                          *)
WaitInv ==
  \A i \in DOMAIN complementings : \A c \in complementings[i].waitings :
    /\ request[c] \in Ranges
    /\ request[c].end <= complementings[i].end
    /\ \A f \in request[c].begin .. complementings[i].begin - 1 : ticks[f] # Missing

(* A flow waits for one fetch at a time ...                                *)
OnceInv ==
  \A i, j \in DOMAIN complementings :
    i # j => complementings[i].waitings \cap complementings[j].waitings = {}

(* ... and for one if it waits at all.                                     *)
HeldInv ==
  \A c \in Flows : request[c] \in Ranges =>
    \E i \in DOMAIN complementings : c \in complementings[i].waitings

ServeInv == Typed /\ WaitInv /\ OnceInv /\ HeldInv

(* The store has the ticks up to some frame.                               *)
StoredInv == \E n \in Bounds : stored = 0 .. n - 1

(* A tick is cached at its own frame.                                      *)
TicksInv == \A f \in Frames : ticks[f] \in {f, Missing}

(* What a fetch m has brought back is the beginning of its range.          *)
FetchOK(m) ==
  /\ m.begin <= m.end
  /\ m.answered => \E k \in m.begin .. m.end : m.answer = m.begin .. k - 1

FetchInv == \A i \in DOMAIN complementings : FetchOK(complementings[i])

OrderInv == StoredInv /\ TicksInv /\ FetchInv

------------------------------------------------------------------------------
(* Lemmas on the operators of the cache.                                   *)

(* A set of natural numbers has a least one: the searches of TickCache,    *)
(* loops in the code, find something.                                      *)
LEMMA LeastNat ==
  ASSUME NEW S \in SUBSET Nat, S # {}
  PROVE  \E x \in S : \A y \in S : x <= y
<1>1. PICK x \in S : \A y \in S : ~(<<y, x>> \in OpToRel(<, Nat))
  BY NatLessThanWellFounded, WFMin, Zenon
<1>2. \A y \in S : ~(y < x)
  BY <1>1 DEF OpToRel
<1> QED
  BY <1>2

(* The first missing tick of a range: the ticks before it are cached.      *)
LEMMA FirstMissingIs ==
  ASSUME NEW b \in Bounds, NEW e \in Bounds, MissingIn(b, e) # {}
  PROVE  /\ FirstMissing(b, e) \in b .. e - 1
         /\ \A f \in b .. FirstMissing(b, e) - 1 : ticks[f] # Missing
<1>1. MissingIn(b, e) \in SUBSET Nat
  BY MaxFrameAssumption DEF MissingIn, Bounds
<1>2. PICK x \in MissingIn(b, e) : \A y \in MissingIn(b, e) : x <= y
  BY <1>1, LeastNat
<1>3. /\ FirstMissing(b, e) \in MissingIn(b, e)
      /\ \A y \in MissingIn(b, e) : FirstMissing(b, e) <= y
  BY <1>2, Zenon DEF FirstMissing
<1> QED
  BY <1>3, MaxFrameAssumption DEF MissingIn, Bounds

(* A fetch that covers the range, if there is one.                         *)
LEMMA FirstCoveringIs ==
  ASSUME NEW b, NEW e, complementings \in Seq(Complementings), Covering(b, e) # {}
  PROVE  /\ FirstCovering(b, e) \in DOMAIN complementings
         /\ Covers(FirstCovering(b, e), b, e)
<1>1. Covering(b, e) \in SUBSET Nat
  BY DEF Covering
<1>2. PICK i \in Covering(b, e) : \A j \in Covering(b, e) : i <= j
  BY <1>1, LeastNat
<1>3. FirstCovering(b, e) \in Covering(b, e)
  BY <1>2, Zenon DEF FirstCovering
<1> QED
  BY <1>3 DEF Covering

(* The walk back of TickCache.add ends at a frame of the play.             *)
LEMMA ComplementBeginIs ==
  ASSUME NEW frame \in Frames, frame # 0, ticks[frame - 1] = Missing
  PROVE  ComplementBegin(frame) \in 0 .. frame - 1
<1> DEFINE S == {b \in 0 .. frame - 1 : \A i \in b .. frame - 1 : ticks[i] = Missing}
<1> DEFINE Start(b) == /\ \A i \in b .. frame - 1 : ticks[i] = Missing
                       /\ b > 0 => ticks[b - 1] # Missing
<1>1. S \in SUBSET Nat /\ frame - 1 \in S
  BY MaxFrameAssumption DEF Frames
<1>2. PICK b \in S : \A y \in S : b <= y
  <2> HIDE DEF S
  <2> QED BY <1>1, LeastNat
<1>3. Start(b)
  <2>1. CASE b = 0
    BY <1>2, <2>1
  <2>2. CASE b # 0
    <3>1. b - 1 \in 0 .. frame - 1 /\ b - 1 \notin S
      BY <1>2, <2>2, MaxFrameAssumption DEF Frames
    <3>2. \A i \in b - 1 .. frame - 1 : i = b - 1 \/ i \in b .. frame - 1
      BY <3>1, MaxFrameAssumption DEF Frames
    <3>3. ticks[b - 1] # Missing
      BY <3>1, <3>2, <1>2
    <3> QED
      BY <3>3, <1>2
  <2> QED
    BY <2>1, <2>2
<1>4. \E x \in 0 .. frame - 1 : Start(x)
  BY <1>2, <1>3
<1>5. (CHOOSE x \in 0 .. frame - 1 : Start(x)) \in 0 .. frame - 1
  <2> HIDE DEF Start
  <2> QED BY <1>4, Zenon
<1> QED
  BY <1>5, Zenon DEF ComplementBegin

(* A new fetch goes to the end and leaves the others alone.                *)
LEMMA Started ==
  ASSUME complementings \in Seq(Complementings),
         NEW b \in Bounds, NEW e \in Bounds, NEW ws \in SUBSET Flows,
         StartComplement(b, e, ws)
  PROVE  /\ complementings' \in Seq(Complementings)
         /\ DOMAIN complementings' = 1 .. Len(complementings) + 1
         /\ DOMAIN complementings = 1 .. Len(complementings)
         /\ Len(complementings) \in Nat
         /\ \A j \in DOMAIN complementings : complementings'[j] = complementings[j]
         /\ complementings'[Len(complementings) + 1] = Complementing(b, e, ws)
<1>1. Complementing(b, e, ws) \in Complementings
  BY DEF Complementing, Complementings
<1> QED
  BY <1>1 DEF StartComplement

(* Taking a fetch out keeps the others, each once.                         *)
LEMMA WithoutIs ==
  ASSUME complementings \in Seq(Complementings), NEW i \in DOMAIN complementings
  PROVE  /\ Without(i) \in Seq(Complementings)
         /\ \A j \in DOMAIN Without(i) :
              \E k \in DOMAIN complementings :
                k # i /\ k = (IF j < i THEN j ELSE j + 1) /\ Without(i)[j] = complementings[k]
         /\ DOMAIN Without(i) \subseteq Nat /\ i \in Nat
<1>1. Len(complementings) \in Nat /\ DOMAIN complementings = 1 .. Len(complementings)
  OBVIOUS
<1>2. \A j \in 1 .. Len(complementings) - 1 :
        /\ j \in DOMAIN complementings /\ j + 1 \in DOMAIN complementings
        /\ complementings[j] \in Complementings /\ complementings[j + 1] \in Complementings
  BY <1>1
<1>3. DOMAIN Without(i) = 1 .. Len(complementings) - 1
  BY DEF Without
<1>4. \A j \in 1 .. Len(complementings) - 1 :
        Without(i)[j] = IF j < i THEN complementings[j] ELSE complementings[j + 1]
  BY DEF Without
<1>5. Len(complementings) - 1 \in Nat
  BY <1>1
<1>6. Without(i) \in [1 .. Len(complementings) - 1 -> Complementings]
  BY <1>2 DEF Without
<1>7. Without(i) \in Seq(Complementings)
  BY <1>5, <1>6
<1> QED
  BY <1>1, <1>2, <1>3, <1>4, <1>7

(* No other fetch is lost with it.                                         *)
LEMMA WithoutKeeps ==
  ASSUME complementings \in Seq(Complementings), NEW i \in DOMAIN complementings,
         NEW k \in DOMAIN complementings, k # i
  PROVE  \E j \in DOMAIN Without(i) : Without(i)[j] = complementings[k]
<1>1. Len(complementings) \in Nat /\ DOMAIN complementings = 1 .. Len(complementings)
  OBVIOUS
<1>2. DOMAIN Without(i) = 1 .. Len(complementings) - 1
  BY DEF Without
<1>3. CASE k < i
  <2>1. k \in 1 .. Len(complementings) - 1
    BY <1>1, <1>3
  <2>2. Without(i)[k] = complementings[k]
    BY <1>3, <2>1 DEF Without
  <2> QED
    BY <1>2, <2>1, <2>2
<1>4. CASE k > i
  <2>1. k - 1 \in 1 .. Len(complementings) - 1 /\ ~(k - 1 < i) /\ (k - 1) + 1 = k
    BY <1>1, <1>4
  <2>2. Without(i)[k - 1] = complementings[k]
    BY <2>1 DEF Without
  <2> QED
    BY <1>2, <2>1, <2>2
<1> QED
  BY <1>1, <1>3, <1>4

(* A fetched list without a gap is written where it belongs.               *)
LEMMA FilledIs ==
  ASSUME NEW b \in Bounds, NEW k \in Bounds, b <= k
  PROVE  /\ Cardinality(b .. k - 1) = k - b
         /\ \A f \in Frames :
              Filled(b, b .. k - 1)[f] = IF f \in b .. k - 1 THEN f ELSE ticks[f]
<1> DEFINE S == b .. k - 1
<1>1. \A f \in S : Rank(S, f) = f - b
  <2> TAKE f \in S
  <2>1. {g \in S : g < f} = b .. f - 1
    BY MaxFrameAssumption DEF Bounds
  <2>2. b \in Int /\ f - 1 \in Int /\ f \in Int /\ b <= f
    BY MaxFrameAssumption DEF Bounds
  <2>3. Cardinality(b .. f - 1) = IF b > f - 1 THEN 0 ELSE (f - 1) - b + 1
    BY <2>2, FS_Interval, Zenon
  <2>4. Cardinality(b .. f - 1) = f - b
    BY <2>2, <2>3
  <2> QED
    BY <2>1, <2>4 DEF Rank
<1>2. Cardinality(S) = k - b
  <2>1. b \in Int /\ k - 1 \in Int
    BY MaxFrameAssumption DEF Bounds
  <2>2. Cardinality(b .. k - 1) = IF b > k - 1 THEN 0 ELSE (k - 1) - b + 1
    BY <2>1, FS_Interval, Zenon
  <2> QED
    BY <2>1, <2>2, MaxFrameAssumption DEF Bounds
<1>3. \A f \in S : f \in Int /\ b + Rank(S, f) = f
  BY <1>1, MaxFrameAssumption DEF Bounds
<1>4. ASSUME NEW f \in Frames
      PROVE  Filled(b, S)[f] = IF f \in S THEN f ELSE ticks[f]
  <2> HIDE DEF S
  <2>1. Filled(b, S)[f] = IF \E g \in S : b + Rank(S, g) = f
                          THEN CHOOSE g \in S : b + Rank(S, g) = f
                          ELSE ticks[f]
    BY DEF Filled
  <2>2. (\E g \in S : b + Rank(S, g) = f) <=> f \in S
    BY <1>3
  <2>3. ASSUME f \in S
        PROVE  (CHOOSE g \in S : b + Rank(S, g) = f) = f
    <3>1. \E g \in S : b + Rank(S, g) = f
      BY <1>3, <2>3
    <3>2. PICK h \in S : h = (CHOOSE g \in S : b + Rank(S, g) = f) /\ b + Rank(S, h) = f
      BY <3>1, Zenon
    <3> QED
      BY <3>2, <1>3
  <2> QED
    BY <2>1, <2>2, <2>3
<1> QED
  BY <1>2, <1>4

------------------------------------------------------------------------------
(* Waiting, step by step, in whatever order ticks come.                    *)

(* The fields of a fetch under way.                                        *)
LEMMA FetchTyped ==
  ASSUME Typed, NEW i \in DOMAIN complementings
  PROVE  /\ complementings[i] \in Complementings
         /\ complementings[i].begin \in Bounds /\ complementings[i].end \in Bounds
         /\ complementings[i].waitings \in SUBSET Flows
         /\ complementings[i].answer \in SUBSET Frames
         /\ complementings[i].begin \in Int /\ complementings[i].end \in Int
<1>1. complementings[i] \in Complementings
  BY DEF Typed
<1> QED
  BY <1>1, MaxFrameAssumption DEF Complementings, Bounds

(* Steps that leave the cache alone and disturb nobody who waits.          *)
LEMMA KeptServe ==
  ASSUME ServeInv, UNCHANGED <<ticks, complementings>>,
         stored' \subseteq Frames, nextLive' \in Bounds,
         request' \in [Flows -> Ranges \cup {NoRequest, Asked}],
         \A c \in Flows :
           request[c] \in Ranges \/ request'[c] \in Ranges => request'[c] = request[c]
  PROVE  ServeInv'
<1> USE DEF ServeInv
<1>1. (Typed /\ OnceInv /\ HeldInv)'
  BY DEF Typed, OnceInv, HeldInv
<1>2. WaitInv'
  <2>1. \A i \in DOMAIN complementings : complementings[i].waitings \in SUBSET Flows
    BY FetchTyped
  <2> QED
    BY <2>1 DEF WaitInv
<1> QED
  BY <1>1, <1>2

(* A flow that is not waiting begins or ends a request.                    *)
LEMMA RequestServe ==
  ASSUME ServeInv, UNCHANGED <<stored, nextLive, ticks, complementings>>,
         NEW c \in Flows, request[c] \notin Ranges, NEW r \in {NoRequest, Asked},
         request' = [request EXCEPT ![c] = r]
  PROVE  ServeInv'
<1>1. request' \in [Flows -> Ranges \cup {NoRequest, Asked}]
  BY DEF ServeInv, Typed
<1>2. \A d \in Flows :
        request[d] \in Ranges \/ request'[d] \in Ranges => request'[d] = request[d]
  BY RequestAssumption DEF ServeInv, Typed
<1>3. stored' \subseteq Frames /\ nextLive' \in Bounds
  BY DEF ServeInv, Typed
<1> QED
  BY <1>1, <1>2, <1>3, KeptServe

(* Caching more ticks does not disturb who waits.                          *)
LEMMA StillWaiting ==
  ASSUME Typed, WaitInv, \A f \in Frames : ticks[f] # Missing => ticks'[f] # Missing,
         NEW i \in DOMAIN complementings, NEW c \in complementings[i].waitings,
         request'[c] = request[c]
  PROVE  /\ request'[c] \in Ranges
         /\ request'[c].end <= complementings[i].end
         /\ \A f \in request'[c].begin .. complementings[i].begin - 1 : ticks'[f] # Missing
<1>1. request[c] \in Ranges /\ request[c].begin \in Bounds
  BY DEF WaitInv, Ranges
<1>2. request[c].begin .. complementings[i].begin - 1 \subseteq Frames
  BY <1>1, FetchTyped, MaxFrameAssumption DEF Bounds, Frames
<1> QED
  BY <1>1, <1>2 DEF WaitInv

(* A fetch is started; those who wait for it have the ticks before it.     *)
LEMMA StartedServe ==
  ASSUME ServeInv, UNCHANGED stored, nextLive' \in Bounds,
         ticks' \in [Frames -> Frames \cup {Missing}],
         \A f \in Frames : ticks[f] # Missing => ticks'[f] # Missing,
         request' \in [Flows -> Ranges \cup {NoRequest, Asked}],
         NEW b \in Bounds, NEW e \in Bounds, NEW ws \in SUBSET Flows,
         StartComplement(b, e, ws),
         \A c \in Flows \ ws :
           request[c] \in Ranges \/ request'[c] \in Ranges => request'[c] = request[c],
         \A c \in ws : /\ request[c] \notin Ranges /\ request'[c] \in Ranges
                       /\ request'[c].end <= e
                       /\ \A f \in request'[c].begin .. b - 1 : ticks'[f] # Missing
  PROVE  ServeInv'
<1> USE DEF ServeInv
<1> DEFINE n == Len(complementings)
<1>1. /\ complementings' \in Seq(Complementings)
      /\ DOMAIN complementings' = 1 .. n + 1
      /\ DOMAIN complementings = 1 .. n
      /\ n \in Nat
      /\ \A j \in DOMAIN complementings : complementings'[j] = complementings[j]
      /\ complementings'[n + 1] = Complementing(b, e, ws)
  BY Started DEF Typed
<1>2. /\ DOMAIN complementings' = DOMAIN complementings \cup {n + 1}
      /\ n + 1 \notin DOMAIN complementings
  BY <1>1
<1>3. /\ complementings'[n + 1].begin = b /\ complementings'[n + 1].end = e
      /\ complementings'[n + 1].waitings = ws
  BY <1>1 DEF Complementing
<1> HIDE DEF n
<1>4. Typed'
  BY <1>1 DEF Typed
<1>5. \A j \in DOMAIN complementings : complementings[j].waitings \cap ws = {}
  BY DEF WaitInv
<1>6. WaitInv'
  <2>1. ASSUME NEW j \in DOMAIN complementings, NEW c \in complementings'[j].waitings
        PROVE  /\ request'[c] \in Ranges
               /\ request'[c].end <= complementings'[j].end
               /\ \A f \in request'[c].begin .. complementings'[j].begin - 1 :
                    ticks'[f] # Missing
    <3>1. complementings'[j] = complementings[j] /\ c \in Flows \ ws
      BY <1>1, <1>5, <2>1, FetchTyped
    <3>2. request'[c] = request[c]
      BY <2>1, <3>1 DEF WaitInv
    <3> QED
      BY <2>1, <3>1, <3>2, StillWaiting
  <2> QED
    BY <1>2, <1>3, <2>1 DEF WaitInv
<1>7. OnceInv'
  BY <1>1, <1>2, <1>3, <1>5 DEF OnceInv
<1>8. HeldInv'
  <2> SUFFICES ASSUME NEW c \in Flows, request'[c] \in Ranges
               PROVE  \E i \in DOMAIN complementings' : c \in complementings'[i].waitings
    BY DEF HeldInv
  <2>1. CASE c \in ws
    BY <1>2, <1>3, <2>1
  <2>2. CASE c \notin ws
    <3>1. PICK i \in DOMAIN complementings : c \in complementings[i].waitings
      BY <2>2 DEF HeldInv
    <3> QED
      BY <1>1, <1>2, <3>1
  <2> QED
    BY <2>1, <2>2
<1> QED
  BY <1>4, <1>6, <1>7, <1>8

(* A live tick is cached; the fetch it may start has no one waiting.       *)
LEMMA ConsumeTickServe ==
  ASSUME ServeInv, ConsumeTick
  PROVE  ServeInv'
<1> USE DEF ServeInv
<1>1. PICK frame \in nextLive .. MaxFrame :
        /\ nextLive' = frame + 1
        /\ IF holder = "live" THEN Add(frame) ELSE UNCHANGED <<ticks, complementings>>
  BY DEF ConsumeTick
<1>2. frame \in Frames /\ nextLive' \in Bounds /\ frame \in Bounds
  BY <1>1, MaxFrameAssumption DEF Typed, Bounds, Frames
<1>3. UNCHANGED <<stored, request>>
  BY DEF ConsumeTick
<1>4. CASE holder # "live"
  BY <1>1, <1>2, <1>3, <1>4, KeptServe DEF Typed
<1>5. CASE holder = "live"
  <2>1. ticks' = [ticks EXCEPT ![frame] = frame]
    BY <1>1, <1>5 DEF Add
  <2>2. /\ ticks' \in [Frames -> Frames \cup {Missing}]
        /\ \A f \in Frames : ticks[f] # Missing => ticks'[f] # Missing
    BY <2>1, <1>2, MissingAssumption DEF Typed
  <2>3. CASE UNCHANGED complementings
    <3>1. WaitInv'
      BY <2>2, <2>3, <1>3, StillWaiting DEF WaitInv
    <3> QED
      BY <3>1, <2>2, <2>3, <1>2, <1>3 DEF Typed, OnceInv, HeldInv
  <2>4. CASE complementings' # complementings
    <3> DEFINE nobody == {}
    <3> DEFINE b == ComplementBegin(frame)
    <3>1. /\ frame # 0 /\ ticks[frame - 1] = Missing
          /\ StartComplement(b, frame, nobody)
      BY <1>1, <1>5, <2>4 DEF Add
    <3>2. b \in Bounds
      BY <3>1, <1>2, ComplementBeginIs, MaxFrameAssumption DEF Bounds
    <3>3. /\ request' \in [Flows -> Ranges \cup {NoRequest, Asked}]
          /\ \A c \in Flows \ nobody :
               request[c] \in Ranges \/ request'[c] \in Ranges => request'[c] = request[c]
      BY <1>3 DEF Typed
    <3>4. /\ nobody \in SUBSET Flows
          /\ \A c \in nobody : /\ request[c] \notin Ranges /\ request'[c] \in Ranges
                             /\ request'[c].end <= frame
                             /\ \A f \in request'[c].begin .. b - 1 : ticks'[f] # Missing
      OBVIOUS
    <3> HIDE DEF nobody, b
    <3> QED
      BY <3>1, <3>2, <3>3, <3>4, <2>2, <1>2, <1>3, StartedServe
  <2> QED
    BY <2>3, <2>4
<1> QED
  BY <1>4, <1>5

(* Who finds ticks missing waits for a fetch that begins no later than the *)
(* first of them and ends no earlier than the range.                       *)
LEMMA GetMissingServe ==
  ASSUME ServeInv, NEW c \in Flows, request[c] = Asked, NEW r \in Ranges,
         GetMissing(c, r.begin, r.end), UNCHANGED <<stored, nextLive>>
  PROVE  ServeInv'
<1> USE DEF ServeInv
<1> DEFINE b == FirstMissing(r.begin, r.end)
<1> DEFINE e == r.end
<1>1. /\ r.begin \in Bounds /\ e \in Bounds /\ r.begin \in Int /\ e \in Int
      /\ r = [begin |-> r.begin, end |-> r.end]
  BY MaxFrameAssumption DEF Ranges, Bounds
<1>2. /\ b \in r.begin .. e - 1
      /\ \A f \in r.begin .. b - 1 : ticks[f] # Missing
  BY <1>1, FirstMissingIs DEF GetMissing
<1>3. request' = [request EXCEPT ![c] = r] /\ UNCHANGED ticks
  BY <1>1 DEF GetMissing
<1>4. request[c] \notin Ranges
  BY RequestAssumption
<1>5. /\ request' \in [Flows -> Ranges \cup {NoRequest, Asked}]
      /\ request'[c] = r
      /\ \A d \in Flows : d # c => request'[d] = request[d]
  BY <1>3 DEF Typed
<1>6. b \in Bounds /\ b \in Int /\ b <= e
  BY <1>1, <1>2, MaxFrameAssumption DEF Bounds
<1>7. \A i \in DOMAIN complementings : c \notin complementings[i].waitings
  BY <1>4 DEF WaitInv
<1>8. CASE Covering(b, e) # {}
  <2> DEFINE i == FirstCovering(b, e)
  <2>1. i \in DOMAIN complementings /\ Covers(i, b, e)
    BY <1>8, FirstCoveringIs DEF Typed
  <2>2. complementings' = [complementings EXCEPT
                            ![i].waitings = complementings[i].waitings \cup {c}]
    BY <1>8 DEF GetMissing
  <2> HIDE DEF i, b
  <2>3. /\ DOMAIN complementings' = DOMAIN complementings
        /\ \A j \in DOMAIN complementings : j # i => complementings'[j] = complementings[j]
        /\ complementings'[i] =
             [complementings[i] EXCEPT !.waitings = complementings[i].waitings \cup {c}]
    BY <2>1, <2>2 DEF Typed
  <2>4. /\ complementings'[i] \in Complementings
        /\ complementings'[i].waitings = complementings[i].waitings \cup {c}
        /\ complementings'[i].begin = complementings[i].begin
        /\ complementings'[i].end = complementings[i].end
    BY <2>1, <2>3, FetchTyped DEF Complementings
  <2>5. complementings' \in Seq(Complementings)
    BY <2>2, <2>1, <2>3, <2>4 DEF Typed
  <2>6. Typed'
    BY <2>5, <1>3, <1>5 DEF Typed
  <2>7. WaitInv'
    <3>1. ASSUME NEW j \in DOMAIN complementings, NEW d \in complementings[j].waitings
          PROVE  /\ request'[d] \in Ranges
                 /\ request'[d].end <= complementings[j].end
                 /\ \A f \in request'[d].begin .. complementings[j].begin - 1 :
                      ticks'[f] # Missing
      BY <3>1, <1>3, <1>5, <1>7, FetchTyped DEF WaitInv
    <3>2. /\ \A f \in r.begin .. complementings[i].begin - 1 : f \in r.begin .. b - 1
          /\ e <= complementings[i].end
      BY <2>1, <1>6, <1>1, FetchTyped DEF Covers
    <3>3. /\ request'[c] \in Ranges
          /\ request'[c].end <= complementings[i].end
          /\ \A f \in request'[c].begin .. complementings[i].begin - 1 : ticks'[f] # Missing
      BY <3>2, <1>2, <1>3, <1>5
    <3> QED
      BY <2>1, <2>3, <2>4, <3>1, <3>3, ZenonT(60) DEF WaitInv
  <2>8. OnceInv'
    <3>1. \A j \in DOMAIN complementings : j # i =>
            complementings[j].waitings \cap complementings[i].waitings = {}
      BY <2>1 DEF OnceInv
    <3>2. \A j \in DOMAIN complementings : j # i =>
            complementings'[j].waitings \cap complementings'[i].waitings = {}
      BY <3>1, <2>3, <2>4, <1>7
    <3> QED
      BY <3>2, <2>3 DEF OnceInv
  <2>9. HeldInv'
    <3>1. \A j \in DOMAIN complementings :
            complementings[j].waitings \subseteq complementings'[j].waitings
      BY <2>1, <2>3, <2>4
    <3>2. c \in complementings'[i].waitings
      BY <2>4
    <3> QED
      BY <1>5, <2>1, <2>3, <3>1, <3>2 DEF HeldInv
  <2> QED
    BY <2>6, <2>7, <2>8, <2>9
<1>9. CASE Covering(b, e) = {}
  <2>1. StartComplement(b, e, {c})
    BY <1>9 DEF GetMissing
  <2>2. \A d \in {c} : /\ request[d] \notin Ranges /\ request'[d] \in Ranges
                       /\ request'[d].end <= e
                       /\ \A f \in request'[d].begin .. b - 1 : ticks'[f] # Missing
    BY <1>1, <1>2, <1>3, <1>4, <1>5
  <2>3. /\ nextLive' \in Bounds /\ ticks' \in [Frames -> Frames \cup {Missing}]
        /\ \A f \in Frames : ticks[f] # Missing => ticks'[f] # Missing
    BY <1>3 DEF Typed
  <2>4. \A d \in Flows \ {c} :
          request[d] \in Ranges \/ request'[d] \in Ranges => request'[d] = request[d]
    BY <1>5
  <2> HIDE DEF b
  <2> QED
    BY <2>1, <2>2, <2>3, <2>4, <1>1, <1>5, <1>6, StartedServe
<1> QED
  BY <1>8, <1>9

(* What the store answers to a fetch changes nobody's waiting.             *)
LEMMA StoreAnswersServe ==
  ASSUME ServeInv, NEW i \in DOMAIN complementings, StoreAnswers(i)
  PROVE  /\ ServeInv'
         /\ DOMAIN complementings' = DOMAIN complementings
         /\ \A j \in DOMAIN complementings : j # i => complementings'[j] = complementings[j]
         /\ complementings'[i].begin = complementings[i].begin
         /\ complementings'[i].end = complementings[i].end
         /\ complementings'[i].answer =
              {f \in stored : complementings[i].begin <= f /\ f < complementings[i].end}
<1> USE DEF ServeInv
<1> DEFINE m == complementings[i]
<1> DEFINE a == {f \in stored : m.begin <= f /\ f < m.end}
<1>1. a \in SUBSET Frames
  BY DEF Typed
<1>2. complementings' = [complementings EXCEPT ![i] =
                          [m EXCEPT !.answered = TRUE, !.answer = a]]
  BY DEF StoreAnswers
<1>3. UNCHANGED <<stored, nextLive, ticks, request>>
  BY DEF StoreAnswers
<1> HIDE DEF a
<1>4. /\ DOMAIN complementings' = DOMAIN complementings
      /\ \A j \in DOMAIN complementings : j # i => complementings'[j] = complementings[j]
      /\ complementings'[i] = [m EXCEPT !.answered = TRUE, !.answer = a]
  BY <1>2 DEF Typed
<1>5. /\ complementings'[i] \in Complementings
      /\ complementings'[i].begin = m.begin /\ complementings'[i].end = m.end
      /\ complementings'[i].waitings = m.waitings
      /\ complementings'[i].answer = a
  BY <1>1, <1>4, FetchTyped DEF Complementings
<1>6. \A j \in DOMAIN complementings :
        /\ complementings'[j].begin = complementings[j].begin
        /\ complementings'[j].end = complementings[j].end
        /\ complementings'[j].waitings = complementings[j].waitings
  BY <1>4, <1>5
<1>7. Typed'
  BY <1>2, <1>3, <1>4, <1>5 DEF Typed
<1>8. (WaitInv /\ OnceInv /\ HeldInv)'
  BY <1>3, <1>4, <1>6 DEF WaitInv, OnceInv, HeldInv
<1> QED
  BY <1>4, <1>5, <1>7, <1>8 DEF a

(* A fetch ends: those who waited for it, and for it only, wait no more.   *)
LEMMA EndedServe ==
  ASSUME ServeInv, NEW i \in DOMAIN complementings, UNCHANGED <<stored, nextLive>>,
         ticks' \in [Frames -> Frames \cup {Missing}],
         \A f \in Frames : ticks[f] # Missing => ticks'[f] # Missing,
         complementings' = Without(i),
         request' = Answered(complementings[i].waitings)
  PROVE  ServeInv'
<1> USE DEF ServeInv
<1>1. /\ complementings' \in Seq(Complementings)
      /\ \A j \in DOMAIN complementings' :
           \E k \in DOMAIN complementings :
             /\ k # i /\ k = (IF j < i THEN j ELSE j + 1)
             /\ complementings'[j] = complementings[k]
      /\ DOMAIN complementings' \subseteq Nat /\ i \in Nat
  BY WithoutIs DEF Typed
<1>2. request' \in [Flows -> Ranges \cup {NoRequest, Asked}]
  BY DEF Typed, Answered
<1>3. Typed'
  BY <1>1, <1>2 DEF Typed
<1>4. WaitInv'
  <2>1. ASSUME NEW j \in DOMAIN complementings', NEW c \in complementings'[j].waitings
        PROVE  /\ request'[c] \in Ranges
               /\ request'[c].end <= complementings'[j].end
               /\ \A f \in request'[c].begin .. complementings'[j].begin - 1 :
                    ticks'[f] # Missing
    <3>1. PICK k \in DOMAIN complementings :
            k # i /\ complementings'[j] = complementings[k]
      BY <1>1
    <3>2. c \in Flows /\ c \notin complementings[i].waitings
      BY <2>1, <3>1, FetchTyped DEF OnceInv
    <3>3. request'[c] = request[c]
      BY <3>2 DEF Answered
    <3> QED
      BY <2>1, <3>1, <3>3, StillWaiting
  <2> QED
    BY <2>1 DEF WaitInv
<1>5. OnceInv'
  <2>1. ASSUME NEW j \in DOMAIN complementings', NEW k \in DOMAIN complementings', j # k
        PROVE  complementings'[j].waitings \cap complementings'[k].waitings = {}
    <3>1. PICK p \in DOMAIN complementings :
            p = (IF j < i THEN j ELSE j + 1) /\ complementings'[j] = complementings[p]
      BY <1>1
    <3>2. PICK q \in DOMAIN complementings :
            q = (IF k < i THEN k ELSE k + 1) /\ complementings'[k] = complementings[q]
      BY <1>1
    <3>3. p # q
      BY <1>1, <2>1, <3>1, <3>2
    <3> QED
      BY <3>1, <3>2, <3>3 DEF OnceInv
  <2> QED
    BY <2>1 DEF OnceInv
<1>6. HeldInv'
  <2> SUFFICES ASSUME NEW c \in Flows, request'[c] \in Ranges
               PROVE  \E j \in DOMAIN complementings' : c \in complementings'[j].waitings
    BY DEF HeldInv
  <2>1. c \notin complementings[i].waitings /\ request[c] \in Ranges
    BY RequestAssumption DEF Answered
  <2>2. PICK k \in DOMAIN complementings : c \in complementings[k].waitings
    BY <2>1 DEF HeldInv
  <2>3. k # i
    BY <2>1, <2>2
  <2>4. PICK j \in DOMAIN complementings' : complementings'[j] = complementings[k]
    BY <2>3, WithoutKeeps DEF Typed
  <2> QED
    BY <2>2, <2>4
<1> QED
  BY <1>3, <1>4, <1>5, <1>6

(* Whatever list is written into the cache, no tick of it gets lost.       *)
LEMMA FilledKeeps ==
  ASSUME Typed, NEW b, NEW S \in SUBSET Frames
  PROVE  /\ Filled(b, S) \in [Frames -> Frames \cup {Missing}]
         /\ \A f \in Frames : ticks[f] # Missing => Filled(b, S)[f] # Missing
<1>1. ASSUME NEW f \in Frames
      PROVE  Filled(b, S)[f] \in Frames \/ Filled(b, S)[f] = ticks[f]
  <2>1. CASE \E g \in S : b + Rank(S, g) = f
    <3>1. (CHOOSE g \in S : b + Rank(S, g) = f) \in S
      BY <2>1, Zenon
    <3> QED
      BY <2>1, <3>1 DEF Filled
  <2>2. CASE ~ \E g \in S : b + Rank(S, g) = f
    BY <2>2 DEF Filled
  <2> QED
    BY <2>1, <2>2
<1>2. Filled(b, S) = [f \in Frames |-> Filled(b, S)[f]]
  BY Zenon DEF Filled
<1>3. \A f \in Frames : Filled(b, S)[f] \in Frames \cup {Missing}
  BY <1>1 DEF Typed
<1>4. \A f \in Frames : ticks[f] # Missing => Filled(b, S)[f] # Missing
  BY <1>1, MissingAssumption
<1> HIDE DEF Filled
<1> QED
  BY <1>2, <1>3, <1>4

(* A purged cache has no fetches and nobody who waits.                     *)
LEMMA PurgeServe ==
  ASSUME ServeInv, Purge, UNCHANGED <<stored, nextLive>>
  PROVE  ServeInv'
<1> USE DEF ServeInv
<1>1. ticks' \in [Frames -> Frames \cup {Missing}]
  BY DEF Purge, NoTicks
<1>2. request' \in [Flows -> Ranges \cup {NoRequest, Asked}]
  BY DEF Purge, Answered, Typed
<1>3. complementings' \in Seq(Complementings) /\ DOMAIN complementings' = {}
  BY DEF Purge
<1>4. HeldInv'
  <2> SUFFICES ASSUME NEW c \in Flows, request'[c] \in Ranges PROVE FALSE
    BY DEF HeldInv
  <2> DEFINE W == UNION {complementings[i].waitings : i \in DOMAIN complementings}
  <2>1. request' = Answered(W)
    BY DEF Purge
  <2>2. c \notin W /\ request[c] \in Ranges
    BY <2>1, RequestAssumption DEF Answered
  <2> QED
    BY <2>2 DEF HeldInv
<1> QED
  BY <1>1, <1>2, <1>3, <1>4 DEF Typed, WaitInv, OnceInv

(* Nobody waits in vain after any step.                                    *)
LEMMA ServeStep == ServeInv /\ [Next]_vars => ServeInv'
<1> SUFFICES ASSUME ServeInv, [Next]_vars PROVE ServeInv'
  OBVIOUS
<1>0. /\ stored \subseteq Frames /\ nextLive \in Bounds
      /\ request \in [Flows -> Ranges \cup {NoRequest, Asked}]
      /\ ticks \in [Frames -> Frames \cup {Missing}]
  BY DEF ServeInv, Typed
<1>1. ASSUME UNCHANGED <<nextLive, cache, request>>, stored' \subseteq Frames
      PROVE  ServeInv'
  BY <1>0, <1>1, KeptServe DEF cache
<1>2. CASE StoreTick
  BY <1>0, <1>1, <1>2 DEF StoreTick
<1>3. CASE ConsumeTick
  BY <1>3, ConsumeTickServe
<1>4. ASSUME NEW i \in DOMAIN complementings, StoreAnswers(i) PROVE ServeInv'
  BY <1>4, StoreAnswersServe
<1>5. ASSUME NEW i \in DOMAIN complementings, Complete(i) PROVE ServeInv'
  <2>1. complementings[i].answer \in SUBSET Frames
    BY FetchTyped DEF ServeInv
  <2>2. /\ ticks' = Filled(complementings[i].begin, complementings[i].answer)
        /\ complementings' = Without(i)
        /\ request' = Answered(complementings[i].waitings)
        /\ UNCHANGED <<stored, nextLive>>
    BY <1>5 DEF Complete
  <2>3. /\ ticks' \in [Frames -> Frames \cup {Missing}]
        /\ \A f \in Frames : ticks[f] # Missing => ticks'[f] # Missing
    BY <2>1, <2>2, FilledKeeps DEF ServeInv
  <2> QED
    BY <2>2, <2>3, EndedServe
<1>6. ASSUME NEW i \in DOMAIN complementings, FetchFails(i) PROVE ServeInv'
  <2>1. /\ UNCHANGED <<stored, nextLive, ticks>>
        /\ complementings' = Without(i)
        /\ request' = Answered(complementings[i].waitings)
    BY <1>6 DEF FetchFails
  <2> QED
    BY <1>0, <2>1, EndedServe
<1>7. CASE ControlPurge
  BY <1>7, PurgeServe DEF ControlPurge
<1>8. CASE HolderFails
  BY <1>0, <1>1, <1>8 DEF HolderFails
<1>9. ASSUME NEW c \in Flows, Step(c) PROVE ServeInv'
  <2>1. CASE GetRawTickList(c)
    <3>1. request[c] \notin Ranges
      BY <2>1, RequestAssumption DEF GetRawTickList
    <3> QED
      BY <2>1, <3>1, RequestServe DEF GetRawTickList, cache
  <2>2. CASE Get(c)
    <3>1. request[c] = Asked /\ request[c] \notin Ranges
      BY <2>2, RequestAssumption DEF Get
    <3>2. UNCHANGED <<stored, nextLive>>
      BY <2>2 DEF Get
    <3>3. CASE GetNothing(c)
      BY <3>1, <3>2, <3>3, RequestServe DEF GetNothing, cache
    <3>4. ASSUME NEW r \in Ranges, GetCached(c, r.begin, r.end) PROVE ServeInv'
      BY <3>1, <3>2, <3>4, RequestServe DEF GetCached
    <3>5. ASSUME NEW r \in Ranges, GetMissing(c, r.begin, r.end) PROVE ServeInv'
      BY <3>1, <3>2, <3>5, GetMissingServe
    <3> QED
      BY <2>2, <3>3, <3>4, <3>5 DEF Get
  <2>3. CASE Open(c)
    BY <1>0, <1>1, <2>3 DEF Open
  <2>4. CASE Prepare(c)
    BY <1>0, <2>4, KeptServe DEF Prepare
  <2>5. CASE CloseHandler(c)
    BY <1>0, <1>1, <2>5 DEF CloseHandler
  <2>6. CASE Unref(c)
    BY <1>0, <1>1, <2>6, PurgeServe DEF Unref
  <2> QED
    BY <1>9, <2>1, <2>2, <2>3, <2>4, <2>5, <2>6 DEF Step
<1>10. CASE UNCHANGED vars
  BY <1>0, <1>1, <1>10 DEF vars, cache
<1> QED
  BY <1>2, <1>3, <1>4, <1>5, <1>6, <1>7, <1>8, <1>9, <1>10 DEF Next, Fetch

LEMMA InitServe == Init => ServeInv
<1> SUFFICES ASSUME Init PROVE ServeInv
  OBVIOUS
<1>1. Typed
  BY MaxFrameAssumption DEF Init, Typed, NoTicks, Bounds
<1>2. DOMAIN complementings = {}
  BY DEF Init
<1>3. HeldInv
  BY RequestAssumption DEF Init, HeldInv
<1> QED
  BY <1>1, <1>2, <1>3 DEF ServeInv, WaitInv, OnceInv

(* Whoever waits for ticks waits for a fetch under way that reaches as far *)
(* as its range and leaves out nothing that is not cached                  *)
(* (getComplementing, TickCache.get, destroy), in whatever order ticks     *)
(* come from the holder and from the store.                                *)
THEOREM NobodyWaitsInVain == Spec => []WaitersServed
<1>1. ServeInv => WaitersServed
  BY DEF ServeInv, HeldInv, WaitInv, WaitersServed
<1> QED
  BY <1>1, InitServe, ServeStep, PTL DEF Spec

------------------------------------------------------------------------------
(* What is in the cache when ticks are stored in order, step by step.      *)

(* Under InOrderStore the next tick put is the one after the last.         *)
LEMMA StoreTickOrder ==
  ASSUME OrderInv, InOrderStore, StoreTick
  PROVE  OrderInv'
<1>1. PICK n \in Bounds : stored = 0 .. n - 1
  BY DEF OrderInv, StoredInv
<1>2. PICK f \in Frames : /\ f \notin stored
                          /\ \A g \in 0 .. f - 1 : g \in stored
                          /\ stored' = stored \cup {f}
  BY DEF StoreTick
<1>3. f = n
  <2>1. f >= n
    BY <1>1, <1>2, MaxFrameAssumption DEF Frames, Bounds
  <2>2. ~(f > n)
    BY <1>1, <1>2, MaxFrameAssumption DEF Frames, Bounds
  <2> QED
    BY <2>1, <2>2, MaxFrameAssumption DEF Frames, Bounds
<1>4. n + 1 \in Bounds /\ stored' = 0 .. (n + 1) - 1
  BY <1>1, <1>2, <1>3, MaxFrameAssumption DEF Frames, Bounds
<1>5. StoredInv'
  BY <1>4 DEF StoredInv
<1> QED
  BY <1>5 DEF StoreTick, cache, OrderInv, TicksInv, FetchInv

(* A fetch that is started has brought back nothing yet.                   *)
LEMMA StartedOrder ==
  ASSUME Typed, FetchInv, NEW b \in Bounds, NEW e \in Bounds, b <= e,
         NEW ws \in SUBSET Flows, StartComplement(b, e, ws)
  PROVE  FetchInv'
<1> DEFINE n == Len(complementings)
<1>1. /\ DOMAIN complementings' = 1 .. n + 1
      /\ DOMAIN complementings = 1 .. n
      /\ n \in Nat
      /\ \A j \in DOMAIN complementings : complementings'[j] = complementings[j]
      /\ complementings'[n + 1] = Complementing(b, e, ws)
  BY Started DEF Typed
<1>2. DOMAIN complementings' = DOMAIN complementings \cup {n + 1}
  BY <1>1
<1>3. FetchOK(complementings'[n + 1])
  BY <1>1 DEF Complementing, FetchOK
<1> HIDE DEF n
<1> QED
  BY <1>1, <1>2, <1>3 DEF FetchInv

(* A live tick goes to its own frame.                                      *)
LEMMA ConsumeTickOrder ==
  ASSUME Typed, OrderInv, ConsumeTick
  PROVE  OrderInv'
<1> USE DEF OrderInv
<1>1. PICK frame \in nextLive .. MaxFrame :
        IF holder = "live" THEN Add(frame) ELSE UNCHANGED <<ticks, complementings>>
  BY DEF ConsumeTick
<1>2. frame \in Frames /\ frame \in Bounds
  BY <1>1, MaxFrameAssumption DEF Typed, Bounds, Frames
<1>3. StoredInv'
  BY DEF ConsumeTick, StoredInv
<1>4. CASE holder # "live"
  BY <1>1, <1>3, <1>4 DEF TicksInv, FetchInv
<1>5. CASE holder = "live"
  <2>1. ticks' = [ticks EXCEPT ![frame] = frame]
    BY <1>1, <1>5 DEF Add
  <2>2. TicksInv'
    BY <1>2, <2>1 DEF Typed, TicksInv
  <2>3. CASE UNCHANGED complementings
    BY <1>3, <2>2, <2>3 DEF FetchInv
  <2>4. CASE complementings' # complementings
    <3>1. /\ frame # 0 /\ ticks[frame - 1] = Missing
          /\ StartComplement(ComplementBegin(frame), frame, {})
      BY <1>1, <1>5, <2>4 DEF Add
    <3>2. ComplementBegin(frame) \in 0 .. frame - 1
      BY <3>1, <1>2, ComplementBeginIs
    <3>3. ComplementBegin(frame) \in Bounds /\ ComplementBegin(frame) <= frame
      BY <3>2, <1>2, MaxFrameAssumption DEF Bounds
    <3>4. {} \in SUBSET Flows
      OBVIOUS
    <3>5. FetchInv'
      BY <3>1, <3>3, <3>4, <1>2, StartedOrder
    <3> QED
      BY <1>3, <2>2, <3>5
  <2> QED
    BY <2>3, <2>4
<1> QED
  BY <1>4, <1>5

(* Waiting for a fetch does not change what it brings back.                *)
LEMMA GetMissingOrder ==
  ASSUME Typed, OrderInv, NEW c \in Flows, NEW r \in Ranges,
         GetMissing(c, r.begin, r.end), UNCHANGED stored
  PROVE  OrderInv'
<1> USE DEF OrderInv
<1> DEFINE b == FirstMissing(r.begin, r.end)
<1> DEFINE e == r.end
<1>1. r.begin \in Bounds /\ e \in Bounds /\ r.begin \in Int /\ e \in Int
  BY MaxFrameAssumption DEF Ranges, Bounds
<1>2. b \in r.begin .. e - 1
  BY <1>1, FirstMissingIs DEF GetMissing
<1>3. b \in Bounds /\ b <= e
  BY <1>1, <1>2, MaxFrameAssumption DEF Bounds
<1>4. (StoredInv /\ TicksInv)'
  BY DEF GetMissing, StoredInv, TicksInv
<1>5. CASE Covering(b, e) # {}
  <2> DEFINE i == FirstCovering(b, e)
  <2>1. i \in DOMAIN complementings
    BY <1>5, FirstCoveringIs DEF Typed
  <2>2. complementings' = [complementings EXCEPT
                            ![i].waitings = complementings[i].waitings \cup {c}]
    BY <1>5 DEF GetMissing
  <2> HIDE DEF i, b
  <2>3. /\ DOMAIN complementings' = DOMAIN complementings
        /\ \A j \in DOMAIN complementings : j # i => complementings'[j] = complementings[j]
        /\ complementings'[i] =
             [complementings[i] EXCEPT !.waitings = complementings[i].waitings \cup {c}]
    BY <2>1, <2>2 DEF Typed
  <2>4. FetchOK(complementings[i]) => FetchOK(complementings'[i])
    BY <2>1, <2>3, FetchTyped DEF Complementings, FetchOK
  <2>5. FetchInv'
    BY <2>3, <2>4 DEF FetchInv
  <2> QED
    BY <1>4, <2>5
<1>6. CASE Covering(b, e) = {}
  <2>1. StartComplement(b, e, {c})
    BY <1>6 DEF GetMissing
  <2> HIDE DEF b
  <2>2. FetchInv'
    BY <2>1, <1>1, <1>3, StartedOrder
  <2> QED
    BY <1>4, <2>2
<1> QED
  BY <1>5, <1>6

(* The store has a beginning of the play, so of every range.               *)
LEMMA StoreAnswersOrder ==
  ASSUME ServeInv, OrderInv, NEW i \in DOMAIN complementings, StoreAnswers(i)
  PROVE  OrderInv'
<1> USE DEF OrderInv
<1> DEFINE m == complementings[i]
<1> DEFINE a == {f \in stored : m.begin <= f /\ f < m.end}
<1>1. PICK n \in Bounds : stored = 0 .. n - 1
  BY DEF StoredInv
<1>2. /\ m.begin \in Bounds /\ m.end \in Bounds /\ m.begin <= m.end
      /\ m.begin \in Nat /\ m.end \in Nat /\ n \in Nat
  BY FetchTyped, MaxFrameAssumption DEF ServeInv, FetchInv, FetchOK, Bounds
<1>4. \E k \in m.begin .. m.end : a = m.begin .. k - 1
  <2>1. CASE n <= m.begin
    <3>1. a = m.begin .. m.begin - 1
      BY <1>1, <1>2, <2>1
    <3> QED
      BY <3>1, <1>2
  <2>2. CASE m.begin < n /\ n <= m.end
    <3>1. a = m.begin .. n - 1
      BY <1>1, <1>2, <2>2
    <3> QED
      BY <3>1, <1>2, <2>2
  <2>3. CASE m.end < n
    <3>1. a = m.begin .. m.end - 1
      BY <1>1, <1>2, <2>3
    <3> QED
      BY <3>1, <1>2
  <2> QED
    BY <1>2, <2>1, <2>2, <2>3
<1>5. /\ DOMAIN complementings' = DOMAIN complementings
      /\ \A j \in DOMAIN complementings : j # i => complementings'[j] = complementings[j]
      /\ complementings'[i].begin = m.begin /\ complementings'[i].end = m.end
      /\ complementings'[i].answer = a
  BY StoreAnswersServe
<1> HIDE DEF a
<1>6. FetchOK(complementings'[i])
  BY <1>2, <1>4, <1>5 DEF FetchOK
<1>7. FetchInv'
  BY <1>5, <1>6 DEF FetchInv
<1>8. (StoredInv /\ TicksInv)'
  BY DEF StoreAnswers, StoredInv, TicksInv
<1> QED
  BY <1>7, <1>8

(* A fetch ends.                                                           *)
LEMMA EndedOrder ==
  ASSUME Typed, OrderInv, NEW i \in DOMAIN complementings, UNCHANGED stored,
         TicksInv', complementings' = Without(i)
  PROVE  OrderInv'
<1>1. \A j \in DOMAIN complementings' :
        \E k \in DOMAIN complementings : complementings'[j] = complementings[k]
  BY WithoutIs DEF Typed
<1> QED
  BY <1>1 DEF OrderInv, StoredInv, FetchInv

(* The fetched ticks are cached where they belong, and every list handed   *)
(* out is cached up to its end.                                            *)
LEMMA CompleteOrder ==
  ASSUME ServeInv, OrderInv, NEW i \in DOMAIN complementings, Complete(i)
  PROVE  OrderInv' /\ TickListSound'
<1> DEFINE m == complementings[i]
<1>0. Typed
  BY DEF ServeInv
<1>1. PICK k \in m.begin .. m.end : m.answer = m.begin .. k - 1
  BY DEF Complete, OrderInv, FetchInv, FetchOK
<1>2. m.begin \in Bounds /\ k \in Bounds /\ m.begin <= k /\ m.begin \in Int /\ k \in Int
  BY <1>0, <1>1, FetchTyped, MaxFrameAssumption DEF Bounds
<1>3. \A f \in Frames : ticks'[f] = IF f \in m.begin .. k - 1 THEN f ELSE ticks[f]
  BY <1>1, <1>2, FilledIs DEF Complete
<1>4. ticks' = Filled(m.begin, m.answer)
  BY DEF Complete
<1>5. TicksInv'
  BY <1>3 DEF OrderInv, TicksInv
<1>6. OrderInv'
  BY <1>0, <1>5, EndedOrder DEF Complete
<1>8. m.begin + Cardinality(m.answer) = k
  BY <1>1, <1>2, FilledIs
<1>9. ASSUME NEW c \in m.waitings
      PROVE  \A x \in DOMAIN Slice(ticks', request[c].begin, SliceEnd(c, k)) :
               /\ x <= request[c].end - request[c].begin
               /\ Slice(ticks', request[c].begin, SliceEnd(c, k))[x] = request[c].begin + x - 1
  <2>1. /\ request[c] \in Ranges
        /\ \A f \in request[c].begin .. m.begin - 1 : ticks[f] # Missing
    BY <1>9 DEF ServeInv, WaitInv
  <2>2. /\ request[c].begin \in Bounds /\ request[c].end \in Bounds
        /\ request[c].begin \in Nat /\ request[c].end \in Nat
    BY <2>1, MaxFrameAssumption DEF Ranges, Bounds
  <2>3. SliceEnd(c, k) \in Int /\ SliceEnd(c, k) <= k /\ SliceEnd(c, k) <= request[c].end
    BY <2>2, <1>2 DEF SliceEnd
  <2>4. ASSUME NEW x \in 1 .. SliceEnd(c, k) - request[c].begin
        PROVE  /\ x <= request[c].end - request[c].begin
               /\ ticks'[request[c].begin + x - 1] = request[c].begin + x - 1
    <3> DEFINE g == request[c].begin + x - 1
    <3>1. x \in Nat /\ x >= 1 /\ x <= SliceEnd(c, k) - request[c].begin
      BY <2>2, <2>3
    <3>2. g \in Nat /\ request[c].begin <= g /\ g < k /\ g < request[c].end
      BY <3>1, <2>2, <2>3, <1>2
    <3>3. g \in Frames
      BY <3>2, <2>2, MaxFrameAssumption DEF Bounds, Frames
    <3>4. CASE g < m.begin
      <4>1. g \in request[c].begin .. m.begin - 1
        BY <3>2, <3>4, <2>2, <1>2
      <4>2. ticks[g] = g
        BY <4>1, <2>1, <3>3 DEF OrderInv, TicksInv
      <4> QED
        BY <4>2, <3>3, <3>4, <1>3, <3>1, <2>2, <2>3, <1>2
    <3>5. CASE g >= m.begin
      BY <3>2, <3>3, <3>5, <1>3, <3>1, <2>2, <2>3, <1>2
    <3> QED
      BY <3>2, <3>4, <3>5, <1>2
  <2>5. \A x \in DOMAIN Slice(ticks', request[c].begin, SliceEnd(c, k)) :
          /\ x \in 1 .. SliceEnd(c, k) - request[c].begin
          /\ Slice(ticks', request[c].begin, SliceEnd(c, k))[x] = ticks'[request[c].begin + x - 1]
    BY DEF Slice
  <2> QED
    BY <2>4, <2>5
<1>10. delivered' = {Result(request[c].begin, request[c].end,
                            Slice(ticks', request[c].begin, SliceEnd(c, k))) : c \in m.waitings}
  BY <1>4, <1>8 DEF Complete
<1>11. TickListSound'
  BY <1>9, <1>10 DEF TickListSound, Result
<1> QED
  BY <1>6, <1>11

(* A list taken from the cache alone.                                      *)
LEMMA GetCachedSound ==
  ASSUME OrderInv, NEW c \in Flows, NEW r \in Ranges, GetCached(c, r.begin, r.end)
  PROVE  TickListSound'
<1>1. /\ r.begin \in Bounds /\ r.end \in Bounds /\ r.begin \in Nat /\ r.end \in Nat
  BY MaxFrameAssumption DEF Ranges, Bounds
<1>2. ASSUME NEW x \in 1 .. r.end - r.begin
      PROVE  x <= r.end - r.begin /\ ticks[r.begin + x - 1] = r.begin + x - 1
  <2>1. r.begin + x - 1 \in r.begin .. r.end - 1 /\ r.begin + x - 1 \in Frames
    BY <1>1, MaxFrameAssumption DEF Bounds, Frames
  <2>2. ticks[r.begin + x - 1] # Missing
    BY <2>1 DEF GetCached, MissingIn
  <2> QED
    BY <1>1, <2>1, <2>2 DEF OrderInv, TicksInv
<1>3. \A x \in DOMAIN Slice(ticks, r.begin, r.end) :
        /\ x \in 1 .. r.end - r.begin
        /\ Slice(ticks, r.begin, r.end)[x] = ticks[r.begin + x - 1]
  BY DEF Slice
<1>4. delivered' = {Result(r.begin, r.end, Slice(ticks, r.begin, r.end))}
  BY DEF GetCached
<1> QED
  BY <1>2, <1>3, <1>4 DEF TickListSound, Result

(* What is cached stays in its place and every list is sound, after any    *)
(* step.                                                                   *)
LEMMA OrderStep ==
  ASSUME InOrderStore, ServeInv, OrderInv, TickListSound, [Next]_vars
  PROVE  OrderInv' /\ TickListSound'
<1>0. Typed
  BY DEF ServeInv
<1>1. ASSUME UNCHANGED <<stored, cache>> PROVE OrderInv'
  BY <1>1 DEF cache, OrderInv, StoredInv, TicksInv, FetchInv
<1>2. ASSUME Purge, UNCHANGED stored PROVE OrderInv'
  BY <1>2 DEF Purge, NoTicks, OrderInv, StoredInv, TicksInv, FetchInv
<1>3. ASSUME delivered' = {} PROVE TickListSound'
  BY <1>3 DEF TickListSound
<1>4. CASE StoreTick
  BY <1>3, <1>4, StoreTickOrder DEF StoreTick
<1>5. CASE ConsumeTick
  BY <1>0, <1>3, <1>5, ConsumeTickOrder DEF ConsumeTick
<1>6. ASSUME NEW i \in DOMAIN complementings, StoreAnswers(i)
      PROVE  OrderInv' /\ TickListSound'
  BY <1>3, <1>6, StoreAnswersOrder DEF StoreAnswers
<1>7. ASSUME NEW i \in DOMAIN complementings, Complete(i)
      PROVE  OrderInv' /\ TickListSound'
  BY <1>7, CompleteOrder
<1>8. ASSUME NEW i \in DOMAIN complementings, FetchFails(i)
      PROVE  OrderInv' /\ TickListSound'
  <2>1. TicksInv'
    BY <1>8 DEF FetchFails, OrderInv, TicksInv
  <2> QED
    BY <1>0, <1>3, <1>8, <2>1, EndedOrder DEF FetchFails
<1>9. CASE ControlPurge
  BY <1>2, <1>3, <1>9 DEF ControlPurge
<1>10. CASE HolderFails
  BY <1>1, <1>3, <1>10 DEF HolderFails
<1>11. ASSUME NEW c \in Flows, Step(c) PROVE OrderInv' /\ TickListSound'
  <2>1. CASE GetRawTickList(c)
    BY <1>1, <1>3, <2>1 DEF GetRawTickList
  <2>2. CASE Get(c)
    <3>1. UNCHANGED stored
      BY <2>2 DEF Get
    <3>2. CASE GetNothing(c)
      BY <1>1, <1>3, <3>1, <3>2 DEF GetNothing
    <3>3. ASSUME NEW r \in Ranges, GetCached(c, r.begin, r.end)
          PROVE  OrderInv' /\ TickListSound'
      <4>1. OrderInv'
        BY <3>1, <3>3 DEF GetCached, OrderInv, StoredInv, TicksInv, FetchInv
      <4> QED
        BY <3>3, <4>1, GetCachedSound
    <3>4. ASSUME NEW r \in Ranges, GetMissing(c, r.begin, r.end)
          PROVE  OrderInv' /\ TickListSound'
      BY <1>0, <1>3, <3>1, <3>4, GetMissingOrder DEF GetMissing
    <3> QED
      BY <2>2, <3>2, <3>3, <3>4 DEF Get
  <2>3. CASE Open(c) \/ CloseHandler(c)
    BY <1>1, <1>3, <2>3 DEF Open, CloseHandler
  <2>4. CASE Prepare(c)
    BY <1>3, <2>4 DEF Prepare, OrderInv, StoredInv, TicksInv, FetchInv
  <2>5. CASE Unref(c)
    BY <1>1, <1>2, <1>3, <2>5 DEF Unref
  <2> QED
    BY <1>11, <2>1, <2>2, <2>3, <2>4, <2>5 DEF Step
<1>12. CASE UNCHANGED vars
  BY <1>1, <1>12 DEF vars, cache, TickListSound
<1> QED
  BY <1>4, <1>5, <1>6, <1>7, <1>8, <1>9, <1>10, <1>11, <1>12 DEF Next, Fetch

(* No tick list has a gap (startComplememnt), for any number of flows and  *)
(* frames and any number of fetches under way, if ticks are stored in the  *)
(* order of their frames.                                                  *)
THEOREM NoHiddenGap == InOrderStore /\ Spec => []TickListSound
<1> DEFINE SoundInv == ServeInv /\ OrderInv /\ TickListSound
<1>1. Init => SoundInv
  <2> SUFFICES ASSUME Init PROVE OrderInv /\ TickListSound
    BY InitServe
  <2>1. 0 \in Bounds /\ stored = 0 .. 0 - 1
    BY MaxFrameAssumption DEF Init, Bounds
  <2>2. DOMAIN complementings = {}
    BY DEF Init
  <2> QED
    BY <2>1, <2>2
       DEF Init, NoTicks, OrderInv, StoredInv, TicksInv, FetchInv, TickListSound
<1>2. SoundInv => TickListSound
  OBVIOUS
<1>3. CASE ~InOrderStore
  BY <1>3
<1>4. CASE InOrderStore
  <2>1. SoundInv /\ [Next]_vars => SoundInv'
    BY <1>4, ServeStep, OrderStep
  <2> QED
    BY <1>1, <1>2, <2>1, PTL DEF Spec
<1> QED
  BY <1>3, <1>4

------------------------------------------------------------------------------
(* The flows that hold a reference to the cache.                           *)
Referring == {c \in Flows : flow[c] # "closed"}

(* The reference count of RequestHandler is the number of those flows.     *)
RefInv ==
  /\ exists \in BOOLEAN
  /\ holder \in {"none", "live", "destroyed"}
  /\ flow \in [Flows -> {"closed", "open", "prepared", "closing"}]
  /\ IsFiniteSet(Referring)
  /\ refCount = Cardinality(Referring)

(* Every step keeps the count exact: ref adds a flow, unref takes it out.  *)
LEMMA RefStep ==
  ASSUME RefInv, [Next]_vars
  PROVE  RefInv'
<1> USE DEF RefInv
<1>1. ASSUME UNCHANGED <<flow, refCount>>, exists' \in BOOLEAN,
             holder' \in {"none", "live", "destroyed"}
      PROVE  RefInv'
  BY <1>1 DEF Referring
<1>2. CASE StoreTick
  BY <1>1, <1>2 DEF StoreTick, cache
<1>3. CASE ConsumeTick
  BY <1>1, <1>3 DEF ConsumeTick
<1>4. CASE Fetch
  BY <1>1, <1>4 DEF Fetch, StoreAnswers, Complete, FetchFails
<1>5. CASE ControlPurge
  BY <1>1, <1>5 DEF ControlPurge, Purge, Abandoned
<1>6. CASE HolderFails
  BY <1>1, <1>6 DEF HolderFails, cache
<1>7. CASE UNCHANGED vars
  BY <1>1, <1>7 DEF vars
<1>8. ASSUME NEW c \in Flows, Step(c)
      PROVE  RefInv'
  <2>1. CASE GetRawTickList(c) \/ Get(c)
    <3>1. UNCHANGED <<flow, refCount, holder>> /\ exists' \in BOOLEAN
      BY <2>1 DEF GetRawTickList, Get, GetNothing, GetCached, GetMissing, cache
    <3> QED
      BY <1>1, <3>1
  <2>2. CASE Open(c)
    <3>1. Referring' = Referring \cup {c} /\ c \notin Referring
      BY <2>2 DEF Open, Referring
    <3>2. /\ IsFiniteSet(Referring \cup {c})
          /\ Cardinality(Referring \cup {c}) = Cardinality(Referring) + 1
      BY <3>1, FS_AddElement
    <3> QED
      BY <2>2, <3>1, <3>2 DEF Open, cache
  <2>3. CASE Prepare(c) \/ CloseHandler(c)
    <3>1. Referring' = Referring
      BY <2>3 DEF Prepare, CloseHandler, Referring
    <3> QED
      BY <2>3, <3>1 DEF Prepare, CloseHandler, cache
  <2>4. CASE Unref(c)
    <3>1. Referring' = Referring \ {c} /\ c \in Referring
      BY <2>4 DEF Unref, Referring
    <3>2. /\ IsFiniteSet(Referring \ {c})
          /\ Cardinality(Referring \ {c}) = Cardinality(Referring) - 1
      BY <3>1, FS_RemoveElement
    <3> QED
      BY <2>4, <3>1, <3>2 DEF Unref, Purge, Abandoned, cache
  <2> QED
    BY <1>8, <2>1, <2>2, <2>3, <2>4 DEF Step
<1> QED
  BY <1>2, <1>3, <1>4, <1>5, <1>6, <1>7, <1>8 DEF Next

(* The state of the cache keeps its type; in particular refCount never     *)
(* becomes negative (RequestHandler.unref).                                *)
THEOREM TypeCorrect == Spec => []TypeOK
<1>1. ServeInv /\ RefInv => TypeOK
  BY FS_CardinalityType DEF TypeOK, ServeInv, Typed, RefInv
<1>2. Init => RefInv
  <2> SUFFICES ASSUME Init PROVE RefInv
    OBVIOUS
  <2>1. Referring = {}
    BY DEF Init, Referring
  <2> QED
    BY <2>1, FS_EmptySet DEF Init, RefInv
<1>3. ServeInv /\ RefInv /\ [Next]_vars => (ServeInv /\ RefInv)'
  BY ServeStep, RefStep
<1> QED
  BY <1>1, <1>2, <1>3, InitServe, PTL DEF Spec
==============================================================================
