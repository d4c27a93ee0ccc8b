------------------------------ MODULE TickCache -------------------------------
(***************************************************************************)
(* The tick cache of a playlog server for one play: TickCache and          *)
(* TickCacheManager, the reference count of RequestHandler, and as much of *)
(* ServerEngineAMFlow and PlaylogHandler as opens, feeds, reads and closes *)
(* it.  Ticks arrive from the AMQP holder; what is missing is fetched from *)
(* the playlog store while further ticks arrive, other flows ask and the   *)
(* cache is purged.                                                        *)
(*                                                                         *)
(* The active instance publishes a tick to the broker once; when the store *)
(* worker puts it and when the holder receives it are independent, so      *)
(* publishing is no step of its own.                                       *)
(*                                                                         *)
(* A tick stands for its frame number.  A list of ticks fetched from the   *)
(* store is sorted by frame and has no duplicates, so it is modelled by    *)
(* its set of frames.                                                      *)
(***************************************************************************)
EXTENDS Integers, FiniteSets, Sequences

CONSTANTS
  Flows,          \* AMFlows of the server that have the play open
  MaxFrame,       \* bound: the last frame of the play
  Missing,        \* an array element that is not set
  NoRequest,      \* the flow asks for nothing
  Asked,          \* the flow asks, and has not come to the cache yet
  InOrderStore    \* ticks reach the store in the order of their frames

Frames == 0 .. MaxFrame
Bounds == 0 .. MaxFrame + 1

ASSUME MaxFrameAssumption == MaxFrame \in Nat
ASSUME MissingAssumption == Missing \notin Frames
ASSUME InOrderAssumption == InOrderStore \in BOOLEAN

VARIABLES
  stored,         \* frames in the playlog store
  nextLive,       \* first frame the AMQP holder may still receive
  exists,         \* caches[playId] is set
  ticks,          \* ticks of that cache
  complementings, \* fetches of that cache under way
  holder,         \* "none", or the AMQP holder's cache: "live" or "destroyed"
  flow,           \* what each flow is doing with the play
  refCount,       \* _refCounts[playId], 0 for a missing entry
  request,        \* the getTickList call of each flow, a range once it waits
  delivered       \* the tick lists the last step has resolved

cache == <<exists, ticks, complementings>>
vars == <<stored, nextLive, exists, ticks, complementings, holder,
          flow, refCount, request, delivered>>

NoTicks == [f \in Frames |-> Missing]

(* Ranges of frames that are not empty.                                    *)
Ranges == {r \in [begin : Bounds, end : Bounds] : r.begin < r.end}

Complementings == [begin : Bounds, end : Bounds, waitings : SUBSET Flows,
                   answered : BOOLEAN, answer : SUBSET Frames]

ASSUME RequestAssumption ==
  NoRequest \notin Ranges /\ Asked \notin Ranges /\ Asked # NoRequest

Init ==
  /\ stored = {}
  /\ nextLive = 0
  /\ exists = FALSE
  /\ ticks = NoTicks
  /\ complementings = <<>>
  /\ holder = "none"
  /\ flow = [c \in Flows |-> "closed"]
  /\ refCount = 0
  /\ request = [c \in Flows |-> NoRequest]
  /\ delivered = {}

------------------------------------------------------------------------------
(* A tick is put into the store: by the playlog server that publishes it,  *)
(* which does not wait for one put before the next (_putTickToStore), or   *)
(* by one of the store workers that share its queue.  Neither keeps the    *)
(* order of frames; InOrderStore is the assumption that it was kept.       *)
StoreTick ==
  /\ \E f \in Frames :
       /\ f \notin stored
       /\ InOrderStore => \A g \in 0 .. f - 1 : g \in stored
       /\ stored' = stored \cup {f}
  /\ delivered' = {}
  /\ UNCHANGED <<nextLive, cache, holder, flow, refCount, request>>

------------------------------------------------------------------------------
Complementing(b, e, ws) ==
  [begin |-> b, end |-> e, waitings |-> ws, answered |-> FALSE, answer |-> {}]

(* startComplememnt.                                                       *)
StartComplement(b, e, ws) ==
  complementings' = Append(complementings, Complementing(b, e, ws))

(* Mutant: the walk back goes one step too far. *)
ComplementBeginTooFar(frame) ==
  CHOOSE b \in -1 .. frame - 1 :
    /\ \A i \in b + 1 .. frame - 1 : ticks[i] = Missing
    /\ b >= 0 => ticks[b] # Missing

(* The start of the run of missing ticks that ends before `frame`.         *)
ComplementBegin(frame) ==
  CHOOSE b \in 0 .. frame - 1 :
    /\ \A i \in b .. frame - 1 : ticks[i] = Missing
    /\ b > 0 => ticks[b - 1] # Missing

(* TickCache.add.                                                          *)
Add(frame) ==
  /\ IF frame # 0 /\ ticks[frame - 1] = Missing
     THEN StartComplement(ComplementBegin(frame), frame, {})
     ELSE UNCHANGED complementings
  /\ ticks' = [ticks EXCEPT ![frame] = frame]

(* The holder receives a tick; ticks published while it was not connected  *)
(* are skipped.  A destroyed cache ignores it.                             *)
ConsumeTick ==
  /\ holder # "none"
  /\ \E frame \in nextLive .. MaxFrame :
       /\ nextLive' = frame + 1
       /\ IF holder = "live" THEN Add(frame) ELSE UNCHANGED <<ticks, complementings>>
  /\ delivered' = {}
  /\ UNCHANGED <<stored, exists, holder, flow, refCount, request>>

------------------------------------------------------------------------------
(* Array.prototype.slice; the array ends after its last tick.              *)
Slice(array, b, e) ==
  [i \in {i \in 1 .. e - b : \E f \in Frames : b + i - 1 <= f /\ array[f] # Missing} |->
    array[b + i - 1]]

Result(b, e, list) == [begin |-> b, end |-> e, list |-> list]

(* ServerEngineAMFlow.getRawTickList looks at the permission and then      *)
(* waits for the game code.  Nobody looks at the range before the cache    *)
(* does, so it is chosen there.                                            *)
GetRawTickList(c) ==
  /\ flow[c] \in {"open", "prepared"}
  /\ request[c] = NoRequest
  /\ request' = [request EXCEPT ![c] = Asked]
  /\ delivered' = {}
  /\ UNCHANGED <<stored, nextLive, cache, holder, flow, refCount>>

(* getComplementRangeIfNeeded: from the first missing tick to the end.     *)
MissingIn(b, e) == {f \in b .. e - 1 : ticks[f] = Missing}
FirstMissing(b, e) == CHOOSE f \in MissingIn(b, e) : \A g \in MissingIn(b, e) : f <= g

(* Mutant: how far the fetch reaches is not looked at. *)
CoversBegin(i, b, e) == complementings[i].begin <= b

(* getComplementing.                                                       *)
Covers(i, b, e) == complementings[i].begin <= b /\ e <= complementings[i].end
Covering(b, e) == {i \in DOMAIN complementings : Covers(i, b, e)}
FirstCovering(b, e) == CHOOSE i \in Covering(b, e) : \A j \in Covering(b, e) : i <= j

(* RequestHandler.getRawTickList of an empty range.                        *)
GetNothing(c) ==
  /\ request' = [request EXCEPT ![c] = NoRequest]
  /\ delivered' = {}
  /\ UNCHANGED cache

(* TickCache.get: all ticks of the range are cached ...                    *)
GetCached(c, b, e) ==
  /\ MissingIn(b, e) = {}
  /\ exists' = TRUE
  /\ request' = [request EXCEPT ![c] = NoRequest]
  /\ delivered' = {Result(b, e, Slice(ticks, b, e))}
  /\ UNCHANGED <<ticks, complementings>>

(* ... or the caller waits for a fetch, one under way or a new one.        *)
GetMissing(c, b, e) ==
  /\ MissingIn(b, e) # {}
  /\ exists' = TRUE
  /\ IF Covering(FirstMissing(b, e), e) # {}
     THEN complementings' =
            [complementings EXCEPT
              ![FirstCovering(FirstMissing(b, e), e)].waitings = @ \cup {c}]
     ELSE StartComplement(FirstMissing(b, e), e, {c})
  /\ request' = [request EXCEPT ![c] = [begin |-> b, end |-> e]]
  /\ delivered' = {}
  /\ UNCHANGED ticks

(* RequestHandler.getRawTickList, with the game code known: getCache, and  *)
(* get on it.  The flow may have been closed in the meantime.              *)
Get(c) ==
  /\ request[c] = Asked
  /\ \/ GetNothing(c)
     \/ \E r \in Ranges : GetCached(c, r.begin, r.end) \/ GetMissing(c, r.begin, r.end)
  /\ UNCHANGED <<stored, nextLive, holder, flow, refCount>>

------------------------------------------------------------------------------
(* The store answers the fetch: getTicksRaw of the range.                  *)
StoreAnswers(i) ==
  /\ ~complementings[i].answered
  /\ complementings' =
       [complementings EXCEPT
         ![i].answered = TRUE,
         ![i].answer = {f \in stored : /\ complementings[i].begin <= f
                                        /\ f < complementings[i].end}]
  /\ delivered' = {}
  /\ UNCHANGED <<stored, nextLive, exists, ticks, holder, flow, refCount, request>>

Without(i) ==
  [j \in 1 .. Len(complementings) - 1 |->
    IF j < i THEN complementings[j] ELSE complementings[j + 1]]

(* Place of a frame in the sorted list of S.                               *)
Rank(S, f) == Cardinality({g \in S : g < f})

(* The cache with the fetched list written from `begin` on, one after the  *)
(* other.                                                                  *)
Filled(b, S) ==
  [i \in Frames |->
    IF \E f \in S : b + Rank(S, f) = i
    THEN CHOOSE f \in S : b + Rank(S, f) = i
    ELSE ticks[i]]

(* Mutant: the whole range asked for is returned. *)
SliceEndUncapped(c, maxSliceEnd) == request[c].end

(* No further than the fetched ticks: what is cached beyond them may be    *)
(* preceded by a gap.                                                      *)
SliceEnd(c, maxSliceEnd) ==
  IF maxSliceEnd < request[c].end THEN maxSliceEnd ELSE request[c].end

Answered(ws) == [c \in Flows |-> IF c \in ws THEN NoRequest ELSE request[c]]

(* The then handler of a fetch.                                            *)
Complete(i) ==
  /\ complementings[i].answered
  /\ LET m == complementings[i]
         filled == Filled(m.begin, m.answer)
         maxSliceEnd == m.begin + Cardinality(m.answer)
     IN /\ ticks' = filled
        /\ complementings' = Without(i)
        /\ delivered' =
             {Result(request[c].begin, request[c].end,
                     Slice(filled, request[c].begin, SliceEnd(c, maxSliceEnd))) :
                c \in m.waitings}
        /\ request' = Answered(m.waitings)
  /\ UNCHANGED <<stored, nextLive, exists, holder, flow, refCount>>

(* The catch handler of a fetch: those who wait are rejected.              *)
FetchFails(i) ==
  /\ complementings' = Without(i)
  /\ request' = Answered(complementings[i].waitings)
  /\ delivered' = {}
  /\ UNCHANGED <<stored, nextLive, exists, ticks, holder, flow, refCount>>

------------------------------------------------------------------------------
(* Mutant: destroy forgets those who wait. *)
PurgeSilently ==
  /\ exists' = FALSE
  /\ ticks' = NoTicks
  /\ complementings' = <<>>
  /\ UNCHANGED request

(* TickCacheManager.purge and TickCache.destroy: whoever waits is          *)
(* rejected, and fetches under way find the cache destroyed.               *)
Purge ==
  /\ exists' = FALSE
  /\ ticks' = NoTicks
  /\ complementings' = <<>>
  /\ request' = Answered(UNION {complementings[i].waitings : i \in DOMAIN complementings})

Abandoned(h) == IF h = "live" THEN "destroyed" ELSE h

(* A purge event of the control exchange.  The holder keeps its reference. *)
ControlPurge ==
  /\ exists
  /\ Purge
  /\ holder' = Abandoned(holder)
  /\ delivered' = {}
  /\ UNCHANGED <<stored, nextLive, flow, refCount>>

(* ServerEngineAMFlow.open, RequestHandler.ref.                            *)
Open(c) ==
  /\ flow[c] = "closed"
  /\ flow' = [flow EXCEPT ![c] = "open"]
  /\ refCount' = refCount + 1
  /\ delivered' = {}
  /\ UNCHANGED <<stored, nextLive, cache, holder, request>>

(* PlaylogHandler.prepare, once authenticated: the first client of a play  *)
(* makes a holder with the manager's cache.                                *)
Prepare(c) ==
  /\ flow[c] = "open"
  /\ flow' = [flow EXCEPT ![c] = "prepared"]
  /\ IF holder = "none"
     THEN holder' = "live" /\ exists' = TRUE
     ELSE UNCHANGED <<holder, exists>>
  /\ delivered' = {}
  /\ UNCHANGED <<stored, nextLive, ticks, complementings, refCount, request>>

(* The holder reports an error: it is dropped, the flows stay.             *)
HolderFails ==
  /\ holder # "none"
  /\ holder' = "none"
  /\ delivered' = {}
  /\ UNCHANGED <<stored, nextLive, cache, flow, refCount, request>>

(* ServerEngineAMFlow.close of a prepared flow, PlaylogHandler.close: the  *)
(* last client drops the holder.                                           *)
CloseHandler(c) ==
  /\ flow[c] = "prepared"
  /\ flow' = [flow EXCEPT ![c] = "closing"]
  /\ holder' = IF \A d \in Flows \ {c} : flow[d] # "prepared" THEN "none" ELSE holder
  /\ delivered' = {}
  /\ UNCHANGED <<stored, nextLive, cache, refCount, request>>

(* RequestHandler.unref: the last one purges the cache.                    *)
Unref(c) ==
  /\ flow[c] \in {"open", "closing"}
  /\ flow' = [flow EXCEPT ![c] = "closed"]
  /\ refCount' = refCount - 1
  /\ IF refCount = 1
     THEN Purge /\ holder' = Abandoned(holder)
     ELSE UNCHANGED <<cache, request, holder>>
  /\ delivered' = {}
  /\ UNCHANGED <<stored, nextLive>>

Fetch == \E i \in DOMAIN complementings : StoreAnswers(i) \/ Complete(i) \/ FetchFails(i)

Step(c) ==
  \/ GetRawTickList(c)
  \/ Get(c)
  \/ Open(c)
  \/ Prepare(c)
  \/ CloseHandler(c)
  \/ Unref(c)

Next ==
  \/ StoreTick
  \/ ConsumeTick
  \/ Fetch
  \/ ControlPurge
  \/ HolderFails
  \/ \E c \in Flows : Step(c)

Spec == Init /\ [][Next]_vars

(* The game code is looked up, and a fetch is answered or fails.           *)
Serve(c) ==
  \/ Get(c)
  \/ \E i \in DOMAIN complementings :
       c \in complementings[i].waitings /\ (StoreAnswers(i) \/ Complete(i))

FairSpec == Spec /\ \A c \in Flows : WF_vars(Serve(c))

------------------------------------------------------------------------------
(* Type invariant of the cache, its fetches and its flows.                 *)
TypeOK ==
  /\ stored \subseteq Frames
  /\ nextLive \in Bounds
  /\ exists \in BOOLEAN
  /\ ticks \in [Frames -> Frames \cup {Missing}]
  /\ complementings \in Seq(Complementings)
  /\ holder \in {"none", "live", "destroyed"}
  /\ flow \in [Flows -> {"closed", "open", "prepared", "closing"}]
  /\ refCount \in Nat
  /\ request \in [Flows -> Ranges \cup {NoRequest, Asked}]

(* A tick list may be short, but it starts with the frame asked for, has   *)
(* no gap and every tick in its place, whatever arrived, was fetched or    *)
(* was purged between the request and the answer (startComplememnt).       *)
TickListSound ==
  \A d \in delivered :
    \A i \in DOMAIN d.list : i <= d.end - d.begin /\ d.list[i] = d.begin + i - 1

(* Whoever waits for ticks waits for a fetch under way, one that reaches   *)
(* as far as the range asked for, and has what the fetch leaves out at the *)
(* beginning (getComplementing, TickCache.get): nobody is left behind by a *)
(* purge or given to a fetch that cannot answer, in whatever order ticks   *)
(* come from the holder and from the store.                                *)
WaitersServed ==
  \A c \in Flows : request[c] \in Ranges =>
    \E i \in DOMAIN complementings :
      /\ c \in complementings[i].waitings
      /\ request[c].end <= complementings[i].end
      /\ \A f \in request[c].begin .. complementings[i].begin - 1 : ticks[f] # Missing

(* Every getTickList call is answered, by ticks or by an error: nobody     *)
(* waits for a fetch that is gone.                                         *)
GetAnswered == \A c \in Flows : request[c] # NoRequest ~> request[c] = NoRequest

==============================================================================
