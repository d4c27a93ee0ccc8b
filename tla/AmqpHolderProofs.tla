--------------------------- MODULE AmqpHolderProofs ---------------------------
(***************************************************************************)
(* Proofs about AmqpHolder for any number of flows, connections, retries   *)
(* and messages: what flows publish is handed over once and in order, as   *)
(* an outbox does, and nothing is left behind.                             *)
(***************************************************************************)
EXTENDS AmqpHolder, TLAPS

(* A _connect that has not failed is within the limit of retries.          *)
RetryInv ==
  \A j \in Chains :
    chain[j].stage \notin {"closeChannel", "closeConnection"} => chain[j].retry <= MaxRetry

(* _doClose leaves a task closing its channel or connection.               *)
LEMMA ClosingChain ==
  ASSUME TypeOK, NEW x \in ChainType
  PROVE  /\ Closing(x) \in ChainType
         /\ Closing(x).stage \in {"closeChannel", "closeConnection"}
         /\ Closing(x).retry = x.retry
BY DEF Closing, ChainType, Stages, TypeOK

LEMMA ClosingCloser ==
  ASSUME TypeOK
  PROVE  Closing(NoCloser) \in CloserType
BY DEF Closing, CloserType, NoCloser, TypeOK

LEMMA NoChainType ==
  NoChain \in ChainType /\ NoChain.retry <= MaxRetry /\ NoChain.stage = "none"
BY BoundsAssumption DEF NoChain, ChainType, Stages

LEMMA ConnectingType ==
  ASSUME TypeOK, NEW r \in 0 .. MaxRetry
  PROVE  Connecting(r) \in ChainType /\ Connecting(r).retry = r /\ Connecting(r).stage = "connect"
BY BoundsAssumption DEF Connecting, ChainType, Stages, TypeOK

LEMMA DoCloseType ==
  ASSUME TypeOK, NEW x, DoClose(x)
  PROVE  /\ connection' = NoConn /\ channel' = NoConn
         /\ listen' \in [Conns -> {"none", "connection", "both"}]
         /\ tag' \in [Kinds -> Tags \cup {NoTag}]
         /\ calls' \in [Kinds -> SUBSET [op : {"consume", "cancel"}, tag : Tags]]
         /\ consumers' \in [Kinds -> SUBSET Tags]
         /\ crossed' \subseteq Kinds
<1>1. listen' \in [Conns -> {"none", "connection", "both"}]
  BY DEF DoClose, Unlistened, TypeOK
<1> QED
  BY <1>1 DEF DoClose, DropChannel

LEMMA ReconnectType ==
  ASSUME TypeOK, RetryInv, Reconnect
  PROVE  /\ state' = "CONNECTING" /\ destroyed' = destroyed
         /\ chain' \in [Chains -> ChainType]
         /\ RetryInv'
         /\ Busy' # {}
         /\ escaped' \in BOOLEAN
<1>1. NewChain \in Chains
  BY DEF Reconnect, NewChain, Busy
<1> DEFINE x == Closing(NoChain)
<1>2. /\ x \in ChainType
      /\ x.stage \in {"closeChannel", "closeConnection"}
  BY NoChainType, ClosingChain
<1>3. chain' = [chain EXCEPT ![NewChain] = x] /\ chain \in [Chains -> ChainType]
  BY DEF Reconnect, TypeOK
<1> HIDE DEF x
<1>4. chain' \in [Chains -> ChainType]
  BY <1>1, <1>2, <1>3
<1>5. \A j \in Chains : chain'[j] = IF j = NewChain THEN x ELSE chain[j]
  BY <1>3
<1>6. RetryInv'
  BY <1>2, <1>5 DEF RetryInv
<1>7. Busy' # {}
  BY <1>1, <1>2, <1>5 DEF Busy
<1> QED
  BY <1>4, <1>6, <1>7 DEF Reconnect, TypeOK

LEMMA DestroyType ==
  ASSUME TypeOK, Destroy
  PROVE  /\ destroyed' = TRUE /\ state' = "CLOSED" /\ channel' = NoConn
         /\ started' \in [Kinds -> BOOLEAN]
         /\ tag' \in [Kinds -> Tags \cup {NoTag}]
         /\ handlers' \in [Kinds -> SUBSET Flows]
         /\ pending' \in [Kinds -> Seq(Nat)]
         /\ calls' \in [Kinds -> SUBSET [op : {"consume", "cancel"}, tag : Tags]]
         /\ consumers' \in [Kinds -> SUBSET Tags]
         /\ crossed' \subseteq Kinds
BY DEF Destroy, DropChannel

(* One chain moves on.                                                     *)
LEMMA OneChain ==
  ASSUME TypeOK, RetryInv, NEW j \in Chains, NEW x \in ChainType,
         x.stage \notin {"closeChannel", "closeConnection"} => x.retry <= MaxRetry,
         chain' = [chain EXCEPT ![j] = x]
  PROVE  chain' \in [Chains -> ChainType] /\ RetryInv'
<1>1. chain \in [Chains -> ChainType]
  BY DEF TypeOK
<1>2. \A i \in Chains : chain'[i] = IF i = j THEN x ELSE chain[i]
  BY <1>1
<1> QED
  BY <1>1, <1>2 DEF RetryInv

LEMMA StageType ==
  ASSUME TypeOK, RetryInv, NEW j \in Chains, chain[j].stage \notin {"closeChannel", "closeConnection"},
         NEW l \in Stages, chain' = [chain EXCEPT ![j].stage = l]
  PROVE  chain' \in [Chains -> ChainType] /\ RetryInv'
<1>1. chain \in [Chains -> ChainType] /\ chain[j] \in ChainType
  BY DEF TypeOK
<1>2. chain' = [chain EXCEPT ![j] = [chain[j] EXCEPT !.stage = l]]
  BY <1>1
<1>3. /\ [chain[j] EXCEPT !.stage = l] \in ChainType
      /\ [chain[j] EXCEPT !.stage = l].retry <= MaxRetry
  BY <1>1 DEF ChainType, RetryInv
<1> QED
  BY <1>2, <1>3, OneChain

(* Flows, chains, the closer and failures keep the types.                  *)
LEMMA TypeStep == TypeOK /\ RetryInv /\ [Next]_vars => TypeOK' /\ RetryInv'
<1> SUFFICES ASSUME TypeOK, RetryInv, [Next]_vars PROVE TypeOK' /\ RetryInv'
    OBVIOUS
<1> USE DEF flows, holder, broker, consuming, publishing
<1>0. ASSUME chain' = chain PROVE RetryInv'
  BY <1>0 DEF RetryInv
<1>1. CASE UNCHANGED vars
  BY <1>1, <1>0 DEF vars, TypeOK
<1>2. ASSUME NEW f \in Flows, FlowStep(f) PROVE TypeOK' /\ RetryInv'
  <2>1. CASE Prepare(f)
    <3>1. chain' \in [Chains -> ChainType] /\ RetryInv'
      <4>1. CASE chain' = chain
        BY <4>1, <1>0 DEF TypeOK
      <4>2. CASE chain' = [chain EXCEPT ![NewChain] = Connecting(0)]
        <5>1. 0 \in 0 .. MaxRetry
          BY BoundsAssumption
        <5>2. /\ Connecting(0) \in ChainType
              /\ Connecting(0).retry <= MaxRetry
          BY <5>1, ConnectingType
        <5>3. CASE NewChain \in Chains
          BY <4>2, <5>2, <5>3, OneChain
        <5>4. CASE NewChain \notin Chains
          <6>1. chain' = chain
            BY <4>2, <5>4 DEF TypeOK
          <6> QED
            BY <6>1, <1>0 DEF TypeOK
        <5> QED
          BY <5>3, <5>4
      <4> QED
        BY <2>1, <4>1, <4>2 DEF Prepare
    <3> QED
      BY <2>1, <3>1, ZenonT(60) DEF Prepare, TypeOK
  <2>2. CASE CloseUnprepared(f)
    BY <2>2, <1>0 DEF CloseUnprepared, TypeOK
  <2>3. CASE Leave(f)
    BY <2>3, <1>0 DEF Leave, TypeOK
  <2>4. CASE CloseLast(f)
    <3>1. CASE Cancelled = {}
      BY <2>4, <3>1, <1>0, ClosingCloser, DoCloseType DEF CloseLast, CloseHolder, TypeOK
    <3>2. CASE Cancelled # {}
      <4>1. closer' \in CloserType
        BY <2>4, <3>2 DEF CloseLast, CloserType, NoCloser, TypeOK
      <4>2. consumers' \in [Kinds -> SUBSET Tags]
        BY <2>4, <3>2 DEF CloseLast, TypeOK
      <4> QED
        BY <2>4, <3>2, <4>1, <4>2, <1>0 DEF CloseLast, TypeOK
    <3> QED
      BY <3>1, <3>2
  <2>5. ASSUME NEW k \in Kinds, Publish(f, k) PROVE TypeOK' /\ RetryInv'
    <3>1. given[k] \in Nat /\ given[k] + 1 <= MaxPublish
      BY <2>5, BoundsAssumption DEF Publish, TypeOK, Kinds
    <3>2. given' \in [Kinds -> 0 .. MaxPublish]
      BY <2>5, <3>1, BoundsAssumption DEF Publish, Message, TypeOK
    <3>3. /\ Append(sent[k], given[k] + 1) \in Seq(Nat)
          /\ Append(pending[k], given[k] + 1) \in Seq(Nat)
      BY <3>1 DEF TypeOK
    <3>4. sent' \in [Kinds -> Seq(Nat)] /\ pending' \in [Kinds -> Seq(Nat)]
      BY <2>5, <3>3 DEF Publish, Message, TypeOK
    <3>5. CASE Reconnect
      BY <2>5, <3>2, <3>4, <3>5, ReconnectType, DoCloseType DEF Publish, Reconnect, TypeOK
    <3>6. CASE UNCHANGED <<holder, listen, chain, tag, calls, consumers, crossed, escaped>>
      BY <2>5, <3>2, <3>4, <3>6, <1>0 DEF Publish, TypeOK
    <3> QED
      BY <2>5, <3>5, <3>6 DEF Publish
  <2>6. ASSUME NEW k \in Kinds, Consume(f, k) PROVE TypeOK' /\ RetryInv'
    <3> DEFINE C == calls[k] \cup {[op |-> "consume", tag |-> Fresh(k)]}
               D == consumers[k] \cup {Fresh(k)}
    <3>1. ASSUME Unused(k) # {}
          PROVE  C \in SUBSET [op : {"consume", "cancel"}, tag : Tags] /\ D \in SUBSET Tags
      <4>1. Fresh(k) \in Tags
        BY <3>1 DEF Fresh, Unused
      <4> QED
        BY <4>1 DEF TypeOK
    <3>2. /\ calls' \in [Kinds -> SUBSET [op : {"consume", "cancel"}, tag : Tags]]
          /\ consumers' \in [Kinds -> SUBSET Tags]
      <4>1. CASE UNCHANGED <<calls, consumers>>
        BY <4>1 DEF TypeOK
      <4>2. CASE /\ Unused(k) # {}
                 /\ calls' = [calls EXCEPT ![k] = C]
                 /\ consumers' = [consumers EXCEPT ![k] = D]
        <5> HIDE DEF C, D
        <5> QED
          BY <3>1, <4>2 DEF TypeOK
      <4> QED
        BY <2>6, <4>1, <4>2 DEF Consume
    <3>3. crossed' \subseteq Kinds
      BY <2>6 DEF Consume, Cross, TypeOK
    <3> QED
      BY <2>6, <3>2, <3>3, <1>0 DEF Consume, TypeOK
  <2>7. ASSUME NEW k \in Kinds, OffConsume(f, k) PROVE TypeOK' /\ RetryInv'
    <3> DEFINE C == calls[k] \cup {[op |-> "cancel", tag |-> tag[k]]}
               D == consumers[k] \ {tag[k]}
    <3>0. ASSUME tag[k] # NoTag
          PROVE  C \in SUBSET [op : {"consume", "cancel"}, tag : Tags] /\ D \in SUBSET Tags
      BY <3>0 DEF TypeOK
    <3>1. /\ calls' \in [Kinds -> SUBSET [op : {"consume", "cancel"}, tag : Tags]]
          /\ consumers' \in [Kinds -> SUBSET Tags]
      <4>1. CASE UNCHANGED <<calls, consumers>>
        BY <4>1 DEF TypeOK
      <4>2. CASE /\ tag[k] # NoTag
                 /\ calls' = [calls EXCEPT ![k] = C]
                 /\ consumers' = [consumers EXCEPT ![k] = D]
        <5> HIDE DEF C, D
        <5> QED
          BY <3>0, <4>2 DEF TypeOK
      <4> QED
        BY <2>7, <4>1, <4>2 DEF OffConsume
    <3>2. crossed' \subseteq Kinds
      BY <2>7 DEF OffConsume, Cross, TypeOK
    <3> QED
      BY <2>7, <3>1, <3>2, <1>0 DEF OffConsume, TypeOK
  <2> QED
    BY <1>2, <2>1, <2>2, <2>3, <2>4, <2>5, <2>6, <2>7 DEF FlowStep
<1>3. ASSUME NEW j \in Chains, ChainStep(j) PROVE TypeOK' /\ RetryInv'
  <2>0. chain[j] \in ChainType /\ chain[j].retry \in 0 .. MaxRetry + 1
    BY DEF TypeOK, ChainType
  <2>1. CASE NewConnection(j)
    <3>1. PICK c \in Conns : /\ link' = [link EXCEPT ![c] = "open"]
                             /\ listen' = [listen EXCEPT ![c] = "connection"]
                             /\ connection' = c
                             /\ chain' = [chain EXCEPT ![j].stage = "channel", ![j].conn = c]
      BY <2>1 DEF NewConnection
    <3> DEFINE x == [[chain[j] EXCEPT !.stage = "channel"] EXCEPT !.conn = c]
    <3>2. chain' = [chain EXCEPT ![j] = x]
      BY <3>1 DEF TypeOK
    <3>3. x \in ChainType /\ x.retry <= MaxRetry
      BY <2>0, <2>1 DEF ChainType, Stages, RetryInv, NewConnection
    <3> HIDE DEF x
    <3>4. chain' \in [Chains -> ChainType] /\ RetryInv'
      BY <3>2, <3>3, OneChain
    <3> QED
      BY <2>1, <3>1, <3>4 DEF NewConnection, TypeOK
  <2>2. CASE CreateChannel(j)
    <3>1. chain' \in [Chains -> ChainType] /\ RetryInv'
      BY <2>2, StageType DEF CreateChannel, Stages
    <3>2. chain[j].conn \in Conns
      BY <2>0, <2>2 DEF CreateChannel, Usable, ChainType
    <3> QED
      BY <2>2, <3>1, <3>2 DEF CreateChannel, DropChannel, TypeOK
  <2>3. CASE Setup(j)
    <3>1. chain' \in [Chains -> ChainType] /\ RetryInv'
      BY <2>3, StageType DEF Setup, Stages, Following
    <3> QED
      BY <2>3, <3>1 DEF Setup, TypeOK
  <2>4. ASSUME NEW k \in Kinds, DoConsume(j, k) PROVE TypeOK' /\ RetryInv'
    <3>1. chain' \in [Chains -> ChainType] /\ RetryInv'
      BY <2>4, StageType DEF DoConsume, Stages, Following, Kinds
    <3>2. Fresh(k) \in Tags
      BY <2>4 DEF DoConsume, Fresh, Unused
    <3> QED
      BY <2>4, <3>1, <3>2 DEF DoConsume, TypeOK
  <2>5. CASE Flush(j)
    <3>1. chain' \in [Chains -> ChainType] /\ RetryInv'
      BY <2>5, NoChainType, OneChain DEF Flush
    <3>2. \A k \in Kinds : sent[k] \o pending[k] \in Seq(Nat)
      BY DEF TypeOK
    <3>3. sent' \in [Kinds -> Seq(Nat)] /\ pending' \in [Kinds -> Seq(Nat)]
      BY <2>5, <3>2 DEF Flush
    <3> QED
      BY <2>5, <3>1, <3>3 DEF Flush, Prepared, TypeOK
  <2>6. CASE ConnectFails(j)
    <3> DEFINE y == [chain[j] EXCEPT !.retry = @ + 1]
    <3>1. chain[j].stage \notin {"closeChannel", "closeConnection"}
      BY <2>6 DEF ConnectFails, Failing, Kinds
    <3>2. y \in ChainType
      BY <2>0, <3>1, BoundsAssumption DEF ChainType, RetryInv
    <3>3. /\ Closing(y) \in ChainType
          /\ Closing(y).stage \in {"closeChannel", "closeConnection"}
      BY <3>2, ClosingChain
    <3>4. chain' = [chain EXCEPT ![j] = Closing(y)]
      BY <2>6 DEF ConnectFails, TypeOK
    <3> HIDE DEF y
    <3>5. chain' \in [Chains -> ChainType] /\ RetryInv'
      BY <3>3, <3>4, OneChain
    <3> QED
      BY <2>6, <3>5, DoCloseType DEF ConnectFails, TypeOK
  <2>7. CASE ChainCloseChannel(j)
    <3> DEFINE x == [chain[j] EXCEPT !.stage = "closeConnection"]
    <3>1. chain' = [chain EXCEPT ![j] = x]
      BY <2>7 DEF ChainCloseChannel, TypeOK
    <3>2. x \in ChainType /\ x.stage = "closeConnection"
      BY <2>0 DEF ChainType, Stages
    <3> HIDE DEF x
    <3>3. chain' \in [Chains -> ChainType] /\ RetryInv'
      BY <3>1, <3>2, OneChain
    <3> QED
      BY <2>7, <3>3 DEF ChainCloseChannel, ChannelClosed, TypeOK
  <2>8. CASE Retry(j)
    <3>1. chain[j].retry \in 0 .. MaxRetry
      BY <2>0, <2>8, BoundsAssumption DEF Retry
    <3>2. Connecting(chain[j].retry) \in ChainType /\ Connecting(chain[j].retry).retry <= MaxRetry
      BY <3>1, ConnectingType, BoundsAssumption
    <3>3. chain' \in [Chains -> ChainType] /\ RetryInv'
      BY <2>8, <3>2, OneChain DEF Retry
    <3> QED
      BY <2>8, <3>3 DEF Retry, ConnectionClosed, TypeOK
  <2>9. CASE GiveUp(j)
    <3>1. chain' \in [Chains -> ChainType] /\ RetryInv'
      BY <2>9, NoChainType, OneChain DEF GiveUp
    <3> QED
      BY <2>9, <3>1, DestroyType DEF GiveUp, ConnectionClosed, Prepared, TypeOK
  <2> QED
    BY <1>3, <2>1, <2>2, <2>3, <2>4, <2>5, <2>6, <2>7, <2>8, <2>9 DEF ChainStep
<1>4. CASE CloserStep
  <2>1. CASE CloserCancelled
    BY <2>1, <1>0, ClosingCloser, DoCloseType DEF CloserCancelled, CloseHolder, TypeOK
  <2>2. CASE CloserRejected
    BY <2>2, <1>0 DEF CloserRejected, CloserType, TypeOK
  <2>3. CASE CloserCloseChannel
    BY <2>3, <1>0 DEF CloserCloseChannel, ChannelClosed, CloserType, TypeOK
  <2>4. CASE CloserDone
    <3>1. closer' \in CloserType
      BY <2>4 DEF CloserDone, CloserType, TypeOK
    <3> QED
      BY <2>4, <3>1, <1>0, DestroyType DEF CloserDone, ConnectionClosed, TypeOK
  <2> QED
    BY <1>4, <2>1, <2>2, <2>3, <2>4 DEF CloserStep
<1>5. ASSUME NEW k \in Kinds, Answer(k) PROVE TypeOK' /\ RetryInv'
  BY <1>5, <1>0 DEF Answer, TypeOK
<1>6. ASSUME NEW c \in Conns, Failure(c) PROVE TypeOK' /\ RetryInv'
  <2>1. /\ link' \in [Conns -> {"unused", "open", "half", "closed"}]
        /\ UNCHANGED <<flows, closer, handlers, started, publishing>>
    BY <1>6 DEF Failure, Break, BreakChannel, TypeOK
  <2>2. CASE Reconnect
    BY <2>1, <2>2, ReconnectType, DoCloseType DEF Reconnect, TypeOK
  <2>3. CASE Lose(c) /\ UNCHANGED <<holder, listen, chain, tag, escaped>>
    BY <2>1, <2>3, <1>0 DEF Lose, DropChannel, TypeOK
  <2> QED
    BY <1>6, <2>2, <2>3 DEF Failure, Break, BreakChannel
<1> QED
  BY <1>1, <1>2, <1>3, <1>4, <1>5, <1>6 DEF Next

------------------------------------------------------------------------------
Empty == \A k \in Kinds : pending[k] = <<>>

(* No consumer has been asked for on the channel.                          *)
Unasked(k) == tag[k] = NoTag /\ calls[k] = {} /\ consumers[k] = {}

Nothing ==
  /\ Busy = {}
  /\ ~destroyed
  /\ closer.stage = "none"
  /\ Empty
  /\ \A c \in Conns : link[c] = "unused"
  /\ connection = NoConn
  /\ channel = NoConn
  /\ \A k \in Kinds : Unasked(k)

(* Before the first flow prepares there is nothing.                        *)
FreshInv == (\A f \in Flows : flow[f] = "idle") => Nothing

(* A holder that flows find is connected or connecting, and nobody closes  *)
(* it; one that is destroyed has nothing pending.                          *)
MapInv ==
  /\ mapped => /\ ~destroyed
               /\ closer.stage = "none"
               /\ state \in {"CONNECTING", "CONNECTED"}
               /\ state = "CONNECTING" => Busy # {}
  /\ destroyed => Empty

(* Flows that have acted are not idle again.                               *)
LEMMA NotIdle ==
  ASSUME TypeOK, [Next]_vars, NEW f \in Flows, flow[f] # "idle"
  PROVE  flow'[f] # "idle"
<1> USE DEF flows, TypeOK
<1>1. CASE UNCHANGED vars
  BY <1>1 DEF vars
<1>2. ASSUME NEW g \in Flows, FlowStep(g) PROVE flow'[f] # "idle"
  BY <1>2 DEF FlowStep, Prepare, CloseUnprepared, Leave, CloseLast, Publish, Consume,
              OffConsume
<1>3. ASSUME NEW j \in Chains, ChainStep(j) PROVE flow'[f] # "idle"
  BY <1>3 DEF ChainStep, NewConnection, CreateChannel, Setup, DoConsume, Flush,
              ConnectFails, ChainCloseChannel, Retry, GiveUp, Prepared
<1>4. CASE CloserStep
  BY <1>4 DEF CloserStep, CloserCancelled, CloserRejected, CloserCloseChannel, CloserDone
<1>5. ASSUME NEW k \in Kinds, Answer(k) PROVE flow'[f] # "idle"
  BY <1>5 DEF Answer
<1>6. ASSUME NEW c \in Conns, Failure(c) PROVE flow'[f] # "idle"
  BY <1>6 DEF Failure, Break, BreakChannel
<1> QED
  BY <1>1, <1>2, <1>3, <1>4, <1>5, <1>6 DEF Next

(* Only a flow acts when there is nothing.                                 *)
LEMMA FreshStep == TypeOK /\ FreshInv /\ [Next]_vars => FreshInv'
<1> SUFFICES ASSUME TypeOK, FreshInv, [Next]_vars, \A f \in Flows : flow'[f] = "idle"
             PROVE  Nothing'
    BY DEF FreshInv
<1>1. \A f \in Flows : flow[f] = "idle"
  BY NotIdle
<1>2. Nothing
  BY <1>1 DEF FreshInv
<1>3. \A j \in Chains : chain[j].stage = "none"
  BY <1>2 DEF Busy, Nothing
<1>4. ASSUME NEW f \in Flows, FlowStep(f) PROVE FALSE
  BY <1>1, <1>4 DEF FlowStep, Prepare, CloseUnprepared, Leave, CloseLast, Publish,
                    Consume, OffConsume, Attached, TypeOK
<1>5. ASSUME NEW j \in Chains, ChainStep(j) PROVE FALSE
  BY <1>3, <1>5 DEF ChainStep, NewConnection, CreateChannel, Setup, DoConsume, Flush,
                    ConnectFails, Failing, ChainCloseChannel, ChannelClosed, Retry, GiveUp,
                    ConnectionClosed, Kinds
<1>6. ~CloserStep
  BY <1>2 DEF Nothing, CloserStep, CloserCancelled, CloserRejected, CloserCloseChannel,
              CloserDone, ChannelClosed, ConnectionClosed
<1>7. ASSUME NEW c \in Conns, Failure(c) PROVE FALSE
  BY <1>2, <1>7 DEF Nothing, Failure, Break, BreakChannel
<1>8. CASE UNCHANGED vars
  BY <1>2, <1>8 DEF vars, Nothing, Busy, Empty, Unasked
<1>9. ASSUME NEW k \in Kinds, Answer(k) PROVE FALSE
  BY <1>2, <1>9 DEF Nothing, Unasked, Answer
<1> QED
  BY <1>4, <1>5, <1>6, <1>7, <1>8, <1>9 DEF Next

LEMMA StaysBusy ==
  ASSUME TypeOK, NEW j \in Chains, NEW x, x.stage # "none", chain' = [chain EXCEPT ![j] = x]
  PROVE  Busy' # {}
<1>1. chain'[j] = x
  BY DEF TypeOK
<1> QED
  BY <1>1 DEF Busy

(* A chain that moves on is still under way, and pending stays as it is.   *)
LEMMA MovesOn ==
  ASSUME TypeOK, NEW j \in Chains, ChainStep(j), ~Flush(j), ~GiveUp(j)
  PROVE  /\ Busy' # {}
         /\ state' \in {state, "CONNECTING"}
         /\ UNCHANGED <<mapped, destroyed, closer, pending, given, sent>>
<1> USE DEF flows, holder, publishing
<1>0. chain \in [Chains -> ChainType] /\ chain[j] \in ChainType
  BY DEF TypeOK
<1>1. /\ state' \in {state, "CONNECTING"}
      /\ UNCHANGED <<mapped, destroyed, closer, pending, given, sent>>
  BY DEF ChainStep, NewConnection, CreateChannel, Setup, DoConsume, ConnectFails,
         ChainCloseChannel, Retry
<1> SUFFICES Busy' # {}
    BY <1>1
<1>2. ASSUME NEW l \in Stages \ {"none"}, chain' = [chain EXCEPT ![j].stage = l]
      PROVE  Busy' # {}
  <2>1. chain'[j].stage = l
    BY <1>0, <1>2 DEF ChainType
  <2> QED
    BY <2>1, <1>2 DEF Busy
<1>3. CASE NewConnection(j)
  <2>1. chain'[j].stage = "channel"
    BY <1>0, <1>3 DEF NewConnection, ChainType
  <2> QED
    BY <2>1 DEF Busy
<1>4. CASE CreateChannel(j)
  BY <1>2, <1>4 DEF CreateChannel, Stages
<1>5. CASE Setup(j)
  BY <1>2, <1>5 DEF Setup, Following, Stages
<1>6. ASSUME NEW k \in Kinds, DoConsume(j, k) PROVE Busy' # {}
  <2>1. Following(k) \in Stages \ {"none"}
    BY DEF Following, Stages
  <2> QED
    BY <1>2, <1>6, <2>1 DEF DoConsume
<1>7. CASE ConnectFails(j)
  <2> DEFINE y == [chain[j] EXCEPT !.retry = @ + 1]
  <2>1. Closing(y).stage # "none"
    BY <1>0 DEF Closing, ChainType
  <2>2. chain' = [chain EXCEPT ![j] = Closing(y)]
    BY <1>7 DEF ConnectFails
  <2> QED
    BY <2>1, <2>2, StaysBusy
<1>8. CASE ChainCloseChannel(j)
  BY <1>2, <1>8 DEF ChainCloseChannel, Stages
<1>9. CASE Retry(j)
  <2>1. Connecting(chain[j].retry).stage # "none"
    BY DEF Connecting
  <2> QED
    BY <1>9, <2>1, StaysBusy DEF Retry
<1> QED
  BY <1>1, <1>3, <1>4, <1>5, <1>6, <1>7, <1>8, <1>9 DEF ChainStep

(* The holder stays connecting until what is pending is flushed.           *)
LEMMA StrandStep ==
  TypeOK /\ RetryInv /\ FreshInv /\ MapInv /\ NothingStranded /\ [Next]_vars
    => MapInv' /\ NothingStranded'
<1> SUFFICES ASSUME TypeOK, RetryInv, FreshInv, MapInv, NothingStranded, [Next]_vars
             PROVE  MapInv' /\ NothingStranded'
    OBVIOUS
<1> USE DEF MapInv, NothingStranded, Empty
<1>0. ASSUME UNCHANGED <<mapped, destroyed, closer, state, pending, chain>>
      PROVE  MapInv' /\ NothingStranded'
  BY <1>0 DEF Busy
<1>1. CASE UNCHANGED vars
  BY <1>0, <1>1 DEF vars
<1>2. ASSUME NEW f \in Flows, FlowStep(f) PROVE MapInv' /\ NothingStranded'
  <2>1. CASE Prepare(f)
    <3>1. CASE UNCHANGED <<mapped, state, chain>>
      BY <1>0, <2>1, <3>1 DEF Prepare, publishing
    <3>2. CASE /\ \A g \in Flows : flow[g] = "idle"
               /\ mapped' = TRUE /\ state' = "CONNECTING"
               /\ chain' = [chain EXCEPT ![NewChain] = Connecting(0)]
      <4>1. Busy = {} /\ ~destroyed /\ closer.stage = "none" /\ Empty
        BY <3>2 DEF FreshInv, Nothing
      <4>2. NewChain \in Chains
        BY <4>1, ChainsAssumption DEF NewChain
      <4>3. Connecting(0).stage # "none"
        BY DEF Connecting
      <4>4. Busy' # {}
        BY <3>2, <4>2, <4>3, StaysBusy
      <4> QED
        BY <2>1, <3>2, <4>1, <4>4 DEF Prepare, publishing
    <3> QED
      BY <2>1, <3>1, <3>2 DEF Prepare
  <2>2. CASE CloseUnprepared(f)
    BY <1>0, <2>2 DEF CloseUnprepared, holder, publishing
  <2>3. CASE Leave(f)
    BY <1>0, <2>3 DEF Leave, holder, publishing
  <2>4. CASE CloseLast(f)
    <3>1. /\ mapped' = FALSE /\ state' \in {state, "CLOSED"}
          /\ UNCHANGED <<destroyed, chain, pending>>
      BY <2>4 DEF CloseLast, CloseHolder, publishing
    <3> QED
      BY <3>1 DEF Busy
  <2>5. ASSUME NEW k \in Kinds, Publish(f, k) PROVE MapInv' /\ NothingStranded'
    <3>1. mapped /\ UNCHANGED <<mapped, closer>>
      BY <2>5 DEF Publish, Attached, flows
    <3>2. CASE Reconnect
      BY <3>1, <3>2, ReconnectType
    <3>3. CASE state = "CONNECTED" /\ Usable(channel)
      BY <1>0, <2>5, <3>3 DEF Publish, flows, holder
    <3>4. CASE state # "CONNECTED"
      <4>1. UNCHANGED <<state, destroyed, chain>>
        BY <2>5, <3>4 DEF Publish, holder
      <4> QED
        BY <3>1, <3>4, <4>1 DEF Busy
    <3> QED
      BY <2>5, <3>2, <3>3, <3>4 DEF Publish
  <2>6. ASSUME NEW k \in Kinds, Consume(f, k) \/ OffConsume(f, k)
        PROVE  MapInv' /\ NothingStranded'
    BY <1>0, <2>6 DEF Consume, OffConsume, flows, holder, publishing
  <2> QED
    BY <1>2, <2>1, <2>2, <2>3, <2>4, <2>5, <2>6 DEF FlowStep
<1>3. ASSUME NEW j \in Chains, ChainStep(j) PROVE MapInv' /\ NothingStranded'
  <2>1. CASE Flush(j)
    <3>1. state' = "CONNECTED" /\ Empty' /\ UNCHANGED <<mapped, destroyed, closer>>
      BY <2>1 DEF Flush
    <3> QED
      BY <3>1
  <2>2. CASE GiveUp(j)
    <3>1. CASE destroyed
      BY <2>2, <3>1 DEF GiveUp
    <3>2. CASE ~destroyed
      BY <2>2, <3>2 DEF GiveUp, Destroy
    <3> QED
      BY <3>1, <3>2
  <2>3. CASE ~Flush(j) /\ ~GiveUp(j)
    <3>1. /\ Busy' # {}
          /\ state' \in {state, "CONNECTING"}
          /\ UNCHANGED <<mapped, destroyed, closer, pending>>
      BY <1>3, <2>3, MovesOn
    <3> QED
      BY <3>1
  <2> QED
    BY <2>1, <2>2, <2>3
<1>4. CASE CloserStep
  <2>1. closer.stage # "none" /\ ~mapped
    BY <1>4 DEF CloserStep, CloserCancelled, CloserRejected, CloserCloseChannel, CloserDone,
                ChannelClosed, ConnectionClosed
  <2>2. CASE CloserDone
    BY <2>1, <2>2 DEF CloserDone, Destroy
  <2>3. CASE ~CloserDone
    <3>1. /\ state' \in {state, "CLOSED"}
          /\ UNCHANGED <<mapped, destroyed, chain, pending>>
      BY <1>4, <2>3 DEF CloserStep, CloserCancelled, CloseHolder, CloserRejected,
                        CloserCloseChannel, flows, holder, publishing
    <3> QED
      BY <2>1, <3>1 DEF Busy
  <2> QED
    BY <2>2, <2>3
<1>5. ASSUME NEW k \in Kinds, Answer(k) PROVE MapInv' /\ NothingStranded'
  BY <1>0, <1>5 DEF Answer, flows, holder, publishing
<1>6. ASSUME NEW c \in Conns, Failure(c) PROVE MapInv' /\ NothingStranded'
  <2>1. UNCHANGED <<mapped, closer, pending>>
    BY <1>6 DEF Failure, Break, BreakChannel, flows, publishing
  <2>2. CASE Reconnect
    BY <2>1, <2>2, ReconnectType
  <2>3. CASE UNCHANGED <<holder, chain>>
    BY <1>0, <2>1, <2>3 DEF holder
  <2> QED
    BY <1>6, <2>2, <2>3 DEF Failure, Break, BreakChannel
<1> QED
  BY <1>1, <1>2, <1>3, <1>4, <1>5, <1>6 DEF Next

------------------------------------------------------------------------------
(* Messages.                                                               *)

Numbers(n) == [i \in 1 .. n |-> i]

LEMMA NextNumber ==
  ASSUME NEW n \in Nat, NEW q \in Seq(Nat), q = Numbers(n)
  PROVE  Append(q, n + 1) = Numbers(n + 1)
<1>1. Len(q) = n /\ Numbers(n + 1) \in Seq(Nat)
  BY DEF Numbers
<1>2. Append(q, n + 1) \in Seq(Nat) /\ Len(Append(q, n + 1)) = n + 1
  BY <1>1
<1>3. Len(Numbers(n + 1)) = n + 1
  BY DEF Numbers
<1>4. \A i \in 1 .. n + 1 : Append(q, n + 1)[i] = Numbers(n + 1)[i]
  BY <1>1 DEF Numbers
<1> QED
  BY <1>1, <1>2, <1>3, <1>4

LEMMA ConcatAppend ==
  ASSUME NEW s \in Seq(Nat), NEW q \in Seq(Nat), NEW x \in Nat
  PROVE  s \o Append(q, x) = Append(s \o q, x)
<1>1. /\ s \o Append(q, x) \in Seq(Nat)
      /\ Append(s \o q, x) \in Seq(Nat)
  OBVIOUS
<1>2. Len(s \o Append(q, x)) = Len(Append(s \o q, x))
  OBVIOUS
<1>3. \A i \in 1 .. Len(Append(s \o q, x)) : (s \o Append(q, x))[i] = Append(s \o q, x)[i]
  OBVIOUS
<1> QED
  BY <1>1, <1>2, <1>3

LEMMA ConcatEmpty == ASSUME NEW s \in Seq(Nat) PROVE s \o <<>> = s
OBVIOUS

InOrder(k) == sent[k] \o pending[k] = Numbers(given[k])

(* Messages are appended to what is pending, or to what is sent when       *)
(* nothing is, and move from the one to the other together.                *)
LEMMA OrderStep ==
  TypeOK /\ RetryInv /\ MapInv /\ NothingStranded /\ PublishedInOrder /\ [Next]_vars
    => PublishedInOrder'
<1> SUFFICES ASSUME TypeOK, RetryInv, MapInv, NothingStranded, PublishedInOrder, [Next]_vars,
                    ~destroyed', NEW k \in Kinds
             PROVE  InOrder(k)'
    BY DEF PublishedInOrder, InOrder, Numbers
<1>1. ASSUME ~destroyed PROVE InOrder(k)
  BY <1>1 DEF PublishedInOrder, InOrder, Numbers
<1>2. sent[k] \in Seq(Nat) /\ pending[k] \in Seq(Nat) /\ given[k] \in Nat
  BY BoundsAssumption DEF TypeOK
<1>3. ASSUME UNCHANGED <<destroyed, pending, given, sent>> PROVE InOrder(k)'
  BY <1>1, <1>3 DEF InOrder
<1>4. CASE UNCHANGED vars
  BY <1>3, <1>4 DEF vars
<1>5. ASSUME NEW f \in Flows, NEW l \in Kinds, Publish(f, l) PROVE InOrder(k)'
  <2>1. mapped /\ ~destroyed /\ InOrder(k)
    BY <1>1, <1>5 DEF Publish, Attached, MapInv
  <2>2. CASE l # k
    <3>1. sent'[k] = sent[k] /\ pending'[k] = pending[k] /\ given'[k] = given[k]
      BY <1>5, <2>2 DEF Publish, TypeOK
    <3> QED
      BY <2>1, <3>1 DEF InOrder
  <2>3. CASE l = k /\ state = "CONNECTED" /\ Usable(channel)
    <3>1. /\ sent'[k] = Append(sent[k], given[k] + 1)
          /\ pending'[k] = pending[k]
          /\ given'[k] = given[k] + 1
      BY <1>5, <2>3 DEF Publish, Message, TypeOK
    <3>2. pending[k] = <<>>
      BY <2>3 DEF NothingStranded
    <3>3. sent[k] = Numbers(given[k])
      BY <1>2, <2>1, <3>2, ConcatEmpty DEF InOrder
    <3>4. Append(sent[k], given[k] + 1) \in Seq(Nat)
      BY <1>2
    <3>5. Append(sent[k], given[k] + 1) = Numbers(given[k] + 1)
      BY <1>2, <3>3, NextNumber
    <3>6. sent'[k] \o <<>> = sent'[k]
      BY <3>1, <3>4, ConcatEmpty
    <3> QED
      BY <3>1, <3>2, <3>5, <3>6 DEF InOrder
  <2>4. CASE l = k /\ ~(state = "CONNECTED" /\ Usable(channel))
    <3>1. /\ sent'[k] = sent[k]
          /\ pending'[k] = Append(pending[k], given[k] + 1)
          /\ given'[k] = given[k] + 1
      BY <1>5, <2>4 DEF Publish, Message, TypeOK
    <3>2. sent[k] \o Append(pending[k], given[k] + 1) = Append(sent[k] \o pending[k], given[k] + 1)
      <4>1. given[k] + 1 \in Nat
        BY <1>2
      <4> QED
        BY <1>2, <4>1, ConcatAppend, Zenon
    <3>3. sent[k] \o pending[k] \in Seq(Nat) /\ sent[k] \o pending[k] = Numbers(given[k])
      <4>1. sent[k] \o pending[k] \in Seq(Nat)
        BY <1>2
      <4> QED
        BY <2>1, <4>1 DEF InOrder
    <3>4. Append(sent[k] \o pending[k], given[k] + 1) = Numbers(given[k] + 1)
      BY <1>2, <3>3, NextNumber
    <3> QED
      BY <3>1, <3>2, <3>4 DEF InOrder
  <2> QED
    BY <2>2, <2>3, <2>4
<1>6. ASSUME NEW f \in Flows, FlowStep(f), ~ \E l \in Kinds : Publish(f, l) PROVE InOrder(k)'
  <2>1. UNCHANGED <<destroyed, pending, given, sent>>
    BY <1>6 DEF FlowStep, Prepare, CloseUnprepared, Leave, CloseLast, CloseHolder, Consume,
                OffConsume, holder, publishing
  <2> QED
    BY <1>3, <2>1
<1>7. ASSUME NEW j \in Chains, ChainStep(j) PROVE InOrder(k)'
  <2>1. CASE Flush(j)
    <3>1. /\ sent'[k] = sent[k] \o pending[k] /\ pending'[k] = <<>>
          /\ given' = given /\ ~destroyed
      BY <2>1 DEF Flush
    <3>2. sent[k] \o pending[k] \in Seq(Nat)
      BY <1>2
    <3>3. (sent[k] \o pending[k]) \o <<>> = sent[k] \o pending[k]
      BY <3>2, ConcatEmpty
    <3> QED
      BY <1>1, <3>1, <3>3 DEF InOrder
  <2>2. CASE GiveUp(j)
    BY <2>2 DEF GiveUp, Destroy
  <2>3. CASE ~Flush(j) /\ ~GiveUp(j)
    BY <1>3, <1>7, <2>3, MovesOn
  <2> QED
    BY <2>1, <2>2, <2>3
<1>8. CASE CloserStep
  <2>1. CASE CloserDone
    BY <2>1 DEF CloserDone, Destroy
  <2>2. CASE ~CloserDone
    BY <1>3, <1>8, <2>2 DEF CloserStep, CloserCancelled, CloserRejected, CloserCloseChannel,
                            holder, publishing
  <2> QED
    BY <2>1, <2>2
<1>9. ASSUME NEW l \in Kinds, Answer(l) PROVE InOrder(k)'
  BY <1>3, <1>9 DEF Answer, holder, publishing
<1>10. ASSUME NEW c \in Conns, Failure(c) PROVE InOrder(k)'
  <2>1. UNCHANGED publishing /\ destroyed' = destroyed
    BY <1>10 DEF Failure, Break, BreakChannel, Reconnect, holder
  <2> QED
    BY <1>3, <2>1 DEF publishing
<1> QED
  BY <1>4, <1>5, <1>6, <1>7, <1>8, <1>9, <1>10 DEF Next

------------------------------------------------------------------------------
IInv ==
  /\ TypeOK
  /\ RetryInv
  /\ FreshInv
  /\ MapInv
  /\ NothingStranded
  /\ PublishedInOrder

LEMMA InitIInv == Init => IInv
<1> SUFFICES ASSUME Init PROVE IInv
    OBVIOUS
<1> USE DEF Init
<1>1. NoChain \in ChainType /\ NoCloser \in CloserType
  BY NoChainType DEF NoCloser, CloserType
<1>2. TypeOK
  <2>1. chain \in [Chains -> ChainType] /\ closer \in CloserType
    BY <1>1
  <2>2. given \in [Kinds -> 0 .. MaxPublish]
    BY BoundsAssumption
  <2>3. pending \in [Kinds -> Seq(Nat)] /\ sent \in [Kinds -> Seq(Nat)]
    OBVIOUS
  <2>4. /\ handlers \in [Kinds -> SUBSET Flows]
        /\ calls \in [Kinds -> SUBSET [op : {"consume", "cancel"}, tag : Tags]]
        /\ consumers \in [Kinds -> SUBSET Tags]
        /\ started \in [Kinds -> BOOLEAN]
        /\ tag \in [Kinds -> Tags \cup {NoTag}]
    OBVIOUS
  <2>5. /\ flow \in [Flows -> {"idle", "preparing", "prepared", "unprepared", "closing",
                                 "closed"}]
        /\ link \in [Conns -> {"unused", "open", "half", "closed"}]
        /\ listen \in [Conns -> {"none", "connection", "both"}]
    OBVIOUS
  <2> QED
    BY <2>1, <2>2, <2>3, <2>4, <2>5 DEF TypeOK
<1>3. RetryInv
  BY NoChainType DEF RetryInv
<1>4. Busy = {}
  BY NoChainType DEF Busy
<1>5. FreshInv /\ MapInv /\ NothingStranded
  BY <1>4 DEF FreshInv, Nothing, Unasked, MapInv, NothingStranded, Empty, NoCloser
<1>6. PublishedInOrder
  <2>1. <<>> \o <<>> = <<>>
    OBVIOUS
  <2>2. [i \in 1 .. 0 |-> i] = <<>>
    OBVIOUS
  <2> QED
    BY <2>1, <2>2 DEF PublishedInOrder
<1> QED
  BY <1>2, <1>3, <1>5, <1>6 DEF IInv

(* The inductive invariant holds in every behaviour.                       *)
THEOREM Inductive == Spec => []IInv
<1>1. IInv /\ [Next]_vars => IInv'
  BY TypeStep, FreshStep, StrandStep, OrderStep DEF IInv
<1> QED
  BY <1>1, InitIInv, PTL DEF Spec

(* The state keeps its type; in particular _connect is retried no more     *)
(* than maxConnectionRetry allows.                                         *)
THEOREM TypeCorrect == Spec => []TypeOK
<1>1. IInv => TypeOK
  BY DEF IInv
<1> QED
  BY <1>1, Inductive, PTL

(* Whatever connections and channels fail, and however often, what flows   *)
(* publish is handed to channels once and in order (publishEvent,          *)
(* publishTick, _connect).                                                 *)
THEOREM HandedOverInOrder == Spec => []PublishedInOrder
<1>1. IInv => PublishedInOrder
  BY DEF IInv
<1> QED
  BY <1>1, Inductive, PTL

(* A message is pending only while a _connect is under way that will flush *)
(* it or drop the holder (_reconnect, PlaylogHandler.prepare).             *)
THEOREM NothingLeftBehind == Spec => []NothingStranded
<1>1. IInv => NothingStranded
  BY DEF IInv
<1> QED
  BY <1>1, Inductive, PTL

------------------------------------------------------------------------------
(* The holder as an outbox.                                                *)

(* A publish is a message put, or put through: the connected holder has    *)
(* nothing waiting.                                                        *)
LEMMA PublishPuts ==
  ASSUME IInv, NEW f \in Flows, NEW k \in Kinds, Publish(f, k)
  PROVE  Outbox!Put(k) \/ Outbox!PutThrough(k)
<1> USE DEF IInv
<1>1. /\ ~destroyed /\ destroyed' = destroyed
      /\ given' = [given EXCEPT ![k] = @ + 1]
  BY DEF Publish, Message, Attached, MapInv, Reconnect, holder
<1>2. CASE ~(state = "CONNECTED" /\ Usable(channel))
  <2>1. sent' = sent
    BY <1>2 DEF Publish
  <2> QED
    BY <1>1, <2>1 DEF Outbox!Put
<1>3. CASE state = "CONNECTED" /\ Usable(channel)
  <2>1. sent' = [sent EXCEPT ![k] = Append(@, given[k] + 1)]
    BY <1>3 DEF Publish, Message
  <2>2. ASSUME NEW l \in Kinds PROVE sent[l] = Outbox!Upto(given[l])
    <3>1. sent[l] \o pending[l] = Outbox!Upto(given[l])
      BY <1>1, <2>2 DEF PublishedInOrder, Outbox!Upto
    <3>2. pending[l] = <<>> /\ sent[l] \in Seq(Nat)
      BY <1>3, <2>2 DEF NothingStranded, TypeOK
    <3> QED
      BY <3>1, <3>2, ConcatEmpty
  <2> QED
    BY <1>1, <2>1, <2>2 DEF Outbox!PutThrough
<1> QED
  BY <1>2, <1>3

(* The last step of _connect hands over all that waits.                    *)
LEMMA FlushHandsOver ==
  ASSUME IInv, NEW j \in Chains, Flush(j)
  PROVE  Outbox!HandOverAll
<1>1. /\ ~destroyed /\ destroyed' = destroyed /\ given' = given
      /\ sent' = [k \in Kinds |-> sent[k] \o pending[k]]
  BY DEF Flush, Flushes
<1>2. \A k \in Kinds : sent[k] \o pending[k] = Outbox!Upto(given[k])
  BY <1>1 DEF IInv, PublishedInOrder, Outbox!Upto
<1>3. sent' = [k \in Kinds |-> Outbox!Upto(given[k])]
  BY <1>1, <1>2
<1> QED
  BY <1>1, <1>3 DEF Outbox!HandOverAll

LEMMA OutboxStep == IInv /\ [Next]_vars => [Outbox!OutboxNext]_(Outbox!outboxVars)
<1> SUFFICES ASSUME IInv, [Next]_vars
             PROVE  Outbox!OutboxNext \/ UNCHANGED <<given, sent, destroyed>>
    BY DEF Outbox!outboxVars
<1> USE DEF Outbox!OutboxNext
<1>1. CASE UNCHANGED vars
  BY <1>1 DEF vars
<1>2. ASSUME NEW f \in Flows, NEW k \in Kinds, Publish(f, k) PROVE Outbox!OutboxNext
  BY <1>2, PublishPuts
<1>3. ASSUME NEW f \in Flows, FlowStep(f), ~ \E k \in Kinds : Publish(f, k)
      PROVE  UNCHANGED <<given, sent, destroyed>>
  BY <1>3 DEF FlowStep, Prepare, CloseUnprepared, Leave, CloseLast, Consume, OffConsume,
              holder, publishing
<1>4. ASSUME NEW j \in Chains, ChainStep(j)
      PROVE  Outbox!OutboxNext \/ UNCHANGED <<given, sent, destroyed>>
  <2>1. CASE Flush(j)
    BY <2>1, FlushHandsOver
  <2>2. CASE GiveUp(j)
    BY <2>2 DEF GiveUp, Destroy, Outbox!Drop
  <2>3. CASE ~Flush(j) /\ ~GiveUp(j)
    BY <1>4, <2>3, MovesOn DEF IInv
  <2> QED
    BY <2>1, <2>2, <2>3
<1>5. CASE CloserStep
  BY <1>5 DEF CloserStep, CloserCancelled, CloserRejected, CloserCloseChannel, CloserDone,
              Destroy, holder, publishing, Outbox!Drop
<1>6. ASSUME NEW k \in Kinds, Answer(k) PROVE UNCHANGED <<given, sent, destroyed>>
  BY <1>6 DEF Answer, holder, publishing
<1>7. ASSUME NEW c \in Conns, Failure(c) PROVE UNCHANGED <<given, sent, destroyed>>
  BY <1>7 DEF Failure, Break, BreakChannel, Reconnect, holder, publishing
<1> QED
  BY <1>1, <1>2, <1>3, <1>4, <1>5, <1>6, <1>7 DEF Next

(* The holder with all its flows, connections and retries implements the   *)
(* outbox (publishEvent, publishTick, _connect, destroy).                  *)
THEOREM OutboxRefinement == Spec => ImplementsOutbox
<1>1. Init => Outbox!OutboxInit
  BY DEF Init, Outbox!OutboxInit
<1>2. IInv /\ [Next]_vars => [Outbox!OutboxNext]_(Outbox!outboxVars)
  BY OutboxStep
<1> QED
  BY <1>1, <1>2, Inductive, PTL DEF Spec, ImplementsOutbox, Outbox!OutboxSpec
==============================================================================
