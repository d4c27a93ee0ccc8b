------------------------------ MODULE AmqpHolder ------------------------------
(***************************************************************************)
(* AMQPHolder and PlaylogHandler: the connection to RabbitMQ that the      *)
(* flows of one play share on a playlog server.  The first flow prepares   *)
(* it, the last one to close drops it, and in between it is made again     *)
(* whenever its connection or channel fails.                               *)
(*                                                                         *)
(* A "chain" is a call of _connect with its retries, including the         *)
(* _doClose that comes before each; the "closer" is PlaylogHandler.close   *)
(* of the last flow.  One step is one answer of the broker with the        *)
(* callbacks waiting for it, one failure, or one call of a flow.  The one  *)
(* channel of a connection goes by the name of the connection.             *)
(***************************************************************************)
EXTENDS Naturals, Sequences, FiniteSets

CONSTANTS
  Flows,        \* flows of the play that need the connection
  Chains,       \* bound: calls of _connect at once
  MaxConns,     \* bound: connections made in a behaviour
  MaxRetry,     \* maxConnectionRetry
  MaxPublish,   \* bound: messages handed to the holder
  MaxTags,      \* bound: consumers of a kind on a channel, asked for or there
  NoConn        \* no connection

Conns == 1 .. MaxConns
Kinds == {"event", "tick"}
Tags == 1 .. MaxTags
NoTag == 0

ASSUME BoundsAssumption ==
  /\ MaxConns \in Nat
  /\ MaxRetry \in Nat
  /\ MaxPublish \in Nat
  /\ MaxTags \in Nat
  /\ NoConn \notin Conns
ASSUME ChainsAssumption == Chains # {}

VARIABLES
  flow,        \* a flow between authenticate and close
  clients,     \* _clients of the play
  mapped,      \* the holder is in _amqpHolders
  state,       \* state of the holder
  destroyed,   \* destroy was called
  connection,  \* its connection
  channel,     \* its channel, and eventClient and tickClient with it
  link,        \* connections as the broker has them
  listen,      \* listeners on a connection and its channel
  chain,       \* the _connect calls
  closer,      \* PlaylogHandler.close of the last flow
  handlers,    \* eventHandlers, tickHandlers
  started,     \* consumeEventStarted, consumeTickStarted
  tag,         \* consumeEventTag, consumeTickTag
  calls,       \* consume and cancel requests of flows waiting for an answer
  consumers,   \* consumers the channel has at the broker
  pending,     \* pendingEvents, pendingTicks
  given,       \* history: messages handed to the holder
  sent,        \* history: messages handed to a channel
  crossed,     \* history: kinds with overlapping requests on this channel
  escaped      \* history: a case in which a connection may be left

flows == <<flow, clients, mapped>>
holder == <<state, destroyed, connection, channel>>
broker == <<link, listen>>
consuming == <<handlers, started, tag, calls, consumers, crossed>>
publishing == <<pending, given, sent>>
vars == <<flow, clients, mapped, state, destroyed, connection, channel, link,
          listen, chain, closer, handlers, started, tag, calls, consumers,
          pending, given, sent, crossed, escaped>>

NoChain == [stage |-> "none", retry |-> 0, conn |-> NoConn, chan |-> NoConn, named |-> FALSE]
NoCloser == [stage |-> "none", conn |-> NoConn, chan |-> NoConn]

Init ==
  /\ flow = [f \in Flows |-> "idle"]
  /\ clients = {}
  /\ mapped = FALSE
  /\ state = "CLOSED"
  /\ destroyed = FALSE
  /\ connection = NoConn
  /\ channel = NoConn
  /\ link = [c \in Conns |-> "unused"]
  /\ listen = [c \in Conns |-> "none"]
  /\ chain = [j \in Chains |-> NoChain]
  /\ closer = NoCloser
  /\ handlers = [k \in Kinds |-> {}]
  /\ started = [k \in Kinds |-> FALSE]
  /\ tag = [k \in Kinds |-> NoTag]
  /\ calls = [k \in Kinds |-> {}]
  /\ consumers = [k \in Kinds |-> {}]
  /\ pending = [k \in Kinds |-> <<>>]
  /\ given = [k \in Kinds |-> 0]
  /\ sent = [k \in Kinds |-> <<>>]
  /\ crossed = {}
  /\ escaped = FALSE

------------------------------------------------------------------------------
(* Closing.                                                                *)

(* Requests on the channel are answered.                                   *)
Usable(c) == c # NoConn /\ link[c] = "open"

(* The channel takes its requests and its consumers along.                 *)
DropChannel ==
  /\ calls' = [k \in Kinds |-> {}]
  /\ consumers' = [k \in Kinds |-> {}]
  /\ crossed' = {}

(* Mutant: the connection is forgotten before it is closed. *)
ClosingChannel(x) ==
  [x EXCEPT !.stage = IF channel # NoConn /\ link'[channel] = "open"
                      THEN "closeChannel" ELSE "closeConnection",
            !.conn = NoConn, !.chan = channel]

(* _doClose up to its first wait: a channel that is closed already has     *)
(* nothing to wait for.  link' is the state of the connections.            *)
Closing(x) ==
  [x EXCEPT !.stage = IF channel # NoConn /\ link'[channel] = "open"
                      THEN "closeChannel" ELSE "closeConnection",
            !.conn = connection, !.chan = channel]

Unlistened(x) ==
  [c \in Conns |-> IF x.stage = "closeConnection" /\ c = connection THEN "none"
                   ELSE IF c = channel /\ listen[c] = "both" THEN "connection"
                   ELSE listen[c]]

DoClose(x) ==
  /\ connection' = NoConn
  /\ channel' = NoConn
  /\ listen' = Unlistened(Closing(x))
  /\ tag' = [k \in Kinds |-> NoTag]
  /\ DropChannel

(* channel.close() is answered; the connection is next.                    *)
ChannelClosed(x) ==
  /\ x.stage = "closeChannel"
  /\ link' = IF link[x.chan] = "open" THEN [link EXCEPT ![x.chan] = "half"] ELSE link
  /\ listen' = IF x.conn = NoConn THEN listen ELSE [listen EXCEPT ![x.conn] = "none"]

(* connection.close() is answered, or throws.                              *)
ConnectionClosed(x) ==
  /\ x.stage = "closeConnection"
  /\ link' = IF x.conn = NoConn THEN link ELSE [link EXCEPT ![x.conn] = "closed"]

Destroy ==
  /\ destroyed' = TRUE
  /\ state' = "CLOSED"
  /\ channel' = NoConn
  /\ started' = [k \in Kinds |-> FALSE]
  /\ tag' = [k \in Kinds |-> NoTag]
  /\ handlers' = [k \in Kinds |-> {}]
  /\ pending' = [k \in Kinds |-> <<>>]
  /\ DropChannel

------------------------------------------------------------------------------
(* Connecting.                                                             *)

Busy == {j \in Chains : chain[j].stage # "none"}
NewChain == CHOOSE j \in Chains : j \notin Busy

(* What a task waits for can still come.                                   *)
Waits(x) ==
  CASE x.stage \in {"closeChannel", "cancel"} -> Usable(x.chan)
    [] x.stage = "closeConnection" -> x.conn # NoConn /\ link[x.conn] # "closed"
    [] x.stage = "channel" -> Usable(x.conn)
    [] x.stage \in {"setup"} \cup Kinds -> Usable(channel)
    [] x.stage = "flush" -> FALSE
    [] OTHER -> TRUE

(* No callback is due: flows act, and answers come, only then.             *)
Idle == Waits(closer) /\ \A j \in Chains : Waits(chain[j])

Closes == closer.stage \in {"cancel", "closeChannel", "closeConnection"}

(* _reconnect, unless one is on.                                           *)
Reconnect ==
  /\ state' = "CONNECTING"
  /\ Busy # Chains
  /\ chain' = [chain EXCEPT ![NewChain] = Closing(NoChain)]
  /\ DoClose(NoChain)
  /\ escaped' = (escaped \/ Busy # {})
  /\ UNCHANGED destroyed

Connecting(retry) ==
  [stage |-> "connect", retry |-> retry, conn |-> NoConn, chan |-> NoConn,
   named |-> ~destroyed]

Prepared(to) == [f \in Flows |-> IF flow[f] = "preparing" THEN to ELSE flow[f]]

(* PlaylogHandler.prepare: the first flow makes the holder and waits for   *)
(* it, the others do not.                                                  *)
Prepare(f) ==
  /\ flow[f] = "idle"
  /\ clients' = clients \cup {f}
  /\ \/ /\ \A g \in Flows : flow[g] = "idle"
        /\ flow' = [flow EXCEPT ![f] = "preparing"]
        /\ mapped' = TRUE
        /\ state' = "CONNECTING"
        /\ chain' = [chain EXCEPT ![NewChain] = Connecting(0)]
     \/ /\ mapped
        /\ flow' = [flow EXCEPT ![f] = "prepared"]
        /\ UNCHANGED <<mapped, state, chain>>
  /\ UNCHANGED <<destroyed, connection, channel, broker, closer, consuming,
                 publishing, escaped>>

(* newConnection.                                                          *)
NewConnection(j) ==
  /\ chain[j].stage = "connect"
  /\ \E c \in Conns :
       /\ link[c] = "unused"
       /\ \A d \in Conns : link[d] = "unused" => c <= d
       /\ link' = [link EXCEPT ![c] = "open"]
       /\ listen' = [listen EXCEPT ![c] = "connection"]
       /\ connection' = c
       /\ chain' = [chain EXCEPT ![j].stage = "channel", ![j].conn = c]
  /\ UNCHANGED <<flows, state, destroyed, channel, closer, consuming, publishing, escaped>>

(* createChannel.                                                          *)
CreateChannel(j) ==
  /\ chain[j].stage = "channel"
  /\ Usable(chain[j].conn)
  /\ channel' = chain[j].conn
  /\ listen' = [listen EXCEPT ![channel'] = "both"]
  /\ DropChannel
  /\ chain' = [chain EXCEPT ![j].stage = "setup"]
  /\ UNCHANGED <<flows, state, destroyed, connection, link, closer, handlers,
                 started, tag, publishing, escaped>>

(* Mutant: after a failure nothing is consumed again. *)
FollowingNothing(stage) == "flush"

(* What is consumed after the stage given.                                 *)
Following(stage) ==
  IF stage = "setup" /\ started["event"] THEN "event"
  ELSE IF stage # "tick" /\ started["tick"] THEN "tick"
  ELSE "flush"

(* prefetch and the checks of exchanges and queue; those of a destroyed    *)
(* holder are not found.                                                   *)
Setup(j) ==
  /\ chain[j].stage = "setup"
  /\ chain[j].named
  /\ Usable(channel)
  /\ chain' = [chain EXCEPT ![j].stage = Following("setup")]
  /\ UNCHANGED <<flows, holder, broker, closer, consuming, publishing, escaped>>

Unused(k) == Tags \ (consumers[k] \cup {tag[k]} \cup {x.tag : x \in calls[k]})
Fresh(k) == CHOOSE t \in Unused(k) : TRUE

(* _doConsumeEvent and _doConsumeTick within _connect.                     *)
DoConsume(j, k) ==
  /\ chain[j].stage = k
  /\ Usable(channel)
  /\ Unused(k) # {}
  /\ tag' = [tag EXCEPT ![k] = Fresh(k)]
  /\ consumers' = [consumers EXCEPT ![k] = @ \cup {Fresh(k)}]
  /\ chain' = [chain EXCEPT ![j].stage = Following(k)]
  /\ UNCHANGED <<flows, holder, broker, closer, handlers, started, calls, crossed,
                 publishing, escaped>>

Flushes == ~destroyed /\ (Usable(channel) \/ \A k \in Kinds : pending[k] = <<>>)

(* Mutant: ticks are left for the next time. *)
FlushEvents(j) ==
  /\ chain[j].stage = "flush"
  /\ Flushes
  /\ sent' = [sent EXCEPT !["event"] = @ \o pending["event"]]
  /\ pending' = [pending EXCEPT !["event"] = <<>>]
  /\ state' = "CONNECTED"
  /\ flow' = Prepared("prepared")
  /\ chain' = [chain EXCEPT ![j] = NoChain]
  /\ escaped' = (escaped \/ Closes)
  /\ UNCHANGED <<clients, mapped, destroyed, connection, channel, broker, closer,
                 consuming, given>>

(* What is pending is published, and the holder is connected: that the     *)
(* channel is still there shows only if there is something to publish.     *)
Flush(j) ==
  /\ chain[j].stage = "flush"
  /\ Flushes
  /\ sent' = [k \in Kinds |-> sent[k] \o pending[k]]
  /\ pending' = [k \in Kinds |-> <<>>]
  /\ state' = "CONNECTED"
  /\ flow' = Prepared("prepared")
  /\ chain' = [chain EXCEPT ![j] = NoChain]
  /\ escaped' = (escaped \/ Closes)
  /\ UNCHANGED <<clients, mapped, destroyed, connection, channel, broker, closer,
                 consuming, given>>

Failing(j) ==
  \/ chain[j].stage = "connect"
  \/ chain[j].stage = "channel" /\ ~Usable(chain[j].conn)
  \/ chain[j].stage = "setup" /\ ~chain[j].named
  \/ chain[j].stage \in {"setup"} \cup Kinds /\ ~Usable(channel)
  \/ chain[j].stage = "flush" /\ ~Flushes

(* The catch of _connect.                                                  *)
ConnectFails(j) ==
  /\ Failing(j)
  /\ UNCHANGED link
  /\ chain' = [chain EXCEPT ![j] = Closing([chain[j] EXCEPT !.retry = @ + 1])]
  /\ DoClose(chain[j])
  /\ UNCHANGED <<flows, state, destroyed, closer, handlers, started, publishing, escaped>>

ChainCloseChannel(j) ==
  /\ ChannelClosed(chain[j])
  /\ chain' = [chain EXCEPT ![j].stage = "closeConnection"]
  /\ UNCHANGED <<flows, holder, closer, consuming, publishing, escaped>>

(* Mutant: no limit. *)
RetryForever(j) ==
  /\ ConnectionClosed(chain[j])
  /\ state' = "CONNECTING"
  /\ chain' = [chain EXCEPT ![j] = Connecting(chain[j].retry)]
  /\ UNCHANGED <<flows, destroyed, connection, channel, listen, closer, consuming,
                 publishing, escaped>>

(* The next _connect ...                                                   *)
Retry(j) ==
  /\ ConnectionClosed(chain[j])
  /\ chain[j].retry <= MaxRetry
  /\ state' = "CONNECTING"
  /\ chain' = [chain EXCEPT ![j] = Connecting(chain[j].retry)]
  /\ UNCHANGED <<flows, destroyed, connection, channel, listen, closer, consuming,
                 publishing, escaped>>

(* ... or the error event: PlaylogHandler drops the holder.  Nobody        *)
(* listens to one that is destroyed.                                       *)
GiveUp(j) ==
  /\ ConnectionClosed(chain[j])
  /\ chain[j].retry > MaxRetry
  /\ chain' = [chain EXCEPT ![j] = NoChain]
  /\ flow' = Prepared("unprepared")
  /\ IF destroyed
     THEN /\ state' = "CONNECTING"
          /\ UNCHANGED <<mapped, destroyed, channel, consuming, pending>>
     ELSE Destroy /\ mapped' = FALSE
  /\ UNCHANGED <<clients, connection, listen, closer, given, sent, escaped>>

------------------------------------------------------------------------------
(* Failures.  A broken channel has lost its requests and consumers.        *)

Lose(c) ==
  IF c = channel THEN DropChannel ELSE UNCHANGED <<calls, consumers, crossed>>

(* The connection fails or is closed by the broker.                        *)
Break(c) ==
  /\ link[c] \in {"open", "half"}
  /\ link' = [link EXCEPT ![c] = "closed"]
  /\ IF listen[c] # "none" /\ state # "CONNECTING"
     THEN Reconnect
     ELSE Lose(c) /\ UNCHANGED <<holder, listen, chain, tag, escaped>>
  /\ UNCHANGED <<flows, closer, handlers, started, publishing>>

(* The channel is closed by the broker, or ackAll throws.                  *)
BreakChannel(c) ==
  /\ link[c] = "open"
  /\ listen[c] = "both"
  /\ link' = [link EXCEPT ![c] = "half"]
  /\ IF state # "CONNECTING"
     THEN Reconnect
     ELSE Lose(c) /\ UNCHANGED <<holder, listen, chain, tag, escaped>>
  /\ UNCHANGED <<flows, closer, handlers, started, publishing>>

------------------------------------------------------------------------------
(* Calls of the flows.                                                     *)

(* Mutant: a flow keeps the holder it has found once. *)
AttachedForGood(f) == flow[f] = "prepared"

(* A flow finds the holder.                                                *)
Attached(f) == flow[f] = "prepared" /\ mapped

Message(k) == given[k] + 1

(* Mutant: published as soon as there is a channel. *)
PublishAtOnce(f, k) ==
  /\ Attached(f)
  /\ given["event"] + given["tick"] < MaxPublish
  /\ given' = [given EXCEPT ![k] = Message(k)]
  /\ IF Usable(channel)
     THEN /\ sent' = [sent EXCEPT ![k] = Append(@, Message(k))]
          /\ UNCHANGED pending
     ELSE /\ pending' = [pending EXCEPT ![k] = Append(@, Message(k))]
          /\ UNCHANGED sent
  /\ UNCHANGED <<flows, holder, broker, chain, closer, consuming, escaped>>

(* publishEvent and publishTick.                                           *)
Publish(f, k) ==
  /\ Attached(f)
  /\ given["event"] + given["tick"] < MaxPublish
  /\ given' = [given EXCEPT ![k] = Message(k)]
  /\ IF state = "CONNECTED" /\ Usable(channel)
     THEN /\ sent' = [sent EXCEPT ![k] = Append(@, Message(k))]
          /\ UNCHANGED pending
     ELSE /\ pending' = [pending EXCEPT ![k] = Append(@, Message(k))]
          /\ UNCHANGED sent
  /\ UNCHANGED link
  /\ IF state = "CONNECTED" /\ ~Usable(channel)
     THEN Reconnect
     ELSE UNCHANGED <<holder, listen, chain, tag, calls, consumers, crossed, escaped>>
  /\ UNCHANGED <<flows, closer, handlers, started>>

(* The chain has asked whether to consume events, and is not done.         *)
Past(k) == k = "event" /\ tag[k] = NoTag /\ \E j \in Chains : chain[j].stage = "tick"

Cross(k, is) == crossed' = IF is THEN crossed \cup {k} ELSE crossed

(* consumeEvent and consumeTick: without a tag, a consumer is asked for.   *)
Consume(f, k) ==
  /\ Attached(f)
  /\ f \notin handlers[k]
  /\ handlers' = [handlers EXCEPT ![k] = @ \cup {f}]
  /\ started' = [started EXCEPT ![k] = TRUE]
  /\ IF state = "CONNECTED" /\ tag[k] = NoTag /\ Usable(channel)
     THEN /\ Unused(k) # {}
          /\ calls' = [calls EXCEPT ![k] = @ \cup {[op |-> "consume", tag |-> Fresh(k)]}]
          /\ consumers' = [consumers EXCEPT ![k] = @ \cup {Fresh(k)}]
     ELSE UNCHANGED <<calls, consumers>>
  /\ Cross(k, calls[k] # {} \/ Past(k))
  /\ UNCHANGED <<flows, holder, broker, chain, closer, tag, publishing, escaped>>

(* offConsumeEvent and offConsumeTick: with the last handler, what was     *)
(* consumed is cancelled.                                                  *)
OffConsume(f, k) ==
  /\ Attached(f)
  /\ f \in handlers[k]
  /\ handlers' = [handlers EXCEPT ![k] = @ \ {f}]
  /\ IF handlers[k] = {f} /\ started[k]
     THEN /\ started' = [started EXCEPT ![k] = FALSE]
          /\ IF tag[k] # NoTag /\ Usable(channel)
             THEN /\ calls' = [calls EXCEPT ![k] = @ \cup {[op |-> "cancel", tag |-> tag[k]]}]
                  /\ consumers' = [consumers EXCEPT ![k] = @ \ {tag[k]}]
             ELSE UNCHANGED <<calls, consumers>>
          /\ Cross(k, calls[k] # {} \/ \E j \in Chains : chain[j].stage = k)
     ELSE UNCHANGED <<started, calls, consumers, crossed>>
  /\ UNCHANGED <<flows, holder, broker, chain, closer, tag, publishing, escaped>>

(* The broker answers one of these.                                        *)
Answer(k) ==
  /\ \E x \in calls[k] :
       /\ calls' = [calls EXCEPT ![k] = @ \ {x}]
       /\ tag' = [tag EXCEPT ![k] = IF x.op = "consume" THEN x.tag ELSE NoTag]
  /\ UNCHANGED <<flows, holder, broker, chain, closer, handlers, started, consumers,
                 crossed, publishing, escaped>>

(* ServerEngineAMFlow.close before prepare is answered, or after it        *)
(* failed: the flow stays among the clients.                               *)
CloseUnprepared(f) ==
  /\ flow[f] \in {"preparing", "unprepared"}
  /\ flow' = [flow EXCEPT ![f] = "closed"]
  /\ escaped' = TRUE
  /\ UNCHANGED <<clients, mapped, holder, broker, chain, closer, consuming, publishing>>

(* PlaylogHandler.close with other clients left, or without a holder.      *)
Leave(f) ==
  /\ flow[f] = "prepared"
  /\ clients # {f} \/ ~mapped
  /\ clients' = clients \ {f}
  /\ flow' = [flow EXCEPT ![f] = "closed"]
  /\ UNCHANGED <<mapped, holder, broker, chain, closer, consuming, publishing, escaped>>

Cancelled == {k \in Kinds : started[k] /\ tag[k] # NoTag}

(* AMQPHolder.close.                                                       *)
CloseHolder ==
  /\ state' = "CLOSED"
  /\ UNCHANGED link
  /\ DoClose(NoCloser)
  /\ closer' = Closing(NoCloser)

(* The last client goes: cancelConsume, and close once that is done.       *)
CloseLast(f) ==
  /\ Attached(f)
  /\ clients = {f}
  /\ clients' = {}
  /\ mapped' = FALSE
  /\ flow' = [flow EXCEPT ![f] = "closing"]
  /\ started' = [k \in Kinds |-> FALSE]
  /\ IF Cancelled = {}
     THEN CloseHolder
     ELSE /\ closer' = [NoCloser EXCEPT !.stage = "cancel", !.chan = channel]
          /\ consumers' = [k \in Kinds |-> IF k \in Cancelled THEN consumers[k] \ {tag[k]}
                                           ELSE consumers[k]]
          /\ UNCHANGED <<state, connection, channel, broker, tag, calls, crossed>>
  /\ UNCHANGED <<destroyed, chain, handlers, publishing, escaped>>

CloserCancelled ==
  /\ closer.stage = "cancel"
  /\ Usable(closer.chan)
  /\ CloseHolder
  /\ UNCHANGED <<flows, destroyed, chain, handlers, started, publishing, escaped>>

(* A cancel is rejected, and close with it.                                *)
CloserRejected ==
  /\ closer.stage = "cancel"
  /\ ~Usable(closer.chan)
  /\ closer' = [closer EXCEPT !.stage = "rejected"]
  /\ escaped' = TRUE
  /\ UNCHANGED <<flows, holder, broker, chain, consuming, publishing>>

CloserCloseChannel ==
  /\ ChannelClosed(closer)
  /\ closer' = [closer EXCEPT !.stage = "closeConnection"]
  /\ UNCHANGED <<flows, holder, chain, consuming, publishing, escaped>>

CloserDone ==
  /\ ConnectionClosed(closer)
  /\ Destroy
  /\ flow' = [f \in Flows |-> IF flow[f] = "closing" THEN "closed" ELSE flow[f]]
  /\ closer' = [closer EXCEPT !.stage = "done"]
  /\ UNCHANGED <<clients, mapped, connection, listen, chain, given, sent, escaped>>

------------------------------------------------------------------------------
FlowStep(f) ==
  /\ Idle
  /\ \/ Prepare(f)
     \/ CloseUnprepared(f)
     \/ Leave(f)
     \/ CloseLast(f)
     \/ \E k \in Kinds : Publish(f, k) \/ Consume(f, k) \/ OffConsume(f, k)

ChainStep(j) ==
  /\ Idle \/ ~Waits(chain[j])
  /\ \/ NewConnection(j)
     \/ CreateChannel(j)
     \/ Setup(j)
     \/ \E k \in Kinds : DoConsume(j, k)
     \/ Flush(j)
     \/ ConnectFails(j)
     \/ ChainCloseChannel(j)
     \/ Retry(j)
     \/ GiveUp(j)

CloserStep ==
  /\ Idle \/ ~Waits(closer)
  /\ CloserCancelled \/ CloserRejected \/ CloserCloseChannel \/ CloserDone

(* A failure may come with the last answer that a chain waits for.         *)
Failure(c) ==
  /\ Idle \/ (c = channel /\ \E j \in Chains : chain[j].stage = "flush")
  /\ Break(c) \/ BreakChannel(c)

Next ==
  \/ \E f \in Flows : FlowStep(f)
  \/ \E j \in Chains : ChainStep(j)
  \/ CloserStep
  \/ \E k \in Kinds : Idle /\ Answer(k)
  \/ \E c \in Conns : Failure(c)

Spec == Init /\ [][Next]_vars

------------------------------------------------------------------------------
Stages == {"none", "connect", "channel", "setup", "event", "tick", "flush",
           "closeChannel", "closeConnection"}

ChainType ==
  [stage : Stages, retry : 0 .. MaxRetry + 1, conn : Conns \cup {NoConn},
   chan : Conns \cup {NoConn}, named : BOOLEAN]

CloserType ==
  [stage : {"none", "cancel", "closeChannel", "closeConnection", "done", "rejected"},
   conn : Conns \cup {NoConn}, chan : Conns \cup {NoConn}]

(* Type invariant of the holder and its flows.                             *)
TypeOK ==
  /\ flow \in [Flows -> {"idle", "preparing", "prepared", "unprepared", "closing", "closed"}]
  /\ clients \subseteq Flows
  /\ mapped \in BOOLEAN
  /\ state \in {"CLOSED", "CONNECTING", "CONNECTED"}
  /\ destroyed \in BOOLEAN
  /\ connection \in Conns \cup {NoConn}
  /\ channel \in Conns \cup {NoConn}
  /\ link \in [Conns -> {"unused", "open", "half", "closed"}]
  /\ listen \in [Conns -> {"none", "connection", "both"}]
  /\ chain \in [Chains -> ChainType]
  /\ closer \in CloserType
  /\ handlers \in [Kinds -> SUBSET Flows]
  /\ started \in [Kinds -> BOOLEAN]
  /\ tag \in [Kinds -> Tags \cup {NoTag}]
  /\ calls \in [Kinds -> SUBSET [op : {"consume", "cancel"}, tag : Tags]]
  /\ consumers \in [Kinds -> SUBSET Tags]
  /\ pending \in [Kinds -> Seq(Nat)]
  /\ given \in [Kinds -> 0 .. MaxPublish]
  /\ sent \in [Kinds -> Seq(Nat)]
  /\ crossed \subseteq Kinds
  /\ escaped \in BOOLEAN

(* What flows publish is handed to channels once and in order, whatever    *)
(* fails on the way (publishEvent, publishTick, _connect): the messages    *)
(* given are those sent and then those pending.                            *)
PublishedInOrder ==
  ~destroyed =>
    \A k \in Kinds : sent[k] \o pending[k] = [i \in 1 .. given[k] |-> i]

(* The holder is an outbox of its flows (publishEvent, publishTick,        *)
(* _connect, destroy): what waits for a connection goes out all at once,   *)
(* before anything that is published after it, and a holder that is        *)
(* destroyed publishes nothing.                                            *)
Outbox == INSTANCE Outbox WITH handed <- sent, dropped <- destroyed
ImplementsOutbox == Outbox!OutboxSpec

(* A connected holder has one consumer for what is subscribed and none for *)
(* what is not, however often it was made anew (consumeEvent, consumeTick, *)
(* _connect), unless requests overlapped on this channel.                  *)
ConsumersMatch ==
  state = "CONNECTED" /\ mapped /\ Usable(channel) /\ Idle =>
    \A k \in Kinds \ crossed :
      calls[k] = {} => Cardinality(consumers[k]) = IF started[k] THEN 1 ELSE 0

(* When all flows have closed and nothing is under way, no connection is   *)
(* left open (PlaylogHandler.close, _doClose), unless a flow closed before *)
(* it was prepared, a cancel was rejected, or a holder that was being      *)
(* closed got connected or connecting twice.                               *)
LastCloseReleases ==
  (\A f \in Flows : flow[f] \in {"idle", "closed"}) /\ Busy = {} /\ ~Closes /\ ~escaped =>
    \A c \in Conns : link[c] \in {"unused", "closed"}

(* What is pending is not left behind (publishEvent, publishTick,          *)
(* _reconnect): as long as something is, a _connect is under way that will *)
(* flush it or drop the holder.                                            *)
NothingStranded ==
  (\E k \in Kinds : pending[k] # <<>>) => Busy # {} /\ state # "CONNECTED"
==============================================================================
