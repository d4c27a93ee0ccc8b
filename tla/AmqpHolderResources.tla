------------------------ MODULE AmqpHolderResources ------------------------
(***************************************************************************)
(* Proofs about what AmqpHolder has at the broker, for any number of       *)
(* flows, connections and consumers: its consumers match what the flows    *)
(* subscribed to, and with the last flow its connection goes.              *)
(***************************************************************************)
EXTENDS AmqpHolderProofs, FiniteSetTheorems

------------------------------------------------------------------------------
(* Consumers.                                                              *)

(* Stages of a _connect that has no channel yet, or none any more.         *)
Quiet == {"connect", "channel", "closeChannel", "closeConnection"}

(* One consumer for what is subscribed and none for what is not, but for   *)
(* a request that waits for its answer.                                    *)
Settled(k) ==
  \/ calls[k] = {} /\ tag[k] = NoTag /\ ~started[k] /\ consumers[k] = {}
  \/ calls[k] = {} /\ tag[k] # NoTag /\ started[k] /\ consumers[k] = {tag[k]}
  \/ \E t \in Tags :
       \/ /\ calls[k] = {[op |-> "consume", tag |-> t]}
          /\ started[k] /\ tag[k] = NoTag /\ consumers[k] = {t}
       \/ /\ calls[k] = {[op |-> "cancel", tag |-> t]}
          /\ ~started[k] /\ tag[k] = t /\ consumers[k] = {}

(* How far the consumers are when the _connect is at stage s, or is done.  *)
At(s) ==
  /\ s \in Quiet => channel = NoConn
  /\ s \in Quiet \cup {"setup", "event"} => \A k \in Kinds : Unasked(k)
  /\ s = "tick" => Unasked("tick")
  /\ Usable(channel) =>
       /\ s \in Kinds => started[s] \/ s \in crossed
       /\ s = "tick" => "event" \in crossed \/ Settled("event")
       /\ s \in {"flush", "none"} => \A k \in Kinds \ crossed : Settled(k)

Connected == state = "CONNECTED" /\ Busy = {} /\ At("none")

Underway ==
  /\ state = "CONNECTING"
  /\ \E j \in Chains, s \in Stages : Busy = {j} /\ chain[j].stage = s /\ At(s)

(* While flows find the holder there is one _connect, or none and it is    *)
(* connected.                                                              *)
SettledInv == mapped => Connected \/ Underway

LEMMA AtUnchanged ==
  ASSUME NEW s, At(s), UNCHANGED <<channel, link, started, tag, calls, consumers, crossed>>
  PROVE  At(s)'
BY DEF At, Unasked, Settled, Usable

(* A new or closing _connect has nothing on its channel.                   *)
LEMMA AtQuiet ==
  ASSUME channel' = NoConn, NEW s \in Quiet, \A k \in Kinds : Unasked(k)'
  PROVE  At(s)'
BY DEF At, Quiet, Usable, Kinds

LEMMA DoCloseQuiet ==
  ASSUME NEW x, DoClose(x)
  PROVE  channel' = NoConn /\ \A k \in Kinds : Unasked(k)'
BY DEF DoClose, DropChannel, Unasked

LEMMA SettledOther ==
  ASSUME NEW l,
         tag'[l] = tag[l], calls'[l] = calls[l], consumers'[l] = consumers[l],
         started'[l] = started[l]
  PROVE  (Unasked(l) => Unasked(l)') /\ (Settled(l) => Settled(l)')
BY DEF Unasked, Settled

(* consumeEvent and consumeTick.                                           *)
LEMMA ConsumeAt ==
  ASSUME TypeOK, NEW f \in Flows, NEW k \in Kinds, Consume(f, k),
         NEW s \in Stages \ {"flush"}, At(s),
         state = IF s = "none" THEN "CONNECTED" ELSE "CONNECTING",
         s = "tick" => \E j \in Chains : chain[j].stage = "tick"
  PROVE  At(s)'
<1>1. /\ channel' = channel /\ link' = link /\ tag' = tag
      /\ started' = [started EXCEPT ![k] = TRUE]
      /\ crossed' = IF calls[k] # {} \/ Past(k) THEN crossed \cup {k} ELSE crossed
  BY DEF Consume, Cross, holder, broker
<1>2. \A l \in Kinds : l # k => calls'[l] = calls[l] /\ consumers'[l] = consumers[l]
  BY DEF Consume, TypeOK
<1>3. \A l \in Kinds : l # k => (Unasked(l) => Unasked(l)') /\ (Settled(l) => Settled(l)')
  BY <1>1, <1>2, SettledOther DEF TypeOK
<1>4. started'[k] /\ \A l \in Kinds : started[l] => started'[l]
  BY <1>1 DEF TypeOK
<1>5. Usable(channel)' = Usable(channel) /\ crossed \subseteq crossed'
  BY <1>1 DEF Usable
<1>6. ASSUME state # "CONNECTED" PROVE calls' = calls /\ consumers' = consumers
  BY <1>6 DEF Consume
<1>7. ASSUME state # "CONNECTED", Unasked(k) PROVE Unasked(k)'
  BY <1>1, <1>6, <1>7 DEF Unasked
<1>8. ASSUME Settled(k), Usable(channel), tag[k] = NoTag => state = "CONNECTED"
      PROVE  k \in crossed' \/ Settled(k)'
  <2> SUFFICES ASSUME calls[k] = {} PROVE Settled(k)'
      BY <1>1
  <2>1. CASE tag[k] # NoTag
    <3>1. started[k] /\ consumers[k] = {tag[k]}
      BY <1>8, <2>1 DEF Settled
    <3>2. calls' = calls /\ consumers' = consumers
      BY <2>1 DEF Consume
    <3> QED
      BY <1>1, <1>4, <2>1, <3>1, <3>2 DEF Settled
  <2>2. CASE tag[k] = NoTag
    <3>1. consumers[k] = {}
      BY <1>8, <2>2 DEF Settled
    <3>2. /\ Unused(k) # {}
          /\ calls'[k] = {[op |-> "consume", tag |-> Fresh(k)]}
          /\ consumers'[k] = {Fresh(k)}
      BY <1>8, <2>2, <3>1 DEF Consume, TypeOK
    <3>3. Fresh(k) \in Tags
      BY <3>2 DEF Fresh, Unused
    <3> QED
      BY <1>1, <1>4, <2>2, <3>2, <3>3 DEF Settled
  <2> QED
    BY <2>1, <2>2
<1>9. CASE s \in Quiet \cup {"setup", "event"}
  <2>1. \A l \in Kinds : Unasked(l)'
    BY <1>3, <1>7, <1>9 DEF At, Quiet
  <2> QED
    BY <1>1, <1>4, <1>5, <1>9, <2>1 DEF At, Quiet, Kinds
<1>10. CASE s = "tick"
  <2>1. Unasked("tick")'
    BY <1>3, <1>7, <1>10 DEF At, Kinds
  <2>2. ASSUME Usable(channel) PROVE "event" \in crossed' \/ Settled("event")'
    <3>1. CASE k # "event"
      BY <1>3, <1>5, <1>10, <2>2, <3>1 DEF At, Kinds
    <3>2. CASE k = "event"
      <4>1. CASE tag[k] = NoTag
        BY <1>1, <1>10, <3>2, <4>1 DEF Past
      <4>2. CASE tag[k] # NoTag
        BY <1>5, <1>8, <1>10, <2>2, <3>2, <4>2 DEF At
      <4> QED
        BY <4>1, <4>2
    <3> QED
      BY <3>1, <3>2
  <2> QED
    BY <1>4, <1>5, <1>10, <2>1, <2>2 DEF At, Quiet, Kinds
<1>11. CASE s = "none"
  <2>1. ASSUME Usable(channel), NEW l \in Kinds \ crossed' PROVE Settled(l)'
    <3>1. Settled(l)
      BY <1>5, <1>11, <2>1 DEF At
    <3>2. CASE l # k
      BY <1>3, <3>1, <3>2
    <3>3. CASE l = k
      BY <1>8, <1>11, <2>1, <3>1, <3>3
    <3> QED
      BY <3>2, <3>3
  <2> QED
    BY <1>5, <1>11, <2>1 DEF At, Quiet, Kinds
<1> QED
  BY <1>9, <1>10, <1>11 DEF Stages, Quiet

(* offConsumeEvent and offConsumeTick.                                     *)
LEMMA OffConsumeAt ==
  ASSUME TypeOK, NEW f \in Flows, NEW k \in Kinds, OffConsume(f, k),
         NEW s \in Stages \ {"flush"}, At(s),
         s \in Kinds => \E j \in Chains : chain[j].stage = s
  PROVE  At(s)'
<1>1. /\ channel' = channel /\ link' = link /\ tag' = tag
      /\ crossed \subseteq crossed'
  BY DEF OffConsume, Cross, holder, broker
<1>2. \A l \in Kinds : l # k =>
        calls'[l] = calls[l] /\ consumers'[l] = consumers[l] /\ started'[l] = started[l]
  BY DEF OffConsume, TypeOK
<1>3. \A l \in Kinds : l # k => (Unasked(l) => Unasked(l)') /\ (Settled(l) => Settled(l)')
  BY <1>1, <1>2, SettledOther
<1>4. Usable(channel)' = Usable(channel)
  BY <1>1 DEF Usable
<1>5. ASSUME Unasked(k) PROVE Unasked(k)'
  <2>1. calls' = calls /\ consumers' = consumers
    BY <1>5 DEF OffConsume, Unasked
  <2> QED
    BY <1>1, <1>5, <2>1 DEF Unasked
<1>6. ASSUME s = k PROVE started'[k] = started[k] \/ k \in crossed'
  BY <1>6 DEF OffConsume, Cross
<1>7. ASSUME Settled(k), Usable(channel) PROVE k \in crossed' \/ Settled(k)'
  <2>1. CASE UNCHANGED <<started, calls, consumers>>
    BY <1>1, <1>7, <2>1, SettledOther
  <2>2. CASE /\ started[k] /\ started' = [started EXCEPT ![k] = FALSE]
             /\ Cross(k, calls[k] # {} \/ \E j \in Chains : chain[j].stage = k)
    <3> SUFFICES ASSUME calls[k] = {} PROVE Settled(k)'
        BY <2>2 DEF Cross
    <3>1. tag[k] # NoTag /\ consumers[k] = {tag[k]}
      BY <1>7, <2>2 DEF Settled
    <3>2. tag[k] \in Tags /\ ~started'[k]
      BY <2>2, <3>1 DEF TypeOK
    <3>3. /\ calls'[k] = {[op |-> "cancel", tag |-> tag[k]]}
          /\ consumers'[k] = {}
      BY <1>7, <2>2, <3>1 DEF OffConsume, TypeOK
    <3> QED
      BY <1>1, <3>2, <3>3 DEF Settled
  <2> QED
    BY <2>1, <2>2 DEF OffConsume
<1>8. CASE s \in Quiet \cup {"setup", "event"}
  <2>1. \A l \in Kinds : Unasked(l)'
    BY <1>3, <1>5, <1>8 DEF At
  <2>2. ASSUME Usable(channel), s \in Kinds PROVE started'[s] \/ s \in crossed'
    BY <1>1, <1>2, <1>6, <2>2 DEF At
  <2> QED
    BY <1>1, <1>4, <1>8, <2>1, <2>2 DEF At, Quiet, Kinds
<1>9. CASE s = "tick"
  <2>1. Unasked("tick")'
    BY <1>3, <1>5, <1>9 DEF At, Kinds
  <2>2. ASSUME Usable(channel) PROVE "event" \in crossed' \/ Settled("event")'
    <3>1. "event" \in crossed \/ Settled("event")
      BY <1>9, <2>2 DEF At
    <3> QED
      BY <1>1, <1>3, <1>7, <2>2, <3>1 DEF Kinds
  <2>3. ASSUME Usable(channel) PROVE started'["tick"] \/ "tick" \in crossed'
    <3>1. started["tick"] \/ "tick" \in crossed
      BY <1>9, <2>3 DEF At, Kinds
    <3> QED
      BY <1>1, <1>2, <1>6, <1>9, <3>1 DEF Kinds
  <2> QED
    BY <1>4, <1>9, <2>1, <2>2, <2>3 DEF At, Quiet, Kinds
<1>10. CASE s = "none"
  <2>1. ASSUME Usable(channel), NEW l \in Kinds \ crossed' PROVE Settled(l)'
    <3>1. Settled(l)
      BY <1>1, <1>10, <2>1 DEF At
    <3> QED
      BY <1>3, <1>7, <2>1, <3>1
  <2> QED
    BY <1>4, <1>10, <2>1 DEF At, Quiet, Kinds
<1> QED
  BY <1>8, <1>9, <1>10 DEF Stages, Quiet

(* The broker answers.                                                     *)
LEMMA AnswerAt ==
  ASSUME TypeOK, NEW k \in Kinds, Answer(k), NEW s \in Stages, At(s)
  PROVE  At(s)'
<1>1. UNCHANGED <<channel, link, started, consumers, crossed>>
  BY DEF Answer, holder, broker
<1>2. PICK x \in calls[k] :
        /\ calls' = [calls EXCEPT ![k] = @ \ {x}]
        /\ tag' = [tag EXCEPT ![k] = IF x.op = "consume" THEN x.tag ELSE NoTag]
  BY DEF Answer
<1>3. \A l \in Kinds : l # k => (Unasked(l) => Unasked(l)') /\ (Settled(l) => Settled(l)')
  <2>1. \A l \in Kinds : l # k => tag'[l] = tag[l] /\ calls'[l] = calls[l]
    BY <1>2 DEF TypeOK
  <2> QED
    BY <1>1, <2>1, SettledOther
<1>4. ~Unasked(k)
  BY <1>2 DEF Unasked
<1>5. ASSUME Settled(k) PROVE Settled(k)'
  <2>0. tag'[k] = (IF x.op = "consume" THEN x.tag ELSE NoTag) /\ calls'[k] = calls[k] \ {x}
    BY <1>2 DEF TypeOK
  <2>1. PICK t \in Tags :
          \/ /\ calls[k] = {[op |-> "consume", tag |-> t]}
             /\ started[k] /\ tag[k] = NoTag /\ consumers[k] = {t}
          \/ /\ calls[k] = {[op |-> "cancel", tag |-> t]}
             /\ ~started[k] /\ tag[k] = t /\ consumers[k] = {}
    BY <1>2, <1>5 DEF Settled
  <2>2. t # NoTag
    BY BoundsAssumption DEF Tags, NoTag
  <2>3. CASE x = [op |-> "consume", tag |-> t]
    <3>1. calls[k] = {x} /\ started[k] /\ consumers[k] = {t}
      BY <2>1, <2>3, <1>2
    <3> QED
      BY <1>1, <2>0, <2>2, <2>3, <3>1 DEF Settled
  <2>4. CASE x = [op |-> "cancel", tag |-> t]
    <3>1. calls[k] = {x} /\ ~started[k] /\ consumers[k] = {}
      BY <2>1, <2>4, <1>2
    <3> QED
      BY <1>1, <2>0, <2>4, <3>1 DEF Settled
  <2> QED
    BY <1>2, <2>1, <2>3, <2>4
<1>6. \A l \in Kinds : (Unasked(l) => Unasked(l)') /\ (Settled(l) => Settled(l)')
  BY <1>3, <1>4, <1>5
<1>7. Usable(channel)' = Usable(channel)
  BY <1>1 DEF Usable
<1> QED
  BY <1>1, <1>6, <1>7 DEF At, Kinds

(* The channel, or a connection nobody listens to, is lost.                *)
LEMMA LoseAt ==
  ASSUME TypeOK, NEW c \in Conns, NEW s, At(s), Lose(c),
         UNCHANGED <<channel, started, tag>>,
         link' \in {[link EXCEPT ![c] = "half"], [link EXCEPT ![c] = "closed"]}
  PROVE  At(s)'
<1>1. CASE c = channel
  <2>1. ~Usable(channel)'
    BY <1>1 DEF Usable, TypeOK
  <2>2. \A k \in Kinds : Unasked(k) => Unasked(k)'
    BY <1>1 DEF Lose, DropChannel, Unasked
  <2> QED
    BY <2>1, <2>2 DEF At, Kinds
<1>2. CASE c # channel
  <2>1. Usable(channel)' = Usable(channel)
    BY <1>2 DEF Usable, TypeOK
  <2>2. UNCHANGED <<calls, consumers, crossed>>
    BY <1>2 DEF Lose
  <2> QED
    BY <2>1, <2>2 DEF At, Unasked, Settled
<1> QED
  BY <1>1, <1>2

(* A chain moves to another stage, by one assignment.                      *)
LEMMA StageMoves ==
  ASSUME TypeOK, NEW j \in Chains, NEW l, chain' = [chain EXCEPT ![j].stage = l]
  PROVE  /\ chain'[j].stage = l /\ chain'[j].conn = chain[j].conn
         /\ \A i \in Chains : i # j => chain'[i] = chain[i]
<1>1. chain \in [Chains -> ChainType] /\ chain[j] \in ChainType
  BY DEF TypeOK
<1>2. chain'[j] = [chain[j] EXCEPT !.stage = l]
  BY <1>1
<1> QED
  BY <1>1, <1>2 DEF ChainType

LEMMA ChainSet ==
  ASSUME TypeOK, NEW j \in Chains, NEW x, chain' = [chain EXCEPT ![j] = x]
  PROVE  chain'[j] = x /\ \A i \in Chains : i # j => chain'[i] = chain[i]
BY DEF TypeOK

(* Which chain a step of one leaves under way.                             *)
LEMMA BusyMoves ==
  ASSUME NEW j \in Chains, \A i \in Chains : i # j => chain'[i] = chain[i]
  PROVE  Busy' = IF chain'[j].stage = "none" THEN Busy \ {j} ELSE Busy \cup {j}
BY DEF Busy

(* What the steps of a _connect do to its stage and to the consumers.      *)
LEMMA ChainAt ==
  ASSUME TypeOK, NEW j \in Chains, ChainStep(j), At(chain[j].stage), ~GiveUp(j)
  PROVE  /\ \E s \in Stages : chain'[j].stage = s /\ At(s)'
         /\ \A i \in Chains : i # j => chain'[i] = chain[i]
         /\ IF Flush(j) THEN chain'[j].stage = "none" /\ state' = "CONNECTED"
            ELSE chain'[j].stage # "none" /\ state' \in {state, "CONNECTING"}
<1> USE DEF flows, holder, broker, consuming, Stages
<1>0. chain \in [Chains -> ChainType] /\ chain[j] \in ChainType
  BY DEF TypeOK
<1>1. CASE NewConnection(j)
  <2>1. PICK c \in Conns : chain' = [chain EXCEPT ![j].stage = "channel", ![j].conn = c]
    BY <1>1 DEF NewConnection
  <2>2. chain'[j].stage = "channel" /\ \A i \in Chains : i # j => chain'[i] = chain[i]
    BY <1>0, <2>1 DEF ChainType
  <2>3. channel = NoConn /\ \A k \in Kinds : Unasked(k)
    BY <1>1 DEF NewConnection, At, Quiet
  <2>4. channel' = NoConn /\ \A k \in Kinds : Unasked(k)'
    BY <1>1, <2>3 DEF NewConnection, Unasked
  <2>5. At("channel")'
    BY <2>4, AtQuiet DEF Quiet
  <2>6. ~Flush(j) /\ state' = state
    BY <1>1 DEF NewConnection, Flush
  <2> QED
    BY <2>2, <2>5, <2>6
<1>2. CASE CreateChannel(j)
  <2>1. chain'[j].stage = "setup" /\ \A i \in Chains : i # j => chain'[i] = chain[i]
    BY <1>2, StageMoves DEF CreateChannel
  <2>2. \A k \in Kinds : Unasked(k)
    BY <1>2 DEF CreateChannel, At, Quiet
  <2>3. \A k \in Kinds : Unasked(k)'
    BY <1>2, <2>2 DEF CreateChannel, DropChannel, Unasked
  <2>4. At("setup")'
    BY <2>3 DEF At, Quiet, Kinds
  <2>5. ~Flush(j) /\ state' = state
    BY <1>2 DEF CreateChannel, Flush
  <2> QED
    BY <2>1, <2>4, <2>5
<1>3. CASE Setup(j)
  <2>1. /\ chain'[j].stage = Following("setup")
        /\ \A i \in Chains : i # j => chain'[i] = chain[i]
    BY <1>3, StageMoves DEF Setup
  <2>2. \A k \in Kinds : Unasked(k)
    BY <1>3 DEF Setup, At
  <2>3. UNCHANGED <<channel, link, started, tag, calls, consumers, crossed, state>>
    BY <1>3 DEF Setup
  <2>4. \A k \in Kinds : ~started[k] => Settled(k)
    BY <2>2 DEF Unasked, Settled
  <2>5. PICK s \in Stages \ {"none"} : s = Following("setup")
    BY DEF Following
  <2>6. At(s)
    BY <2>2, <2>4, <2>5 DEF At, Following, Quiet, Kinds
  <2>7. At(s)'
    BY <2>3, <2>6, AtUnchanged
  <2>8. ~Flush(j)
    BY <1>3 DEF Setup, Flush
  <2> QED
    BY <2>1, <2>3, <2>5, <2>7, <2>8
<1>4. ASSUME NEW k \in Kinds, DoConsume(j, k)
      PROVE  /\ \E s \in Stages : chain'[j].stage = s /\ At(s)'
             /\ chain'[j].stage # "none" /\ state' = state /\ ~Flush(j)
             /\ \A i \in Chains : i # j => chain'[i] = chain[i]
  <2>1. /\ chain'[j].stage = Following(k)
        /\ \A i \in Chains : i # j => chain'[i] = chain[i]
    BY <1>4, StageMoves DEF DoConsume
  <2>2. Unasked(k) /\ Usable(channel) /\ (started[k] \/ k \in crossed)
    BY <1>4 DEF DoConsume, At, Kinds
  <2>3. UNCHANGED <<channel, link, started, calls, crossed, state>>
    BY <1>4 DEF DoConsume
  <2>4. Fresh(k) # NoTag
    <3>1. Fresh(k) \in Tags
      BY <1>4 DEF DoConsume, Fresh, Unused
    <3> QED
      BY <3>1, BoundsAssumption DEF Tags, NoTag
  <2>5. tag'[k] = Fresh(k) /\ consumers'[k] = {Fresh(k)} /\ calls'[k] = {}
    BY <1>4, <2>2, <2>3 DEF DoConsume, Unasked, TypeOK
  <2>6. k \in crossed' \/ Settled(k)'
    BY <2>2, <2>3, <2>4, <2>5 DEF Settled
  <2>7. \A l \in Kinds : l # k => (Unasked(l) => Unasked(l)') /\ (Settled(l) => Settled(l)')
    <3>1. \A l \in Kinds : l # k => tag'[l] = tag[l] /\ consumers'[l] = consumers[l]
      BY <1>4 DEF DoConsume, TypeOK
    <3> QED
      BY <2>3, <3>1, SettledOther
  <2>8. Usable(channel)'
    BY <2>2, <2>3 DEF Usable
  <2>9. CASE k = "event"
    <3>1. Unasked("tick")'
      BY <1>4, <2>7, <2>9 DEF DoConsume, At, Kinds
    <3>2. CASE started["tick"]
      <4>1. chain'[j].stage = "tick"
        BY <2>1, <2>9, <3>2 DEF Following
      <4>2. At("tick")'
        BY <2>3, <2>6, <2>9, <3>1, <3>2 DEF At, Quiet, Kinds
      <4> QED
        BY <1>4, <2>1, <2>3, <2>9, <4>1, <4>2 DEF DoConsume, Flush
    <3>3. CASE ~started["tick"]
      <4>1. chain'[j].stage = "flush"
        BY <2>1, <2>9, <3>3 DEF Following
      <4>2. Settled("tick")'
        BY <2>3, <3>1, <3>3 DEF Settled, Unasked
      <4>3. At("flush")'
        BY <2>6, <2>9, <4>2 DEF At, Quiet, Kinds
      <4> QED
        BY <1>4, <2>1, <2>3, <2>9, <4>1, <4>3 DEF DoConsume, Flush
    <3> QED
      BY <3>2, <3>3
  <2>10. CASE k = "tick"
    <3>1. chain'[j].stage = "flush"
      BY <2>1, <2>10 DEF Following
    <3>2. "event" \in crossed' \/ Settled("event")'
      <4>1. "event" \in crossed \/ Settled("event")
        BY <1>4, <2>2, <2>10 DEF DoConsume, At
      <4> QED
        BY <2>3, <2>7, <2>10, <4>1 DEF Kinds
    <3>3. At("flush")'
      BY <2>6, <2>10, <3>2 DEF At, Quiet, Kinds
    <3> QED
      BY <1>4, <2>1, <2>3, <2>10, <3>1, <3>3 DEF DoConsume, Flush
  <2> QED
    BY <2>9, <2>10 DEF Kinds
<1>5. CASE Flush(j)
  <2>1. chain'[j].stage = "none" /\ \A i \in Chains : i # j => chain'[i] = chain[i]
    BY <1>5, ChainSet, NoChainType DEF Flush
  <2>2. At("none")
    BY <1>5 DEF Flush, At, Quiet, Kinds
  <2>3. UNCHANGED <<channel, link, started, tag, calls, consumers, crossed>>
        /\ state' = "CONNECTED"
    BY <1>5 DEF Flush
  <2>4. At("none")'
    BY <2>2, <2>3, AtUnchanged
  <2> QED
    BY <1>5, <2>1, <2>3, <2>4
<1>6. CASE ConnectFails(j)
  <2> DEFINE y == [chain[j] EXCEPT !.retry = @ + 1]
  <2>1. chain' = [chain EXCEPT ![j] = Closing(y)] /\ state' = state
    BY <1>6 DEF ConnectFails
  <2>2. Closing(y).stage \in {"closeChannel", "closeConnection"}
    BY <1>0 DEF Closing, ChainType
  <2>3. /\ chain'[j].stage \in {"closeChannel", "closeConnection"}
        /\ \A i \in Chains : i # j => chain'[i] = chain[i]
    BY <2>1, <2>2, ChainSet
  <2>4. channel' = NoConn /\ \A k \in Kinds : Unasked(k)'
    BY <1>6, DoCloseQuiet DEF ConnectFails
  <2>5. \A s \in Quiet : At(s)'
    BY <2>4, AtQuiet
  <2>6. ~Flush(j)
    BY <1>6 DEF ConnectFails, Failing, Flush, Kinds
  <2> QED
    BY <2>1, <2>3, <2>5, <2>6 DEF Quiet
<1>7. ASSUME chain[j].stage \in {"closeChannel", "closeConnection"},
             UNCHANGED <<channel, tag, calls, consumers>>
      PROVE  ~Flush(j) /\ \A s \in Quiet : At(s)'
  <2>1. channel = NoConn /\ \A k \in Kinds : Unasked(k)
    BY <1>7 DEF At, Quiet
  <2>2. channel' = NoConn /\ \A k \in Kinds : Unasked(k)'
    BY <1>7, <2>1 DEF Unasked
  <2> QED
    BY <1>7, <2>2, AtQuiet DEF Flush
<1>8. CASE ChainCloseChannel(j)
  <2>1. /\ chain'[j].stage = "closeConnection"
        /\ \A i \in Chains : i # j => chain'[i] = chain[i]
    BY <1>8, StageMoves DEF ChainCloseChannel
  <2>2. /\ chain[j].stage = "closeChannel" /\ state' = state
        /\ UNCHANGED <<channel, tag, calls, consumers>>
    BY <1>8 DEF ChainCloseChannel, ChannelClosed
  <2> QED
    BY <1>7, <2>1, <2>2 DEF Quiet
<1>9. CASE Retry(j)
  <2>1. /\ chain'[j].stage = "connect"
        /\ \A i \in Chains : i # j => chain'[i] = chain[i]
    <3>1. /\ chain'[j] = Connecting(chain[j].retry)
          /\ \A i \in Chains : i # j => chain'[i] = chain[i]
      BY <1>9, ChainSet DEF Retry
    <3> QED
      BY <3>1 DEF Connecting
  <2>2. /\ chain[j].stage = "closeConnection" /\ state' = "CONNECTING"
        /\ UNCHANGED <<channel, tag, calls, consumers>>
    BY <1>9 DEF Retry, ConnectionClosed
  <2> QED
    BY <1>7, <2>1, <2>2 DEF Quiet
<1> QED
  BY <1>1, <1>2, <1>3, <1>4, <1>5, <1>6, <1>8, <1>9 DEF ChainStep

(* _reconnect starts the one _connect there is.                            *)
LEMMA ReconnectUnderway ==
  ASSUME TypeOK, Busy = {}, Reconnect
  PROVE  Underway'
<1>1. NewChain \in Chains
  BY DEF Reconnect, NewChain, Busy
<1> DEFINE x == Closing(NoChain)
<1>2. x.stage \in {"closeChannel", "closeConnection"}
  BY NoChainType, ClosingChain
<1>3. chain' = [chain EXCEPT ![NewChain] = x]
  BY DEF Reconnect
<1> HIDE DEF x
<1>4. chain'[NewChain] = x /\ \A i \in Chains : i # NewChain => chain'[i] = chain[i]
  BY <1>1, <1>3, ChainSet
<1>5. Busy' = {NewChain}
  BY <1>1, <1>2, <1>4, BusyMoves
<1>6. channel' = NoConn /\ \A k \in Kinds : Unasked(k)'
  BY DoCloseQuiet DEF Reconnect
<1>7. \A s \in Quiet : At(s)'
  BY <1>6, AtQuiet
<1>8. state' = "CONNECTING" /\ x.stage \in Stages \cap Quiet
  BY <1>2 DEF Reconnect, Stages, Quiet
<1> QED
  BY <1>1, <1>4, <1>5, <1>7, <1>8 DEF Underway

(* A step that leaves the one _connect, or none, at its stage.             *)
LEMMA SameStage ==
  ASSUME TypeOK, Connected \/ Underway, UNCHANGED <<state, chain>>,
         \A s \in Stages :
           /\ At(s)
           /\ state = IF s = "none" THEN "CONNECTED" ELSE "CONNECTING"
           /\ s # "none" => \E j \in Chains : chain[j].stage = s
           => At(s)'
  PROVE  Connected' \/ Underway'
<1>1. Busy' = Busy
  BY DEF Busy
<1>2. CASE Connected
  BY <1>1, <1>2 DEF Connected, Stages
<1>3. CASE Underway
  <2>1. PICK j \in Chains, s \in Stages : Busy = {j} /\ chain[j].stage = s /\ At(s)
    BY <1>3 DEF Underway
  <2>2. s # "none"
    BY <2>1 DEF Busy
  <2> QED
    BY <1>1, <1>3, <2>1, <2>2 DEF Underway
<1> QED
  BY <1>2, <1>3

(* Nobody acts while a flush is due.                                       *)
LEMMA IdleNoFlush ==
  ASSUME Idle, NEW j \in Chains
  PROVE  chain[j].stage # "flush"
<1>1. Waits(chain[j])
  BY DEF Idle
<1> QED
  BY <1>1 DEF Waits, Kinds

(* While flows find the holder its consumers are settled, or being settled *)
(* by the one _connect under way.                                          *)
LEMMA SettledStep == IInv /\ SettledInv /\ [Next]_vars => SettledInv'
<1> SUFFICES ASSUME IInv, SettledInv, [Next]_vars, mapped'
             PROVE  Connected' \/ Underway'
    BY DEF SettledInv
<1> USE DEF IInv
<1>1. ASSUME mapped PROVE Connected \/ Underway
  BY <1>1 DEF SettledInv
<1>2. ASSUME mapped, UNCHANGED <<state, chain, channel, link, started, tag, calls, consumers, crossed>>
      PROVE  Connected' \/ Underway'
  <2>1. \A s \in Stages : At(s) => At(s)'
    BY <1>2, AtUnchanged
  <2> QED
    BY <1>1, <1>2, <2>1, SameStage
<1>3. CASE UNCHANGED vars
  BY <1>2, <1>3 DEF vars
<1>4. ASSUME NEW f \in Flows, FlowStep(f) PROVE Connected' \/ Underway'
  <2>0. Idle
    BY <1>4 DEF FlowStep
  <2>1. CASE Prepare(f)
    <3>1. CASE UNCHANGED <<mapped, state, chain>>
      BY <1>2, <2>1, <3>1 DEF Prepare, broker, consuming
    <3>2. CASE /\ \A g \in Flows : flow[g] = "idle"
               /\ state' = "CONNECTING"
               /\ chain' = [chain EXCEPT ![NewChain] = Connecting(0)]
      <4>1. Nothing
        BY <3>2 DEF FreshInv
      <4>2. Busy = {} /\ channel = NoConn /\ \A k \in Kinds : Unasked(k)
        BY <4>1 DEF Nothing
      <4>3. NewChain \in Chains
        BY <4>2, ChainsAssumption DEF NewChain
      <4>4. /\ chain'[NewChain] = Connecting(0)
            /\ \A i \in Chains : i # NewChain => chain'[i] = chain[i]
        BY <3>2, <4>3, ChainSet
      <4>5. chain'[NewChain].stage = "connect"
        BY <4>4 DEF Connecting
      <4>6. Busy' = {NewChain}
        BY <4>2, <4>3, <4>4, <4>5, BusyMoves
      <4>7. channel' = NoConn /\ \A k \in Kinds : Unasked(k)'
        BY <2>1, <4>2 DEF Prepare, consuming, Unasked
      <4>8. At("connect")'
        BY <4>7, AtQuiet DEF Quiet
      <4> QED
        BY <3>2, <4>3, <4>5, <4>6, <4>8 DEF Underway, Stages
    <3> QED
      BY <2>1, <3>1, <3>2 DEF Prepare
  <2>2. CASE CloseUnprepared(f)
    BY <1>2, <2>2 DEF CloseUnprepared, holder, broker, consuming
  <2>3. CASE Leave(f)
    BY <1>2, <2>3 DEF Leave, holder, broker, consuming
  <2>4. CASE CloseLast(f)
    BY <2>4 DEF CloseLast
  <2>5. ASSUME NEW k \in Kinds, Publish(f, k) PROVE Connected' \/ Underway'
    <3>1. mapped
      BY <2>5 DEF Publish, Attached
    <3>2. CASE state = "CONNECTED" /\ Reconnect
      <4>1. Busy = {}
        BY <1>1, <3>1, <3>2 DEF Connected, Underway
      <4> QED
        BY <3>2, <4>1, ReconnectUnderway
    <3>3. CASE UNCHANGED <<holder, listen, chain, tag, calls, consumers, crossed, escaped>>
      BY <1>2, <2>5, <3>1, <3>3 DEF Publish, holder
    <3> QED
      BY <2>5, <3>2, <3>3 DEF Publish
  <2>6. ASSUME NEW k \in Kinds, Consume(f, k) PROVE Connected' \/ Underway'
    <3>1. mapped /\ UNCHANGED <<state, chain>>
      BY <2>6 DEF Consume, Attached, holder
    <3>2. ASSUME NEW s \in Stages, At(s),
                 state = IF s = "none" THEN "CONNECTED" ELSE "CONNECTING",
                 s # "none" => \E j \in Chains : chain[j].stage = s
          PROVE  At(s)'
      <4>1. s \in Stages \ {"flush"}
        BY <2>0, <3>2, IdleNoFlush
      <4> QED
        BY <2>6, <3>2, <4>1, ConsumeAt
    <3> QED
      BY <1>1, <3>1, <3>2, SameStage
  <2>7. ASSUME NEW k \in Kinds, OffConsume(f, k) PROVE Connected' \/ Underway'
    <3>1. mapped /\ UNCHANGED <<state, chain>>
      BY <2>7 DEF OffConsume, Attached, holder
    <3>2. ASSUME NEW s \in Stages, At(s), s # "none" => \E j \in Chains : chain[j].stage = s
          PROVE  At(s)'
      <4>1. s \in Stages \ {"flush"} /\ (s \in Kinds => s # "none")
        BY <2>0, <3>2, IdleNoFlush DEF Kinds
      <4> QED
        BY <2>7, <3>2, <4>1, OffConsumeAt
    <3> QED
      BY <1>1, <3>1, <3>2, SameStage
  <2> QED
    BY <1>4, <2>1, <2>2, <2>3, <2>4, <2>5, <2>6, <2>7 DEF FlowStep
<1>5. ASSUME NEW j \in Chains, ChainStep(j) PROVE Connected' \/ Underway'
  <2>1. CASE GiveUp(j)
    <3>1. ~destroyed
      BY <2>1 DEF GiveUp, MapInv
    <3> QED
      BY <2>1, <3>1 DEF GiveUp
  <2>2. CASE ~GiveUp(j)
    <3>1. mapped
      BY <1>5, <2>2, MovesOn DEF Flush
    <3>2. chain[j].stage # "none"
      BY <1>5 DEF ChainStep, NewConnection, CreateChannel, Setup, DoConsume, Flush,
                  ConnectFails, Failing, ChainCloseChannel, ChannelClosed, Retry, GiveUp,
                  ConnectionClosed, Kinds
    <3>3. state = "CONNECTING" /\ Busy = {j} /\ At(chain[j].stage)
      BY <1>1, <3>1, <3>2 DEF Connected, Underway, Busy
    <3>4. /\ \E s \in Stages : chain'[j].stage = s /\ At(s)'
          /\ \A i \in Chains : i # j => chain'[i] = chain[i]
          /\ IF Flush(j) THEN chain'[j].stage = "none" /\ state' = "CONNECTED"
             ELSE chain'[j].stage # "none" /\ state' \in {state, "CONNECTING"}
      BY <1>5, <2>2, <3>3, ChainAt
    <3>5. Busy' = IF chain'[j].stage = "none" THEN {} ELSE {j}
      BY <3>3, <3>4, BusyMoves
    <3> QED
      BY <3>3, <3>4, <3>5 DEF Connected, Underway
  <2> QED
    BY <2>1, <2>2
<1>6. ~CloserStep
  <2>1. ASSUME CloserStep PROVE FALSE
    <3>1. mapped
      BY <2>1 DEF CloserStep, CloserCancelled, CloserRejected, CloserCloseChannel,
                  CloserDone, flows
    <3>2. closer.stage # "none"
      BY <2>1 DEF CloserStep, CloserCancelled, CloserRejected, CloserCloseChannel,
                  CloserDone, ChannelClosed, ConnectionClosed
    <3> QED
      BY <3>1, <3>2 DEF MapInv
  <2> QED
    BY <2>1
<1>7. ASSUME NEW k \in Kinds, Answer(k) PROVE Connected' \/ Underway'
  <2>1. mapped /\ UNCHANGED <<state, chain>>
    BY <1>7 DEF Answer, flows, holder
  <2>2. \A s \in Stages : At(s) => At(s)'
    BY <1>7, AnswerAt
  <2> QED
    BY <1>1, <2>1, <2>2, SameStage
<1>8. ASSUME NEW c \in Conns, Failure(c) PROVE Connected' \/ Underway'
  <2>1. /\ mapped /\ started' = started
        /\ link' \in {[link EXCEPT ![c] = "half"], [link EXCEPT ![c] = "closed"]}
    BY <1>8 DEF Failure, Break, BreakChannel, flows
  <2>2. CASE state # "CONNECTING" /\ Reconnect
    <3>1. Busy = {}
      BY <1>1, <2>1, <2>2 DEF Connected, Underway
    <3> QED
      BY <2>2, <3>1, ReconnectUnderway
  <2>3. CASE Lose(c) /\ UNCHANGED <<holder, listen, chain, tag, escaped>>
    <3>1. \A s \in Stages : At(s) => At(s)'
      BY <2>1, <2>3, LoseAt DEF holder
    <3> QED
      BY <1>1, <2>1, <2>3, <3>1, SameStage DEF holder
  <2> QED
    BY <1>8, <2>2, <2>3 DEF Failure, Break, BreakChannel
<1> QED
  BY <1>3, <1>4, <1>5, <1>6, <1>7, <1>8 DEF Next

(* A connected holder has one consumer for what is subscribed and none for *)
(* what is not, whatever flows subscribe and unsubscribe and however often *)
(* its channel is made anew (consumeEvent, offConsumeEvent, _connect).     *)
THEOREM ConsumersSettled == Spec => []ConsumersMatch
<1>1. Init => SettledInv
  BY DEF Init, SettledInv
<1>2. IInv /\ SettledInv => ConsumersMatch
  <2> SUFFICES ASSUME SettledInv, state = "CONNECTED", mapped, Usable(channel),
                      NEW k \in Kinds \ crossed, calls[k] = {}
               PROVE  Cardinality(consumers[k]) = IF started[k] THEN 1 ELSE 0
    BY DEF ConsumersMatch
  <2>1. Settled(k)
    BY DEF SettledInv, Connected, Underway, At
  <2>2. \/ ~started[k] /\ consumers[k] = {}
        \/ started[k] /\ consumers[k] = {tag[k]}
    BY <2>1 DEF Settled
  <2> QED
    BY <2>2, FS_EmptySet, FS_Singleton
<1> QED
  BY <1>1, <1>2, SettledStep, Inductive, PTL DEF Spec

------------------------------------------------------------------------------
(* Connections.                                                            *)

(* The holder is destroyed once it is closed; a flow other than idle has   *)
(* it until then.                                                          *)
CloserInv ==
  /\ closer.stage = "done" => destroyed
  /\ closer.stage = "rejected" => escaped
  /\ closer.stage = "none" /\ ~destroyed /\ (\E f \in Flows : flow[f] # "idle") => mapped

(* The clients are the flows that have prepared and not closed.            *)
ClientsInv ==
  /\ ~escaped => clients = {f \in Flows : flow[f] \in {"preparing", "prepared", "unprepared"}}
  /\ mapped => clients # {}

LEMMA CloserInvStep == IInv /\ CloserInv /\ [Next]_vars => CloserInv'
<1> SUFFICES ASSUME IInv, CloserInv, [Next]_vars PROVE CloserInv'
    OBVIOUS
<1>0. flow \in [Flows -> {"idle", "preparing", "prepared", "unprepared", "closing", "closed"}]
  BY DEF IInv, TypeOK
<1>1. ASSUME UNCHANGED <<closer, mapped>>, destroyed => destroyed', escaped => escaped',
             \A f \in Flows : flow[f] = "idle" => flow'[f] = "idle"
      PROVE  CloserInv'
  BY <1>1 DEF CloserInv
<1>2. CASE UNCHANGED vars
  BY <1>1, <1>2 DEF vars
<1>3. ASSUME NEW f \in Flows, FlowStep(f) PROVE CloserInv'
  <2>1. CASE Prepare(f)
    <3>1. mapped' /\ UNCHANGED <<closer, destroyed, escaped>>
      BY <2>1 DEF Prepare
    <3> QED
      BY <3>1 DEF CloserInv
  <2>2. CASE CloseUnprepared(f)
    BY <1>0, <1>1, <2>2 DEF CloseUnprepared, holder
  <2>3. CASE Leave(f)
    BY <1>0, <1>1, <2>3 DEF Leave, holder
  <2>4. CASE CloseLast(f)
    <3>1. closer'.stage \in {"cancel", "closeChannel", "closeConnection"}
      BY <2>4 DEF CloseLast, CloseHolder, Closing, NoCloser
    <3> QED
      BY <3>1 DEF CloserInv
  <2>5. ASSUME NEW k \in Kinds, Publish(f, k) PROVE CloserInv'
    BY <1>1, <2>5 DEF Publish, Reconnect, flows, holder
  <2>6. ASSUME NEW k \in Kinds, Consume(f, k) \/ OffConsume(f, k) PROVE CloserInv'
    BY <1>1, <2>6 DEF Consume, OffConsume, flows, holder
  <2> QED
    BY <1>3, <2>1, <2>2, <2>3, <2>4, <2>5, <2>6 DEF FlowStep
<1>4. ASSUME NEW j \in Chains, ChainStep(j) PROVE CloserInv'
  <2>1. CASE GiveUp(j)
    <3>1. destroyed' /\ UNCHANGED <<closer, escaped>>
      BY <2>1 DEF GiveUp, Destroy
    <3> QED
      BY <3>1 DEF CloserInv
  <2>2. CASE Flush(j)
    BY <1>0, <1>1, <2>2 DEF Flush, Prepared
  <2>3. CASE ~GiveUp(j) /\ ~Flush(j)
    <3>1. UNCHANGED <<flow, escaped>>
      BY <1>4, <2>3 DEF ChainStep, NewConnection, CreateChannel, Setup, DoConsume,
                        ConnectFails, ChainCloseChannel, Retry, flows
    <3> QED
      BY <1>1, <1>4, <2>3, <3>1, MovesOn DEF IInv
  <2> QED
    BY <2>1, <2>2, <2>3
<1>5. CASE CloserStep
  <2>0. closer \in CloserType
    BY DEF IInv, TypeOK
  <2>1. CASE CloserCancelled
    <3>1. closer'.stage \in {"closeChannel", "closeConnection"}
      BY <2>1 DEF CloserCancelled, CloseHolder, Closing, NoCloser
    <3> QED
      BY <3>1 DEF CloserInv
  <2>2. CASE CloserRejected
    BY <2>0, <2>2 DEF CloserRejected, CloserInv, CloserType
  <2>3. CASE CloserCloseChannel
    BY <2>0, <2>3 DEF CloserCloseChannel, CloserInv, CloserType
  <2>4. CASE CloserDone
    BY <2>0, <2>4 DEF CloserDone, Destroy, CloserInv, CloserType
  <2> QED
    BY <1>5, <2>1, <2>2, <2>3, <2>4 DEF CloserStep
<1>6. ASSUME NEW k \in Kinds, Answer(k) PROVE CloserInv'
  BY <1>1, <1>6 DEF Answer, flows, holder
<1>7. ASSUME NEW c \in Conns, Failure(c) PROVE CloserInv'
  BY <1>1, <1>7 DEF Failure, Break, BreakChannel, Reconnect, flows, holder
<1> QED
  BY <1>2, <1>3, <1>4, <1>5, <1>6, <1>7 DEF Next

LEMMA ClientsStep == IInv /\ ClientsInv /\ [Next]_vars => ClientsInv'
<1> SUFFICES ASSUME IInv, ClientsInv, [Next]_vars PROVE ClientsInv'
    OBVIOUS
<1> DEFINE Open(f) == flow[f] \in {"preparing", "prepared", "unprepared"}
<1>0. /\ flow \in [Flows -> {"idle", "preparing", "prepared", "unprepared", "closing", "closed"}]
      /\ clients \subseteq Flows
  BY DEF IInv, TypeOK
<1>1. ASSUME clients' = clients, mapped' => mapped, escaped => escaped',
             \A f \in Flows : Open(f) <=> Open(f)'
      PROVE  ClientsInv'
  BY <1>1 DEF ClientsInv
<1>2. CASE UNCHANGED vars
  BY <1>1, <1>2 DEF vars
<1>3. ASSUME NEW f \in Flows, FlowStep(f) PROVE ClientsInv'
  <2>1. CASE Prepare(f)
    <3>1. /\ clients' = clients \cup {f} /\ escaped' = escaped
          /\ \E to \in {"preparing", "prepared"} : flow' = [flow EXCEPT ![f] = to]
      BY <2>1 DEF Prepare
    <3>2. Open(f)' /\ \A g \in Flows : g # f => flow'[g] = flow[g]
      BY <1>0, <3>1
    <3> QED
      BY <1>0, <3>1, <3>2 DEF ClientsInv
  <2>2. CASE CloseUnprepared(f)
    BY <2>2 DEF CloseUnprepared, ClientsInv
  <2>3. CASE Leave(f)
    <3>1. /\ clients' = clients \ {f} /\ UNCHANGED <<escaped, mapped>>
          /\ flow' = [flow EXCEPT ![f] = "closed"]
      BY <2>3 DEF Leave
    <3>2. ~Open(f)' /\ \A g \in Flows : g # f => flow'[g] = flow[g]
      BY <1>0, <3>1
    <3>3. mapped' => clients' # {}
      BY <2>3, <3>1 DEF Leave, ClientsInv
    <3> QED
      BY <1>0, <3>1, <3>2, <3>3 DEF ClientsInv
  <2>4. CASE CloseLast(f)
    <3>1. /\ clients = {f} /\ clients' = {} /\ ~mapped' /\ escaped' = escaped
          /\ flow' = [flow EXCEPT ![f] = "closing"]
      BY <2>4 DEF CloseLast
    <3>2. ~Open(f)' /\ \A g \in Flows : g # f => flow'[g] = flow[g]
      BY <1>0, <3>1
    <3> QED
      BY <3>1, <3>2 DEF ClientsInv
  <2>5. ASSUME NEW k \in Kinds, Publish(f, k) PROVE ClientsInv'
    BY <1>1, <2>5 DEF Publish, Reconnect, flows
  <2>6. ASSUME NEW k \in Kinds, Consume(f, k) \/ OffConsume(f, k) PROVE ClientsInv'
    BY <1>1, <2>6 DEF Consume, OffConsume, flows
  <2> QED
    BY <1>3, <2>1, <2>2, <2>3, <2>4, <2>5, <2>6 DEF FlowStep
<1>4. ASSUME NEW j \in Chains, ChainStep(j) PROVE ClientsInv'
  <2>1. ASSUME NEW to \in {"prepared", "unprepared"}, flow' = Prepared(to)
        PROVE  \A f \in Flows : Open(f) <=> Open(f)'
    BY <1>0, <2>1 DEF Prepared
  <2>2. CASE GiveUp(j)
    <3>1. clients' = clients /\ (mapped' => mapped) /\ escaped' = escaped
          /\ flow' = Prepared("unprepared")
      BY <2>2 DEF GiveUp
    <3> QED
      BY <1>1, <2>1, <3>1
  <2>3. CASE Flush(j)
    <3>1. clients' = clients /\ mapped' = mapped /\ (escaped => escaped')
          /\ flow' = Prepared("prepared")
      BY <2>3 DEF Flush
    <3> QED
      BY <1>1, <2>1, <3>1
  <2>4. CASE ~GiveUp(j) /\ ~Flush(j)
    <3>1. UNCHANGED <<flow, clients, mapped, escaped>>
      BY <1>4, <2>4 DEF ChainStep, NewConnection, CreateChannel, Setup, DoConsume,
                        ConnectFails, ChainCloseChannel, Retry, flows
    <3> QED
      BY <1>1, <3>1
  <2> QED
    BY <2>2, <2>3, <2>4
<1>5. CASE CloserStep
  <2>1. CASE CloserDone
    <3>1. /\ UNCHANGED <<clients, mapped, escaped>>
          /\ flow' = [f \in Flows |-> IF flow[f] = "closing" THEN "closed" ELSE flow[f]]
      BY <2>1 DEF CloserDone
    <3> QED
      BY <1>0, <1>1, <3>1
  <2>2. CASE ~CloserDone
    BY <1>1, <1>5, <2>2 DEF CloserStep, CloserCancelled, CloserRejected, CloserCloseChannel,
                            flows
  <2> QED
    BY <2>1, <2>2
<1>6. ASSUME NEW k \in Kinds, Answer(k) PROVE ClientsInv'
  BY <1>1, <1>6 DEF Answer, flows
<1>7. ASSUME NEW c \in Conns, Failure(c) PROVE ClientsInv'
  <2>1. UNCHANGED <<flow, clients, mapped>> /\ (escaped => escaped')
    BY <1>7 DEF Failure, Break, BreakChannel, Reconnect, flows
  <2> QED
    BY <1>1, <2>1
<1> QED
  BY <1>2, <1>3, <1>4, <1>5, <1>6, <1>7 DEF Next

ClosingStages == {"closeChannel", "closeConnection"}

(* Who will close a connection, or has it.                                 *)
Owned(c) ==
  \/ connection = c
  \/ \E j \in Chains : chain[j].stage \in ClosingStages /\ chain[j].conn = c
  \/ closer.stage \in ClosingStages /\ closer.conn = c

(* There is one _connect at a time, and it gives the connection up before  *)
(* it closes it or makes another.                                          *)
OneOwner ==
  /\ \A i, j \in Busy : i = j
  /\ \A j \in Chains : chain[j].stage \in ClosingStages \cup {"connect"} => connection = NoConn

(* Every connection that is open has an owner, and that of a holder with   *)
(* no _connect under way is found by a flow or by the closer.              *)
AllOwned ==
  /\ \A c \in Conns : link[c] \in {"open", "half"} => Owned(c)
  /\ Busy = {} /\ connection # NoConn => mapped \/ closer.stage = "cancel"

OwnInv == ~escaped => OneOwner /\ AllOwned

LEMMA OwnUnchanged ==
  ASSUME OwnInv, UNCHANGED <<connection, link, chain, closer, mapped>>, escaped => escaped'
  PROVE  OwnInv'
BY DEF OwnInv, OneOwner, AllOwned, Owned, Busy

(* A _connect that goes on is the only one.                                *)
LEMMA OnlyChain ==
  ASSUME OwnInv, ~escaped, NEW j \in Chains, chain[j].stage # "none",
         \A i \in Chains : i # j => chain'[i] = chain[i]
  PROVE  /\ \A i \in Chains : i # j => chain[i].stage = "none" /\ chain'[i].stage = "none"
         /\ Busy' = IF chain'[j].stage = "none" THEN {} ELSE {j}
         /\ chain[j].stage \in ClosingStages \cup {"connect"} => connection = NoConn
BY DEF OwnInv, OneOwner, Busy

(* The connection changes hands from the holder to a task that closes it.  *)
LEMMA HandOver ==
  ASSUME TypeOK, OwnInv, ~escaped, NEW j \in Chains, NEW x,
         \A i \in Busy : i = j, chain[j].stage \notin ClosingStages,
         x.stage \in ClosingStages, x.conn = connection,
         chain' = [chain EXCEPT ![j] = x], connection' = NoConn, closer' = closer,
         \A c \in Conns : link'[c] \in {"open", "half"} => link[c] \in {"open", "half"}
  PROVE  OwnInv'
<1>1. chain'[j] = x /\ \A i \in Chains : i # j => chain'[i] = chain[i]
  BY ChainSet
<1>2. \A i \in Busy' : i = j
  BY <1>1 DEF Busy
<1>3. OneOwner'
  BY <1>2 DEF OneOwner
<1>4. j \in Busy'
  BY <1>1 DEF Busy, ClosingStages
<1>5. ASSUME NEW c \in Conns, Owned(c) PROVE Owned(c)'
  BY <1>1, <1>5 DEF Owned
<1>6. AllOwned'
  BY <1>4, <1>5 DEF OwnInv, AllOwned
<1> QED
  BY <1>3, <1>6 DEF OwnInv

(* _reconnect, when no other is under way.                                 *)
LEMMA ReconnectOwned ==
  ASSUME TypeOK, OwnInv, Reconnect, closer' = closer,
         \A c \in Conns : link'[c] \in {"open", "half"} => link[c] \in {"open", "half"}
  PROVE  OwnInv'
<1> SUFFICES ASSUME ~escaped, Busy = {} PROVE OwnInv'
    BY DEF Reconnect, OwnInv
<1>1. NewChain \in Chains
  BY DEF Reconnect, NewChain, Busy
<1> DEFINE x == Closing(NoChain)
<1>2. x.stage \in ClosingStages /\ x.conn = connection
  BY DEF Closing, NoChain, ClosingStages
<1>3. chain' = [chain EXCEPT ![NewChain] = x] /\ connection' = NoConn
  BY DEF Reconnect, DoClose
<1> HIDE DEF x
<1>4. chain[NewChain].stage \notin ClosingStages
  BY <1>1 DEF Busy, ClosingStages
<1> QED
  BY <1>1, <1>2, <1>3, <1>4, HandOver

(* AMQPHolder.close.                                                       *)
LEMMA CloseHolderOwned ==
  ASSUME OwnInv, CloseHolder, closer.stage \notin ClosingStages, UNCHANGED <<chain, escaped>>
  PROVE  OwnInv'
<1> SUFFICES ASSUME ~escaped PROVE OneOwner' /\ AllOwned'
    BY DEF OwnInv
<1>1. connection' = NoConn /\ link' = link
  BY DEF CloseHolder, DoClose
<1>2. closer'.stage \in ClosingStages /\ closer'.conn = connection
  BY DEF CloseHolder, Closing, NoCloser, ClosingStages
<1>3. OneOwner'
  BY <1>1 DEF OwnInv, OneOwner, Busy
<1>4. AllOwned'
  BY <1>1, <1>2 DEF OwnInv, AllOwned, Owned
<1> QED
  BY <1>3, <1>4

(* What a _connect does to the connections.                                *)
LEMMA ChainOwned ==
  ASSUME IInv, CloserInv, OwnInv, NEW j \in Chains, ChainStep(j)
  PROVE  OwnInv'
<1> USE DEF IInv, flows, holder, broker
<1> SUFFICES ASSUME ~escaped, ~escaped' PROVE OneOwner' /\ AllOwned'
  <2>1. escaped => escaped'
    BY DEF ChainStep, NewConnection, CreateChannel, Setup, DoConsume, Flush, ConnectFails,
           ChainCloseChannel, Retry, GiveUp
  <2> QED
    BY <2>1 DEF OwnInv
<1>0. chain \in [Chains -> ChainType] /\ chain[j] \in ChainType /\ NoConn \notin Conns
  BY BoundsAssumption DEF TypeOK
<1>1. ASSUME NEW l \in Stages \ (ClosingStages \cup {"none", "connect"}),
             chain[j].stage \notin ClosingStages \cup {"none"},
             chain' = [chain EXCEPT ![j].stage = l],
             UNCHANGED <<connection, link, closer>>
      PROVE  OneOwner' /\ AllOwned'
  <2>1. chain'[j].stage = l /\ \A i \in Chains : i # j => chain'[i] = chain[i]
    BY <1>1, StageMoves
  <2>2. /\ \A i \in Chains : i # j => chain'[i].stage = "none" /\ chain[i].stage = "none"
        /\ Busy' = {j}
    BY <1>1, <2>1, OnlyChain
  <2>3. OneOwner'
    BY <2>1, <2>2 DEF OneOwner, ClosingStages
  <2>4. ASSUME NEW c \in Conns, Owned(c) PROVE Owned(c)'
    BY <1>1, <2>2, <2>4 DEF Owned, ClosingStages
  <2> QED
    BY <1>1, <2>2, <2>3, <2>4 DEF OwnInv, AllOwned
<1>2. CASE NewConnection(j)
  <2>1. PICK c \in Conns :
          /\ link' = [link EXCEPT ![c] = "open"]
          /\ connection' = c
          /\ chain' = [chain EXCEPT ![j].stage = "channel", ![j].conn = c]
    BY <1>2 DEF NewConnection
  <2>2. chain'[j].stage = "channel" /\ \A i \in Chains : i # j => chain'[i] = chain[i]
    BY <1>0, <2>1 DEF ChainType
  <2>3. chain[j].stage = "connect" /\ closer' = closer
    BY <1>2 DEF NewConnection
  <2>4. /\ \A i \in Chains : i # j => chain'[i].stage = "none" /\ chain[i].stage = "none"
        /\ Busy' = {j} /\ connection = NoConn
    BY <2>2, <2>3, OnlyChain
  <2>5. OneOwner'
    BY <2>2, <2>4 DEF OneOwner, ClosingStages
  <2>6. ASSUME NEW d \in Conns, Owned(d) PROVE Owned(d)'
    BY <1>0, <2>3, <2>4, <2>6 DEF Owned, ClosingStages
  <2>7. \A d \in Conns : link'[d] = IF d = c THEN "open" ELSE link[d]
    BY <2>1 DEF TypeOK
  <2>8. Owned(c)'
    BY <2>1 DEF Owned
  <2> QED
    BY <2>4, <2>5, <2>6, <2>7, <2>8 DEF OwnInv, AllOwned
<1>3. CASE CreateChannel(j)
  BY <1>1, <1>3 DEF CreateChannel, Stages, ClosingStages
<1>4. CASE Setup(j)
  <2>1. Following("setup") \in Stages \ (ClosingStages \cup {"none", "connect"})
    BY DEF Following, Stages, ClosingStages
  <2> QED
    BY <1>1, <1>4, <2>1 DEF Setup, ClosingStages
<1>5. ASSUME NEW k \in Kinds, DoConsume(j, k) PROVE OneOwner' /\ AllOwned'
  <2>1. Following(k) \in Stages \ (ClosingStages \cup {"none", "connect"})
    BY DEF Following, Stages, ClosingStages
  <2> QED
    BY <1>1, <1>5, <2>1 DEF DoConsume, ClosingStages, Kinds
<1>6. CASE Flush(j)
  <2>1. chain'[j].stage = "none" /\ \A i \in Chains : i # j => chain'[i] = chain[i]
    BY <1>6, ChainSet, NoChainType DEF Flush
  <2>2. /\ chain[j].stage = "flush" /\ ~destroyed /\ ~Closes
        /\ UNCHANGED <<connection, link, closer, mapped>>
    BY <1>6 DEF Flush, Flushes
  <2>3. \A i \in Chains : i # j => chain'[i].stage = "none" /\ chain[i].stage = "none"
    BY <2>1, <2>2, OnlyChain
  <2>4. mapped
    <3>1. \E f \in Flows : flow[f] # "idle"
      BY <2>2 DEF FreshInv, Nothing, Busy
    <3>2. closer.stage = "none"
      BY <2>2 DEF CloserInv, Closes, TypeOK, CloserType
    <3> QED
      BY <2>2, <3>1, <3>2 DEF CloserInv
  <2>5. OneOwner'
    BY <2>1, <2>3 DEF OneOwner, Busy, ClosingStages
  <2>6. ASSUME NEW c \in Conns, Owned(c) PROVE Owned(c)'
    BY <2>2, <2>3, <2>6 DEF Owned, ClosingStages
  <2> QED
    BY <2>2, <2>4, <2>5, <2>6 DEF OwnInv, AllOwned
<1>7. CASE ConnectFails(j)
  <2> DEFINE x == Closing([chain[j] EXCEPT !.retry = @ + 1])
  <2>1. chain' = [chain EXCEPT ![j] = x] /\ connection' = NoConn /\ UNCHANGED <<link, closer>>
    BY <1>7 DEF ConnectFails, DoClose
  <2>2. x.stage \in ClosingStages /\ x.conn = connection
    BY <1>0 DEF Closing, ChainType, ClosingStages
  <2>3. chain[j].stage \notin ClosingStages \cup {"none"}
    BY <1>7 DEF ConnectFails, Failing, ClosingStages, Kinds
  <2>4. \A i \in Busy : i = j
    BY <2>3 DEF OwnInv, OneOwner, Busy
  <2> HIDE DEF x
  <2> QED
    BY <2>1, <2>2, <2>3, <2>4, HandOver DEF OwnInv
<1>8. CASE ChainCloseChannel(j)
  <2>1. /\ chain'[j].stage = "closeConnection" /\ chain'[j].conn = chain[j].conn
        /\ \A i \in Chains : i # j => chain'[i] = chain[i]
    BY <1>8, StageMoves DEF ChainCloseChannel
  <2>2. chain[j].stage = "closeChannel" /\ UNCHANGED <<connection, closer, mapped>>
    BY <1>8 DEF ChainCloseChannel, ChannelClosed
  <2>3. /\ \A i \in Chains : i # j => chain'[i].stage = "none" /\ chain[i].stage = "none"
        /\ Busy' = {j} /\ connection = NoConn
    BY <2>1, <2>2, OnlyChain DEF ClosingStages
  <2>4. \A c \in Conns : link'[c] \in {"open", "half"} => link[c] \in {"open", "half"}
    BY <1>8 DEF ChainCloseChannel, ChannelClosed, TypeOK
  <2>5. OneOwner'
    BY <2>2, <2>3 DEF OneOwner
  <2>6. ASSUME NEW c \in Conns, Owned(c) PROVE Owned(c)'
    BY <2>1, <2>2, <2>3, <2>6 DEF Owned, ClosingStages
  <2> QED
    BY <2>3, <2>4, <2>5, <2>6 DEF OwnInv, AllOwned
<1>9. ASSUME ConnectionClosed(chain[j]), UNCHANGED <<connection, closer>>,
             \A i \in Chains : i # j => chain'[i] = chain[i],
             chain'[j].stage \in {"none", "connect"}
      PROVE  OneOwner' /\ AllOwned'
  <2>1. chain[j].stage = "closeConnection"
    BY <1>9 DEF ConnectionClosed
  <2>2. /\ \A i \in Chains : i # j => chain'[i].stage = "none" /\ chain[i].stage = "none"
        /\ connection = NoConn
    BY <1>9, <2>1, OnlyChain DEF ClosingStages
  <2>3. OneOwner'
    BY <1>9, <2>2 DEF OneOwner, Busy
  <2>4. ASSUME NEW c \in Conns, link'[c] \in {"open", "half"} PROVE Owned(c)'
    <3>1. link[c] \in {"open", "half"} /\ c # chain[j].conn
      BY <1>0, <1>9, <2>4 DEF ConnectionClosed, TypeOK
    <3>2. Owned(c)
      BY <3>1 DEF OwnInv, AllOwned
    <3> QED
      BY <1>0, <1>9, <2>2, <3>1, <3>2 DEF Owned, ClosingStages
  <2> QED
    BY <1>9, <2>2, <2>3, <2>4 DEF AllOwned
<1>10. CASE Retry(j)
  <2>1. /\ chain'[j] = Connecting(chain[j].retry)
        /\ \A i \in Chains : i # j => chain'[i] = chain[i]
    BY <1>10, ChainSet DEF Retry
  <2>2. chain'[j].stage = "connect"
    BY <2>1 DEF Connecting
  <2> QED
    BY <1>9, <1>10, <2>1, <2>2 DEF Retry
<1>11. CASE GiveUp(j)
  <2>1. chain'[j].stage = "none" /\ \A i \in Chains : i # j => chain'[i] = chain[i]
    BY <1>11, ChainSet, NoChainType DEF GiveUp
  <2> QED
    BY <1>9, <1>11, <2>1 DEF GiveUp
<1> QED
  BY <1>2, <1>3, <1>4, <1>5, <1>6, <1>7, <1>8, <1>10, <1>11 DEF ChainStep

LEMMA OwnStep == IInv /\ CloserInv /\ OwnInv /\ [Next]_vars => OwnInv'
<1> SUFFICES ASSUME IInv, CloserInv, OwnInv, [Next]_vars PROVE OwnInv'
    OBVIOUS
<1> USE DEF IInv, flows, holder, broker
<1>1. CASE UNCHANGED vars
  BY <1>1, OwnUnchanged DEF vars
<1>2. ASSUME NEW f \in Flows, FlowStep(f) PROVE OwnInv'
  <2>1. CASE Prepare(f)
    <3>1. CASE UNCHANGED <<mapped, state, chain>>
      BY <2>1, <3>1, OwnUnchanged DEF Prepare
    <3>2. CASE /\ \A g \in Flows : flow[g] = "idle"
               /\ chain' = [chain EXCEPT ![NewChain] = Connecting(0)]
      <4>1. Nothing
        BY <3>2 DEF FreshInv
      <4>2. connection' = NoConn /\ link' = link
        BY <2>1, <4>1 DEF Prepare, Nothing
      <4>3. NewChain \in Chains
        BY <4>1, ChainsAssumption DEF NewChain, Nothing
      <4>4. \A i \in Chains : i # NewChain => chain'[i] = chain[i]
        BY <3>2, <4>3, ChainSet
      <4>5. \A i \in Busy' : i = NewChain
        BY <4>1, <4>4 DEF Nothing, Busy
      <4> QED
        BY <4>1, <4>2, <4>5 DEF Nothing, OwnInv, OneOwner, AllOwned
    <3> QED
      BY <2>1, <3>1, <3>2 DEF Prepare
  <2>2. CASE CloseUnprepared(f)
    BY <2>2 DEF CloseUnprepared, OwnInv
  <2>3. CASE Leave(f)
    BY <2>3, OwnUnchanged DEF Leave
  <2>4. CASE CloseLast(f)
    <3>1. closer.stage = "none" /\ UNCHANGED <<chain, escaped>>
      BY <2>4 DEF CloseLast, Attached, MapInv
    <3>2. CASE CloseHolder
      BY <3>1, <3>2, CloseHolderOwned DEF ClosingStages
    <3>3. CASE /\ closer' = [NoCloser EXCEPT !.stage = "cancel", !.chan = channel]
               /\ UNCHANGED <<state, connection, channel, broker, tag, calls, crossed>>
      <4>1. closer'.stage = "cancel" /\ UNCHANGED <<connection, link>>
        BY <3>3 DEF NoCloser
      <4> QED
        BY <3>1, <4>1 DEF OwnInv, OneOwner, AllOwned, Owned, Busy, ClosingStages
    <3> QED
      BY <2>4, <3>2, <3>3 DEF CloseLast
  <2>5. ASSUME NEW k \in Kinds, Publish(f, k) PROVE OwnInv'
    <3>1. UNCHANGED <<closer, link, mapped>>
      BY <2>5 DEF Publish
    <3>2. CASE Reconnect
      BY <3>1, <3>2, ReconnectOwned
    <3>3. CASE UNCHANGED <<holder, listen, chain, tag, calls, consumers, crossed, escaped>>
      BY <3>1, <3>3, OwnUnchanged
    <3> QED
      BY <2>5, <3>2, <3>3 DEF Publish
  <2>6. ASSUME NEW k \in Kinds, Consume(f, k) \/ OffConsume(f, k) PROVE OwnInv'
    BY <2>6, OwnUnchanged DEF Consume, OffConsume
  <2> QED
    BY <1>2, <2>1, <2>2, <2>3, <2>4, <2>5, <2>6 DEF FlowStep
<1>3. ASSUME NEW j \in Chains, ChainStep(j) PROVE OwnInv'
  BY <1>3, ChainOwned
<1>4. CASE CloserStep
  <2>0. closer \in CloserType
    BY DEF TypeOK
  <2>1. CASE CloserCancelled
    BY <2>1, CloseHolderOwned DEF CloserCancelled, ClosingStages
  <2>2. CASE CloserRejected
    BY <2>2 DEF CloserRejected, OwnInv
  <2>3. CASE CloserCloseChannel
    <3>1. /\ closer.stage = "closeChannel" /\ UNCHANGED <<connection, chain, mapped, escaped>>
          /\ closer' = [closer EXCEPT !.stage = "closeConnection"]
      BY <2>3 DEF CloserCloseChannel, ChannelClosed
    <3>2. closer'.stage = "closeConnection" /\ closer'.conn = closer.conn
      BY <2>0, <3>1 DEF CloserType
    <3>3. \A c \in Conns : link'[c] \in {"open", "half"} => link[c] \in {"open", "half"}
      BY <2>3 DEF CloserCloseChannel, ChannelClosed, TypeOK
    <3> QED
      BY <3>1, <3>2, <3>3 DEF OwnInv, OneOwner, AllOwned, Owned, Busy, ClosingStages
  <2>4. CASE CloserDone
    <3>1. /\ closer.stage = "closeConnection" /\ UNCHANGED <<connection, chain, mapped, escaped>>
          /\ link' = IF closer.conn = NoConn THEN link
                     ELSE [link EXCEPT ![closer.conn] = "closed"]
      BY <2>4 DEF CloserDone, ConnectionClosed
    <3>2. \A c \in Conns : link'[c] \in {"open", "half"} =>
                             link[c] \in {"open", "half"} /\ closer.conn # c
      BY <3>1, BoundsAssumption DEF TypeOK
    <3>3. ASSUME NEW c \in Conns, closer.conn # c, Owned(c) PROVE Owned(c)'
      BY <3>1, <3>3 DEF Owned
    <3> QED
      BY <3>1, <3>2, <3>3 DEF OwnInv, OneOwner, AllOwned, Busy
  <2> QED
    BY <1>4, <2>1, <2>2, <2>3, <2>4 DEF CloserStep
<1>5. ASSUME NEW k \in Kinds, Answer(k) PROVE OwnInv'
  BY <1>5, OwnUnchanged DEF Answer
<1>6. ASSUME NEW c \in Conns, Failure(c) PROVE OwnInv'
  <2>1. /\ UNCHANGED <<closer, mapped>>
        /\ \A d \in Conns : link'[d] \in {"open", "half"} => link[d] \in {"open", "half"}
    BY <1>6 DEF Failure, Break, BreakChannel, TypeOK
  <2>2. CASE Reconnect
    BY <2>1, <2>2, ReconnectOwned
  <2>3. CASE UNCHANGED <<holder, chain, escaped>>
    BY <2>1, <2>3 DEF OwnInv, OneOwner, AllOwned, Owned, Busy
  <2> QED
    BY <1>6, <2>2, <2>3 DEF Failure, Break, BreakChannel
<1> QED
  BY <1>1, <1>2, <1>3, <1>4, <1>5, <1>6 DEF Next

(* When all flows have closed and nothing is under way, no connection to   *)
(* the broker is left open, however many were made and lost on the way     *)
(* (PlaylogHandler.close, _reconnect, _doClose).                           *)
THEOREM LastCloseLeavesNothing == Spec => []LastCloseReleases
<1> DEFINE Inv == IInv /\ CloserInv /\ ClientsInv /\ OwnInv
<1>1. Init => CloserInv /\ ClientsInv /\ OwnInv
  <2> SUFFICES ASSUME Init PROVE CloserInv /\ ClientsInv /\ OwnInv
      OBVIOUS
  <2>1. \A j \in Chains : chain[j].stage = "none"
    BY NoChainType DEF Init
  <2>2. closer.stage = "none"
    BY DEF Init, NoCloser
  <2> QED
    BY <2>1, <2>2 DEF Init, CloserInv, ClientsInv, OwnInv, OneOwner, AllOwned, Busy,
                      ClosingStages
<1>2. Inv /\ [Next]_vars => (CloserInv /\ ClientsInv /\ OwnInv)'
  BY CloserInvStep, ClientsStep, OwnStep
<1>3. Inv => LastCloseReleases
  <2> SUFFICES ASSUME Inv, \A f \in Flows : flow[f] \in {"idle", "closed"}, Busy = {},
                      ~Closes, ~escaped, NEW c \in Conns, link[c] \in {"open", "half"}
               PROVE  FALSE
    BY DEF LastCloseReleases, IInv, TypeOK
  <2>1. ~mapped
    BY DEF ClientsInv
  <2>2. connection = NoConn
    BY <2>1 DEF OwnInv, AllOwned, Closes
  <2>3. Owned(c)
    BY DEF OwnInv, AllOwned
  <2> QED
    BY <2>2, <2>3, BoundsAssumption DEF Owned, Closes, ClosingStages, Busy
<1> QED
  BY <1>1, <1>2, <1>3, Inductive, PTL DEF Spec
==============================================================================
