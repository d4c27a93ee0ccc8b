----------------------------- MODULE StoreWorker ------------------------------
(***************************************************************************)
(* The way of a tick from the exchange of a running play to the playlog    *)
(* store: AMQPPlaylogPublisher and PlaylogFixture as a system API server   *)
(* runs them, the store queue in RabbitMQ, the write status in MySQL, and  *)
(* the store workers (PlaylogQueueConsumer on AMQPPlaylogStoreQueue).      *)
(* One step is one round trip to RabbitMQ, MySQL or the store.             *)
(*                                                                         *)
(* One play.  The queues of its ticks and of its start points are created, *)
(* consumed and deleted side by side; the model has the tick queue.        *)
(***************************************************************************)
EXTENDS Naturals, FiniteSets

CONSTANTS
  Workers,       \* store workers
  MaxTicks,      \* bound: ticks published in a behaviour
  NoTick,        \* the worker stores nothing
  AllowResume,   \* a stopped play may be started again
  AllowExit      \* workers may crash, or exit after an error

Ticks == 1 .. MaxTicks

ASSUME MaxTicksAssumption == MaxTicks \in Nat
ASSUME NoTickAssumption == NoTick \notin Ticks
ASSUME AllowAssumption == AllowResume \in BOOLEAN /\ AllowExit \in BOOLEAN

VARIABLES
  exchange,       \* the play's exchange exists
  queue,          \* the play's store queue exists
  bound,          \* it is bound to the exchange
  ready,          \* messages waiting in it
  unacked,        \* messages delivered from it and not acked
  consumers,      \* workers consuming it
  status,         \* writeStatus of the play, "none" without a row
  running,        \* the play's state is running
  api,            \* progress of the API server's call
  published,      \* ticks published
  routed,         \* ticks that reached the queue
  original,       \* ticks stored under the play id
  excluded,       \* ticks stored without ignorable events
  pc,             \* where a worker's onUpdate is
  seen,           \* status of the play in its list of writing plays
  subscribed,     \* PlaylogQueueConsumer.subscriptions has the play
  changeClosingAt,\* "null", "recent", or "expired" after expireTime
  mapped,         \* AMQPPlaylogStoreQueue.subscriptionMap has the play
  handling,       \* tick a worker is storing
  stage           \* how far it is

broker == <<exchange, queue, bound, ready, unacked, consumers>>
play == <<status, running, api, published>>
store == <<original, excluded>>
loop == <<pc, seen, subscribed, changeClosingAt, mapped>>
delivery == <<handling, stage>>
vars == <<exchange, queue, bound, ready, unacked, consumers, status, running,
          api, published, routed, original, excluded, pc, seen, subscribed,
          changeClosingAt, mapped, handling, stage>>

(* Mutant: plays that run are not asked for. *)
WritingClosingOnly == {"closing"}

(* What getWritingPlays selects.                                           *)
Writing == {"playing", "closing"}

Init ==
  /\ exchange = FALSE
  /\ queue = FALSE
  /\ bound = FALSE
  /\ ready = {}
  /\ unacked = {}
  /\ consumers = {}
  /\ status = "none"
  /\ running = FALSE
  /\ api = "idle"
  /\ published = 0
  /\ routed = {}
  /\ original = {}
  /\ excluded = {}
  /\ pc = [w \in Workers |-> "idle"]
  /\ seen = [w \in Workers |-> "none"]
  /\ subscribed = [w \in Workers |-> FALSE]
  /\ changeClosingAt = [w \in Workers |-> "null"]
  /\ mapped = [w \in Workers |-> FALSE]
  /\ handling = [w \in Workers |-> NoTick]
  /\ stage = [w \in Workers |-> "none"]

------------------------------------------------------------------------------
(* PlayManager._startPlay: preparePublishPlaylog, then state running.      *)

(* Calls for one play are serialised by the lock on its row.  assertExchange. *)
StartPlay ==
  /\ api = "idle"
  /\ ~running
  /\ status = "none" \/ AllowResume
  /\ exchange' = TRUE
  /\ api' = "assertQueue"
  /\ UNCHANGED <<queue, bound, ready, unacked, consumers, status, running,
                 published, routed, store, loop, delivery>>

(* prepareStoreQueue: assertQueue creates a missing queue, without any     *)
(* binding, and leaves an existing one alone.                              *)
PrepareStoreQueue ==
  /\ api = "assertQueue"
  /\ queue' = TRUE
  /\ api' = "bindQueue"
  /\ UNCHANGED <<exchange, bound, ready, unacked, consumers, status, running,
                 published, routed, store, loop, delivery>>

(* bindQueue, which fails if a worker has deleted the queue: the play is   *)
(* then not started.                                                       *)
BindQueue ==
  /\ api = "bindQueue"
  /\ IF queue
     THEN bound' = TRUE /\ api' = "setPlaying"
     ELSE bound' = bound /\ api' = "idle"
  /\ UNCHANGED <<exchange, queue, ready, unacked, consumers, status, running,
                 published, routed, store, loop, delivery>>

SetPlaying ==
  /\ api = "setPlaying"
  /\ status' = "playing"
  /\ running' = TRUE
  /\ api' = "idle"
  /\ UNCHANGED <<broker, published, routed, store, loop, delivery>>

(* PlayManager._stopPlay: cleanupPublishPlaylog, whose first step deletes  *)
(* the exchange and with it the binding.                                   *)
StopPlay ==
  /\ api = "idle"
  /\ running
  /\ exchange' = FALSE
  /\ bound' = FALSE
  /\ api' = "setClosing"
  /\ UNCHANGED <<queue, ready, unacked, consumers, status, running, published,
                 routed, store, loop, delivery>>

SetClosing ==
  /\ api = "setClosing"
  /\ status' = "closing"
  /\ running' = FALSE
  /\ api' = "idle"
  /\ UNCHANGED <<broker, published, routed, store, loop, delivery>>

(* A step of preparePublishPlaylog fails: the play is not started, and     *)
(* what was created stays.                                                 *)
PrepareFails ==
  /\ api \in {"assertQueue", "bindQueue", "setPlaying"}
  /\ api' = "idle"
  /\ UNCHANGED <<broker, status, running, published, routed, store, loop, delivery>>

(* A step of cleanupPublishPlaylog fails.  The error is only logged: the   *)
(* play is suspended, with its status left as it was.                      *)
CleanupFails ==
  /\ running
  /\ api \in {"idle", "setClosing"}
  /\ running' = FALSE
  /\ api' = "idle"
  /\ UNCHANGED <<broker, status, published, routed, store, loop, delivery>>

(* publishTick of a running play.  The exchange drops what no queue takes. *)
PublishTick ==
  /\ running
  /\ exchange
  /\ published < MaxTicks
  /\ published' = published + 1
  /\ IF bound
     THEN /\ ready' = ready \cup {published + 1}
          /\ routed' = routed \cup {published + 1}
     ELSE UNCHANGED <<ready, routed>>
  /\ UNCHANGED <<exchange, queue, bound, unacked, consumers, status, running,
                 api, store, loop, delivery>>

------------------------------------------------------------------------------
(* PlaylogQueueConsumer.onUpdate, one pass a second.                       *)

Goto(w, label) == pc' = [pc EXCEPT ![w] = label]

(* getWritingPlays.                                                        *)
GetWritingPlays(w) ==
  /\ pc[w] = "idle"
  /\ seen' = [seen EXCEPT ![w] = status]
  /\ Goto(w, IF status \in Writing
             THEN IF subscribed[w] THEN "mark" ELSE "subscribe"
             ELSE "sweep")
  /\ UNCHANGED <<broker, play, routed, store, subscribed, changeClosingAt,
                 mapped, delivery>>

(* assertSubscription, subscribe: the queue is asserted first.             *)
SubscribeAssert(w) ==
  /\ pc[w] = "subscribe"
  /\ queue' = TRUE
  /\ Goto(w, "consume")
  /\ UNCHANGED <<exchange, bound, ready, unacked, consumers, play, routed,
                 store, seen, subscribed, changeClosingAt, mapped,
                 delivery>>

(* The worker process is gone: its deliveries return to the queue, if the  *)
(* queue still has them, and a new process starts from nothing.            *)
Gone(w) ==
  /\ ready' = ready \cup (unacked \cap {handling[w]})
  /\ unacked' = unacked \ {handling[w]}
  /\ consumers' = consumers \ {w}
  /\ handling' = [handling EXCEPT ![w] = NoTick]
  /\ stage' = [stage EXCEPT ![w] = "none"]
  /\ Goto(w, "idle")
  /\ seen' = [seen EXCEPT ![w] = "none"]
  /\ subscribed' = [subscribed EXCEPT ![w] = FALSE]
  /\ changeClosingAt' = [changeClosingAt EXCEPT ![w] = "null"]
  /\ mapped' = [mapped EXCEPT ![w] = FALSE]

(* channel.consume; without a queue it throws, which ends in the worker's  *)
(* error handler and so in process.exit.                                   *)
SubscribeConsume(w) ==
  /\ pc[w] = "consume"
  /\ IF queue
     THEN /\ consumers' = consumers \cup {w}
          /\ mapped' = [mapped EXCEPT ![w] = TRUE]
          /\ subscribed' = [subscribed EXCEPT ![w] = TRUE]
          /\ changeClosingAt' = [changeClosingAt EXCEPT ![w] = "null"]
          /\ Goto(w, "mark")
          /\ UNCHANGED <<ready, unacked, seen, delivery>>
     ELSE Gone(w)
  /\ UNCHANGED <<exchange, queue, bound, play, routed, store>>

(* Mutant: the status is kept instead of the time. *)
MarkClosingStatus(w) ==
  /\ pc[w] = "mark"
  /\ changeClosingAt' = [changeClosingAt EXCEPT ![w] = seen[w]]
  /\ Goto(w, "sweep")
  /\ UNCHANGED <<broker, play, routed, store, seen, subscribed, mapped, delivery>>

(* The first time a play is seen closing is remembered.                    *)
MarkClosing(w) ==
  /\ pc[w] = "mark"
  /\ changeClosingAt' =
       IF seen[w] = "closing" /\ changeClosingAt[w] = "null"
       THEN [changeClosingAt EXCEPT ![w] = "recent"]
       ELSE changeClosingAt
  /\ Goto(w, "sweep")
  /\ UNCHANGED <<broker, play, routed, store, seen, subscribed, mapped, delivery>>

(* expireTime passes, between two passes of onUpdate.                      *)
Expire(w) ==
  /\ pc[w] = "idle"
  /\ changeClosingAt[w] = "recent"
  /\ changeClosingAt' = [changeClosingAt EXCEPT ![w] = "expired"]
  /\ UNCHANGED <<broker, play, routed, store, pc, seen, subscribed, mapped, delivery>>

(* Mutant: plays that run are swept too. *)
DeletingPlaying(w) ==
  /\ subscribed[w]
  /\ seen[w] # "closing" \/ changeClosingAt[w] = "expired"

(* Subscriptions to end: plays no longer writing, and expired ones.        *)
Deleting(w) ==
  /\ subscribed[w]
  /\ seen[w] \notin Writing \/ changeClosingAt[w] = "expired"

Sweep(w) ==
  /\ pc[w] = "sweep"
  /\ Goto(w, IF Deleting(w) THEN "hasMessage" ELSE "idle")
  /\ UNCHANGED <<broker, play, routed, store, seen, subscribed,
                 changeClosingAt, mapped, delivery>>

------------------------------------------------------------------------------
(* unsubscribeAndDelete.                                                   *)

(* Mutant: a queue with messages in it is not kept. *)
HasMessageIgnored(w) ==
  /\ pc[w] = "hasMessage"
  /\ Goto(w, "unsubscribe")
  /\ UNCHANGED <<broker, play, routed, store, seen, subscribed,
                 changeClosingAt, mapped, delivery>>

(* hasMessage counts the messages that wait, not the ones being stored.    *)
(* Without a queue checkQueue throws and the channel closes.  null counts  *)
(* as no message, so unsubscribe goes on to cancel, at once and on the     *)
(* closed channel, which AmqpChannelHolder replaces only in a timer: it    *)
(* throws, and the error handler of the worker exits.                      *)
HasMessage(w) ==
  /\ pc[w] = "hasMessage"
  /\ IF queue
     THEN /\ Goto(w, IF ready # {} THEN "idle" ELSE "unsubscribe")
          /\ UNCHANGED <<ready, unacked, consumers, seen, subscribed,
                         changeClosingAt, mapped, delivery>>
     ELSE Gone(w)
  /\ UNCHANGED <<exchange, queue, bound, play, routed, store>>

Unsubscribe(w) ==
  /\ pc[w] = "unsubscribe"
  /\ consumers' = IF mapped[w] THEN consumers \ {w} ELSE consumers
  /\ mapped' = [mapped EXCEPT ![w] = FALSE]
  /\ Goto(w, "deleteAssert")
  /\ UNCHANGED <<exchange, queue, bound, ready, unacked, play, routed, store,
                 seen, subscribed, changeClosingAt, delivery>>

(* deleteQueue asserts the queue to learn its number of consumers ...      *)
DeleteAssert(w) ==
  /\ pc[w] = "deleteAssert"
  /\ queue' = TRUE
  /\ Goto(w, IF consumers = {} THEN "delete" ELSE "setClosed")
  /\ UNCHANGED <<exchange, bound, ready, unacked, consumers, play, routed,
                 store, seen, subscribed, changeClosingAt, mapped,
                 delivery>>

(* ... and deletes it by a second request, with all that is in it.         *)
DeleteQueue(w) ==
  /\ pc[w] = "delete"
  /\ queue' = FALSE
  /\ bound' = FALSE
  /\ ready' = {}
  /\ unacked' = {}
  /\ consumers' = {}
  /\ Goto(w, "setClosed")
  /\ UNCHANGED <<exchange, play, routed, store, seen, subscribed,
                 changeClosingAt, mapped, delivery>>

(* Mutant: the status is left alone. *)
SetClosedForgotten(w) ==
  /\ pc[w] = "setClosed"
  /\ subscribed' = [subscribed EXCEPT ![w] = FALSE]
  /\ changeClosingAt' = [changeClosingAt EXCEPT ![w] = "null"]
  /\ Goto(w, "idle")
  /\ UNCHANGED <<broker, play, routed, store, seen, mapped, delivery>>

SetClosed(w) ==
  /\ pc[w] = "setClosed"
  /\ subscribed' = [subscribed EXCEPT ![w] = FALSE]
  /\ changeClosingAt' = [changeClosingAt EXCEPT ![w] = "null"]
  /\ status' = "closed"
  /\ Goto(w, "idle")
  /\ UNCHANGED <<broker, running, api, published, routed, store, seen, mapped, delivery>>

------------------------------------------------------------------------------
(* onTickMessage and storeTick.                                            *)

(* prefetch(1): a consumer is sent the next message after its ack.         *)
Deliver(w) ==
  /\ w \in consumers
  /\ handling[w] = NoTick
  /\ \E t \in ready :
       /\ ready' = ready \ {t}
       /\ unacked' = unacked \cup {t}
       /\ handling' = [handling EXCEPT ![w] = t]
  /\ stage' = [stage EXCEPT ![w] = "original"]
  /\ UNCHANGED <<exchange, queue, bound, consumers, play, routed, store, loop>>

(* Mutant: the tick without ignorable events is not put. *)
StoreOriginalOnly(w) ==
  /\ stage[w] = "original"
  /\ original' = original \cup {handling[w]}
  /\ stage' = [stage EXCEPT ![w] = "ack"]
  /\ UNCHANGED <<broker, play, routed, excluded, loop, handling>>

(* storeTickInner, for the whole tick.  A tick that is there already is    *)
(* compared and left alone.                                                *)
StoreOriginal(w) ==
  /\ stage[w] = "original"
  /\ original' = original \cup {handling[w]}
  /\ stage' = [stage EXCEPT ![w] = "excluded"]
  /\ UNCHANGED <<broker, play, routed, excluded, loop, handling>>

(* storeTickInner, for the tick without ignorable events.                  *)
StoreExcluded(w) ==
  /\ stage[w] = "excluded"
  /\ excluded' = excluded \cup {handling[w]}
  /\ stage' = [stage EXCEPT ![w] = "ack"]
  /\ UNCHANGED <<broker, play, routed, original, loop, handling>>

(* Mutant: the message is acked when it arrives. *)
AckEarly(w) ==
  /\ stage[w] # "none"
  /\ unacked' = unacked \ {handling[w]}
  /\ IF stage[w] = "ack"
     THEN /\ handling' = [handling EXCEPT ![w] = NoTick]
          /\ stage' = [stage EXCEPT ![w] = "none"]
     ELSE UNCHANGED delivery
  /\ UNCHANGED <<exchange, queue, bound, ready, consumers, play, routed, store, loop>>

Ack(w) ==
  /\ stage[w] = "ack"
  /\ unacked' = unacked \ {handling[w]}
  /\ handling' = [handling EXCEPT ![w] = NoTick]
  /\ stage' = [stage EXCEPT ![w] = "none"]
  /\ UNCHANGED <<exchange, queue, bound, ready, consumers, play, routed, store, loop>>

(* A crash, a failed put or any other error event: process.exit.           *)
Exit(w) ==
  /\ AllowExit
  /\ Gone(w)
  /\ UNCHANGED <<exchange, queue, bound, play, routed, store>>

OnUpdate(w) ==
  \/ GetWritingPlays(w)
  \/ SubscribeAssert(w)
  \/ SubscribeConsume(w)
  \/ MarkClosing(w)
  \/ Sweep(w)
  \/ HasMessage(w)
  \/ Unsubscribe(w)
  \/ DeleteAssert(w)
  \/ DeleteQueue(w)
  \/ SetClosed(w)

OnTickMessage(w) == StoreOriginal(w) \/ StoreExcluded(w) \/ Ack(w)

ApiStep == PrepareStoreQueue \/ BindQueue \/ SetPlaying \/ SetClosing

WorkerStep(w) ==
  OnUpdate(w) \/ Expire(w) \/ Deliver(w) \/ OnTickMessage(w) \/ Exit(w)

Next ==
  \/ StartPlay
  \/ StopPlay
  \/ ApiStep
  \/ PrepareFails
  \/ CleanupFails
  \/ PublishTick
  \/ \E w \in Workers : WorkerStep(w)

Spec == Init /\ [][Next]_vars

(* Workers poll, RabbitMQ delivers, puts and acks go through.  Time passes *)
(* whatever the worker does, and it pauses between any two passes.         *)
FairSpec ==
  /\ Spec
  /\ WF_vars(ApiStep)
  /\ \A w \in Workers :
       /\ WF_vars(OnUpdate(w))
       /\ SF_vars(Expire(w))
       /\ WF_vars(Deliver(w))
       /\ WF_vars(OnTickMessage(w))

------------------------------------------------------------------------------
(* Type invariant of the broker, the status and the workers.               *)
TypeOK ==
  /\ exchange \in BOOLEAN
  /\ queue \in BOOLEAN
  /\ bound \in BOOLEAN
  /\ running \in BOOLEAN
  /\ ready \subseteq Ticks
  /\ unacked \subseteq Ticks
  /\ consumers \subseteq Workers
  /\ status \in {"none", "playing", "closing", "closed"}
  /\ api \in {"idle", "assertQueue", "bindQueue", "setPlaying", "setClosing"}
  /\ published \in 0 .. MaxTicks
  /\ routed \subseteq Ticks
  /\ original \subseteq Ticks
  /\ excluded \subseteq Ticks
  /\ pc \in [Workers -> {"idle", "subscribe", "consume", "mark", "sweep", "hasMessage",
                         "unsubscribe", "deleteAssert", "delete", "setClosed"}]
  /\ seen \in [Workers -> {"none", "playing", "closing", "closed"}]
  /\ subscribed \in [Workers -> BOOLEAN]
  /\ mapped \in [Workers -> BOOLEAN]
  /\ changeClosingAt \in [Workers -> {"null", "recent", "expired"}]
  /\ handling \in [Workers -> Ticks \cup {NoTick}]
  /\ stage \in [Workers -> {"none", "original", "excluded", "ack"}]

(* The write status means what IPlaylogQueueStatusDatabase says: a play    *)
(* that is running is "playing", and its queue takes its ticks; no worker  *)
(* has closed it underneath.                                               *)
StatusTruthful == running /\ api = "idle" => status = "playing" /\ queue /\ bound

(* At least once: as long as the queue of a play has not been deleted, a   *)
(* tick that reached it is in it, or stored in both versions, wherever     *)
(* workers have exited between a put, the other put and the ack.           *)
StoredOrQueued ==
  status \in {"none", "playing"} =>
    routed \subseteq (original \cap excluded) \cup ready \cup unacked

(* Every tick that reached the queue is in it, in the hands of a worker,   *)
(* or stored in both versions, also when the play is closing and its queue *)
(* is deleted (hasMessage does not count the ticks that are being stored). *)
TickInHand ==
  routed \subseteq (original \cap excluded) \cup ready \cup {handling[w] : w \in Workers}

(* unsubscribeAndDelete does nothing while messages remain: a queue is     *)
(* never deleted with undelivered ticks in it.                             *)
UndeliveredKept == [][queue /\ ~queue' => ready = {}]_vars

(* Plays that are no longer playing are unsubscribed (onUpdate): a pass    *)
(* that has read the play as playing does not end its subscription.        *)
PlayingKept ==
  \A w \in Workers :
    pc[w] \in {"unsubscribe", "deleteAssert", "delete", "setClosed"} => seen[w] # "playing"

(* Every tick that reaches the queue is stored in the end.                 *)
TickStored == \A t \in Ticks : t \in routed ~> t \in original \cap excluded

(* A play that was stopped for good is closed in the end, and its queue is *)
(* gone, although every worker creates it again to look at it.             *)
ClosedInTheEnd == status = "closing" ~> [](status = "closed" /\ ~queue)
==============================================================================
