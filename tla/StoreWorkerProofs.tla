-------------------------- MODULE StoreWorkerProofs ---------------------------
(***************************************************************************)
(* Proofs about StoreWorker for any number of workers and ticks, for plays *)
(* that are started once: no worker closes or unsubscribes a play that     *)
(* runs, no tick that reached its queue is lost, and, if no worker exits,  *)
(* none is lost when the queue is deleted either.                          *)
(***************************************************************************)
EXTENDS StoreWorker, TLAPS

Ending == {"hasMessage", "unsubscribe", "deleteAssert", "delete", "setClosed"}
Open == {"none", "playing"}

(* Steps of the API server.                                                *)
ApiInv ==
  /\ api \in {"assertQueue", "bindQueue", "setPlaying"} => status = "none" /\ ~running
  /\ api = "setClosing" => running
  /\ api = "setPlaying" => queue /\ bound
  /\ bound => queue
  /\ running => status = "playing"
  /\ running /\ api = "idle" => queue /\ bound

(* What a worker believes about the play is no more advanced than the play. *)
BeliefInv ==
  \A w \in Workers :
    /\ seen[w] \in {"closing", "closed"} => status \notin Open
    /\ changeClosingAt[w] # "null" => status \notin Open
    /\ subscribed[w] => status # "none"
    /\ pc[w] \in {"subscribe", "consume", "mark"} => seen[w] \in Writing /\ status # "none"
    /\ pc[w] = "sweep" /\ subscribed[w] => seen[w] # "none"
    /\ pc[w] \in Ending => status \notin Open

(* How far the ticks being stored are.                                     *)
StageInv ==
  \A w \in Workers :
    /\ stage[w] # "none" => handling[w] \in Ticks
    /\ stage[w] = "excluded" => handling[w] \in original
    /\ stage[w] = "ack" => handling[w] \in original \cap excluded

IInv == TypeOK /\ ApiInv /\ BeliefInv /\ StageInv /\ StoredOrQueued

USE DEF Ticks

(* The type invariant.                                                     *)
LEMMA TypeStep == TypeOK /\ StageInv /\ [Next]_vars => TypeOK'
<1> SUFFICES ASSUME TypeOK, StageInv, [Next]_vars PROVE TypeOK'
    OBVIOUS
<1> USE MaxTicksAssumption, NoTickAssumption DEF TypeOK
<1>1. CASE UNCHANGED vars
  BY <1>1 DEF vars
<1>2. CASE StartPlay \/ StopPlay \/ ApiStep \/ PrepareFails \/ CleanupFails
  <2> USE DEF broker, store, loop, delivery
  <2>1. CASE StartPlay
    BY <2>1 DEF StartPlay
  <2>2. CASE StopPlay
    BY <2>2 DEF StopPlay
  <2>3. CASE PrepareStoreQueue
    BY <2>3 DEF PrepareStoreQueue
  <2>4. CASE BindQueue
    BY <2>4 DEF BindQueue
  <2>5. CASE SetPlaying
    BY <2>5 DEF SetPlaying
  <2>6. CASE SetClosing
    BY <2>6 DEF SetClosing
  <2>7. CASE PrepareFails
    BY <2>7 DEF PrepareFails
  <2>8. CASE CleanupFails
    BY <2>8 DEF CleanupFails
  <2> QED
    BY <1>2, <2>1, <2>2, <2>3, <2>4, <2>5, <2>6, <2>7, <2>8 DEF ApiStep
<1>3. CASE PublishTick
  <2>1. published + 1 \in Ticks /\ published' \in 0 .. MaxTicks
    BY <1>3 DEF PublishTick
  <2>2. ready' \subseteq Ticks /\ routed' \subseteq Ticks
    BY <1>3, <2>1 DEF PublishTick
  <2> QED
    BY <1>3, <2>1, <2>2 DEF PublishTick, store, loop, delivery
<1>4. ASSUME NEW w \in Workers, WorkerStep(w) PROVE TypeOK'
  <2> USE DEF broker, play, store, delivery, Goto
  <2>1. CASE GetWritingPlays(w)
    BY <2>1 DEF GetWritingPlays
  <2>2. CASE SubscribeAssert(w)
    BY <2>2 DEF SubscribeAssert
  <2>3. ASSUME Gone(w) PROVE /\ ready' \subseteq Ticks /\ unacked' \subseteq Ticks
                             /\ consumers' \subseteq Workers
                             /\ handling' \in [Workers -> Ticks \cup {NoTick}]
                             /\ stage' \in [Workers -> {"none", "original", "excluded", "ack"}]
                             /\ pc' \in [Workers -> {"idle", "subscribe", "consume", "mark",
                                  "sweep", "hasMessage", "unsubscribe", "deleteAssert",
                                  "delete", "setClosed"}]
                             /\ seen' \in [Workers -> {"none", "playing", "closing", "closed"}]
                             /\ subscribed' \in [Workers -> BOOLEAN]
                             /\ mapped' \in [Workers -> BOOLEAN]
                             /\ changeClosingAt' \in [Workers -> {"null", "recent", "expired"}]
    BY <2>3 DEF Gone
  <2>4. CASE SubscribeConsume(w)
    <3>1. CASE queue
      <4>1. /\ consumers' = consumers \cup {w}
            /\ mapped' = [mapped EXCEPT ![w] = TRUE]
            /\ subscribed' = [subscribed EXCEPT ![w] = TRUE]
            /\ changeClosingAt' = [changeClosingAt EXCEPT ![w] = "null"]
            /\ Goto(w, "mark")
            /\ UNCHANGED <<ready, unacked, seen, delivery>>
            /\ UNCHANGED <<exchange, queue, bound, play, routed, store>>
        BY <2>4, <3>1, Zenon DEF SubscribeConsume
      <4> QED
        BY <4>1
    <3>2. CASE ~queue
      <4>1. Gone(w) /\ UNCHANGED <<exchange, queue, bound, play, routed, store>>
        BY <2>4, <3>2, Zenon DEF SubscribeConsume
      <4> QED
        BY <2>3, <4>1
    <3> QED
      BY <3>1, <3>2
  <2>5. CASE MarkClosing(w)
    BY <2>5 DEF MarkClosing
  <2>6. CASE Expire(w)
    BY <2>6 DEF Expire
  <2>7. CASE Sweep(w)
    BY <2>7 DEF Sweep
  <2>8. CASE HasMessage(w)
    <3>1. CASE queue
      BY <2>8, <3>1 DEF HasMessage
    <3>2. CASE ~queue
      <4>1. Gone(w) /\ UNCHANGED <<exchange, queue, bound, play, routed, store>>
        BY <2>8, <3>2, Zenon DEF HasMessage
      <4> QED
        BY <2>3, <4>1
    <3> QED
      BY <3>1, <3>2
  <2>9. CASE Unsubscribe(w)
    BY <2>9 DEF Unsubscribe
  <2>10. CASE DeleteAssert(w)
    BY <2>10 DEF DeleteAssert
  <2>11. CASE DeleteQueue(w)
    BY <2>11 DEF DeleteQueue
  <2>12. CASE SetClosed(w)
    BY <2>12 DEF SetClosed
  <2>13. CASE Deliver(w)
    BY <2>13 DEF Deliver, loop
  <2>14. stage[w] # "none" => handling[w] \in Ticks
    BY DEF StageInv
  <2>15. CASE OnTickMessage(w)
    <3>1. CASE StoreOriginal(w)
      <4>1. original' \subseteq Ticks
        BY <2>14, <3>1 DEF StoreOriginal
      <4> QED
        BY <3>1, <4>1 DEF StoreOriginal, loop
    <3>2. CASE StoreExcluded(w)
      <4>1. excluded' \subseteq Ticks
        BY <2>14, <3>2 DEF StoreExcluded
      <4> QED
        BY <3>2, <4>1 DEF StoreExcluded, loop
    <3>3. CASE Ack(w)
      BY <3>3 DEF Ack, loop
    <3> QED
      BY <2>15, <3>1, <3>2, <3>3 DEF OnTickMessage
  <2>16. CASE Exit(w)
    <3>1. Gone(w) /\ UNCHANGED <<exchange, queue, bound, play, routed, store>>
      BY <2>16, Zenon DEF Exit
    <3> QED
      BY <2>3, <3>1
  <2> QED
    BY <1>4, <2>1, <2>2, <2>4, <2>5, <2>6, <2>7, <2>8, <2>9, <2>10, <2>11, <2>12,
       <2>13, <2>15, <2>16 DEF WorkerStep, OnUpdate
<1> QED
  BY <1>1, <1>2, <1>3, <1>4 DEF Next

(* The API server's progress and the write status agree. *)
LEMMA ApiStepInv ==
  ~AllowResume /\ TypeOK /\ ApiInv /\ BeliefInv /\ [Next]_vars => ApiInv'
<1> SUFFICES ASSUME ~AllowResume, TypeOK, ApiInv, BeliefInv, [Next]_vars PROVE ApiInv'
    OBVIOUS
<1> USE AllowAssumption DEF TypeOK, ApiInv, BeliefInv, Open, Ending,
           broker, play, store, loop, delivery, Goto
<1>1. CASE UNCHANGED vars
  BY <1>1 DEF vars
<1>2. CASE StartPlay
  BY <1>2 DEF StartPlay
<1>3. CASE StopPlay
  BY <1>3 DEF StopPlay
<1>4. CASE PrepareStoreQueue
  BY <1>4 DEF PrepareStoreQueue
<1>5. CASE BindQueue
  BY <1>5 DEF BindQueue
<1>6. CASE SetPlaying
  BY <1>6 DEF SetPlaying
<1>7. CASE SetClosing
  BY <1>7 DEF SetClosing
<1>8. CASE PublishTick
  BY <1>8 DEF PublishTick
<1>9. CASE PrepareFails
  BY <1>9 DEF PrepareFails
<1>10. CASE CleanupFails
  BY <1>10 DEF CleanupFails
<1>11. ASSUME NEW w \in Workers, WorkerStep(w) PROVE ApiInv'
  <2>1. CASE GetWritingPlays(w)
    BY <2>1 DEF GetWritingPlays
  <2>2. CASE SubscribeAssert(w)
    BY <2>2 DEF SubscribeAssert
  <2>3. CASE SubscribeConsume(w)
    BY <2>3 DEF SubscribeConsume, Gone
  <2>4. CASE MarkClosing(w)
    BY <2>4 DEF MarkClosing
  <2>5. CASE Sweep(w)
    BY <2>5 DEF Sweep
  <2>6. CASE HasMessage(w)
    BY <2>6 DEF HasMessage, Gone
  <2>7. CASE Unsubscribe(w)
    BY <2>7 DEF Unsubscribe
  <2>8. CASE DeleteAssert(w)
    BY <2>8 DEF DeleteAssert
  <2>9. CASE DeleteQueue(w)
    BY <2>9 DEF DeleteQueue
  <2>10. CASE SetClosed(w)
    BY <2>10 DEF SetClosed
  <2>11. CASE Expire(w)
    BY <2>11 DEF Expire
  <2>12. CASE Deliver(w)
    BY <2>12 DEF Deliver
  <2>13. CASE StoreOriginal(w)
    BY <2>13 DEF StoreOriginal
  <2>14. CASE StoreExcluded(w)
    BY <2>14 DEF StoreExcluded
  <2>15. CASE Ack(w)
    BY <2>15 DEF Ack
  <2>16. CASE Exit(w)
    BY <2>16 DEF Exit, Gone
  <2> QED
    BY <1>11, <2>1, <2>2, <2>3, <2>4, <2>5, <2>6, <2>7, <2>8, <2>9, <2>10, <2>11,
       <2>12, <2>13, <2>14, <2>15, <2>16 DEF WorkerStep, OnUpdate, OnTickMessage
<1> QED
  BY <1>1, <1>2, <1>3, <1>4, <1>5, <1>6, <1>7, <1>8, <1>9, <1>10, <1>11 DEF Next, ApiStep

(* Workers never get ahead of the play. *)
LEMMA BeliefStep ==
  ~AllowResume /\ TypeOK /\ ApiInv /\ BeliefInv /\ [Next]_vars => BeliefInv'
<1> SUFFICES ASSUME ~AllowResume, TypeOK, ApiInv, BeliefInv, [Next]_vars PROVE BeliefInv'
    OBVIOUS
<1> USE AllowAssumption DEF TypeOK, ApiInv, BeliefInv, Open, Ending, Writing, Deleting,
           broker, play, store, loop, delivery, Goto
<1>1. CASE UNCHANGED vars
  BY <1>1 DEF vars
<1>2. CASE StartPlay
  BY <1>2 DEF StartPlay
<1>3. CASE StopPlay
  BY <1>3 DEF StopPlay
<1>4. CASE PrepareStoreQueue
  BY <1>4 DEF PrepareStoreQueue
<1>5. CASE BindQueue
  BY <1>5 DEF BindQueue
<1>6. CASE SetPlaying
  BY <1>6 DEF SetPlaying
<1>7. CASE SetClosing
  BY <1>7 DEF SetClosing
<1>8. CASE PublishTick
  BY <1>8 DEF PublishTick
<1>9. CASE PrepareFails
  BY <1>9 DEF PrepareFails
<1>10. CASE CleanupFails
  BY <1>10 DEF CleanupFails
<1>11. ASSUME NEW w \in Workers, WorkerStep(w) PROVE BeliefInv'
  <2>1. CASE GetWritingPlays(w)
    BY <2>1 DEF GetWritingPlays
  <2>2. CASE SubscribeAssert(w)
    BY <2>2 DEF SubscribeAssert
  <2>3. CASE SubscribeConsume(w)
    BY <2>3 DEF SubscribeConsume, Gone
  <2>4. CASE MarkClosing(w)
    BY <2>4 DEF MarkClosing
  <2>5. CASE Sweep(w)
    BY <2>5 DEF Sweep
  <2>6. CASE HasMessage(w)
    BY <2>6 DEF HasMessage, Gone
  <2>7. CASE Unsubscribe(w)
    BY <2>7 DEF Unsubscribe
  <2>8. CASE DeleteAssert(w)
    BY <2>8 DEF DeleteAssert
  <2>9. CASE DeleteQueue(w)
    BY <2>9 DEF DeleteQueue
  <2>10. CASE SetClosed(w)
    BY <2>10 DEF SetClosed
  <2>11. CASE Expire(w)
    BY <2>11 DEF Expire
  <2>12. CASE Deliver(w)
    BY <2>12 DEF Deliver
  <2>13. CASE StoreOriginal(w)
    BY <2>13 DEF StoreOriginal
  <2>14. CASE StoreExcluded(w)
    BY <2>14 DEF StoreExcluded
  <2>15. CASE Ack(w)
    BY <2>15 DEF Ack
  <2>16. CASE Exit(w)
    BY <2>16 DEF Exit, Gone
  <2> QED
    BY <1>11, <2>1, <2>2, <2>3, <2>4, <2>5, <2>6, <2>7, <2>8, <2>9, <2>10, <2>11,
       <2>12, <2>13, <2>14, <2>15, <2>16 DEF WorkerStep, OnUpdate, OnTickMessage
<1> QED
  BY <1>1, <1>2, <1>3, <1>4, <1>5, <1>6, <1>7, <1>8, <1>9, <1>10, <1>11 DEF Next, ApiStep

(* A tick is acked only when both versions are stored. *)
LEMMA StageStep ==
  TypeOK /\ StageInv /\ [Next]_vars => StageInv'
<1> SUFFICES ASSUME TypeOK, StageInv, [Next]_vars PROVE StageInv'
    OBVIOUS
<1> USE NoTickAssumption DEF TypeOK, StageInv, broker, play, store, loop, delivery
<1>1. CASE UNCHANGED vars
  BY <1>1 DEF vars
<1>2. CASE StartPlay
  BY <1>2 DEF StartPlay
<1>3. CASE StopPlay
  BY <1>3 DEF StopPlay
<1>4. CASE PrepareStoreQueue
  BY <1>4 DEF PrepareStoreQueue
<1>5. CASE BindQueue
  BY <1>5 DEF BindQueue
<1>6. CASE SetPlaying
  BY <1>6 DEF SetPlaying
<1>7. CASE SetClosing
  BY <1>7 DEF SetClosing
<1>8. CASE PublishTick
  BY <1>8 DEF PublishTick
<1>9. CASE PrepareFails
  BY <1>9 DEF PrepareFails
<1>10. CASE CleanupFails
  BY <1>10 DEF CleanupFails
<1>11. ASSUME NEW w \in Workers, WorkerStep(w) PROVE StageInv'
  <2>1. CASE GetWritingPlays(w)
    BY <2>1 DEF GetWritingPlays
  <2>2. CASE SubscribeAssert(w)
    BY <2>2 DEF SubscribeAssert
  <2>3. CASE SubscribeConsume(w)
    BY <2>3 DEF SubscribeConsume, Gone
  <2>4. CASE MarkClosing(w)
    BY <2>4 DEF MarkClosing
  <2>5. CASE Sweep(w)
    BY <2>5 DEF Sweep
  <2>6. CASE HasMessage(w)
    BY <2>6 DEF HasMessage, Gone
  <2>7. CASE Unsubscribe(w)
    BY <2>7 DEF Unsubscribe
  <2>8. CASE DeleteAssert(w)
    BY <2>8 DEF DeleteAssert
  <2>9. CASE DeleteQueue(w)
    BY <2>9 DEF DeleteQueue
  <2>10. CASE SetClosed(w)
    BY <2>10 DEF SetClosed
  <2>11. CASE Expire(w)
    BY <2>11 DEF Expire
  <2>12. CASE Deliver(w)
    BY <2>12 DEF Deliver
  <2>13. CASE StoreOriginal(w)
    BY <2>13 DEF StoreOriginal
  <2>14. CASE StoreExcluded(w)
    BY <2>14 DEF StoreExcluded
  <2>15. CASE Ack(w)
    BY <2>15 DEF Ack
  <2>16. CASE Exit(w)
    BY <2>16 DEF Exit, Gone
  <2> QED
    BY <1>11, <2>1, <2>2, <2>3, <2>4, <2>5, <2>6, <2>7, <2>8, <2>9, <2>10, <2>11,
       <2>12, <2>13, <2>14, <2>15, <2>16 DEF WorkerStep, OnUpdate, OnTickMessage
<1> QED
  BY <1>1, <1>2, <1>3, <1>4, <1>5, <1>6, <1>7, <1>8, <1>9, <1>10, <1>11 DEF Next, ApiStep

(* No step of a running play loses a tick. *)
LEMMA QueuedStep ==
  ~AllowResume /\ TypeOK /\ ApiInv /\ BeliefInv /\ StageInv /\ StoredOrQueued /\ [Next]_vars
    => StoredOrQueued'
<1> SUFFICES ASSUME ~AllowResume, TypeOK, ApiInv, BeliefInv, StageInv, StoredOrQueued,
                    [Next]_vars
             PROVE  StoredOrQueued'
    OBVIOUS
<1> USE AllowAssumption DEF TypeOK, StoredOrQueued, broker, play, store, loop, delivery
<1>1. CASE UNCHANGED vars
  BY <1>1 DEF vars
<1>2. CASE StartPlay
  BY <1>2 DEF StartPlay
<1>3. CASE StopPlay
  BY <1>3 DEF StopPlay
<1>4. CASE PrepareStoreQueue
  BY <1>4 DEF PrepareStoreQueue
<1>5. CASE BindQueue
  BY <1>5 DEF BindQueue
<1>6. CASE SetPlaying
  BY <1>6 DEF SetPlaying, ApiInv
<1>7. CASE SetClosing
  BY <1>7 DEF SetClosing
<1>8. CASE PublishTick
  BY <1>8, ZenonT(60) DEF PublishTick
<1>9. CASE PrepareFails
  BY <1>9 DEF PrepareFails
<1>10. CASE CleanupFails
  BY <1>10 DEF CleanupFails
<1>11. ASSUME NEW w \in Workers, WorkerStep(w) PROVE StoredOrQueued'
  <2>1. CASE GetWritingPlays(w)
    BY <2>1 DEF GetWritingPlays
  <2>2. CASE SubscribeAssert(w)
    BY <2>2 DEF SubscribeAssert
  <2>3. CASE SubscribeConsume(w)
    BY <2>3 DEF SubscribeConsume, Gone
  <2>4. CASE MarkClosing(w)
    BY <2>4 DEF MarkClosing
  <2>5. CASE Sweep(w)
    BY <2>5 DEF Sweep
  <2>6. CASE HasMessage(w)
    BY <2>6 DEF HasMessage, Gone
  <2>7. CASE Unsubscribe(w)
    BY <2>7 DEF Unsubscribe
  <2>8. CASE DeleteAssert(w)
    BY <2>8 DEF DeleteAssert
  <2>9. CASE DeleteQueue(w)
    BY <2>9 DEF DeleteQueue, BeliefInv, Ending, Open
  <2>10. CASE SetClosed(w)
    BY <2>10 DEF SetClosed
  <2>11. CASE Expire(w)
    BY <2>11 DEF Expire
  <2>12. CASE Deliver(w)
    BY <2>12 DEF Deliver
  <2>13. CASE StoreOriginal(w)
    BY <2>13 DEF StoreOriginal
  <2>14. CASE StoreExcluded(w)
    BY <2>14 DEF StoreExcluded
  <2>15. CASE Ack(w)
    BY <2>15 DEF Ack, StageInv
  <2>16. CASE Exit(w)
    BY <2>16 DEF Exit, Gone
  <2> QED
    BY <1>11, <2>1, <2>2, <2>3, <2>4, <2>5, <2>6, <2>7, <2>8, <2>9, <2>10, <2>11,
       <2>12, <2>13, <2>14, <2>15, <2>16 DEF WorkerStep, OnUpdate, OnTickMessage
<1> QED
  BY <1>1, <1>2, <1>3, <1>4, <1>5, <1>6, <1>7, <1>8, <1>9, <1>10, <1>11 DEF Next, ApiStep

(* Init establishes the inductive invariant.                               *)
LEMMA InitIInv == Init => IInv
<1> SUFFICES ASSUME Init PROVE IInv
    OBVIOUS
<1>1. TypeOK
  <2>1. /\ pc = [w \in Workers |-> "idle"] /\ seen = [w \in Workers |-> "none"]
        /\ changeClosingAt = [w \in Workers |-> "null"]
        /\ handling = [w \in Workers |-> NoTick] /\ stage = [w \in Workers |-> "none"]
        /\ subscribed = [w \in Workers |-> FALSE]
        /\ mapped = [w \in Workers |-> FALSE]
    BY DEF Init
  <2>2. /\ subscribed \in [Workers -> BOOLEAN]
        /\ mapped \in [Workers -> BOOLEAN]
    BY <2>1, Zenon
  <2>3. /\ ready \subseteq Ticks /\ unacked \subseteq Ticks /\ consumers \subseteq Workers
        /\ routed \subseteq Ticks /\ original \subseteq Ticks /\ excluded \subseteq Ticks
        /\ published \in 0 .. MaxTicks
    BY MaxTicksAssumption DEF Init
  <2>4. /\ exchange \in BOOLEAN /\ queue \in BOOLEAN /\ bound \in BOOLEAN
        /\ running \in BOOLEAN /\ status = "none" /\ api = "idle"
    BY DEF Init
  <2> QED
    BY <2>1, <2>2, <2>3, <2>4 DEF TypeOK
<1>2. ApiInv /\ StoredOrQueued
  BY DEF Init, ApiInv, StoredOrQueued
<1>3. BeliefInv
  BY DEF Init, BeliefInv, Ending, Open
<1>4. StageInv
  BY DEF Init, StageInv
<1> QED
  BY <1>1, <1>2, <1>3, <1>4 DEF IInv

(* Every behaviour is well typed and stores before it acks, restarts of    *)
(* plays and of workers included.                                          *)
THEOREM TypeCorrect == Spec => [](TypeOK /\ StageInv)
<1>1. Init => TypeOK /\ StageInv
  BY InitIInv DEF IInv
<1>2. TypeOK /\ StageInv /\ [Next]_vars => (TypeOK /\ StageInv)'
  BY TypeStep, StageStep
<1> QED
  BY <1>1, <1>2, PTL DEF Spec

LEMMA Inductive == ~AllowResume /\ Spec => []IInv
<1>1. ~AllowResume /\ IInv /\ [Next]_vars => IInv'
  BY TypeStep, ApiStepInv, BeliefStep, StageStep, QueuedStep DEF IInv
<1>2. CASE AllowResume
  BY <1>2
<1>3. CASE ~AllowResume
  <2>1. IInv /\ [Next]_vars => IInv'
    BY <1>1, <1>3
  <2> QED
    BY <2>1, InitIInv, PTL DEF Spec
<1> QED
  BY <1>2, <1>3

(* For any number of workers, passing their steps and their crashes in any *)
(* order: a play that is started once is "playing", with its queue bound,  *)
(* for as long as it runs.                                                 *)
THEOREM StatusIsTruthful == ~AllowResume /\ Spec => []StatusTruthful
<1>1. IInv => StatusTruthful
  BY DEF IInv, ApiInv, StatusTruthful
<1> QED
  BY <1>1, Inductive, PTL

(* For any number of workers and ticks: until a play started once is       *)
(* stopped, every tick that reached its queue is in it, or stored in both  *)
(* versions.                                                               *)
THEOREM NoTickLost == ~AllowResume /\ Spec => []StoredOrQueued
<1>1. IInv => StoredOrQueued
  BY DEF IInv
<1> QED
  BY <1>1, Inductive, PTL

------------------------------------------------------------------------------
(* What is undelivered when a queue is deleted.                            *)

Leaving == {"unsubscribe", "deleteAssert", "delete"}

(* A queue that is gone has nothing in it, and one whose worker has found  *)
(* it empty stays so: nothing is published any more, and nobody gives back *)
(* what was delivered.                                                     *)
EmptyInv ==
  /\ ~queue => ready = {} /\ unacked = {}
  /\ \A w \in Workers : pc[w] \in Leaving => ready = {}

LEMMA EmptyStep ==
  ~AllowExit /\ TypeOK /\ ApiInv /\ BeliefInv /\ EmptyInv /\ [Next]_vars => EmptyInv'
<1> SUFFICES ASSUME ~AllowExit, TypeOK, ApiInv, BeliefInv, EmptyInv, [Next]_vars
             PROVE  EmptyInv'
    OBVIOUS
<1> USE AllowAssumption DEF TypeOK, EmptyInv, Leaving, broker, play, store, loop, delivery, Goto
<1>1. CASE UNCHANGED vars
  BY <1>1 DEF vars
<1>2. CASE StartPlay
  BY <1>2 DEF StartPlay
<1>3. CASE StopPlay
  BY <1>3 DEF StopPlay
<1>4. CASE PrepareStoreQueue
  BY <1>4 DEF PrepareStoreQueue
<1>5. CASE BindQueue
  BY <1>5 DEF BindQueue
<1>6. CASE SetPlaying
  BY <1>6 DEF SetPlaying
<1>7. CASE SetClosing
  BY <1>7 DEF SetClosing
<1>8. CASE PublishTick
  BY <1>8 DEF PublishTick, ApiInv, BeliefInv, Ending, Open
<1>9. CASE PrepareFails
  BY <1>9 DEF PrepareFails
<1>10. CASE CleanupFails
  BY <1>10 DEF CleanupFails
<1>11. ASSUME NEW w \in Workers, WorkerStep(w) PROVE EmptyInv'
  <2>1. CASE GetWritingPlays(w)
    BY <2>1 DEF GetWritingPlays
  <2>2. CASE SubscribeAssert(w)
    BY <2>2 DEF SubscribeAssert
  <2>3. CASE SubscribeConsume(w)
    BY <2>3 DEF SubscribeConsume, Gone
  <2>4. CASE MarkClosing(w)
    BY <2>4 DEF MarkClosing
  <2>5. CASE Sweep(w)
    BY <2>5 DEF Sweep
  <2>6. CASE HasMessage(w)
    BY <2>6 DEF HasMessage, Gone
  <2>7. CASE Unsubscribe(w)
    BY <2>7 DEF Unsubscribe
  <2>8. CASE DeleteAssert(w)
    BY <2>8 DEF DeleteAssert
  <2>9. CASE DeleteQueue(w)
    BY <2>9 DEF DeleteQueue
  <2>10. CASE SetClosed(w)
    BY <2>10 DEF SetClosed
  <2>11. CASE Expire(w)
    BY <2>11 DEF Expire
  <2>12. CASE Deliver(w)
    BY <2>12 DEF Deliver
  <2>13. CASE StoreOriginal(w)
    BY <2>13 DEF StoreOriginal
  <2>14. CASE StoreExcluded(w)
    BY <2>14 DEF StoreExcluded
  <2>15. CASE Ack(w)
    BY <2>15 DEF Ack
  <2>16. CASE Exit(w)
    BY <2>16 DEF Exit, Gone
  <2> QED
    BY <1>11, <2>1, <2>2, <2>3, <2>4, <2>5, <2>6, <2>7, <2>8, <2>9, <2>10, <2>11,
       <2>12, <2>13, <2>14, <2>15, <2>16 DEF WorkerStep, OnUpdate, OnTickMessage
<1> QED
  BY <1>1, <1>2, <1>3, <1>4, <1>5, <1>6, <1>7, <1>8, <1>9, <1>10, <1>11 DEF Next, ApiStep

(* For any number of workers that do not exit, and a play that is started  *)
(* once: a queue is deleted only when every tick in it was delivered       *)
(* (unsubscribeAndDelete), although the look at it, the cancel, the count  *)
(* of consumers and the deletion are separate requests.                    *)
THEOREM NothingUndelivered == ~AllowResume /\ ~AllowExit /\ Spec => UndeliveredKept
<1>1. CASE AllowResume \/ AllowExit
  BY <1>1
<1>2. CASE ~AllowResume /\ ~AllowExit
  <2>1. Init => EmptyInv
    BY DEF Init, EmptyInv, Leaving
  <2>2. IInv /\ EmptyInv /\ [Next]_vars => EmptyInv'
    BY <1>2, EmptyStep DEF IInv
  <2>3. IInv /\ EmptyInv /\ [Next]_vars => [queue /\ ~queue' => ready = {}]_vars
    <3> SUFFICES ASSUME IInv, EmptyInv, Next, queue, ~queue' PROVE ready = {}
        OBVIOUS
    <3>1. PICK w \in Workers : DeleteQueue(w)
      BY DEF Next, StartPlay, StopPlay, ApiStep, PrepareStoreQueue, BindQueue, SetPlaying,
             SetClosing, PrepareFails, CleanupFails, PublishTick, WorkerStep, OnUpdate,
             GetWritingPlays, SubscribeAssert, SubscribeConsume, MarkClosing, Sweep, HasMessage,
             Unsubscribe, DeleteAssert, SetClosed, Expire, Gone, Deliver,
             OnTickMessage, StoreOriginal, StoreExcluded, Ack, Exit, broker
    <3> QED
      BY <3>1 DEF DeleteQueue, EmptyInv, Leaving
  <2> QED
    BY <1>2, <2>1, <2>2, <2>3, Inductive, PTL DEF Spec, UndeliveredKept
<1> QED
  BY <1>1, <1>2

------------------------------------------------------------------------------
(* A worker that has noted a play as closing does not read it as playing   *)
(* again, so what it ends it has not read as playing.                      *)
KeptInv ==
  \A w \in Workers :
    /\ changeClosingAt[w] # "null" => seen[w] # "playing"
    /\ pc[w] \in Ending => seen[w] # "playing"

LEMMA KeptStep == TypeOK /\ BeliefInv /\ KeptInv /\ [Next]_vars => KeptInv'
<1> SUFFICES ASSUME TypeOK, BeliefInv, KeptInv, [Next]_vars PROVE KeptInv'
    OBVIOUS
<1> USE DEF TypeOK, KeptInv, Ending, broker, play, store, loop, delivery, Goto
<1>1. CASE UNCHANGED vars
  BY <1>1 DEF vars
<1>2. CASE StartPlay
  BY <1>2 DEF StartPlay
<1>3. CASE StopPlay
  BY <1>3 DEF StopPlay
<1>4. CASE PrepareStoreQueue
  BY <1>4 DEF PrepareStoreQueue
<1>5. CASE BindQueue
  BY <1>5 DEF BindQueue
<1>6. CASE SetPlaying
  BY <1>6 DEF SetPlaying
<1>7. CASE SetClosing
  BY <1>7 DEF SetClosing
<1>8. CASE PublishTick
  BY <1>8 DEF PublishTick
<1>9. CASE PrepareFails
  BY <1>9 DEF PrepareFails
<1>10. CASE CleanupFails
  BY <1>10 DEF CleanupFails
<1>11. ASSUME NEW w \in Workers, WorkerStep(w) PROVE KeptInv'
  <2>1. CASE GetWritingPlays(w)
    BY <2>1 DEF GetWritingPlays, BeliefInv, Open
  <2>2. CASE SubscribeAssert(w)
    BY <2>2 DEF SubscribeAssert
  <2>3. CASE SubscribeConsume(w)
    BY <2>3 DEF SubscribeConsume, Gone
  <2>4. CASE MarkClosing(w)
    BY <2>4 DEF MarkClosing
  <2>5. CASE Sweep(w)
    BY <2>5 DEF Sweep, Deleting, Writing
  <2>6. CASE HasMessage(w)
    BY <2>6 DEF HasMessage, Gone
  <2>7. CASE Unsubscribe(w)
    BY <2>7 DEF Unsubscribe
  <2>8. CASE DeleteAssert(w)
    BY <2>8 DEF DeleteAssert
  <2>9. CASE DeleteQueue(w)
    BY <2>9 DEF DeleteQueue
  <2>10. CASE SetClosed(w)
    BY <2>10 DEF SetClosed
  <2>11. CASE Expire(w)
    BY <2>11 DEF Expire
  <2>12. CASE Deliver(w)
    BY <2>12 DEF Deliver
  <2>13. CASE StoreOriginal(w)
    BY <2>13 DEF StoreOriginal
  <2>14. CASE StoreExcluded(w)
    BY <2>14 DEF StoreExcluded
  <2>15. CASE Ack(w)
    BY <2>15 DEF Ack
  <2>16. CASE Exit(w)
    BY <2>16 DEF Exit, Gone
  <2> QED
    BY <1>11, <2>1, <2>2, <2>3, <2>4, <2>5, <2>6, <2>7, <2>8, <2>9, <2>10, <2>11,
       <2>12, <2>13, <2>14, <2>15, <2>16 DEF WorkerStep, OnUpdate, OnTickMessage
<1> QED
  BY <1>1, <1>2, <1>3, <1>4, <1>5, <1>6, <1>7, <1>8, <1>9, <1>10, <1>11 DEF Next, ApiStep

(* For any number of workers, crashes included: a play that is started     *)
(* once is never unsubscribed by a pass of onUpdate that has read it as    *)
(* playing.  The counterexample of a play that is resumed needs the second *)
(* start.                                                                  *)
THEOREM PlayingIsKept == ~AllowResume /\ Spec => []PlayingKept
<1>1. Init => KeptInv
  BY DEF Init, KeptInv, Ending
<1>2. IInv /\ KeptInv /\ [Next]_vars => KeptInv'
  BY KeptStep DEF IInv
<1>3. KeptInv => PlayingKept
  BY DEF KeptInv, PlayingKept, Ending
<1> QED
  BY <1>1, <1>2, <1>3, Inductive, PTL DEF Spec

------------------------------------------------------------------------------
(* Ticks in the hands of workers.                                          *)

(* A worker consumes what it subscribed to and stops before it closes the  *)
(* play, so that what it still has in hand is not given up when it         *)
(* subscribes again: by then the play is closed.                           *)
SubscribedInv ==
  \A w \in Workers :
    /\ w \in consumers => mapped[w]
    /\ mapped[w] => subscribed[w] /\ pc[w] \notin {"deleteAssert", "delete", "setClosed"}
    /\ subscribed[w] /\ pc[w] \notin {"deleteAssert", "delete", "setClosed"} => mapped[w]
    /\ pc[w] = "hasMessage" => subscribed[w]
    /\ pc[w] \in {"subscribe", "consume"} => ~subscribed[w] /\ handling[w] = NoTick
    /\ handling[w] # NoTick /\ ~subscribed[w] => status = "closed"

(* Nobody consumes a queue that is gone, and a worker that loses its       *)
(* consumer to the deletion of the queue has nothing in hand: it           *)
(* subscribed after the last tick was delivered.  So the worker that finds *)
(* the queue gone and exits takes no tick along.                           *)
LostInv ==
  /\ ~queue => consumers = {}
  /\ \A w \in Workers : mapped[w] /\ w \notin consumers => handling[w] = NoTick
  /\ \A v, w \in Workers : pc[v] = "delete" /\ mapped[w] => handling[w] = NoTick

HandInv == SubscribedInv /\ LostInv

LEMMA SubscribedStep ==
  ~AllowExit /\ TypeOK /\ ApiInv /\ StageInv /\ SubscribedInv /\ [Next]_vars => SubscribedInv'
<1> SUFFICES ASSUME ~AllowExit, TypeOK, ApiInv, StageInv, SubscribedInv, [Next]_vars
             PROVE  SubscribedInv'
    OBVIOUS
<1> USE AllowAssumption DEF TypeOK, SubscribedInv, broker, play, store, loop, delivery, Goto
<1>1. CASE UNCHANGED vars
  BY <1>1 DEF vars
<1>2. CASE StartPlay
  BY <1>2 DEF StartPlay
<1>3. CASE StopPlay
  BY <1>3 DEF StopPlay
<1>4. CASE PrepareStoreQueue
  BY <1>4 DEF PrepareStoreQueue
<1>5. CASE BindQueue
  BY <1>5 DEF BindQueue
<1>6. CASE SetPlaying
  BY <1>6 DEF SetPlaying, ApiInv
<1>7. CASE SetClosing
  BY <1>7 DEF SetClosing, ApiInv
<1>8. CASE PublishTick
  BY <1>8 DEF PublishTick
<1>9. CASE PrepareFails
  BY <1>9 DEF PrepareFails
<1>10. CASE CleanupFails
  BY <1>10 DEF CleanupFails
<1>11. ASSUME NEW w \in Workers, WorkerStep(w) PROVE SubscribedInv'
  <2>1. CASE GetWritingPlays(w)
    BY <2>1 DEF GetWritingPlays, Writing
  <2>2. CASE SubscribeAssert(w)
    BY <2>2 DEF SubscribeAssert
  <2>3. CASE SubscribeConsume(w)
    BY <2>3 DEF SubscribeConsume, Gone
  <2>4. CASE MarkClosing(w)
    BY <2>4 DEF MarkClosing
  <2>5. CASE Sweep(w)
    BY <2>5 DEF Sweep, Deleting
  <2>6. CASE HasMessage(w)
    BY <2>6 DEF HasMessage, Gone
  <2>7. CASE Unsubscribe(w)
    BY <2>7 DEF Unsubscribe
  <2>8. CASE DeleteAssert(w)
    BY <2>8 DEF DeleteAssert
  <2>9. CASE DeleteQueue(w)
    BY <2>9 DEF DeleteQueue
  <2>10. CASE SetClosed(w)
    BY <2>10 DEF SetClosed
  <2>11. CASE Expire(w)
    BY <2>11 DEF Expire
  <2>12. CASE Deliver(w)
    BY <2>12 DEF Deliver
  <2>13. CASE StoreOriginal(w)
    BY <2>13 DEF StoreOriginal
  <2>14. CASE StoreExcluded(w)
    BY <2>14 DEF StoreExcluded
  <2>15. CASE Ack(w)
    BY <2>15 DEF Ack
  <2>16. CASE Exit(w)
    BY <2>16 DEF Exit
  <2> QED
    BY <1>11, <2>1, <2>2, <2>3, <2>4, <2>5, <2>6, <2>7, <2>8, <2>9, <2>10, <2>11,
       <2>12, <2>13, <2>14, <2>15, <2>16 DEF WorkerStep, OnUpdate, OnTickMessage
<1> QED
  BY <1>1, <1>2, <1>3, <1>4, <1>5, <1>6, <1>7, <1>8, <1>9, <1>10, <1>11 DEF Next, ApiStep

LEMMA LostStep ==
  ~AllowExit /\ TypeOK /\ EmptyInv /\ SubscribedInv /\ LostInv /\ [Next]_vars => LostInv'
<1> SUFFICES ASSUME ~AllowExit, TypeOK, EmptyInv, SubscribedInv, LostInv, [Next]_vars
             PROVE  LostInv'
    OBVIOUS
<1> USE AllowAssumption DEF TypeOK, LostInv, broker, play, store, loop, delivery, Goto
<1>1. CASE UNCHANGED vars
  BY <1>1 DEF vars
<1>2. CASE StartPlay
  BY <1>2 DEF StartPlay
<1>3. CASE StopPlay
  BY <1>3 DEF StopPlay
<1>4. CASE PrepareStoreQueue
  BY <1>4 DEF PrepareStoreQueue
<1>5. CASE BindQueue
  BY <1>5 DEF BindQueue
<1>6. CASE SetPlaying
  BY <1>6 DEF SetPlaying
<1>7. CASE SetClosing
  BY <1>7 DEF SetClosing
<1>8. CASE PublishTick
  BY <1>8 DEF PublishTick
<1>9. CASE PrepareFails
  BY <1>9 DEF PrepareFails
<1>10. CASE CleanupFails
  BY <1>10 DEF CleanupFails
<1>11. ASSUME NEW w \in Workers, WorkerStep(w) PROVE LostInv'
  <2>1. CASE GetWritingPlays(w)
    BY <2>1 DEF GetWritingPlays
  <2>2. CASE SubscribeAssert(w)
    BY <2>2 DEF SubscribeAssert
  <2>3. CASE SubscribeConsume(w)
    BY <2>3 DEF SubscribeConsume, Gone, SubscribedInv
  <2>4. CASE MarkClosing(w)
    BY <2>4 DEF MarkClosing
  <2>5. CASE Sweep(w)
    BY <2>5 DEF Sweep
  <2>6. CASE HasMessage(w)
    BY <2>6 DEF HasMessage, Gone
  <2>7. CASE Unsubscribe(w)
    BY <2>7 DEF Unsubscribe
  <2>8. CASE DeleteAssert(w)
    BY <2>8 DEF DeleteAssert
  <2>9. CASE DeleteQueue(w)
    BY <2>9 DEF DeleteQueue
  <2>10. CASE SetClosed(w)
    BY <2>10 DEF SetClosed
  <2>11. CASE Expire(w)
    BY <2>11 DEF Expire
  <2>12. CASE Deliver(w)
    BY <2>12 DEF Deliver, EmptyInv, Leaving
  <2>13. CASE StoreOriginal(w)
    BY <2>13 DEF StoreOriginal
  <2>14. CASE StoreExcluded(w)
    BY <2>14 DEF StoreExcluded
  <2>15. CASE Ack(w)
    BY <2>15 DEF Ack
  <2>16. CASE Exit(w)
    BY <2>16 DEF Exit
  <2> QED
    BY <1>11, <2>1, <2>2, <2>3, <2>4, <2>5, <2>6, <2>7, <2>8, <2>9, <2>10, <2>11,
       <2>12, <2>13, <2>14, <2>15, <2>16 DEF WorkerStep, OnUpdate, OnTickMessage
<1> QED
  BY <1>1, <1>2, <1>3, <1>4, <1>5, <1>6, <1>7, <1>8, <1>9, <1>10, <1>11 DEF Next, ApiStep

LEMMA InHandStep ==
  ~AllowExit /\ TypeOK /\ StageInv /\ EmptyInv /\ HandInv /\ TickInHand /\ [Next]_vars
    => TickInHand'
<1> SUFFICES ASSUME ~AllowExit, TypeOK, StageInv, EmptyInv, HandInv, TickInHand, [Next]_vars,
                    NEW t \in routed'
             PROVE  t \in (original' \cap excluded') \cup ready' \/ \E v \in Workers : handling'[v] = t
    BY DEF TickInHand
<1>0. ASSUME t \in routed
      PROVE  t \in (original \cap excluded) \cup ready \/ \E v \in Workers : handling[v] = t
  BY <1>0 DEF TickInHand
<1>1. ASSUME UNCHANGED <<routed, ready, handling>>, original \subseteq original',
             excluded \subseteq excluded'
      PROVE  t \in (original' \cap excluded') \cup ready' \/ \E v \in Workers : handling'[v] = t
  BY <1>0, <1>1
<1> USE AllowAssumption, NoTickAssumption DEF TypeOK, broker, play, store, loop, delivery
<1>2. CASE UNCHANGED vars
  BY <1>1, <1>2 DEF vars
<1>3. CASE StartPlay \/ StopPlay \/ ApiStep \/ PrepareFails \/ CleanupFails
  BY <1>1, <1>3 DEF StartPlay, StopPlay, ApiStep, PrepareStoreQueue, BindQueue, SetPlaying,
                    SetClosing, PrepareFails, CleanupFails
<1>4. CASE PublishTick
  BY <1>0, <1>4 DEF PublishTick
<1>5. ASSUME NEW w \in Workers, WorkerStep(w)
      PROVE  t \in (original' \cap excluded') \cup ready' \/ \E v \in Workers : handling'[v] = t
  <2>0. ~Exit(w)
    BY DEF Exit
  <2>1. CASE SubscribeConsume(w)
    <3>1. CASE queue
      BY <1>1, <2>1, <3>1 DEF SubscribeConsume
    <3>2. CASE ~queue
      <4>1. handling[w] = NoTick
        BY <2>1 DEF SubscribeConsume, HandInv, SubscribedInv
      <4>2. /\ handling' = [handling EXCEPT ![w] = NoTick] /\ ready \subseteq ready'
            /\ UNCHANGED <<routed, store>>
        BY <2>1, <3>2 DEF SubscribeConsume, Gone
      <4>3. handling' = handling
        BY <4>1, <4>2
      <4> QED
        BY <1>0, <4>2, <4>3
    <3> QED
      BY <3>1, <3>2
  <2>2. CASE DeleteQueue(w)
    <3>1. ready = {} /\ UNCHANGED <<routed, handling, store>>
      BY <2>2 DEF DeleteQueue, EmptyInv, Leaving
    <3> QED
      BY <1>0, <3>1
  <2>3. CASE Deliver(w)
    <3>1. PICK u \in ready : /\ ready' = ready \ {u}
                             /\ handling' = [handling EXCEPT ![w] = u]
      BY <2>3 DEF Deliver
    <3>2. handling[w] = NoTick /\ UNCHANGED <<routed, store>>
      BY <2>3 DEF Deliver
    <3>3. t \in Ticks /\ t # NoTick
      BY <3>2
    <3>4. handling'[w] = u /\ \A v \in Workers : v # w => handling'[v] = handling[v]
      BY <3>1
    <3> QED
      BY <1>0, <3>1, <3>2, <3>3, <3>4
  <2>4. CASE Ack(w)
    <3>1. handling[w] \in original \cap excluded
      BY <2>4 DEF Ack, StageInv
    <3>2. /\ \A v \in Workers : v # w => handling'[v] = handling[v]
          /\ UNCHANGED <<routed, ready, store>>
      BY <2>4 DEF Ack
    <3> QED
      BY <1>0, <3>1, <3>2
  <2>5. CASE OnTickMessage(w) /\ ~Ack(w)
    BY <1>1, <2>5 DEF OnTickMessage, StoreOriginal, StoreExcluded
  <2>6. CASE HasMessage(w)
    <3>1. CASE queue
      BY <1>1, <2>6, <3>1 DEF HasMessage
    <3>2. CASE ~queue
      <4>1. handling[w] = NoTick
        BY <2>6, <3>2 DEF HasMessage, HandInv, SubscribedInv, LostInv
      <4>2. /\ handling' = [handling EXCEPT ![w] = NoTick] /\ ready \subseteq ready'
            /\ UNCHANGED <<routed, store>>
        BY <2>6, <3>2 DEF HasMessage, Gone
      <4>3. handling' = handling
        BY <4>1, <4>2
      <4> QED
        BY <1>0, <4>2, <4>3
    <3> QED
      BY <3>1, <3>2
  <2>7. CASE OnUpdate(w) /\ ~SubscribeConsume(w) /\ ~DeleteQueue(w) /\ ~HasMessage(w)
    BY <1>1, <2>7 DEF OnUpdate, GetWritingPlays, SubscribeAssert, MarkClosing, Sweep,
                      Unsubscribe, DeleteAssert, SetClosed
  <2>8. CASE Expire(w)
    BY <1>1, <2>8 DEF Expire
  <2> QED
    BY <1>5, <2>0, <2>1, <2>2, <2>3, <2>4, <2>5, <2>6, <2>7, <2>8 DEF WorkerStep
<1> QED
  BY <1>2, <1>3, <1>4, <1>5 DEF Next

(* For any number of workers that do not exit, and a play that is started  *)
(* once: from the queue to the store every tick is in somebody's hands,    *)
(* the deletion of the queue and the workers that find it gone included    *)
(* (unsubscribeAndDelete, storeTick).                                      *)
THEOREM TicksInHand == ~AllowResume /\ ~AllowExit /\ Spec => []TickInHand
<1>1. CASE AllowResume \/ AllowExit
  BY <1>1
<1>2. CASE ~AllowResume /\ ~AllowExit
  <2>1. Init => EmptyInv /\ HandInv /\ TickInHand
    BY DEF Init, EmptyInv, Leaving, HandInv, SubscribedInv, LostInv, TickInHand
  <2>2. IInv /\ EmptyInv /\ HandInv /\ TickInHand /\ [Next]_vars
          => (EmptyInv /\ HandInv /\ TickInHand)'
    BY <1>2, EmptyStep, SubscribedStep, LostStep, InHandStep DEF IInv, HandInv
  <2> QED
    BY <1>2, <2>1, <2>2, Inductive, PTL DEF Spec
<1> QED
  BY <1>1, <1>2
==============================================================================
