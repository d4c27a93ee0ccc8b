# Verification of akashic-system

akashic-system runs multiplayer games ("plays") on a cluster. An active game
instance publishes one *tick* per frame and now and then a *start point*
(a snapshot); passive clients join at any time and reproduce the game from the
start points and ticks. Almost everything that can go wrong unseen in this
system goes wrong on that path: the playlog is produced by one process,
queued in RabbitMQ, stored by a worker in MongoDB, archived to S3, cached by
the playlog servers and read back by clients, and no two of those steps run in
one transaction.

This directory holds TLA+ modules of that path and of the two things that
decide who may use it, the dispatching of clients to playlog servers and their
play tokens, TLC configurations that check
them, and proofs checked by TLAPS. `PROJECT.json` lists components, runs,
properties with a mutant each, findings, hazards and theorems, and maps every
definition to the lines it models.

## 1 Inventory

### 1.1 The playlog path

| part | state | operations | talks to |
|---|---|---|---|
| **Playlog store** `packages/akashic-system/src/Playlog/PlaylogStore` | MongoDB collections (ticks under the key *original*, ticks under `<playId>_ignored`, start points); S3 objects, one per collection; metadata flags `hasArchived`, `shouldGetFromArchive`; a row per play in MySQL | putTick, putStartPoint, updateTick, the getters with the restore inside, createArchive, pruneActive | called by the store worker, every playlog server, every system API server |
| **Playlog metadata** `.../PlaylogMetadataStore` | one document per play with a `revision` | setHasArchived, setShouldGetFromArchive, updateLastAccessTime: read, change a copy, write if the revision is unchanged, retry | called by the store and by `RequestHandler.ref` |
| **Playlog queue** `.../PlaylogQueue` | RabbitMQ exchanges, store queues and their bindings, dead-letter queues | prepare, cleanup, publish; subscribe, unsubscribe, hasMessage, deleteQueue | system API servers and playlog servers on the publishing side, store workers on the consuming side |
| **Store worker** `.../PlaylogQueueConsumer.ts`, `servers/playlog-store-worker` | its subscriptions with `changeClosingAt` | onUpdate once a second, storeTick, storeStartPoint, unsubscribeAndDelete | polls the write status in MySQL, consumes the store queues, writes the playlog store |
| **Write status** `.../PlaylogFixture.ts`, `.../PlaylogDatabase` | `playing`, `closing` or `closed` per play | preparePublishPlaylog, cleanupPublishPlaylog, setClosed | written by system API servers and store workers |
| **Tick cache** `servers/playlog-server/src/TickCache.ts`, `RequestHandler.ts` | ticks per play, fetches under way with those who wait for them, a reference count | add, get, the completion of a fetch, destroy, ref, unref, purge | fed by AMQP ticks, completed from the store |
| **AMQP holder** `servers/playlog-server/src/PlaylogHandler.ts` | connection state, pending events and ticks, clients of the play | prepare, close, publish, consume, cancel, connect, reconnect | RabbitMQ; feeds the tick cache |
| **Write lock** `servers/playlog-server/src/PlaylogWriteLock` | nothing: `Application` installs `NoLockClient`, which grants every lock | acquire, release | used by `PlaylogHandler` |
| **Server-side AMFlow** `ServerEngineAMFlow.ts` | authentication state of a session's flow | open, authenticate, send, on/off, close | validator, handler, request handler |
| **Play tokens** `PlayTokenValidator.ts`, `PlayTokenStore.ts`, `PlayTokenHolder.ts`, `PlayTokenEventConsumer.ts` | tokens in Redis, tokens in use per session | validate, revoke, update of permissions | Redis, AMQP events, system API server |
| **Session manager** `SessionManager.ts` | reservations with timers, started sessions | reserve, start, end, timeout | control events, dispatching table in Redis |

### 1.2 Around it

| part | what it does |
|---|---|
| **AMTP and sockets** `packages/amtplib`, `playlog-server-engine`, `playlog-client` | framing, sessions, channels and reconnection between client and playlog server |
| **Dispatching** `packages/dispatcher`, `dispatching-core`, `alive-monitoring-core` | takes a seat of a playlog server for a client: capacity and client counts in Redis, a POST to the server, rollback and retry with the next candidate |
| **AMQP plumbing** `packages/amqp-utils`, `playlog-amqp`, `playtoken-amqp` | connection and channel holders that reconnect, typed publishers |
| **System API** `servers/system-api-server`, `packages/akashic-system/src/Play` | plays, instances, tokens, permissions over REST; PlayManager starts, suspends and stops plays |
| **Cluster master** `servers/akashic-cluster-master`, `conduct-worker`, `instance-requester` | assigns game instances to processes, boots and reaps them |
| **Support** `akashic-active-record`, `redis-client`, `akashic-storage-core`, `akashic-rest-commons`, `callback-publisher`, `tapper`, loggers, API clients, `cluster-monitor`, `cluster-monitor-api-server`, `http-status` | persistence, REST scaffolding, monitoring pages |
| **Vendored** `master-agent-rpc/ext_libs` | Apache Thrift, the only C++ in the repository; third-party code, not modelled |

### 1.3 What is hard about it

* The store's callers are separate processes. `putTick`, the getters and
  `createArchive` each take several round trips to MongoDB, S3 and MySQL, and
  only createArchive, pruneActive and restore hold the play's row lock.
* A crash or a network error may end a call between any two of them.
* The metadata document is shared by callers that hold the lock and by callers
  that hold nothing; it is protected by an optimistic lock with three attempts.
* Ticks are delivered at least once, by several workers, in an order nobody
  guarantees, and are completed into the cache by asynchronous fetches that
  race with the live ticks.
* The store queue of a play is deleted by a worker that has looked at the write
  status, the message count and the consumer count at three different times,
  while a system API server may restart the play.
* A seat of a server is counted in Redis by a dispatcher, reserved over HTTP,
  started by a client, and given back by the server on one of three events;
  each can fail alone, and the server can restart in between.
* A token is validated, registered, revoked and updated by four asynchronous
  paths, two of them in another process, over a queue that does not survive a
  reconnect.
* Holders, caches and sessions are torn down while connects, fetches and
  authentications started by them are still under way.

What makes each part correct: the store must keep every tick it accepted and
answer every read of an archived play from complete data; the metadata must
lose no update; the worker must store every published tick before it deletes a
queue; a tick list must have no gap; what a flow publishes must be handed over once and
in order; a server must admit whom it gave a seat; a holder, a session and a token must not
outlive the one that closed or revoked them.

## 2 Modules

| module | models | composed with |
|---|---|---|
| `Playlog` | the promise of the store to its callers: one append-only playlog per play that can be sealed | refined by `PlaylogStore` |
| `PlaylogStore` | the facade over MongoDB, S3, metadata and the row lock, called by several processes | `INSTANCE Playlog` |
| `PlaylogStoreProofs` | proofs | extends `PlaylogStore` |
| `MetadataCell` | the promise of the metadata document: each update happens at once or not at all | refined by `PlaylogMetadata` |
| `PlaylogMetadata` | the optimistic lock on the document | `INSTANCE MetadataCell` |
| `PlaylogMetadataProofs` | proofs | extends `PlaylogMetadata` |
| `TickCache` | the cache of a playlog server with its reference count, the flows that read it and the holder that feeds it | - |
| `TickCacheProofs` | proofs | extends `TickCache` |
| `StoreWorker` | publishing side, store queue, write status and store workers of one play | - |
| `StoreWorkerProofs` | proofs | extends `StoreWorker` |
| `Outbox` | the promise of the holder to the flows: what they publish is handed over once and in order, at once or together later | refined by `AmqpHolder` |
| `AmqpHolder` | the RabbitMQ connection that the flows of a play share on a playlog server | `INSTANCE Outbox` |
| `AmqpHolderProofs` | proofs about what is published | extends `AmqpHolder` |
| `AmqpHolderResources` | proofs about consumers and connections | extends `AmqpHolderProofs` |
| `Dispatching` | dispatcher, counts in Redis, session manager of the playlog servers, their restarts | - |
| `DispatchingProofs` | proofs | extends `Dispatching` |
| `PlayTokens` | play tokens from the API server to the flows of a playlog server | - |
| `PlayTokensProofs` | proofs | extends `PlayTokens` |
| `MC*` | symmetry sets and constants for TLC | extend their component |

All components model **one play** (`PlayTokens` a parent play and its child).
Nothing in the code couples two plays on this path except the process they run
in, and a process that exits is modelled for the one play; seats are counted
for all plays of a server together, and the calls of `Dispatching` may be of
any.

### 2.1 PlaylogStore

State: `active`, the three MongoDB collections (ticks under the original key,
ticks under the key without ignorable events, start points), each from frame to
document; `archive`, the S3 object of each; the metadata flags `hasArchived`
and `shouldGetFromArchive`; `hasRow` and `lock`, the play's MySQL row and who
holds `SELECT ... FOR UPDATE` on it; and per client `pc`, its place in a call,
`at`, the collection a bulk loop has reached, `arg`, the call's argument, and
`snap`, what it has read so far. `overlap` is a history variable: the readers
under which a prune has started.

One action is one round trip. The checks (`CheckNotArchived`, `GetCheck`,
`RstCheck`, `ArcCheck`, `PrnCheck`) read a flag, and later actions rely on what
was read. `Fail` ends a call anywhere, as a crash, a lost connection or a
rejected promise would, and rolls the row lock back.

`ArchiveAfterDrain` says whether archiving starts only when nobody writes any
more. The code does not enforce it (`fetchArchivablePlayIds` goes by the last
access time); the runs use both values, and what needs it says so.

### 2.2 PlaylogMetadata

`doc` is the document with its `revision`; each client reads it, changes a
copy and replaces the document if the revision is still the one it read. A
refused replace is tried again, a limited number of times; the last refusal is
a conflict. The document is created by an upsert, which may collide with
another client's. Access times are bounded by `MaxTime`.

### 2.3 TickCache

A tick is its frame number. `ticks` is the sparse array of the cache;
`complementings` the fetches under way, each with those who wait for it and,
once the store has answered, with the answer. The answer is taken at one time
and applied at a later one, so live ticks, further requests, purges and closes
fall between. `flow` and `refCount` follow a flow through
`ServerEngineAMFlow.open`, `PlaylogHandler.prepare`, `PlaylogHandler.close`
and `RequestHandler.unref`; `holder` is the cache reference the AMQP holder
keeps, which a purge leaves behind destroyed and which an error of the holder
drops (`HolderFails`). A flow's `request` is `Asked` while the game code is
looked up and becomes a range when the flow waits for a fetch. Publishing is no
step: a tick may reach the store and the holder in either order. `delivered`
holds the lists the last step handed out, for the property. Requests of game codes that
exclude ignorable events bypass the cache and are not modelled.

`InOrderStore` says whether ticks reach the store in frame order. It is an
assumption that no part of the code guarantees: store workers share one queue,
and the playlog server that publishes a tick puts it as well, without awaiting
the put before (`PlaylogHandler.ts:646`, 698-701). The run `tick` and the proof
of `TickListSound` say what the cache makes of an ordered store, `tick_hole`
what it makes of any other.

### 2.4 StoreWorker

State: the exchange, the store queue with its binding, its ready and unacked
messages and its consumers; the write status; the API server's progress
through `preparePublishPlaylog` and `cleanupPublishPlaylog`; the ticks stored
in either version; and per worker the place in `onUpdate`, what it has read,
its two subscription maps and the message it is storing. The tick queue stands
for both store queues. Messages are a set, since no property here is about
their order. `Gone` is process.exit: RabbitMQ puts what was not acked back, and
a new process starts from nothing. Time is `changeClosingAt`: null, recent, or
expired once `Expire` has let the ten minutes pass.

`hasMessage` of a queue that is gone is refused with a 404, which closes the
channel. `unsubscribe` goes on at once, and `AmqpChannelHolder` makes a new
channel only in a timer (128-145), so the cancel is made on the closed channel
and the error handler of the worker ends the process: `HasMessage` is then
`Gone`, whatever `AllowExit` says. The `reconnected` listener of the store queue
is reached only by channels that fail of their own accord, and those are taken
as exits.

`PrepareFails` and `CleanupFails` are errors of the API server's own requests:
the first leaves the play not started, the second is only logged.

`AllowResume` lets a suspended play start again, `AllowExit` lets workers exit at
any step.

### 2.5 AmqpHolder

`state`, `connection`, `channel`, `pending` and the consumer tags are the fields
of `AMQPHolder`; `link` is what the broker knows of each connection and `listen`
which of them still have listeners. A *chain* is one call of `_connect` with its
retries and the `_doClose` before each: `chain[j].stage` says which promise it
waits for. The *closer* is `PlaylogHandler.close` of the last flow. One step is
one answer of the broker with the promise callbacks it releases, one failure
(`Break`, `BreakChannel`), or one call of a flow. `Break` may hit any
connection at any time, and a step of a chain then fails, retries and in the
end reports the error that destroys the holder.

`Outbox` sees of all this the messages given and handed over, and whether the
holder is destroyed: a message is put, put through or, when `_connect` ends,
handed over with all that wait.

Two history variables name the cases in which the code does not do what the
invariants say, so that these say it of all others:

* `crossed`: kinds for which consume and cancel requests overlapped on the
  present channel. Two consume calls within a round trip make two consumers
  (line 146), a consume during a cancel ends without one (141, 177), a consume
  of events when a chain is past that step is not taken up (284-289), a cancel
  during a consume leaves the consumer.
* `escaped`: a flow closed before its prepare was answered, or after it failed,
  stays in `_clients` so that the holder is never dropped
  (`ServerEngineAMFlow.ts:105`); the cancel of the last close was rejected, so
  the holder is never closed (`PlaylogHandler.ts:482`); a chain set a holder
  connected that was being closed (100, 299); an event of a closed holder's
  connection started a second chain (346, 253).

### 2.6 Dispatching

A dispatch call tries a server at most once and has a token of its own, so a
pair of call and server names one seat, and `seat` is its life: `undo` and
`seated` in `isProcessIncreased`, `posted` while the reservation is on its way,
`reserved` and `started` in the session manager, `leaving` and `left` between
the event and the two commands that give it back. Every Redis command of the
dispatcher may fail, carried out or not; a POST may be given up after 200 ms and
still arrive, or be lost. A server stops (its capacity entry is removed while
sessions close), crashes, and writes its entry anew. `crossed` is the set of
calls that straddled its last restart. Which servers are seen alive and which
are in the cache of excluded ones is any subset. A Redis command of the server
may be rejected too, carried out or not: that ends the handler of "end" or
"timeout", is logged as an unhandled rejection (`server.ts:111`), and the server
goes on. The seat (`orphan`) or the client count (`stuck`) is then not given
back, the former until the server writes its capacity anew, the latter for
good. Commands of a dead server do not arrive later. The session summary of
`PlaylogSessionObserver` is for monitoring and is left out: its increments are
not awaited, so it promises nothing.

### 2.7 PlayTokens

A permission is the number of the update that set it. Redis, the exclusive
event queue, the store of tokens in use, the flow's copy of the permission and
the `setImmediate` callbacks per holder are the state. GET and DEL of a
validation are two steps, and so are finding, deleting and publishing of a
purge. `Disconnect` loses the event queue with what is in it; `GiveUp` is the
uncaught error after which the process ends and another one starts.
Children hang on the token their session has of the parent play, one level
deep. `due` is the last update that reached a holder or its parent, `late` the
validations under way when their session closed, `missed` the holders that a
revocation passed by because they were not registered yet or the queue was
gone, `overtaken` the children that were updated by name while the callback of
an earlier update of their parent was waiting.

Two validations of one token at the same time both succeed, since the result of
DEL is not looked at, and only the first is stored; `UsedOnce` is what holds:
nobody reads the token after somebody was authenticated by it.

## 3 Runs

Every property of a passing run has a mutant: a plausible slip in the code that
makes TLC report that property.

| run | bounds | checks | shows |
|---|---|---|---|
| `store_drained` | 3 clients, one frame, two values, archiving after the writers | `TypeOK`, `ReadSeesArchive`, `ImplementsPlaylog` | the store refines `Playlog`; whoever reads an archived play sees the whole archive, unless a prune started under the read |
| `store_undrained` | 2 clients, archiving at any time, fairness | `ArchiveComplete`, `ArchiveFrozen`, `CallsEnd` | a play marked archived has all its objects, original ticks and start points among them, its archive is written once, every call returns |
| `metadata` | 3 clients, 4 calls, 3 attempts, times 0 to 2 | `TypeOK`, `ConflictJustified`, `ImplementsCell` | no update is lost; a conflict means others wrote at each attempt |
| `tick` | 2 flows, frames 0 to 1, fairness | `TypeOK`, `TickListSound`, `WaitersServed`, `GetAnswered` | tick lists have no gap, whoever waits waits for a fetch that can answer, every request is answered or rejected |
| `tick_hole` | 1 flow, frames 0 to 2, stored in any order | `TickListSound` | finding 1 |
| `worker_once` | 2 workers, 2 ticks, exits | `TypeOK`, `StatusTruthful`, `StoredOrQueued`, `PlayingKept` | no running play is closed or unsubscribed, no tick is lost before the stop |
| `worker_live` | 2 workers, 2 ticks, no exits but for a missing queue, fairness | `UndeliveredKept`, `TickInHand`, `TickStored`, `ClosedInTheEnd` | no tick is lost with the queue, ticks are stored, stopped plays are closed for good |
| `worker_resume` | 1 worker, resumed play | `PlayingKept` | finding 2 |
| `holder` | 2 flows, 2 chains, 3 connections, 1 retry, 2 messages, 2 consumer tags | `TypeOK`, `PublishedInOrder`, `NothingStranded`, `ConsumersMatch`, `LastCloseReleases`, `ImplementsOutbox` | through failures and retries messages are handed over once and in order and none is left behind; subscriptions are consumed again; the last close leaves no connection open, but in the named cases |
| `seats` | 3 calls, 1 server with 1 seat, 1 restart, fairness | `TypeOK`, `SeatsAccounted`, `AdmittedUnlessCrossed`, `DispatchEnds`, `SeatSettles` | counts are exact whatever command is rejected, reserved clients are admitted unless a call straddled a restart, every call ends and no seat stays in between for ever: it is a session, given back, or lost in a way the model names |
| `tokens` | 1 token, 1 session, 3 authentications, 2 updates, fairness | `TypeOK`, `ChildrenRevoked`, `LastUpdateStands`, `ClosedSessionSwept`, `UsedOnce`, `PurgeAccounted`, `PurgeTakesEffect` | revocation and updates reach children and late comers, but for the update that `overtaken` names, a closed session leaves nothing behind, a used token is not read again, a purge accounts for every flow at each moment and takes effect in the end |
| `tokens_permission` | the same | `PermissionInForce` | finding 3 |

**Bounds.** Two clients, flows or workers are the least that interleave; the
store has three in `store_drained`, for a writer, a reader and an archiver at
once. One frame per collection with two values is enough to tell a missing
from a present and an original from an updated document. Two frames are the
least with a live tick beyond a gap, and three (`tick_hole`) with a hole inside a
fetched range; the proof covers any number. Two ticks let one be stored while
the other waits. Three connections are a first one, one that fails during the
retry and one that works; two chains are the most that a close during a connect
and the reconnect after it make. One seat is the least a server can run out of,
and three calls let one hold it, one be rolled back and one arrive during
either. With a second server `seats` is beyond five minutes: a call's seats on
different servers share nothing but the call, and the proofs of
`SeatsAccounted` and `AdmittedUnlessCrossed` cover any number, while the two
liveness properties are checked for one server. Three authentications
are a parent, its child, and a second use of the token or a second child. Counters (`MaxFrame`,
`MaxTicks`, `MaxTime`, the attempts) end a behaviour only in what is published
or asked for; nothing is cut off in the middle of a call. Deadlock checking is
off only where the bounded inputs run out and nothing is left to do.

**Fairness.** The code awaits each request, and the drivers resolve or reject
it: weak fairness of every client's, flow's or worker's own next step, and of
the API server once it has begun a call. Nothing asks that a client starts a
call, that a tick is published or that anything fails. The row lock is granted
by strong fairness of each waiter, as InnoDB queues them. `Expire` is strongly
fair because the clock runs whatever the worker does and the worker pauses
between any two passes. In `Dispatching` the steps of a call, the commands and
timers of a running server, and the arrival or loss of a POST are weakly fair;
no client has to come, no session to end and no server to start again. A
command that is answered may be answered by a rejection. Calls and seats are
finitely many, so the two liveness properties say that from some time on all of
them are settled (`<>[]`). In
`PlayTokens` only the delivery of events and the callbacks are. `AmqpHolder`
states safety only: `NothingStranded` says that what is pending has somebody
under way to send it. Workers do not exit in `worker_live`: a worker that
always crashed before it acks would store nothing for ever.

## 4 Proofs

TLAPS proves, for any number of clients, workers, documents and ticks:

* `PlaylogStoreProofs`: `TypeOK`, `ArchiveComplete` and `ArchiveFrozen`; and, with
  `ArchiveAfterDrain`, `ReadSeesArchive` and the refinement
  `ImplementsPlaylog`. The inductive invariant says what
  each client's copy of a flag still means: a snapshot an archiver has loaded
  is what the database held (`SnapInv`), at most one client is between lock
  and commit (`LockInv`), the archiver and pruner inside the lock agree with
  the flags (`ArchiverInv`, `PrunerInv`), writers are gone once an archive is
  begun (`DrainInv`), archive and copies agree (`CopyInv`, `MirrorInv`), and a
  restorer or reader holds only what the archive has (`RestorerInv`,
  `ReaderInv`). None of the safety properties is inductive alone: each speaks
  of the flags, and what makes a flag trustworthy is where the others are.
* `PlaylogMetadataProofs`: `TypeOK`, that every step of the optimistic lock is
  a step of `MetadataCell` or a stutter, and `ConflictJustified`. The invariant
  says that a client's copy with the current revision equals the document but
  for its own change (`CopyInv`), that access times stay in their range
  (`AccessInv`), and that each failed attempt was overtaken (`RetryInv`).
* `TickCacheProofs`: `TypeOK` and `WaitersServed`, in whatever order ticks are
  stored and received, and `TickListSound` with `InOrderStore`. `ServeInv` is what
  needs no order: whoever waits for a fetch has all ticks before it
  (`WaitInv`), waits for one only (`OnceInv`), and waits for one at all, also
  when the cache was purged in between (`HeldInv`). A list cached or fetched is
  sound only for what was true when the fetch began, so `OrderInv` carries it
  along: the store has a beginning of the play (`StoredInv`), a tick is cached
  at its own frame (`TicksInv`), what a fetch brought back is a beginning of
  its range (`FetchInv`). The lemmas before say what the searches and loops of the code
  return: the first missing tick, a covering fetch, the walk back of `add`, the
  array with a fetched list written into it (`FilledIs`). `StoredInv` is the
  only part that needs `InOrderStore`; `tick_hole` breaks it. `RefInv` says that
  the reference count is the number of flows that are not closed.
* `StoreWorkerProofs`: `TypeOK`; for plays started once (`~AllowResume`),
  `StatusTruthful`, `StoredOrQueued` and `PlayingKept`; and, if besides no worker
  exits (`~AllowExit`), `UndeliveredKept` and `TickInHand`. `BeliefInv` is the
  heart: a worker that has seen the play closing, or is anywhere in
  `unsubscribeAndDelete`, is right that the play was stopped. With resumed
  plays it is false, which is what `worker_resume` shows. `ApiInv` ties the API
  server's progress to the status; `StageInv` says that a message reaches its
  ack only when both versions are stored. `EmptyInv` says that nothing is put
  into a queue that a worker has found empty of a stopped play, which a worker
  that exits would undo: its tick comes back between the look at the queue and
  the deletion. `KeptInv` says that no timer is set and no unsubscription begun
  for a play read as playing; the stale timer of `worker_resume` is where it
  ends. `HandInv` ties a delivered tick to the worker's two subscription maps
  and the broker's consumers (`SubscribedInv`), and says who cannot have one: a
  worker whose consumer went with a deleted queue (`LostInv`). So a deleted
  queue has nobody's tick but those being stored, and a worker that ends for a
  missing queue has none in hand.
* `AmqpHolderProofs`: `TypeOK`, `PublishedInOrder`, `NothingStranded` and the
  refinement `ImplementsOutbox`. What
  is sent and what is pending make up what was given only because nothing is
  published past a pending message; that rests on the holder being connected
  only when nothing is pending, and on a chain being under way whenever it is
  not, through retries, breaks and closes (the invariant of `Inductive`). The
  refinement needs it too: a publish goes straight through only where the
  outbox is empty, and the end of `_connect` hands over all that waits.
* `AmqpHolderResources`: `ConsumersMatch` and `LastCloseReleases`. For the first,
  `SettledInv` follows `_connect`: at each stage it says which kinds are settled on
  the present channel, that is, have one consumer if and only if they are
  started, or a single request that will make it so. For the second, a
  connection that is open is the holder's or belongs to the one `_connect`
  or the closer that will keep or close it (`OwnInv`), a holder that flows found
  stays in the map until it is destroyed or the closer has it (`CloserInv`), and
  its clients are the flows that have prepared and not closed (`ClientsInv`).
  Both hold but for `crossed` and `escaped`, as the
  invariants say.
* `DispatchingProofs`: `TypeOK`, `SeatsAccounted` and `AdmittedUnlessCrossed`.
  `CountInv` relates the numbers in Redis to the sets of
  seats they count; `GrantedOK` bounds the seats granted by the limit and the
  surplus that calls across a restart returned, which is what keeps the limit
  of the server from meeting a reserved client. The lemmas say how moving one
  seat from phase to phase changes each cardinality.
* `PlayTokensProofs`: `TypeOK`, `ChildrenRevoked`, `ClosedSessionSwept`,
  `UsedOnce`, `PurgeAccounted` and `LastUpdateStands`. The invariant says
  what the callbacks waiting for a holder will make of it (the last update among
  them is the one due, but for holders in `overtaken`), that children in the store have their parent's token,
  and that a token whose holder is done is gone from Redis. For a purge,
  `HandledInv` says that no call that has the token gets past its event: it has
  left Redis when the event is published, and each holder is then revoked,
  about to be, of a closed session, or in `missed`, whose members `MissedInv`
  keeps to calls that took the token before.

Each proof has one lemma per part of the invariant with one step per action,
then Init, then a temporal step by PTL. The assumptions are the named `ASSUME`s
of the component modules; TLC evaluates them in the runs.

Every safety property and every action property of a passing run is stated by
a theorem. Only model-checked: liveness (`CallsEnd`, `GetAnswered`, `TickStored`,
`ClosedInTheEnd`, `DispatchEnds`, `SeatSettles`, `PurgeTakesEffect`), since TLAPS
1.4.5 does not reason about fairness. Of three of these the safety half is
proved, what must not be lost on the way for the rest to be a matter of time:
`WaitersServed` for `GetAnswered`, `TickInHand` for `TickStored`, `PurgeAccounted`
for `PurgeTakesEffect`.

## 5 Findings

Each is a run that TLC ends with a counterexample to what the repository says
of itself.

1. `tick_hole`: ticks stored out of frame order, by two workers or by the
   puts that the playlog server does not await, are cached at
   the wrong frame, and a list with a hidden gap is handed out.
2. `worker_resume`: `changeClosingAt` is never cleared, so a resumed play is
   unsubscribed and closed while it plays.
3. `tokens_permission`: a permission update changes the token in use, and its
   flow goes on with the copy it made when it was authenticated.

What the models also show, and no run repeats:

* A put that passed the `hasArchived` check before an archive was made changes
  the play after it, and a prune loses it; this is why the refinement of
  `Playlog` needs `ArchiveAfterDrain`.
* A getter that looked at `shouldGetFromArchive` before a prune began reads
  collections that are being emptied (`overlap` in `ReadSeesArchive`).
* A play with no tick under the key without ignorable events is archived and
  pruned, and its restore hands the driver an empty `insertMany`, which is
  refused: `ArchiveComplete` says that the objects are there, not that a restore
  succeeds.
* A request that outlives its flow creates a cache that is purged only when the
  next flow of the play closes.
* A play is closed and its queue deleted while a tick is delivered and not yet
  stored, and the queue is deleted under a worker that subscribed between the
  count of consumers and the deletion.
* The seat of a reservation refused by the limit is not given back, which makes
  up for the seat too many that led to it.
* A POST that is lost, an `increaseClient` that fails, or a rejected command of
  the handlers in `Application.ts:275-287` loses the seat until the server
  restarts, or the client count for good.
* `docs/system-api-doc/reference/plays.md:720-722` says that the permissions of a
  child play are set by updating the parent and then the child by itself. When
  both events are received before the `setImmediate` of the first has run, the
  child ends up with the permission of the parent: the update that came first
  is applied last (`PlayTokenValidator.ts:396-407`; `overtaken` in
  `LastUpdateStands`, whose statement without that set TLC refutes).
* The cases of `crossed` and `escaped` in 2.5; and a connection that dies with
  the last answer of `_connect` leaves a connected holder on a dead connection
  until the next publish (`PlaylogHandler.ts:347`).

## 6 Limits

* `insertMany` and `deleteMany` are one step per collection; MongoDB makes no
  such promise for a crash of the server in the middle.
* A PUT to S3 that was given up and arrives later, and a MySQL connection that
  is lost while its client goes on, are not modelled.
* The payload of ticks and start points, frame ranges, limits and projections
  are abstracted, and so is the comparison of a tick that is stored twice.
* The update of the play's row after its write status is part of the same
  step; a failure between the two is not modelled.
* Dead-letter queues receive nothing. RabbitMQ itself does not lose a durable
  queue. A channel of a store worker that fails of its own accord is modelled as
  the exit of the worker, so what the `reconnected` listener does in several
  round trips (`AMQPPlaylogStoreQueue.ts:61-66`, 134-162) is not.
* A holder that is being closed while a new one for the same play connects is
  not modelled; in particular the error handler of the old one, which removes
  the new one from the map (`PlaylogHandler.ts:460`). A failed ack and the
  prefetch timer count as a failure of the channel. One channel per connection.
* Tokens: two plays, cascades one level deep, one user per token.
* Dispatching: the window between a server's removal from Zookeeper and its
  capacity is part of the arbitrary set of live servers.

## 7 Not modelled

* **AMQP plumbing** (`AmqpChannelHolder`, `AmqpConnectionManager`): what a store
  worker sees of a lost channel is taken as its exit. Two things in it stand out
  here: a channel that closes without an error is replaced without
  telling its users, and a rejected creation of a channel is handed to every
  later caller.
* **Start point cache, tick and event queue, write lock**: not used by any server
  (the last is a stub that grants everything).
* **AMTP and sockets**: framing and codecs, and a session state machine that
  carries no state of the playlog.
* **System API, cluster master, monitoring, REST and persistence helpers**:
  mostly one query per call, or systems of their own beside the playlog path.
  Of the play life cycle, starting and suspending are in `StoreWorker`.
* **Thrift** (`packages/master-agent-rpc/ext_libs`): vendored third-party code.

## 8 Plan

Done, each with its proofs: (1) the store and its metadata, (2) the tick cache,
(3) the store worker, (4) dispatching and sessions, (5) play tokens, (6) the
AMQP holder, (7) the safety properties that were model-checked only. What is
left, in this order:

8. Proofs: the safety half of `CallsEnd` (whoever waits for the row lock waits
   for a client under way) and of `SeatSettles` (every seat that is not settled
   has a step of the call, the server or the network to come), and an abstract
   counter of seats that `Dispatching` refines.
9. The channel holder, and the store worker on top of it instead of exits.
10. Two holders of one play, one closing while the other connects.
11. The rest of the play life cycle; the cluster master.
