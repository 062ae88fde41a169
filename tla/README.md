# procmesh-js in TLA+

Specifications of procmesh-js, a broker for the processes of one machine: cache and
atomic counters, locks, RPC, publish/subscribe, one broker process elected by binding a
Unix socket, clients in all the others. The modules are translated from `src/src/*.js`;
line numbers in comments and in `PROJECT.json` refer to those files.

## 1. The system

| Component | State | Operations | Hard part |
|---|---|---|---|
| Lock service (`locks.js`, `broker.js`) | per key: owner, token, TTL timer, queue; fence bar; token counter and its reservation on disk | LOCK, UNLOCK, FSET/FCAS/FDEL, TTL and wait timers, connection close, restart | timers racing requests and closes; late writes of a former holder; tokens across crashes |
| RPC (`broker.js:832-937`, `client.js`) | handlers of a name with their in-flight counts; pending calls with a timer; the client's request table | REGISTER, UNREGISTER, CALL, INVOKE, RESULT, both timeouts, close of caller or worker | a late result, a worker that leaves with calls in flight, counts that drift |
| Lock client (`client.js:724-800`) | request table, late-answer table | lock, release, withLock, fenced writes | a grant that arrives after the request timed out |
| Persistence (`persistence.js`) | log queue, write in flight, snapshot, reservations | log, drain, sync append, compaction, load, close | crash between any two steps, torn records, order of the two write paths |
| Pub/sub (`broker.js:547-830`, `client.js:222-270, 409-440, 531-660`) | channels, patterns, retained rings, offsets, dedup window; the client's watermarks | SUBSCRIBE, UNSUBSCRIBE, PUBLISH, replay, retry, recovery | duplicates and gaps over reconnect, retry and restart |
| Client connection (`client.js:100-400`) | peer, attempt, request table, timers | connect, spawn, handshake, close, reconnect, keepalive | an end of the link in any stage of the handshake, requests that outlive their link |
| Election (`broker.js:189-260`, `transport.js:86-130`) | socket file, PID lock file | bind, probe, take over a stale socket, unlink | two processes starting at once over a dead broker's socket |
| Store (`store.js`) | entries with expiry | get, set, incr, cas, sweep, dump, load | expiry against counters and the sweep |
| Sharding (`sharded-client.js`, `hashring.js`) | one client per shard, `_allUp` | routing, connect, subscribe to a pattern, merged events | a part of a fan-out fails, while links come and go |
| Wire protocol (`protocol.js`) | partial frame, send buffer | push, send, drain | frame boundaries, slow consumers |
| Broker lifecycle (`broker.js:976-1121`) | idle, heartbeat and stats timers | sweep, idle close, close | order of close against persistence and the socket |
| Codec, errors, index, CLI | none | | not modelled: no state of their own |

What makes each part correct:

- Lock service: one holder per key, first come first served, nobody queued for ever, no
  token twice, no write by a holder that was superseded, a release that frees its own grant.
- RPC: one answer per call, to its caller, from the worker it was given to; every call
  settles; counts that agree with the calls pending, no session in a table after its close.
- Lock client: what the service granted is either held by the caller or handed back.
- Persistence: recovery gives a recent state, and after a planned end the last one; what
  was acknowledged as durable is there; no offset and no token is used again.
- Pub/sub: a subscriber that stays sees each retained message once and in order, over
  reconnects, retries and restarts of the broker.
- Client connection: one live link, every request settles, registrations and subscriptions
  are those the program asked for.
- Election: at most one broker listens on the path and writes the directory; a dead one's
  remains do not keep the next from starting.
- Store: nothing is read after its expiry, increments keep it, limits hold.
- Sharding: who has the handle of a pattern is subscribed on every shard, who has not on
  none; the mesh says it is up when it is, once.
- Wire protocol: every frame is delivered once and whole, in order.
- Broker lifecycle: an idle close ends no client's work, and persistence closes last.

The broker handles every message, timer and close callback on one event loop, so a
handler is one atomic step and the interleavings are those of the handlers. Clients and
brokers exchange frames over one FIFO stream per connection; the close of a connection
loses what was in flight, in both directions. `PROJECT.json` ("hazards") lists where this
code is hard to test, each at its line.

## 2. Modules

| Module | Models |
|---|---|
| `FencedMutex` | what one lock promises: one holder, growing tokens, writes from the newest grant only |
| `LockManager` | the lock service of one broker, over its restarts |
| `LockClient` | `lock()` and `release()` of clients over connections that break, composed with `LockManager` |
| `Rpc` | one procedure: the broker's pool of workers, and both ends of its calls in the clients |
| `Persistence` | snapshot and append-only log, the cache and the retained messages they restore |
| `PubSub` | channels that retain messages, and the subscriptions of a client over lost links and restarts |
| `Producer` | idempotent publishes with their retries, and the window in which the broker knows them again |
| `Election` | which process becomes the broker of an address, and what it leaves behind |
| `TtlStore` | what the key-value store promises: each command acts at one instant, on what has not expired |
| `Store` | the store with its sweep, the commands on it and the records they log |
| `Link` | the connection of one client, and the broker it spawns |
| `Sharding` | one client per shard: what needs all shards at once |
| `...Proofs` | the theorems of a module: `LockProofs` (of `LockManager` and `LockClient`), `RpcProofs`, `StoreProofs`, `PubSubProofs`, `ProducerProofs`, `LinkProofs`, `ShardingProofs`, `PersistenceProofs` |
| `MC...` | small instances: `MCLockManager`, `MCLockClient`, `MCRpc`, `MCPersistence`, `MCPubSub`, `MCProducer`, `MCElection`, `MCStore`, `MCLink`, `MCSharding` |

`LockClient` EXTENDS `LockManager`, and its steps are steps of it or leave it unchanged, so
what is proved of the one holds in the other. The others share no variable. Where components
meet, a module contains of the other what it needs: `LockManager` the reservation of tokens
of `persistence.js`, on a disk whose writes succeed; `PubSub` and `Producer` of a restart
what `Persistence` shows of it (synced messages come back, any of the others may, offsets go
on above all that were used); `Rpc`, `PubSub`, `Producer`, `LockClient` and `Sharding` take
of the connection what `Link` shows: one link at a time, and requests that end with it;
`Link` takes of `Election` that a process which starts either serves or finds a broker that
does; `Election` has of the persist dir only who uses it.

### LockManager

`owner`, `token`, `armed` (the TTL timer) and `waiters` are the fields of one entry of
`LockManager.locks`, a key without an entry having `owner = NoConn`. The queue is a set
with the number of each push in `arrival`: `shift()` takes the least one. `fenceHigh` and
`fenceFloor` are the fields of that name, `nextToken` is the broker's counter and
`reserved` both `persist.tokenReserved` and what a restart reads from the log (the record
is written and synced before the token is used). `value` is the state the lock guards,
reduced to the token of its last fenced writer. `status`, `granted` and `born` record what
each LOCK request was told, and are read by properties only; `status` also keeps a request
from being sent twice.

| Action | Code |
|---|---|
| `Acquire` (`AcquireFree`, `AcquireExhausted`, `AcquireRefused`, `AcquireWait`) | `acquire`, `locks.js:30-54`, with `_grant` and the token counter |
| `Unlock`, `Expire` over `FreeLock`, `HandOver`, `HandOverExhausted` | `release` and the TTL timer over `_release`, `locks.js:61-67, 93, 97-118` |
| `WaitTimeout` | the wait timer, `locks.js:46-50` |
| `Open`, `Close` | `_onConnection`; `_onClose`, which runs `releaseAll` (`locks.js:70-82`) |
| `FencedWrite` | FSET, FCAS, FDEL behind `_fence`, `broker.js:393-403, 528-544` |
| `Restart` | the end of the process at any point, and `start` (`broker.js:167-176`) |

A timer may fire whenever it is armed: time itself is not modelled, so the properties hold
for any TTL and wait. An exception thrown in a timer or close callback ends the process,
which is `Restart`; in `acquire` and `release` it is answered with an error and the half-done
state stays (`AcquireExhausted`, `HandOverExhausted`). A connection belongs to one
incarnation of the broker, so a restart closes all of them.

### LockClient

A LOCK request is one call of `lock()`. `task` is what its caller knows: `asked` while it is
in `client.pending`, `gaveUp` while it is in `client._late`, `has` from the grant to the call
of the release function. `toBroker` is the stream to the broker, in order; answers are a set,
since their order tells a client nothing.

| Action | Code |
|---|---|
| `Connect`, `LoseLink` | a link, or the next; `_onClose` of the client, which rejects what is pending and forgets what is late |
| `Lock`, `GiveUp`, `Resolve` | `lock`, its timer, its answer in time (`client.js:724-741`) |
| `ResolveLate` | `onLate`: a late grant is handed back (`client.js:729-734`) |
| `Release` | the release function, over whatever connection the client has by then |
| `Read`, `TimerFires`, `Hangup`, `BrokerRestart` | the actions of `LockManager`, with the answers they send |

Abstractions: a late handler is kept until its answer comes, where the code forgets it after
`max(timeout, 30 s)`; connections and the slots of a connection are taken in turn; the fenced
calls and `withLock` are left out, since `FencedWrite` of `LockManager` takes any granted
token at any time.

### Rpc

A session is one socket. Its two streams are FIFO, its two ends close one after the other,
and what is in a stream when its reader closes is lost. A client has a current session
(`peer`), and may keep an older one that is still closing: replies and closes of the wrong
session are what several of the client's checks are for.

`workers`, `inflight` and `pending` are the broker's fields; a session that has no entry in
the `inflight` map has 0 here, since the code reads it with `|| 0`. `call` is the client's
request table and remembers what became of each call. `jobs` are handlers that run:
`_onInvoke` between its `await` and its reply.

| Action | Code |
|---|---|
| `Connect` | `connect`, the reconnect timer and `_replay` |
| `ClientCloses` | `_onClose` of the client, which rejects what is pending on the current link |
| `BrokerReceives` | the handlers of REGISTER, UNREGISTER, CALL (`Refuse`, `Dispatch` over `LeastBusy`) and RESULT (`Settle`) |
| `ExpireCall` | the broker's timer of a call |
| `BrokerCloses` | `_onClose` of the broker: the pool, the calls of the session, the calls it worked on |
| `Restart` | the broker dies and another one starts; call ids start over |
| `Toggle`, `SendCall`, `CallTimeout` | `register` and `unregister`, `call`, the client's own timer |
| `ClientReceives` | INVOKE (`StartJob`) and OK/ERR (`TakeAnswer`) |
| `FinishJob` | the handler is done: the reply, if the link it took is still current |

Abstractions: one procedure name (names share only the table of pending calls, whose
entries are found by id); the HELLO handshake is part of `Connect`; arguments, results and
the wording of errors are left out; a timer may fire any time. `register()` twice in a row
has no effect on the broker, so `Toggle` alternates. `Overlap` says whether `connect()` may
be called while a reconnect is scheduled, which the client's code does not prevent; it is
FALSE in the runs (section 3 says what TRUE does).

### Persistence

The broker's operations (`Set`, `Update`, `Delete`, `Clear`, `Publish`) change the memory
and log a record; a value is the number of the operation that wrote it. The interleavings
are those of the event loop with the thread pool: an asynchronous write is issued
(`Drained`), lands in the file at a moment of its own (`WriteLands`), and has its callback
later (`WriteReturns`); meanwhile handlers run and may append synchronously.

| Variable or action | Code |
|---|---|
| `persist` | the fields of `Persistence`; `writing` and `batch` are the flag and the buffer of the write in flight |
| `snapshot`, `log`, `synced` | `snapshot.bin`, `aof.bin` as a sequence of whole or torn frames, and how much of it would survive a power loss |
| `value`, `ring`, `nextOffset` | the store, the retention ring of one channel, `broker.nextOffset` |
| `Log` | `logMutation` and `logPublishSync`, with the synchronous append of a reservation before it |
| `RunCompact`, `Compact` | `_runCompact` on the turn after `_maybeCompact`, and `_compact` |
| `WriteLands`, `WriteReturns` | the system call, which may fail or end short; its callback: requeue, a compaction that waited, the next write |
| `Close`, `FinishClose` | `flushAndClose` before and after the wait for the write in flight |
| `Kill`, `PowerLoss` | the end of the process; the end of the machine, which keeps the synced part of the log and some of the rest |
| `Load` | `load`: snapshot, records, snapshot again, truncation |
| `Lapse` | the clock passes an expiry |

Every step that takes several system calls (a compaction, a close, a recovery) may die
between the rename of the snapshot and the truncation of the log. `past`, `landed`,
`durable`, `acked`, `minted`, `planned` and `failed` are history for the properties.

Abstractions: one channel; an expiry may pass at any time; a handler is atomic towards
crashes, so a reply and its record are not told apart (the hazard at `broker.js:530` is
about that); the torn end that a kill leaves is dropped at once, because recovery ignores it;
a frame that is torn *inside* the log ends recovery there (`Readable`), though the decoder
could also misread what follows; the truncation of the log is taken to reach the disk with
it. Left out: the `snapshotInterval` timer, which calls the same `_runCompact`, quarantine
of corrupt files, and the lock of the directory.

### PubSub

One client and one broker, over a stream in each direction. Messages are numbered in the
order of their publication, `id`, so that properties can compare them over incarnations of
the broker whose offsets start over.

| Variable or action | Code |
|---|---|
| `ring`, `nextOffset`, `reserved`, `epoch`, `offsetBase` | `pubRetention`, `nextOffset`, `persist.offsetReserved`, `epoch`, `offsetBase` of the broker |
| `trimmed` | the records of the log whose messages retention has evicted from memory: they stay on record until a compaction |
| `link` | the stages of `_open`: `hello` from the opening of the socket (`connected` is true), `welcome` from the frame to the `await` of HELLO running on, `replaying`, `up` |
| `subs` | `conn.subs` of the client's connection, and with it its entries in `channels` and `patterns` |
| `subscriptions`, `offsets`, `replayOpts`, `seenEpoch` | the client's maps of these names (the keys, for two of them), and its `_epoch` |
| `visited`, `awaited` | how far the loop of `_replay` has come, and the request it waits for |
| `resumes` | answers whose `await` has not run on: frames of the same chunk are handled before |
| `Publish` | PUBLISH: offset, `_persistPublish`, `_retain`, `_publish` with its droppable frames |
| `Prune` | `_pruneRing`, from the sweep or a replay |
| `Compact` | `_compact`, from whatever triggers it |
| `BrokerReceives` | HELLO (`Greeted`), SUBSCRIBE with `_replayTo` (`Backlog`), and UNSUBSCRIBE |
| `ClientReceives`, `Resume` | `_deliver`; the rest of `subscribe` and of a turn of `_replay`, with `_recordBaseline` |
| `Subscribe`, `Unsubscribe` | the calls of the program |
| `Open`, `Adopt`, `Replay` | the socket opens and HELLO goes out; `_adoptEpoch`, once the `await` of HELLO runs on; the loop of `_replay` |
| `Break`, `Restart` | the end of the link; the end of the broker and `start` of the next, which retains the newest of what it finds on record (`Logged`, `_recoverPub`) |

Abstractions: a broken link closes both ends and
loses both streams at once, since what one end still does with a link the other has left
reaches nobody; a request that times out, HELLO too, is taken for a broken link; each
subscription has one handler; `replay: N` is left out, as is the limit on the number of channels. The program
awaits its own calls about one subscription before the next. It cannot await those of
`_replay`: with `Interrupts` it may unsubscribe in the middle of one, which goes wrong
(section 3) and is FALSE in the run. `from` is where the debt of the broker to a subscription begins:
at its first message with replay, else at the answer to SUBSCRIBE. `early` and `returned` mark
the two cases in which the code does not keep a property (section 3): subscriptions that were
given a message of another epoch before it was adopted, and messages that a restart brought
back after retention had evicted them.

### Producer

One client publishes to one channel. A message is its sequence number; `status` and `attempt`
are where its `_publishWithRetry` is. `hi` and `seen` are the fields of the broker's dedup
entry of a producer id, `log` the messages it accepted.

| Action | Code |
|---|---|
| `Publish`, `Timeout`, `Retry`, `GiveUp` | `publish` and `_publishWithRetry`: an attempt, its timer, the next after a delay or a reconnect, the deadline |
| `Connect`, `ClientReceive`, `Break` | HELLO with the producer id; WELCOME and OK; the end of a link |
| `BrokerReceive`, `BrokerReceiveLate` | HELLO and PUBLISH, with `_dedupSeen`; the rest of a broken link's stream, read late |
| `Restart` | `_recoverPub` rebuilds the window from the messages on disk, whose oldest and newest may be missing |

`Spread` is how far apart publishes under way at once may be; `EarlyPublish` says whether the
program may publish before its first WELCOME. Both are assumptions about the program, and
section 3 says what happens without the second. The client's clock is left out: a deadline may
pass at any time.

### Election

Each process is in one place of `start`, `_bind`, `tryPidLock` or `close` (`pc`), one system
call a step. The socket file (`sock`), the two PID files (`holder`, `blank` while the PID is
not written) and the sockets that listen are shared. JavaScript runs to its next `await`, and
nothing keeps other processes from running between two system calls of such a stretch. With
`SyncRaces = FALSE` they do not: who is in the middle of a stretch keeps the turn (`Turn`),
though it may be killed there. This is a restriction of the run and no guarantee of the code;
section 3 says what breaks without it.

| Action | Code |
|---|---|
| `Spawn`, `Create`, `Write`, `Check`, `Reclaim` | a process starts; `tryPidLock`, `transport.js:86-118`, for the persist dir and for the cleanup |
| `Bind`, `Listen`, `Probe`, `Cleanup`, `Rebind`, `Release` | `_bind` and `_tryListen`, `broker.js:189-260` |
| `Close`, `Flush`, `Unlink` | `_close`, `broker.js:1056-1085` |
| `Crash` | kill -9, at any point, also between two system calls of a stretch |

The PID in a file is not used again by another process while the file is there: such a process
of the model cannot be spawned (`Spare`). A probe gets its answer, and Windows pipes are left out.

### Store

`cache` is the `UnboundedTtlMap`: entries, their order (the pairs of which the first was stored
before), the count of those with a TTL, the sweep's timer and the keys its live iterator has yet
to visit. A command is one step that reads the clock up to four
times; `Moves` lets a millisecond end before any of them. `logged` is what a recovery would
rebuild from the records. `TtlStore` states each command at one instant between its first
reading of the clock and its last; `ImplementsTtlStore` is the step simulation under the
mapping that hides what has expired, command by command, and excludes only an update whose
value expires between two of its own readings. The bounded backend (`lru-cache`), `maxSize`,
and values that are not numbers are left out.

### Link

One client, with one `_doConnect` at a time (`doing`), whose socket is `via`; `peer`, `timer`,
`enabled`, `closed` and `pending` are the client's fields, requests with the socket they were
sent over. A socket is open at the client (`open`), waits at the broker (`backlog`) or is
accepted there (`conns`); the broker is starting, serving, or gone, and `idle` is its timer.

| Action | Code |
|---|---|
| `ConnectCall`, `TimerFires`, `Dial`, `Connect`, `Refused`, `DialClosed` | `connect`, the reconnect timer, the loop of `_doConnect` and `_open`, with the broker it spawns |
| `Welcome`, `Replayed`, `Barred` | the handshake, and a token that is rejected |
| `Ask`, `Ping`, `Answered`, `TimesOut` | `_request`, keepalive, and how a request ends |
| `LinkLost`, `Close` | `_onClose`, `close` |
| `Listen`, `Accept`, `Hangup`, `Reap`, `IdleFires`, `Stop` | the broker: start, `_onConnection`, `_onClose`, the sweep of silent connections, the idle timer, the end |

The heartbeat is not counted: a connection may be reaped at any time. Of the requests of
`_replay` one stands for all. Back-off times are left out. The program leaves a reconnect that
is under way alone: a `connect()` beside it opens a second link (section 3).

### Sharding

Per shard the client's connection in stages (`link`, connected from `hello` on), who has it
connect, its handlers of one pattern (`table`), the two streams of the link and the broker's
side (`subs`). Above them `_allUp`, the `connect()` under way with the clients it waits for,
and each `subscribe()` of the pattern with its part on each shard.

| Action | Code |
|---|---|
| `Subscribe`, `Off` | `subscribe` on every shard and the function it returns |
| `Answered`, `TimesOut`, with `Answers` | a part of it settles; with the last one `Promise.allSettled` gives the handle, or undoes what succeeded |
| `ConnectCall`, `Open`, `OpenFails`, `Welcome`, `Replayed` | `connect` and what its clients do, with the events of the last handshake (`Greeted`) |
| `HandshakeFails`, `LinkLost`, `Close` | the ends of a link, of which one emits nothing; `close` |
| `Serve` | SUBSCRIBE and UNSUBSCRIBE |

A link ends at both ends at once. Operations on one shard are the plain client's. The
splitting and joining of `mget`, `mset`, `keys` and `stats` keep no state and are left out.

## 3. Runs

| Run | Instance | Shows |
|---|---|---|
| `LockContention` | 2 connections × 2 requests, 1 key, persist dir, 1 restart, fair timers | FIFO, unique tokens over restarts, fencing, release of the own grant only, refinement of `FencedMutex`, every waiter is answered |
| `LockLink` | 2 clients, 2 connections × 2 requests, 3 calls of `lock()`, no persist dir, 2 tokens, 1 restart, fair links | one holder, nobody stranded when tokens run out, no grant that nobody will release, handing back harms nobody, abandoned locks are freed before their TTL |
| `RpcSession` | 1 client calling itself, 2 calls, 2 sessions, 2 registrations or removals, 1 restart | an answer belongs to its call and comes once; counts are never pinned |
| `RpcPool` | 2 workers, one also the caller, 2 calls, 2 sessions, 1 restart, fair | every call settles, without the caller's timer |
| `PersistLog` | 1 key, 3 operations, 2 crashes, 1 fault, modes `everysec` and `always` | recovery is recent, planned restarts lose nothing, synced messages survive, none twice, no offset again |
| `PubSubResume` | 1 client, a pattern over 2 channels, 3 messages, retention 1, 1 break, 1 restart with or without persist dir, 3 calls | once settled, each subscription has every retained message due to it; in order, none twice (but for the two cases in section 3); no watermark above what was minted; both sides agree on the subscriptions |
| `ProducerRetry` | 3 messages, 2 at once, window 2, 1 retry, 2 breaks, 1 restart | a message is accepted once, what resolves was accepted |
| `ElectionRestart` | 4 processes, with and without a persist dir, 2 kills, 2 closes, fair | a persist dir has one writer, clients find a broker again |
| `StoreTtl` | 2 keys, TTL 0 or 1, clock to 2, values to 2, batch 2, fair sweep | the count behind the sweep is right, the log agrees with memory, refinement of `TtlStore`, what expires is purged |
| `LinkLife` | 1 client, 3 sockets, 1 request, 2 attempts, 4 faults, token accepted or not, fair | no socket beside the link, no request waits on a link that is gone, the client comes back, no broker is orphaned |
| `ShardPattern` | 2 shards, 2 handlers, 3 breaks | a handle covers every shard, nothing is left where a call succeeded or was given up, one announcement per outage |
| `PersistJump` | violation | a synced message jumps ahead of one in a write; recovery drops the older as a repeat (`persistence.js:221-222`) |

The violation run checks the one property that the quoted line states, on an instance as
small as shows it.

Bounds. *Locks*: two requests each reach every order of grant, queue, hand-over (also to
the same connection), timeout and close; `TokenBlock = 2` makes grants cross blocks;
`MaxToken` stands for `Number.MAX_SAFE_INTEGER`, out of reach but in `LockLink`, where it is 2
so that tokens run out in `acquire` and in a hand-over. A connection that owns several locks
is not in the runs, which have one key, and is in the proofs. *Lock client*: three calls are a
holder, a waiter behind it and one that comes after a hand-back; the two connections can
belong to one client, one after the other. *RPC*: two sessions of one client are
a link and its successor; with two clients, the loss of either; two
calls are the least for a count to be wrong, and for a call id that repeats after a
restart to meet a late result. *Persistence*: keys are independent but in CLEAR, which one
key shows; three operations put one record in flight, one in the queue and one ahead of
them; two crashes allow one inside the recovery from the other; `Retention = 2`,
`OffsetBlock = 2` and `AofRewriteOps = 2` make three operations cross each limit.
*Pub/sub*: with three messages and a
ring of one, one is evicted, and one channel's may be newer than the other's; three calls are
subscribe, unsubscribe, subscribe; a break and a restart can fall into the handshake or the
replay that follows the other, and the restart can lose the message that evicted another. The
channels are symmetric there. *Producer*: the third message moves a
window of two past the first; with two breaks there is a late stream beside a link in use,
and with the restart a retry of what was recovered. *Election*: of four processes two can be
dead with their files in place while two start over them. A broker whose socket another one
unlinked keeps its process for good there, and so does a PID in a file: with four of them all
may be used up, which `EventuallyServed` excepts. *Store*: two keys make a sweep that
a batch interrupts, and a clock that reaches 2 lets a TTL of 1 pass before, in and after a
command. *Link*: four faults are a broken handshake, a lost link, a broker that stops, and one
more in what follows; `MaxAttempts = 2` is refused, spawn, accepted or refused again; three
sockets are the current one, its predecessor the broker has not let go, and the next.
*Sharding*: with two handlers a pattern is subscribed, joined and left in any order; three
breaks put a failure into a `subscribe()`, one into the reconnect that follows, and one on the
other shard.
Operations, requests, sessions and faults are finite, so behaviours end and deadlock is not
checked. `HolderIsNotFenced` is checked with a persist dir only: without one, a token of
before a restart may lie above the bar of another key's live holder and raise it.

Fairness. `FairSpec` of `LockManager` asks that the TTL timer of an owned lock eventually
fires, as `setTimeout` does. `MeshFairSpec` of `LockClient` asks that frames and answers are
read and that each end notices the end of the other, and no timer: abandoned locks are freed
without. `FairSpec` of `Rpc` asks that both ends read what has arrived,
that a client notices a close by the broker, and that the broker's timers fire: the event
loop, TCP and `setTimeout`. That of `Store` asks for the sweep's interval. That of `Link` asks
for the steps of both event loops, the reconnect timer, and, once the client is closed, the
timers of its requests and the broker's idle timer (a positive `idleTimeout`). That of
`Election` asks that a process which gets its turn again and again goes on (the strong form,
since the turn is the model's), and that clients which find no broker spawn one (`autoSpawn`).
Nothing is asked of handlers, of lock holders, of the clients'
own timers, or of any link to stay up; `Link` bounds what goes wrong while the client wants
its link, so that there is an end to it.

### Where code and documents differ, without a run

Each was met while modelling. Where a property and a setting are named, TLC finds it violated
in the instance of the run named; the runs leave these cases out, by the constant or by what
the property excludes.

*Locks*

- A task that keeps its release function over a restart of a broker without a persist dir may
  free another task's lock: tokens start over, and its UNLOCK goes over the client's new
  connection (`client.js:748`; `README.md:207-208` says a release only frees its own grant).
  `ReleaseFreesOwnGrant` fails with one client, two connections, `MaxLocks = 2`,
  `MaxToken = 100` in `LockLink`. For the same reason tokens from before a restart pass the
  write gate again once the counter has caught up (`README.md:231-233`).
- A holder whose lock expired writes on until the lock is granted again, since an expiry alone
  issues no token (`broker.js:397`); `README.md:216-217` says its writes are rejected. Hence
  `SupersededIsFenced` speaks of superseded holders.
- When tokens run out, `_grant` throws after the owner was assigned, and the lock stays owned
  with no TTL timer (`locks.js:85`): the exception in `OwnedLockExpires` and `AbandonedIsFreed`.
- A TTL above 2^31-1 ms makes `setTimeout` fire after 1 ms (`locks.js:93`). Time is not
  modelled; a timer may fire whenever it is armed.

*Connections*

- `connect()` while a reconnect is scheduled: the timer opens a second link over the first
  (`client.js:319` does not look at `connected`), and a call that arrives on the first is
  answered on the second, against `client.js:450`. With `Overlap = TRUE` and `MaxSession = 3`
  in `RpcSession`, `ReplyOnArrivalLink` fails. A program that calls `connect()` again after
  it was rejected may meet this: when the link breaks in the handshake, `_onClose` has
  scheduled a reconnect too.
- "A rejected auth is fatal — don't loop reconnecting with a bad token" (`client.js:175`): the
  `catch` of the reconnect timer (`client.js:324-326`) sets the timer again whatever
  `reconnectEnabled` says. `RejectedStops` fails in `LinkLife`.
- After `close()` pending requests are not rejected: they wait for their own timers
  (`client.js:823` drops the peer before its close event could reject them).

*RPC*: after `unregister` and `register` a busy worker counts 0 and is preferred
(`broker.js:848` against 852). `DispatchToLeastBusy` fails in `RpcSession` with two workers.

*Pub/sub*

- With overlapping subscriptions, a message brought in by a pattern makes the client skip the
  backlog of a subscription to its channel, at subscribe time or after a reconnect
  (`client.js:421`; `README.md:162` promises all retained). `CaughtUp` fails with
  `Matches <- MCOverlap`, both subscriptions, two messages and retention 2, without any break.
- `unsubscribe` during `_replay` leaves a watermark that hides the backlog of a later
  subscription (`client.js:237` against 561-563). `CaughtUp` fails with `Interrupts = TRUE`.
- "Delivered exactly once" (`README.md:168`): `connected` is true from the opening of the socket,
  so a `subscribe()` in the handshake with another incarnation is answered right behind WELCOME.
  What comes in the same chunk is delivered before the `await` of HELLO runs on (`client.js:167`);
  `_adoptEpoch` then lowers the watermark it has set to `offsetBase` (`client.js:256`), and
  `_replay` has it sent and delivered again, with a persist dir or without. `InOrderOnce` without
  the exception of `early` fails in `PubSubResume`.
- Retention trims the memory and leaves the record in the log (`broker.js:726-727`). When a synced
  message was evicted by one whose record is lost in a crash, recovery retains the synced one
  again (`broker.js:741-751`), at or below the watermark of a client that was given the other:
  it is retained and not delivered, against `README.md:167-168`. `CaughtUp` without the exception
  of `returned` fails in `PubSubResume`.
- A publish between the opening of the first socket and its WELCOME goes out without a
  producer id, and is accepted without an entry in the window (`client.js:592`, against the
  comment at 620-624). `AcceptedOnce` fails with `EarlyPublish = TRUE`.

*Persistence*

- A write that ends short: a synchronous append, or a compaction that has waited, comes before
  the rest of the frame, against `persistence.js:328`. `LogIsWhole` fails in `PersistLog`,
  which is why the properties of recovery except a log that `failed`.
- Recovery skips an expired record and brings back the value it had replaced (`store.js:372`,
  against `persistence.js:10-11`). `ExpiredStaysExpired` fails with `Timed = {TRUE}`.

*Store*

- An update whose value expires between the two readings of the clock stores it anew without
  expiry, against `store.js:322-323`. `CounterKeepsExpiry` fails in `StoreTtl`.
- With more new keys from one sweep to the next than a batch, the live iterator never comes
  back to an expired entry (`store.js:77-78` says it cannot leak). `ExpiredIsPurged` fails with
  `Batch = 1`.

*Election*

- A process that finds the address in use and the socket dead unlinks it in "one critical section
  across processes", so that nobody unlinks a live socket (`broker.js:217-220`). The section ends
  with its process: one is killed after it has unlinked the stale socket and before it binds
  (`broker.js:226-231`); the next takes the lock over and finds nobody at the address; before it
  acts on that a third, which needs no lock to bind a free address, binds and listens; its socket
  is unlinked. `LiveSocketStays` fails in `ElectionRestart` without a persist dir, with two kills
  and no close.
- `close()` unlinks the address after its server has stopped, whoever has bound it by then
  (`broker.js:1080`, against the comment at 1077). `LiveSocketStays` fails there with two closes
  and no kill, too.
- Two processes between whose system calls others run may both hold a PID file: one that is
  created and not yet written is taken for stale (`transport.js:92`). They may also both bind: a
  socket that is bound and does not listen yet is taken for dead. `OneWriter` fails with
  `SyncRaces = TRUE`, and so does `LiveSocketStays` with a persist dir, whose lock keeps
  all others from the address otherwise.

Hence no run checks `LiveSocketStays`, no theorem is about `Election`, and what `ElectionRestart`
shows of the PID files, it shows of crashes and not of races between system calls.

*Sharding*

- A `subscribe()` to a pattern that fails on one shard is undone on the others; the client of
  that one keeps the handler and subscribes again with its next link, "with no handle to remove
  it" (`sharded-client.js:199`). `AllOrNothing` fails in `ShardPattern`.
- `connect` of the mesh is emitted while a shard is in its handshake (`connected` is true from
  the opening of the socket), and never, when `connect()` sets `_allUp` though a shard has gone
  down since (`sharded-client.js:91, 98, 108`; `README.md:283`). `ConnectIsTrue` and
  `ConnectFires` fail in `ShardPattern`.

## 4. Proofs

What a theorem says holds for every value of the constants: any number of connections,
requests, sessions, shards, breaks and restarts. Each proof module states what is
assumed besides the `ASSUME` of its model, the domains of the constants. The invariants and
action properties of the passing runs are each stated by one of the theorems, but for that of
`Election`; TLC checked the
inductive invariants too, on the instances of the runs, before they were proved.

In each module the inductive invariant is a conjunction of named parts, and there is one
lemma per action, joined by a lemma about `Next`. Where a property needs an assumption that
the rest does not, it has an invariant of its own over the general one.

| Module | Theorem (property) | Assumed |
|---|---|---|
| `LockProofs` | `MutexHolds` (`MutualExclusion`), `NoTokenTwice` (`TokensUnique`), `SupersededRejected` (`SupersededIsFenced`), `FirstComeFirstServed` (`NoOvertaking`), `ReleaseIsOwn` (`ReleaseEndsOwnGrant`), `WaitersKept`, `OwnersExpire`, `WritesInOrder` | |
| | `HolderAccepted` (`HolderIsNotFenced`), `OldTokensRejected`, `Refinement` (`ImplementsMutex`) | `Persistent` |
| | `MeshImplementsLocks` (`MeshSpec => Spec`), `MeshKeepsLocks`, `NoOrphans` (`NoOrphanGrant`), `HandBackHolds` (`HandBackIsHarmless`) | |
| `RpcProofs` | `InflightHolds` (`InflightNotPinned`), `AnsweredHolds` (`AnsweredOnce`) | |
| | `OwnHolds` (`AnswerIsOwn`), `ArrivalHolds` (`ReplyOnArrivalLink`) | `~Overlap` |
| `StoreProofs` | `StoreTypeCorrect` (`StoreTypeOK`), `LogAgreesHolds` (`LogAgrees`), `StoreImplements` (`ImplementsTtlStore`) | |
| `PubSubProofs` | `DeliveredInOrder` (`InOrderOnce`), `SubscriptionsSettle` (`SubscriptionsAgree`), `WatermarksMinted` (`WatermarkIsMinted`) | |
| | `CaughtUpHolds` (`CaughtUp`) | `~Interrupts`, `Apart` |
| `ProducerProofs` | `ResolvedHolds` (`ResolvedIsAccepted`) | `Spread <= Window` |
| | `OnceHolds` (`AcceptedOnce`) | `~EarlyPublish` |
| `LinkProofs` | `OneLink` (`NoStraySocket`), `NothingWaitsInVain` (`PendingIsOnLink`) | |
| `ShardingProofs` | `HeldHolds` (`HeldEverywhere`), `NothingLeft` (`NothingLeftBehind`), `ConnectIsEdge` (`ConnectFollowsOutage`) | |
| `PersistenceProofs` | `OffsetsAreNew` (`OffsetsStayNew`), `RetainedInOrder` (`RetainedOnce`), `AckedSurvive` (`AckedMessagesSurvive`), `RecoversRecent` (`RecoveryIsRecent`), `PlannedIsLossless` (`PlannedRestartIsLossless`) | |

Type correctness is proved of each module with theorems (of `LockClient` as a part of
`MeshInductive`). The
assumptions in the last column are the cases in which the code does not keep the property:
section 3 says for each of them what goes wrong without it, and which setting shows it.

### LockManager

The inductive invariant `IInv` joins `TypeOK`, `TokensUnique`, `NoStrandedWaiter` and
`OwnedLockExpires` with what they need; the other state properties follow from it.

- `GrantsHaveTokens`: a request has a token exactly when it holds or has held the lock.
- `HolderOnRecord`: the holder is the owner on record, and with a persist dir its token is the
  bar of its key. Neither mutual exclusion nor fencing is inductive without it, since a
  hand-over changes the holder and the record together.
- `TokensBounded` and `CounterReserved`: tokens of this incarnation lie between the floor and
  the counter, older ones at or below the floor, and the counter at or below the reservation.
  Uniqueness needs all three, because a restart forgets the counter and keeps the reservation.
- `WritesBelowBar`: what was written last carries no token above the bar.

The long lemma is the close of a connection,
which hands over several locks at once and gives each a token of its own; `CountHanded` says
that these tokens are as many as the locks. `ReleaseEndsOwnGrant` follows from `TokensUnique`.

### LockClient

Every step of the mesh is a step of `LockManager` or leaves its variables alone, given
`MeshInv`: hence `MeshImplementsLocks`, and with it every theorem about `LockManager` holds
of clients that time out, lose links and hand grants back. `MeshInv` joins `IInv` of
`LockManager` with `StreamsAgree` (a client's link is a connection it opened, and a stream that
holds frames is that of an open connection), `SomeoneWaits` (while the link is up, `lock()` or its late handler waits for what is
not answered) and `ReleasesAreOfGrants` (only what was granted is released). A hand-back ends no
other task's hold because what is released had a token, and tokens are unique.

### Rpc

`IInv` has to say where a call can be. `InOnePlace(k)`: call `k` is on its way to the broker,
or in the pending table, or its answer is on its way back, one at a time and once, and
nowhere before it is made or after it is answered. `IdsUnique`: the ids of the table are
distinct and below `nextCallId`. `AnsweredOnce`, a sum of cardinalities, follows. For the
counts, the lemmas compare `inflight` with the number of entries of a worker in the table
before and after; the longest is the close of a session, which takes away what the session
was working on and what it had asked, and answers the callers of the first one by one
(`GoneFacts`, over the enumeration `NthFacts` of a finite table).

`AnswerIsOwn` does not follow from this, since ids start over with every broker. `OwnInv` says
that an open end at the client is the client's current one, and that an invocation, a running
handler or a result in a session *of the running broker* is about the call its id is of, now
and later (`IdIsOf`). A result of an earlier broker's call would need a session that outlives
that broker. `~Overlap` enters in one place: with two sessions of one client open, `_onInvoke`
takes the wrong one for its own, and the first part fails. `ReplyOnArrivalLink`, which no run
checks because it needs the same, follows from that part as well (`ArrivalInv`).

### Producer

`IInv` has the types and that what is in flight, remembered or numbered agrees. That a resolved
publish was accepted (`ResolvedInv`) holds because a number the broker takes for a repeat was
accepted, or lies more than `Window` behind and is then awaited by nobody, for which the
program must leave fewer than that in flight. That it is accepted once (`OnceInv`) holds because
everything goes out under one producer id and the window covers what the log retains of it
(`WindowCovers`), over a restart too, since the broker rebuilds it from that log.

### Link

The parts of `IInv` are what `_doConnect`'s steps may rely on when an event arrives between
two of them: the stage fits the sockets (`StageAgrees`), no reconnect timer runs beside an
attempt or a link (`TimerIsAlone`), and a request of the handshake is that of the attempt under
way (`HandshakeIsPending`). The two properties are inductive with them.

### Sharding

The heart of `IInv` is `BrokerFollows`: what the broker of a shard sends, once all that is on
its way to it is read (`Heard`), is what the client's table says, and a link that is still in
its handshake will replay that table. `CallsAgree` says for each call of `subscribe()` on which
shards its handler is. Of the tables, `HeldEverywhere` and `NothingLeftBehind` speak at all times;
of what the broker sends, in the moments in which nothing is on its way to it (`Quiet`), where
`BrokerFollows` gives it. `ConnectFollowsOutage` needs `NoOutage`:
as long as no link was lost since the last `connect`, `_allUp` is set and all are linked.

### PubSub

Only `CaughtUp` needs subscriptions that do not overlap and a program that does not interrupt
`_replay`; the others take any set of subscriptions and `Interrupts` either way. `IInv` has four
matters.

- The handshake. `HandshakeAgrees`: until WELCOME the client has HELLO first in the one stream, or
  WELCOME first in the other, so no answer runs on before the epoch is known; `LinkAgrees`: past
  the handshake it has adopted the epoch of the broker it is linked to.

- Offsets. `Current` is what may still reach the client: the frames on their way and the
  messages on record, retained or evicted since the last compaction (`Logged`), which a replay
  may send again or a restart bring back. `OffsetsAgree` has the offsets of
  `Current` in the order of publication, between 1 and `nextOffset`, and that below the
  reservation, from which a broker with a persist dir goes on.
- Watermarks. `Adopted` is each watermark as the client will have it once it has adopted the
  epoch that runs, which is what it has once past its handshake. `WatermarksAgree`: a
  message of `Current` above `Adopted[s]` was published after all that the handler of `s` was
  given, unless that handler is `early`. A replay repeats messages at or below it; a restart puts
  all that is on record at or below
  `offsetBase`, to which the watermarks are lowered, or retains nothing and starts over. A message
  that comes before its epoch is adopted is above `offsetBase` and so would be given twice: it is
  what `early` marks. `WatermarkIsMinted` needs no exception.
- Requests. `WillHave(s)`: the broker has `s` once it has served what is on its way.
  `RequestsAgree` compares that with `subscriptions`, as far as `_replay` has come (`visited`).

`_replayTo` sorts what it sends, and a restart what it recovered: `ByOffsetFacts` shows that
ranking messages by offset is a sequence of all of them, each after those below it, as long as
no two have one offset.

`CaughtUp` rests on `CaughtInv`, which holds over `IInv` where no two subscriptions match one
channel (`Apart`). `Due(s)` is what is retained and `s` has still to be given, and `DueAgrees`
says where it is. All of it is above the watermark, as it is and as it will be adopted, unless it is one
of another offset space (`OwnMark`); what came back after it was evicted (`returned`) need not be, and is
not due. While the broker sends to `s`, each
message of it is in the stream behind nothing that would lift the watermark past it, be it a
frame or the answer to a SUBSCRIBE; before that, whatever request is on its way asks for it.
`CallsAgree` (a subscription the broker does not have has no answer under way), `FramesEnd` (what
is gone gets no frame after it) and `AsksAgree` (a subscription without a watermark is owed
nothing, or asks for all; and a broker that recovers its offsets goes on above every watermark)
say why serving a request, which appends the backlog and sets `subs` in one turn, turns the
second into the first. With an overlap, a frame brought in by another subscription lifts a
watermark past what is still behind it; with `Interrupts`, an answer reaches a subscription that
is not the one that asked.

### Persistence

`IInv` speaks of what an end of the process leaves. `Recorded(n)`: the snapshot, or a synced
and whole record of the log, reserves offsets up to `n`; no crash and no compaction takes that
away. `ReservationRecorded` says it of the reservation in memory while the broker is up, and of
all that was minted while it is down; `OffsetsReserved`, that offsets are minted within the
reservation and that a snapshot holds no message beyond its own. Recovery then goes on above
`minted`, as long as no write failed and the log is whole. `TtlsArePast`, `QueueIsRecent` and
`WritesWhileUp` are what the types need: what is queued, in flight or in the file is of this
broker's operations so far.

`RetainedOnce` is inductive with these, but needs to know what recovery computes: `NthFacts`
(the records it takes, in order), `ReadableFacts` (how far it reads) and `RingFacts`, in which
each message it adds is newer than the snapshot's and than those before it, since `Repeats`
skips the others.

`AckedMessagesSurvive` compares the messages retained before a crash with those after recovery,
so `DurableInv` adds what the files say of `ring`. `AckedOnDisk`: until a write fails, an acked
message of `ring` is in the snapshot, or a synced record of it is `Ahead` of all newer ones, so
that recovery does not skip it as a repeat. `RecordsAreRetained`: any message on record, in the
snapshot, the log, the queue or in flight, is in `ring` or older than all of it. The second is
why retention drops no acked message in recovery: what recovery finds newer than it was in
`ring` too, each at its own place (`FewNewer`, by an injection into the places of `ring`), so
there are fewer than `pubRetentionMax`. The invariant holds over a process that dies between
the snapshot of recovery and the truncation of the log, which reads the same log again.

What recovery makes of the cache depends on the order of the records, so its invariant
`RecentInv` (in `PersistenceProofs`, next to `IInv`) is about the journal: the log, the write in
flight and the queue, one after the other. It has three parts.

- `InOrder`: each record says what its mutation made of the cache (`Says`), the mutations in the
  journal are in increasing order (`Ats` is the set of them), and what is still to be written
  goes up to the last one (`Recent`) and is later than all that has landed. The end of a write
  inside a frame moves its head to the log and leaves its rest first in the queue, which changes
  neither the set nor the order (`TornInTwo`), and neither do the records of offsets and messages
  that jump ahead (`Inserted`).
- `NoGaps`, until a write fails: for each key without TTLs there is a `b` such that the snapshot
  holds what the `b`-th cache did, and the journal all mutations from there on (`Base`); none is
  missing between two that are there. `Safe(b)` says that what has landed is in the one or the
  other, wherever the power may cut the log after `synced`. A compaction takes `b` to the last
  mutation while records of earlier ones may still be in the queue: they land in the new log, and
  are harmless since the later ones follow them. `Bare` is the one record whose head was truncated
  away with the old log; recovery does not read it, which the snapshot makes up for.
- `PlannedEnd`: after a planned end the snapshot is of the last state, and the log holds what
  close() stranded in it, if anything: either its first frame has lost its head and recovery reads
  nothing, or it is read to its end, which is the last mutation.

`Replay` then says what a recovery computes. A record it does not read is the last frame of the
log, bare, and the only one of a mutation (`UnreadEnd`). Otherwise the last record of a key gives
what the key held after the last mutation of the log, since those between do not write it
(`LastWritten`, over `Unwritten`), and without a record the snapshot does (`NoneWritten`). It is the
same lemma by which a recovery that dies after its snapshot leaves `NoGaps` as it was. For the
messages, `PlannedRing`: each one on record is no newer than the newest retained, so all are
repeats of the snapshot.

### Store

`StoreInv` is `StoreTypeOK /\ LogAgrees`, and needs nothing more. Every command is built from the
operations of the Map, and so is the proof: `DroppedFacts`, `TouchedFacts`, `MapSetFacts` and
`KeepTtlFacts` say what an operation does to the entries, and that the count of TTLs, the timer
and the iterator stay in step (`MapOK`); `TtlDeltaSettles` is the common end of all of them. For
the log, a command leaves most keys alone (`Spares`), and `AgreeLasts` says that entry and record
go on agreeing on those, purged or not; the rest is about the keys a command names, wherever
the clock moves in it. `crossed` is needed for a record that is stamped later than its entry, and
after the entry has expired.

`StoreImplements` picks the instant of each command: a SET acts when it stamps the entry, an MSET
at its start, INCR and CAS when they touch their key. `AliveIs` reduces each step to the
entries that are alive after it; of an update `UpdateIs` shows that only a value that expires
between its readings of the clock, which `Lapse` names, is not what `TtlStore` says.

### Only model-checked

Liveness (`EveryWaiterIsAnswered`, `EveryCallSettles`,
`AbandonedIsFreed`, `EventuallyServed`, `ExpiredIsPurged`, `ComesBack`, `NoOrphanBroker`),
which is out of the prover's reach; and `OneWriter` of `Election`, which a proof could only show
for processes that run one stretch at a time, which the code does not guarantee.

## 5. What is left

Planned, in this order:

1. `Persistence` and `Election` in one: a broker refused for a locked directory has loaded
   its data already (`persistence.js:112`).
2. `LockManager` over a disk whose writes fail (`persistence.js:292`).
3. Wire protocol: reassembly of frames, and back-pressure with its droppable frames.
4. Heartbeat counts, and the close of a broker in steps.

Not modelled, and not planned: the arithmetic of the hash ring, serialisation and codecs,
directory permissions, the wall clock, errors, entry point and command line, which keep no
state; the splitting and joining of `mget`, `mset`, `keys` and `stats`; the `lru-cache` backend,
which is a library's.
