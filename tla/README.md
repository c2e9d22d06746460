# TLA+ models of the distributed key-value store and of the course's concurrent programs

This directory specifies in TLA+ the key-value store of `tp-kv-distributed` and
the concurrent or distributed programs of the Rust course beside it (`demos/`),
checks them with TLC on small instances and proves with TLAPS, for all instances,
every safety property that the passing runs check.

Run the tools from this directory, for instance

    tlc -workers 2 -config KvScenes.cfg MCKvScenes
    tlc -workers 2 -config MCParts.cfg MCParts
    tlapm KvReplication_proofs.tla

`PROJECT.json` lists the runs, the mutants that show that each property can
fail, the source lines of every definition, the findings, the hazards and the
theorems.

## Inventory

### The store (`tp-kv-distributed/src`)

| Component | State | Operations | Interacts with | Hard behaviour | Correct when |
|---|---|---|---|---|---|
| `StorageEngine` (`storage.rs`) | a `DashMap` of entries (version, creation time, ttl), the atomic `version_counter`, six atomic counters | `put`, `put_with_version`, `get` with lazy expiration, `delete`, `purge_expired`, `scan`, `len` | called by every connection task, by the replicator and by the purge task, without any outer lock | every method is several separate atomic steps | versions are unique and exceed all those seen; expiration removes expired entries only; gets are counted |
| `KvClient` (`client.rs`) | one TCP stream behind a tokio mutex, shared by clones | one request, one response, under a timeout | the peer's connection task | calls queue for the mutex; a timeout abandons a request in flight; responses carry no identifier | a call gets its own answer; every call ends |
| `KvServer` (`server.rs`) | none of its own | accept loop, one task per connection: read, handle, respond | `Replicator` for the public API, `StorageEngine` for `Replicate` | a slow handler holds up its connection | one answer per request, in order |
| `Replicator` (`replication.rs`) | none of its own: the ring, the pool of peers, the storage | `put_replicated` (quorum), `get_replicated` (first hit), `delete_replicated` (best effort) | peers, through `KvClient` | two nodes coordinate one key; forwarding; quorum not met without rollback; lost and late answers | an acknowledged write reached a quorum and replaces what was acknowledged before |
| Heartbeat loop (`main.rs`, step 8) | the pool of peers, `peers_alive` | heartbeat, reconnect, replace | `KvClient` | replaces a client that others are using; one peer at a time | a peer that is up again is used and counted again |
| Purge loop (`main.rs`, step 9) | none | `purge_expired` every 10 s | `StorageEngine` | runs beside everything | as above |
| `ConsistentHashRing` (`consistent_hash.rs`) | virtual nodes by hash, the list of nodes | `add_node`, `remove_node`, `get_node`, `get_nodes` | `Replicator` | two virtual nodes with one hash | `get_nodes` returns distinct nodes, nearest first |
| Metrics (`metrics.rs`) | atomic counters, a gauge, a moving average | update, `/metrics`, `/health` | server, heartbeat loop | load-then-store updates | the gauge counts the open connections, the average lies within the samples |
| Start-up (`main.rs`, steps 1-5) | ring names derived from `--peers` | parse, connect, listen | everything | the nodes must agree on the ring; a peer may not be up yet | same key, same replicas on every node |
| Framing (`protocol.rs`) | none | length prefix and bincode payload | client and server | a frame cut short by a dropped future | modelled where it matters, in `KvRpc` |
| `kvc` | none | one call, printed | `KvClient` | none | |

### The demonstrations and exercises (`demos/`)

| Component | State | Operations | Hard behaviour | Correct when |
|---|---|---|---|---|
| Ring buffer (`exo05`) | a queue and a flag under a mutex, two condition variables | `push`, `pop`, `try_push`, `try_pop`, `close` | lost wake-ups, close against waiters | first in, first out; nothing lost; all threads end |
| Statistics (`exo06`, part of `demo06`) | one atomic per field | `record`, snapshot | compare-exchange loops that race | what a mutex would have computed |
| Dispatcher (`exo07`), queues of `demo07` | queue, flag, counters | submit, worker loop, stop | the flag is looked at after the queue | every task counted once |
| Bounded queue (`demo05`) | as the ring buffer, without close | `push`, `pop`, `len` | look, then pop | all threads end, the queue is empty |
| Publication (`demo06`) | a value and a flag | Release store, Acquire load | weak memory | the value published is read |
| Work stealing (`demo07`) | one deque per worker | pop, steal | a steal that loses a race | no task left, none done twice |
| CRDTs (`demo_3_3b`) | a count per replica; tags per element | update, merge | any order and repetition of merges | replicas converge, no update lost |
| Raft (`demo_3_3c`) | term, vote, log, role per node | election, request, crash, return | stale leaders, gaps in logs | one leader per term, what is committed agrees |
| Hash ring (`demo_3_3a`) | virtual nodes | add, remove, look up | collisions | as the ring of the store |
| Circuit breaker (`demo_3_4a`) | three states under a mutex | `call` | answers that come in another state | open means open; closes after successes |
| Retry (`demo_3_4b`) | attempt number | `retry_with_backoff` | cap, jitter, kinds of error | gives up in turn |
| gRPC store (`app-tokio-tonic`) | a map under a mutex, a broadcast channel | put, delete, get, watch | publication after unlock, slow watchers | every change published, heard in order |

Sequential and left aside: data layout, SIMD, rayon, serialisation and benchmark
programs.

## Modules

| Module | What it models |
|---|---|
| `KvStorage` | one `StorageEngine`, shared by threads, at the grain of single `DashMap` calls and atomic accesses |
| `KvRpc` | one pool slot for one peer: the callers, the mutex, the streams, the peer's connection tasks, the heartbeat of that client, the timers |
| `KvReplication` | quorum writes of one key over a cluster: coordinators, replicas, the steps of their storage calls, messages, answers read by other calls, crashes |
| `KvFanout` | puts, gets and deletes of one key over the connections between the nodes, whose handlers run the replicated operations again |
| `KvRing` | the consistent-hashing rings of the store and of `demo_3_3a` |
| `KvNode` | the processes: names from `--peers`, filling the pool, the turns of the heartbeat loop, crashes |
| `KvMetrics` | the counters, the gauge and the moving average, moved by the connection tasks |
| `DistinctSeq` | taking an element out of a list without repetitions: the fair queue of a tokio mutex, the nodes of a ring |
| `AckedRegister` | abstract: what a replicated key promises to its clients, without versions, messages or coordinators; `KvReplication` implements it |
| `KvScenes` | composes `KvStorage` and `KvRpc`, what a node relies on locally, in three scenes |
| `Parts` | composes the parts with no run of their own, a topic per part; their constants are its parameters |
| `KvStorage_proofs`, `KvReplication_proofs`, `KvFanout_proofs` | theorems about the modules of those names |
| `KvScenes_proofs` | theorems about `KvScenes`, the channel of `KvRpc` in it |
| `Queues_proofs` | theorems about `RingBuffer`, `BoundedQueue` and `Dispatcher`, as `Parts` has them |
| `KvRing_proofs` | theorems about `KvRing`, as `Parts` has it |
| `Parts_proofs` | theorems about the other parts, and about `Parts` as a whole |
| `Data_proofs` | lemmas on lists, numbers, finite sets, folds and sums |
| `BoundedFifo` | abstract: a bounded queue whose calls take effect in one step |
| `RingBuffer`, `BoundedQueue` | the queues of exercise 5 and of the locks demo, which implement it |
| `Dispatcher` | exercise 7 in both variants, and the `ArrayQueue` and `SegQueue` of the lock-free demo |
| `WorkStealing` | the deques of the lock-free demo |
| `AtomicStats`, `Publication` | exercise 6 and the atomics demo |
| `PNCounter`, `OrSet` | the CRDT demo |
| `RaftDemo`, `CircuitBreaker`, `RetryBackoff`, `WatchServer` | the programs of those names |
| `MCKvScenes`, `MCParts` | the values of the constants of `KvScenes` and `Parts` |
| `MCKvStorage`, `MCKvRpc`, `MCKvReplication`, `MCKvFanout`, `MCDispatcher` | the constants of the other instances |

The specifications of the store are layers. `KvReplication` takes the storage
calls of one key in the steps that other writes can come between, of which
`KvStorage` has all; it lets a call fail at will and an answer be read by a later
call, where `KvRpc` shows on one channel when that happens. `KvFanout` puts the
nodes on such channels, without broken connections, and follows the handlers
that wait for one another through them. `KvNode` shows when a node has such a
channel and under which name, `KvRing` which nodes hold a key.

### KvStorage

A thread `t` runs one call at a time; `pc[t]` names the next atomic step of it.

| Action | Code |
|---|---|
| `BeginPut`, `TakeVersion`, `PutInsert` | `put`: count, `fetch_add`, stamp and insert |
| `BeginReplicate`, `CompareExchange`, `CheckExisting`, `Replace`, `CountReplica` | `put_with_version`: load, the loop, the look at the entry in place, insert, count |
| `BeginGet`, `Clone`, `Judge`, `Evict`, `CountExpired`, `CountMiss` | `get`: count, clone, judge the clone, remove by key, count |
| `BeginDelete`, `RemoveKey` | `delete` |
| `BeginPurge`, `Collect`, `PurgeRemove`, `PurgeCount` | `purge_expired`: visit the keys one by one in any order, remove them one by one, count |
| `Tick` | time passes |

The DashMap is external code, used as its documentation says: each call is
atomic for its key, an iteration is not a snapshot. An entry's `created_at` is
some instant between the step before the insert and the insert, since
`Instant::now()` is called in between. Values carry no data: a write is known by
its version. `seen`, `floor`, `issued` and `rewritten` (the keys written since a
thread looked at them) are history, read by properties only.
A `compare_exchange` cannot fail spuriously, so `CasFails` requires that the
counter differs. The 64-bit counters do not overflow in the lifetime of a
process and are natural numbers.

### KvRpc

Response number i of a connection answers its request number i, because the
connection task reads, handles and answers one request at a time. So a stream is
the sequence `log` of request kinds and three positions in it: how many
requests the peer has `received`, how many it has `served`, how many responses
have been `read`. A caller remembers the position of its own request (`mine`) and
of the response it took (`answer`).

| Action | Code |
|---|---|
| `Begin`, `Acquire` | `call`: queue for the fair tokio mutex, get it |
| `WriteRequest`, `ReadResponse` | `write_message`, `read_message`, and the match on the variant in `replicate`, `put`, `get`, `delete`, `heartbeat` |
| `CallTimeout`, `OuterTimeout` | `timeout(dur, ..)` in `call`, which starts with the mutex held, and `timeout(op_timeout, ..)` in the replicator, which covers the wait too |
| `CutShort` | where the dropped future leaves the stream: between two frames, in a request half written, in a response half read |
| `ConnectionBroken`, `GarbledResponse` | errors of the stream |
| `Reconnect`, `ConnectFails` | the heartbeat loop: a client whose heartbeat failed is replaced once a heartbeat on a new connection succeeds |
| `ServerReceives`, `ServerResponds`, `ServerRejects`, `ServerCloses` | `handle_connection` |

A tick stands for 500 ms, and a timer that is due fires before the next one. The
2 s timeout of puts and gets is shortened to two ticks. Bytes after a
half-transferred frame are taken to be an error or to leave the reader waiting:
that such bytes decode as a message by accident is left out.

### KvReplication

A *job* is one run of `put_replicated`: that of the client's put or that of the
`Put` handler a forwarded put runs at the primary.

| Action | Code |
|---|---|
| `ClientPutAtReplica`, `ReceivePut` | `put_replicated` at a replica, for a client or for the `Put` handler: `StorageEngine::put` takes a version (`Number`, `storage.rs:156`) |
| `Store` | the insert of that `put` (`storage.rs:165`), then one `Replicate` to each other replica |
| `ClientPutElsewhere`, `ReceivePutReply` | a node that is no replica forwards the put to the first replica, takes over the version it reads, counts one acknowledgement and replicates to all, the primary included |
| `ReceiveReplicate`, `CheckVersion`, `InsertCopy` | `put_with_version`: raise the counter, compare with the entry, insert; the handler answers Ack in both cases |
| `ReceiveAck`, `ReplicateFails`, `ReplicateTimesOut` | a task ends, with an answer, an error, or its timeout |
| `ForwardFails`, `ForwardTimesOut` | the same for the forwarded put |
| `Conclude` | the acknowledgements against the quorum; nothing is undone |
| `Crash`, `Restart` | a process loses its memory, what it was sent and its tasks; it comes back empty with its counter at 0 (`docker-compose.yml`: `restart: unless-stopped`) |

Between `Number` and `Store`, and between the three steps of `put_with_version`,
any other write of the key may take any of its steps, so two writes may be
inserted in the other order than they were numbered or checked. `overlapped` is
the history of that: a write of the key began in a storage while another one was
under way there. The loop that raises the counter is one step, which `KvStorage`
refines. A write of another key changes the counter only; it is left out.

A call may fail at any time, which covers broken connections and peers missing
from the pool, and a request or an answer may be delivered late or never. No
answer names its request (`client.rs:43-51`). `late` holds the calls that were given
up with their request written: the next call from that node to that peer may
read the answer to such a call (`Reads`), whether it was a Put or a Replicate, and then
leaves its own unread in its place (`LateAfter`). So a Replicate may be
acknowledged by the Ack of an earlier one, and a forwarded put may take over the
version of an earlier put. The heartbeat may replace a connection, so a call may
also find its own answer although one before it is late; in the code a lag
lasts as long as the connection. That a call reads an answer of another variant
ends it with an error and leaves its own answer unread, as a timeout does, and is
one of the uses of `ReplicateTimesOut` and `ForwardTimesOut`. The calls for other
keys go over the same connections, so `timeouts = 0` stands for no call timed out
between the nodes at all. `before[w]` is the set of writes that were acknowledged
when w was sent.

`AckedRegister` is what a client sees of it: the write that each replica holds
(`Held`), the puts that were sent (`Sent`), the acknowledgements. A put maps to
`Send`, an insert (`Store`, `InsertCopy`) to `Copy`, the conclusion of a client's job
with a quorum to `Ack`; everything else is a stutter. The register allows no copy of
a write that is superseded, that is, acknowledged before another acknowledged
write was sent, and no acknowledgement while a replica holds one that the write
supersedes. It says nothing of writes that failed: these may come late and replace
others, in the code as well.

What the code promises of it depends on three things, and the properties say on
which. `AckedOnQuorum` holds whatever times out and overlaps, with what a timeout costs
in its statement: one replica for each that has an answer left unread.
`LaterWriteIsNewer` and `VersionNamesWrite` hold while no call times out, overlap or
not. `RegisterWhileOrderly`, `PrimaryConverges` and `AckedSurvivesCrash` need both
(`Orderly`): one late Ack leaves an acknowledged write on one node, and two writes of
the key that overlap in one storage may land in the wrong order
(`KvStorageCopyRace` shows how). TLC shows that the conditions are not idle. With two
puts, `AckedSurvivesCrash` and the register fail when a call may time out,
`PrimaryConverges` when writes may overlap, and `LaterWriteIsNewer` and
`VersionNamesWrite` when a call may time out. The other half of `Orderly` takes
three puts to show: the register then fails on an overlap alone, and
`PrimaryConverges` can fail when a version is given to two writes.

### KvFanout

`handle_request` answers a peer's `Get` or `Delete` with `get_replicated` or
`delete_replicated`, as it does a client's. A *job* is one run of a replicated
operation, by a client's task or by the connection task of a *link*, the one
connection from a node to a replica. `queue[l]` is the link's mutex: the job that
holds it, then those that wait.

| Action | Code |
|---|---|
| `ClientCalls`, `Serve` | `handle_connection` reads a request of a client or of a peer and starts its handler (`Handle`) |
| `Handle` | the dispatch, up to the first wait: `Spread` is the local write and the spawned calls of a put or delete |
| `TryNext` | a get looks at the next replica: its own store, or a call |
| `Send`, `Receive`, `TimeOut` | `call` with the mutex held, under `timeout(op_timeout, ..)`; a response of another variant is an error |
| `Conclude` | the answer is written back |

The key is present or absent on a node; versions are in `KvReplication`. With
`Prompt` time passes only when every task waits for a timer, so that what goes
wrong is not due to a slow network. `MaxServed` bounds the requests the nodes
serve for each other, after which they hang: the echo described below has no end.
A put enters at a replica, every node is in every pool, nothing crashes; the 2 s
timeout of `call` never fires, being longer than `op_timeout`.

### KvRing, KvNode, KvMetrics

`KvRing` has `add_node` and `remove_node` as actions on a map from positions to
nodes and the list of nodes (`retain` takes one entry out of it, since `add_node`
lets no node in twice; `demo_3_3a` has neither the list nor that test), and the lookups as operators: `get_nodes` folds `Take`, one turn of its
loop, over `Walk`, the virtual nodes clockwise from the key and then all of them
again, as `range(h..).chain(iter())` gives them. A layout says where the hash
puts the virtual nodes; the instance has layouts in which they collide.

In `KvNode` the node numbers are those of `--node-id`. An entry of a `--peers`
list is the number of the process at that address, or `Hostname`, which
`parse::<SocketAddr>().ok()` drops (`parsed_peers`). `name_of` is the
`peer_name_from_addr` of `main.rs`: the place in the list, shifted from the own
number on. `Connect` is one step of the loop that fills the pool, `Beat` one peer
in a turn of the heartbeat loop, `StoreAlive` the end of the turn. `Crash` takes
down a process and all connections to it; it is started again by `Start`. Whether
a heartbeat succeeds is decided at once; `KvRpc` has the timers.

`KvMetrics` follows a connection task through `Accept`, `Receive`, `Classify`,
`Work`, `LoadLag`, `StoreLag`, `Answer` and `Close`, one atomic access per step.

### The demos and exercises

`RingBuffer` takes what a call does with the mutex held as one step (`Push`,
`Pop`, `TryPush`, `TryPop`); `wait()` gives the mutex back in that step, and
`NotifyOne` is a step of its own because the code notifies after the guard is
dropped. `BoundedQueue` notifies before it releases the mutex, so its calls are one
step. Both have spurious wake-ups. Both implement `BoundedFifo`, with `queue`,
`call` and `last` mapped to themselves (and `closed` to FALSE for the queue that
has no close): waiting, waking and notifying are stutters of it, and its fairness
says that a call that can take effect does, hence that no wake-up is lost.

`Dispatcher` separates the look at the queue (`Take`, `FindEmpty`) from the look
at the flag (`LookAtFlag`). `WorkStealing` splits a steal into the look at the
oldest task and the attempt to take it. `AtomicStats` has one atomic access per
step, with failures of `compare_exchange_weak` that have no reason;
`RecordUnderLock` is the variant with the mutex, used as the reference.
`Publication` has the memory of Rust's model: an atomic keeps its writes, a load
returns any that its thread may still read, Release and Acquire pass on what the
threads know. `PNCounter` and `OrSet` merge whole states in any order and as often
as they like. `RaftDemo` runs elections and requests to their end in one step, as the
demo's method calls do; `CrashOrRevive` is the assignment to `alive` in `main`.
`CircuitBreaker` has `before_call`, `on_success` and `on_failure` as steps, the
service's answer between them, and futures that are dropped. `RetryBackoff` has
the loop of `retry_with_backoff` under several policies. `WatchServer` identifies a change by its
place in the order in which the map was changed; the broadcast channel keeps the
newest `Buffer` events and a task per watcher relays them to a stream that holds
`Window`.

## Runs

| Run | Shows | Instance |
|---|---|---|
| `KvScenes` | *shared*: the counter covers the store, versions are unique and above everything seen, every get is counted, every call returns. In both scenes of the storage, what an expiration removes alive was written after its thread had looked. *owned*: with one thread that writes, versions only grow. *channel*: the lag of a stream is the number of abandoned calls; before the first one every answer is the caller's own; every call ends | 2 threads, 1 key, remote versions 1 and 2, ttl 0, clock to 1, 2 calls each with every operation or 3 calls of the owner; a replication, a put, a heartbeat, 2 connections, one may be closed |
| `KvReplicationAny` | what an acknowledgement promises by itself; what more while answers come in time and writes do not overlap in a storage, the refinement of `AckedRegister` included; and that an acknowledged write then survives the loss of a node until that node comes back | 3 nodes, 2 of them replicas, quorum 2 (the defaults), 2 puts entering anywhere, 1 crash and restart, 1 call that times out with its request written; symmetry in the puts |
| `KvFanoutAny` | replicas that wait for each other are freed by `op_timeout`, answers come in time, requests do not multiply, and until a call times out puts and gets do what they should | 3 nodes, 2 of them replicas, a put or delete at one replica and a get at the third node, 3 requests served, the key on both replicas or on the second only, one tick to the timeout |
| `MCParts` | the promises of the ring, the start-up, the metrics, a crash during replication and of the demos and exercises, in sixteen topics | see below |
| `KvStorageCopyRace` | **violated**: an older replicated copy replaces a newer one | 2 threads, 1 call each |
| `KvStorageLazyRace` | **violated**: the lazy expiration removes a live entry | a writer and a reader, 2 calls each |
| `KvRpcOwn` | **violated**: a call succeeds with another call's answer | a replication and a put, 2 calls each, 1 connection |
| `KvReplicationDiverge` | **violated**: both puts acknowledged, replicas different for good | 2 puts |
| `KvReplicationRestart` | **violated**: after a restart an acknowledged write is refused by a replica that acknowledged it | 2 puts, 1 crash |
| `KvFanoutPut` | **violated**: the put after a delete fails, with every node up and no network delay | as `KvFanoutAny`, 2 requests of each client, 6 served |
| `RaftDemoDiverge` | **violated**: two nodes hold different commands as committed at one position | 3 nodes, 2 terms, 3 commands |
| `DispatcherStop` | **violated**: `stop()` after the last look of every worker leaves tasks behind | 2 workers, 2 producers, 2 tasks each |

`Parts` and `KvScenes` hold several instances side by side. A variable
that never changes, `topic` or `scene`, says which of them runs; the others stay in
their initial state, so the states are those of the instances one after the
other, not their product. The properties of `Parts` gather by theme what the
modules state, and the fairness of each part is the one its module states.

| Property of `Parts` | What it gathers |
|---|---|
| `TypeOK` | the type invariants |
| `QueuesAreFifo` | the two refinements of `BoundedFifo` |
| `ThreadsEnd` | `close()` and `stop()` free the waiting threads; loops of compare-exchange, steals and retries end |
| `WorkIsDone` | nothing handed over is lost or done twice |
| `LeftBehindUnseen` | what the dispatcher leaves was submitted after every worker's last look |
| `CountersAgree` | atomics against the mutex, publication, gauge and average |
| `UpdatesAreKept`, `ReplicasConverge` | counters and sets that replicas merge |
| `OneLeaderPerTerm` | elections of the toy Raft under crashes and returns |
| `CallsAreHeldBack` | the circuit stays open for its timeout; retries give up and wait as the policy says |
| `ChangesAreHeard` | events of the gRPC store |
| `PlacementHolds` | the ring |
| `NamesAgree` | nodes agree on names if, and only if, their lists are in order |
| `Recovers` | the circuit closes, the heartbeat loop finds peers again, a slow watcher catches up |
| `PutsAnswered` | every put is answered, one crash in between included |

### Bounds

The races of the storage engine are between two calls on one key: two threads
and one key contain them, and one key with ttl 0 and a clock of two instants
contains every order of write, expiry and look. Two calls per thread let one
thread finish a call and begin another during a single call of its neighbour,
which is what the stale-clone races need; remote versions 1 and 2 lie below, at
and above the local counter. In `KvRpc` a skew needs one abandoned call and one
more; three callers let one wait while another holds the mutex, and the second
connection is needed for the reconnection. In `KvReplication` a node outside the
replica set is needed for forwarding. Two writes are one acknowledged before the
other, or two that race, or one whose answer the other reads; each property fails on them when the first of its conditions is
dropped (see above), and the theorems have any number. One crash takes down any
node at any step and brings it back, and one call timed out can
shift any later answer. The puts enter at
the same nodes and are compared by identity only, so their permutations are a
symmetry; no liveness is checked in that run. In `KvFanout` three served requests close the
cycle: the replica that is asked, the one it asks in turn, and the handler there
that waits for the connection held by the first call; the third node makes a get
ask twice.

In `MCParts`: the ring buffer holds two of three values on their way from one producer to two
consumers, and the queue of the locks demo two of four from two producers, so that
an order can be wrong, both conditions are waited for and a value can be
left out or taken twice; two workers and four tasks let one
worker look while the other works; a third worker lets two thieves collide; three
threads with one spurious failure make an exchange lose to each kind of rival;
three replicas let a state arrive by way of a third; three Raft nodes with two
terms contain a leader that crashes, is replaced and comes
back, and with three commands the run `RaftDemoDiverge` lets it serve one of them then; three callers with thresholds of two leave one call in flight when the
circuit has opened and half-opened; two outages let it open, recover and open
again. A broadcast buffer and a stream of one event with four changes make a watcher lag
more than once. The ring has eight positions, two virtual nodes for each of three
nodes and four layouts, three of which collide. Three nodes start in any order
with lists in order, out of order or with a name, and one crash.

Every bound is a constant of its module (`MaxCalls`, `MaxTime`, `MaxConn`,
`MaxCloses`, `MaxServed`, `MaxCrashes`, `MaxTimeouts`, `MaxUpdates`, `MaxTerm`, `MaxLog`,
`MaxSpurious`, `MaxOutages`, `MaxDrops`, `MaxWrites`) and occurs in guards only.
The state spaces end where the callers have made their calls and the threads have
ended, hence `CHECK_DEADLOCK FALSE`: the programs stop there. That nothing stops
too early is what the liveness properties say.

### Fairness

`KvStorage` assumes weak fairness of each thread while it is in a call: the
operating system schedules it. `KvRpc` assumes it of each task's own steps and of
time, not of the peer, which may hang for ever. `KvReplication` assumes that every
wait ends, by an answer or by its timeout (each network wait of `put_replicated` is
under one, or under the task that the timeout bounds), and nothing about
delivery. `KvFanout` assumes that time passes and that each task does what it can
do, which the runtime provides; that a peer reads a request is not assumed.
`KvNode` assumes that tasks run and that a process that is down is started again
(`restart: unless-stopped`). The threads of the exercises run; that `close()` or
`stop()` is called is not assumed, but that a `close()` begun is finished is. The
replicas of the CRDTs exchange their states now and then. Of the circuit breaker:
time passes, somebody calls, and a call that is not dropped is answered; not that
the service comes back. Of the gRPC store: tasks run, and a client that stays
connected reads its stream. No strong fairness is used.

### What the runs found

1. `put_with_version` drops the shard between the version check and the insert
   (`storage.rs:196-208`), so an older copy can be inserted over a newer one.
   `put` has the same gap between `fetch_add` and `insert`: two puts may land in
   the other order than they were numbered. In a cluster two such writes leave the
   replicas different although one node numbers them, hence `Orderly` in
   `PrimaryConverges`.
2. `get` removes by key what it judged on a clone (`storage.rs:136`), so it can
   delete a write made since. `purge_expired` has the same gap, and counts what
   others removed before it.
3. A call that times out leaves its answer on the stream (`client.rs:45`). The
   following calls are all served with the answer before their own: a replication
   can be acknowledged by the answer to an earlier write, so that an acknowledged
   write is on one node fewer than the quorum says (`AckedOnQuorum`), and a forwarded put
   can take over the version of another write (`VersionNamesWrite`). The heartbeat accepts
   any answer and so never replaces such a client. The wait for the mutex is
   outside the timeout of `call` (`client.rs:44`), which bounds a call by its own
   timeout and those of all the calls before it.
4. Two replicas that coordinate concurrent puts number them alike; each refuses
   the other's copy, answers Ack, and the replicas differ for good.
5. A node that restarts numbers writes from 1: its replica refuses them and
   answers Ack. A copy of an earlier write that is still on its way can then
   replace the new, acknowledged one everywhere, which is why
   `AckedSurvivesCrash` stops at the return of a crashed node.
6. The handler of a peer's `Delete` deletes on all replicas again
   (`server.rs:153`), and that of a `Get` reads from all of them (`server.rs:115`). The
   replicas ask each other over the connections they hold until `op_timeout` frees
   them, and the late answers stay on the streams. From then on a put takes a
   `Deleted` for the answer to its `Replicate`. `ENONCE.md:129` asks for the
   other design: "le service interne va directement au storage".
7. A Raft leader that crashed comes back as leader of its old term. `leader()`
   returns the first leader found alive, so it may serve the next request, at the
   position where its successor has committed another one, and a node that was
   down never gets what it missed: what is committed differs between nodes
   (`RaftDemoDiverge`). `demo_3_3c_raft.rs:279` says the old leader will be demoted,
   and :7-8 that the logs do not diverge. Only a new election ends its office
   (`ElectionLeavesOne`).
8. A worker of the dispatcher that found the queue empty leaves on the flag
   without a second look (`exo07_dispatcher.rs:66`): tasks submitted between its
   two looks stay behind when all workers do so. `LeftBehindUnseen` says that these
   are the only ones.

Behaviours that follow from the modelled code, and that no run claims as
disagreements: a failed put (`QuorumNotMet`) keeps the copies it made; a late copy
brings a deleted key back, since a deletion leaves no version; the OR-Set keeps no
tombstones, so merging an older state returns an element to the replica that
removed it; two events of the gRPC store may be published in the other order than
the map was changed.

One more disagreement is a matter of start-up alone and has no run. `--peers` takes
numeric addresses only (`main.rs:97` drops the rest, `parsed_peers`) and
`docker-compose.yml` gives host names: each node started by it is alone on its ring, has
no peers and therefore reports itself healthy (`metrics.rs:220-230`), and no put can
reach its quorum of two.

## Proofs

TLC explores the small instances above; the theorems hold for every value of the
constants. Each `_proofs` module extends the module it is about. `Queues_proofs`,
`KvRing_proofs` and `Parts_proofs` extend `Parts` and are about its instances: `RB`
is the ring buffer, `BQ` the queue of the locks demo, `DI` the dispatcher, `WS`
work stealing, `ST` the statistics, `PU` the publication, `PN` and `OR` the counter
and the set, `RF` the Raft, `CB` the breaker, `RT` the retries, `WA` the watches, `RI`
the ring, `NO` the nodes, `ME` the metrics, `RP` quorum writes.

Assumptions on constants say of what kind they are, that the sets of threads,
nodes or callers are finite where their elements are counted, and that `None` and
its like lie outside the data. They are `ASSUME`d in `KvStorage`, `KvReplication`
and `KvFanout`. The parts, and `KvRpc`, name theirs after themselves
(`KvRpcAssumption`, `RingBufferAssumption`, ...): a theorem on a part has it as its
hypothesis, and `Parts` and `KvScenes` assume all of them of their constants, so
the theorems on the compositions have no other hypothesis. Two assumptions say
more. A buffer of `Parts` has consumers, and the locks demo pushes one value more
than its consumers pop (`LeavesOne`), as `main` has it. `KvNodeAssumption` has that a
`--peers` list names fewer addresses than there are nodes, and that the addresses
that parse form a list of nodes again; the latter is a fact about `SelectSeq`, whose
recursion is beyond the provers, so it is stated where TLC evaluates it. Further
hypotheses are in the table. `FullQuorum` says that the write quorum is all the
replicas.

| Module | Theorem | States | Hypothesis |
|---|---|---|---|
| `KvStorage_proofs` | `TypeCorrect` | `Spec => []TypeOK` | |
| | `CounterCoversStore` | `Spec => []VersionsBounded` | |
| | `PutVersionExceedsSeen` | `Spec => []PutAboveSeen` | |
| | `VersionsIssuedOnce` | `Spec => []IssuedOnce` | |
| | `EveryGetAccounted` | `Spec => []GetsAccounted` | |
| | `OneWriterMonotone` | `Spec => KeyVersionsNeverRegress` | `OneWriterPerKey(OpsOf)` |
| | `JudgedIsRemoved` | `Spec => LiveRemovedOnlyIfRewritten` | |
| `KvScenes_proofs` | `ScenesRun` | `SceneSpec` implies `Spec` of the engine and the safety part of that of the channel | |
| | `AlwaysChannelTypeOK` | `SceneSpec => []ChannelTypeOK` | |
| | `AlwaysSkewIsAbandoned` | `SceneSpec => []SkewIsAbandoned` | |
| | `AlwaysOwnResponseUntilTimeout` | `SceneSpec => []OwnResponseUntilTimeout` | |
| | `AlwaysVersionsNeverRegress` | `SceneSpec => OwnVersionsNeverRegress` | |
| | `AlwaysJudgedIsRemoved` | `SceneSpec => LiveRemovedOnlyIfRewritten` | |
| `KvReplication_proofs` | `TypeCorrect` | `Spec => []TypeOK` | |
| | `AckedIsOnQuorum` | `Spec => []AckedOnQuorum` | |
| | `LaterIsNewer` | `Spec => []LaterWriteIsNewer` | `FullQuorum` |
| | `AckedSurvivesOneCrash` | `Spec => []AckedSurvivesCrash` | `FullQuorum`, two replicas or more |
| | `ImplementsRegisterWhileOrderly` | `Spec => RegisterWhileOrderly` | `FullQuorum` |
| | `RegisterReadsAreFresh` | `Register!Spec => []Register!ReadsAreFresh` | |
| | `ReplicaReadsAreFresh` | `Spec => []((crashes = 0 /\ Orderly) => Register!ReadsAreFresh)` | `FullQuorum` |
| | `VersionsNameWrites` | `Spec => []VersionNamesWrite` | |
| | `PrimaryAlwaysConverges` | `Spec => []PrimaryConverges` | |
| `KvFanout_proofs` | `TypeCorrect` | `Spec => []TypeOK` | |
| | `AlwaysAnsweredInTime` | `Spec => []AnsweredInTime` | |
| | `AlwaysRightUntilTimeout` | `Spec => []RightUntilTimeout` | |
| | `RequestsNeverMultiply` | `Spec => []RequestsDoNotMultiply` | (two replicas, in the property) |
| `KvRing_proofs` | `RingTypes` | `RI!Spec => []RI!TypeOK` | `RI!KvRingAssumption` |
| | `AlwaysRingOfMembers` | `RI!Spec => []RI!RingOfMembers` | the same |
| | `AlwaysMovesAreMinimal` | `RI!Spec => [][RI!MovesAreMinimal]_(RI!vars)` | the same |
| | `AlwaysReplicasAreNearest` | `RI!Spec => []RI!ReplicasAreNearest` | the same |
| `Queues_proofs` | `BufferTypes` | `RB!Spec => []RB!TypeOK` | that of the part, and so below |
| | `AlwaysDrained` | `RB!Spec => []RB!Drained` | also: somebody pops |
| | `ImplementsFifoSteps` | `RB!Spec => RB!Fifo!Spec` | |
| | `LockedQueueIsFifo` | `BQ!Spec => []BQ!TypeOK /\ BQ!Fifo!Spec` | |
| | `QueueEndsEmpty` | `BQ!Spec => []BQ!EndsEmpty` | also: `BQ!LeavesOne` |
| | `TasksCountedOnce` | `DI!Spec => [](DI!TypeOK /\ DI!CountedOnce /\ DI!LeftBehindUnseen)` | |
| `Parts_proofs` | `RaftTypeCorrect` | `RF!Spec => []RF!TypeOK` | |
| | `AlwaysOneLeaderPerTerm` | `RF!Spec => []RF!OneLeaderPerTerm` | |
| | `AlwaysElectionLeavesOne` | `RF!Spec => [][RF!ElectionLeavesOne]_(RF!vars)` | |
| | `BreakerStaysOpen` | `CB!Spec => [](CB!TypeOK /\ CB!StaysOpen)` and `[][CB!ClosesOnSuccesses]_(CB!vars)` | |
| | `SetAddWins` | `OR!Spec => [](OR!TypeOK /\ OR!AddWins)` | |
| | `CountersCountOnce` | `PN!Spec => [](PN!TypeOK /\ PN!NeverOvercounts /\ PN!SyncCountsAll)` | |
| | `WhatIsPublishedIsRead` | `PU!Spec => []PU!PublishedIsRead` | |
| | `StealersLeaveWhenDry` | `WS!Spec => [](WS!TypeOK /\ WS!LeavesWhenDry /\ WS!AllProcessed)` | |
| | `WatchersHearInOrder` | `WA!Spec => [](WA!TypeOK /\ WA!HeardInOrder)` | |
| | `ChangesArePublished` | `WA!Spec => []WA!ChangesPublished` | |
| | `StatsAsUnderLock` | `ST!Spec => [](ST!TypeOK /\ ST!JoinedAsUnderLock /\ ST!ExtremesCover /\ ST!ExtremesTaken)` | |
| | `MetricsAreRight` | `ME!Spec => [](ME!TypeOK /\ ME!ConnectionsCounted /\ ME!LagWithinSamples /\ ME!OpsCoverKinds)` | |
| | `RetriesBackOff` | `RT!Spec => [](RT!TypeOK /\ RT!GivesUpInTurn /\ RT!BacksOff)` | |
| | `NodesCountTheirPeers` | `NO!Spec => [](NO!TypeOK /\ NO!NamesAgree)` | |
| `Parts_proofs`, the whole | `PartsRun` | `Spec` implies the `Spec` of each of the sixteen parts | |
| | `TypeCorrect` | `Spec => []TypeOK` | |
| | `AlwaysWorkIsDone`, `AlwaysLeftBehindUnseen`, `AlwaysUpdatesAreKept`, `AlwaysChangesAreHeard`, `AlwaysCountersAgree`, `AlwaysNamesAgree` | `Spec => []WorkIsDone` and so on | |
| | `AlwaysOneLeader`, `AlwaysCallsAreHeldBack`, `AlwaysPlacementHolds` | `Spec => OneLeaderPerTerm` and so on | |

`Data_proofs` holds the lemmas that several of them cite. Those on lists without
repetitions (joining at the end, leaving from any place, moving up) serve the
queues of the tokio mutexes and the list of nodes. `OneListing` says that two lists
of one set of numbers, both in order, are the same list, by the rank of a number in
its set (`Ranks`). `IterationExists` gives a function defined by recursion on the
numbers its values, which the powers of a multiplier and the walk along a ring are
built from. The library's folds and the sum
taken with one are recursive functions on the subsets of a finite set. The
library's induction theorems take a predicate as a parameter, which no backend can
instantiate, but a set can be given instead: well-founded induction on
`StrictSubsetOf(D)` puts every subset of `D` into a set that every subset enters
once its smaller ones are in (`SubsetsReached`), and likewise for the numbers
(`NumbersAll`). From this follow that a fold exists, that the sum of a function
changes with one of its values, covers each of them, counts a set when they are 0
or 1, and may be taken in any order.

### The arguments

**KvStorage.** `TypeInv` adds to `TypeOK` that a thread inside a keyed call names a
key. `VersionInv` is the inductive invariant of the version counter. Its central
part is that a thread about to exchange holds a version above the value it
observed (`CasRaises`): it makes a successful exchange an increase, so the counter
never goes down and every bound by it is kept by the steps of all the other
threads. `HistoryBounded` bounds `seen`, `floor` and `issued` by the counter, which
gives both that a fresh version is above the floor of its call and that it
belongs to no other thread. The count of gets is preserved because every step of
a get moves one thread in or out of the set of running gets together with one
counter.

`OneWriterMonotone` has a hypothesis on who calls what, which excludes a
race that a run shows: `WriterInv` relates a writer's version to the entry under
its key when nobody else writes that key (`KvStorageCopyRace` has two writers).
Deletions are free. `JudgedIsRemoved` has none. `ExpirerInv` says of every thread in
a get or a purge that what it judged is still what is stored, or gone, and stays
expired, for the keys that were not written since it looked, which `rewritten`
tells; a removal of any other key is a removal of what has expired.

**The owned store.** In the scene `owned` of `KvScenes` the callers' operations are
not a constant: `OpsOf` lets every thread call anything, and the scene keeps the
others than `Owner` to deletions. So `WriterInv` is stated for any table
of operations, with `Within(Ops)`: the calls under way are those of `Ops`.
`OwnedOps` has one writer per key whatever the threads and keys
(`OnlyOwner`), and in this scene every step stays within it (`NextOwned`).

**KvRpc**, in the scene `channel`. That the task that holds a mutex and the task the mutex names are the
same (`HolderOK`) makes two readers of one stream impossible. Then the length of
the log is what was read, plus what was abandoned, plus one if somebody reads
(`LogOK`), and the request of whoever reads is the last of the log (`MineOK`).
When nothing was abandoned, the next response is therefore the reader's own; the
moment a call gives up after its request is written, the sum shifts for ever.

**KvReplication.** `Structure` says what a message in transit tells of its job, that
an entry carries the version of a job of its write, and that a job's
acknowledgements and the replicas it still waits for never exceed the replicas and
one: a forwarding node counts the primary twice. An answer need not be of the job
that reads it; what it tells is that the replica it comes from has reached the
version of the job it belongs to. So `AcksReached` counts for each job the
replicas it no longer waits for that reached its version *or whose answers lag*
(`Counted`): who reads another call's answer leaves its own unread, so this
replica is in `Lagging` from then on, and stays there. As long as no crashed node has come back
(`Intact`) and, if one is down, no call timed out, a job at a replica has no more acknowledgements than `Counted` has
members, a forwarding one at most one more, and then the primary has run the
put. `AckedOnQuorum` follows for any quorum, since a forwarding node takes over the version
of a job that met the quorum itself, or reads a late answer.

The other promises of an acknowledgement need `FullQuorum`: the quorum is all the
replicas, as `main.rs:68-72` has it by default (`replication_factor` 2,
`write_quorum` 2). It is not there for the proof's sake: with three replicas and a
quorum of two the statement is false, since a write acknowledged by a and b can be
followed by one that the third replica numbers from its own, lower counter, and
the two replicas acknowledge that copy while they refuse it. With it, and while
no call times out, every replica has reached every acknowledged version
(`AckedEverywhere`), so whichever replica numbers the next write numbers it above
(`LaterJobsNewer`): this is about the counters, and holds whatever overlaps. That
a replica which reached a version also *holds* it or a newer one is another
matter: it takes `Serial`, by which, until two writes of the key overlap in one
storage, what a node is about to insert is newer than its entry.

For the refinement of `AckedRegister`, `Copy` must not take a superseded write. What
is newer than the entry it replaces is none (`NewerIsCurrent`): the
replica has reached the version of every acknowledged write, which lies above
those of the writes it supersedes, and every job of an acknowledged write that
runs at a replica has the version of that write (`AckedJob`). `Ack` needs that all
replicas hold a write and none a superseded one (`AckedIsHeld`). The register then
keeps its promise by itself: `ReadsAreFresh` is inductive together with the order of
the history (`RegisterOrder`), and the cluster keeps it too as long as it is
`Orderly` (`ReplicaReadsAreFresh`).

With one numbering node and no answer read by another call versions name writes
(`VersionsUnique`), and while writes do not overlap every version
is at each replica or on its way to it (`CopiesDelivered`): once nothing is on
its way, all hold the newest.

**KvFanout.** `Structure` relates three views of a call: the job that asks, the
queue of the mutex and the flight on the connection. `Elapsed` bounds the time a
request has taken by the replicas it has tried, with the age of the call it is in:
`AnsweredInTime` alone does not bound the next wait. As long as no call timed out,
`Calm` holds: what is in flight on a connection is the request of the job at the
head of its queue (`Flights`), a put's acknowledgements and open calls cover the
replicas (`Acks`), and so on for stores and gets. The first timeout ends it,
which the run `KvFanoutPut` shows to be essential.

`RequestsDoNotMultiply` counts more than the requests in the streams: also those
that a job has still to write, now or when its get comes to them (`Owed`). A step
of a job moves one of them on or settles it, a request of a client pays for what
its handler adds, and a request read from a stream pays for the only one that its
handler may send, to the other of two replicas.

**KvRing.** `Covers`: the positions of the ring are those of its members' virtual
nodes, if no two nodes share a position or none was removed; a removal takes a
shared position out and gives it back to nobody. `LastWins`: a position is held by
the last of its nodes in the list, until a removal. For the moves of keys, a
lookup that still ends at a position of the old ring ends where it did
(`SameFirst`), by the minimum of a set of numbers; so only keys that meet the
virtual nodes of the node that comes or goes change hands. For
`ReplicasAreNearest`, the walk from a key visits the positions in the order of their
distance (`InOrder`), so the first position of a node that is met is the nearest
(`FirstMetIsNearest`), and after i turns of the loop the list holds the first
distinct nodes among the first i positions, at most as many as asked
(`TakenInTurn`): each turn takes one node more or leaves the list as it is.

**RingBuffer.** A consumer is told that the buffer is closed only when it is
closed and empty for good, a waiting thread is in the set of its condition
variable, and `close` proceeds in three steps in order. Every step maps to a step
of `BoundedFifo` or to a stutter of it: `Push` and `Pop` that take effect to
theirs, waiting, waking and notifying to stutters.

**BoundedQueue.** The lock serialises the calls, so the types and one fact suffice:
a thread that waits on a condition is in the call that waits on it. `push` and
`pop` map to the abstract ones when they take the lock and find room, or a value.
That the queue ends empty is a count (`DrainInv`): what is in it, what the producers
have still to push and what all pop together is what all push together, and the
last thread looks when the others have ended.

**Dispatcher.** What is submitted is counted, in work, in the queue, or reported as
dropped; each step moves one task from one of the four to the next, so the sum of
the four is what was sent. For `LeftBehindUnseen` a worker's last look at the queue
is compared with the number submitted: what is left then is what came after.

**RaftDemo.** That a majority has reached every term in which a leader was elected
(`ElectedOnMajority`) is what makes `OneLeaderPerTerm` inductive: the voters of an
election are below its term, two majorities meet, so the term is new. About the
logs nothing is proved: they diverge (`RaftDemoDiverge`).

**CircuitBreaker.** The age of the last opening (`quiet`, a history) is the one the
breaker itself reads, which fails as soon as a late report may move `opened_at`;
and the successes reported since the circuit half-opened are those it counts.

**OrSet.** A tag stands for one add of one replica, so no tag of an add yet to come
is in any set (`Known`): the union of two sets can bring back an old element but
not take one away, and a remove takes what its own replica has seen.

**PNCounter.** What a replica holds of itself is exact, and what it holds of another
is never ahead of that (`Sound`); merging keeps both whatever states are merged, so
the sum over the replicas never exceeds the updates made. Replicas that agree hold
what each holds of itself, which is all.

**Publication.** The writes to `data` that the producer has made are the first
values, in order (`TodoOK`); the one write to `ready` carries the view in which all
of them are made (`FlagOK`); the consumer has this view when it has read that
write (`SeenOK`).

**WorkStealing.** Nobody is given a task once the threads run, so a deque found
empty stays empty (`RoundOK`), and a round of steals that finds nothing has seen
all deques empty although it looked at them one after the other. What is in the
deque of the first worker, in work or counted adds up to the tasks (`TaskInv`).

**AtomicStats.** The reference under the mutex takes a record in one step, when its
last atomic access is done. Until then each atomic is ahead of it by the records
under way that have passed its step (`StatsCounted`, a sum over the threads); an
extreme covers the reference and these records, and is one of them (`MaxOK`,
`MinOK`), which an exchange keeps since what it read was the extreme
(`SeenBehind`). That it is one of the latencies that went through, or its initial value, is kept
by every step by itself (`ExtremesStep`), as no latency leaves the past (`PastStays`). When the threads have ended nobody is ahead.

**WatchServer.** What a client heard, followed by what its stream holds, ascends and
ends before the event its receiver reads next (`HearingOK`), and its length and
the skipped count add up to the events since it subscribed. Moving an event from
the stream to the client leaves that list alone (`ReadsOn`); a receiver that lags
moves its place and the count by the same amount. A change is made under the lock
and published after it: the changes are those published and the one each writer has
in hand, none of them twice (`PublishInv`).

**KvMetrics.** The average that is stored, and the one a task has loaded and not
stored yet, lie between two latencies measured (`Between`). A new average is a
weighted mean of one of these and of a new latency, whichever of two tasks stores
last. The gauge counts the tasks that are neither idle nor gone. The counters by
kind and the tasks between the two increments add up to no more than the counter of
all (`OpsInv`).

**RetryBackoff.** A call that sleeps has an attempt left, and a call that ended
with a permanent error has made no attempt after it (`RetryInv`). The base delay of an
attempt is the one before times the multiplier, or the cap, since the powers of the
multiplier grow; without jitter the delay slept is the base delay (`DelayInv`).

**KvNode.** The clients a node holds are those that its turn over the list gave
names to, so their number, and every count of them in a turn of the loop, is
bounded by the length of the list (`NodesInv`). `NamesAgree` is about the lists alone:
if the nodes at the places of the lists agree, each list names the others by rank,
and a list of all the others in order is the only one that does (`OneListing`).

**Parts.** The part that runs takes its steps, and a part that does not run keeps
its variables, so each part sees a behaviour of its own specification (`PartsRun`);
the theorems of the parts then give the properties of the whole. The same goes for
`ScenesRun`.

### Model-checked only

Every invariant, every action property and the steps of every refinement that a
passing run checks are theorems. What is left to TLC is liveness under fairness, out
of the prover's reach: `CallsReturn`, `CallsEnd`, `ClientsAnswered`, `PutsAnswered`,
`ThreadsEnd`, `Recovers`, `ReplicasConverge`, and the part of `QueuesAreFifo` that
says a call of the abstract queue that can take effect does. `ImplementsFifoSteps`
and `LockedQueueIsFifo` prove the rest of it.

The expected violations are counterexamples that TLC finds. A theorem beside each
says under which condition the property holds: one writer of a key, no
call that gave up, one numbering node, no crash; or what is left of it: an
expiration removes alive only what was written since it looked, a term has one
leader, and the dispatcher leaves only tasks that nobody looked for again.

## Not modelled

`scan`, `len` and `snapshot` only read. `ConfigStore` and `demo_dashmap` have one
locked step per operation and no state between two of them. A panic in a handler,
which would leave the gauge of connections raised, is left out: no handler raises
one by itself. The bytes of the frames, the text of `/metrics`, the HTTP server,
logging and the command line carry no property. The sequential demos (data
layout, SIMD, rayon, serialisation) and the benchmarks have no shared state that
outlives a step.

## Plan

1. `KvFanout` with three replicas, where every handler asks two nodes, and
   composed with the storage step of `KvReplication`: a late copy after a delete.
2. The register with a quorum smaller than the number of replicas, where reads may
   be stale: how far back.
3. Reads in `KvReplication`, so that what a get returns, and not only what a replica
   holds, is compared with the register.
