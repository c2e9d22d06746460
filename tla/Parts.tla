------------------------------- MODULE Parts -------------------------------
(***************************************************************************)
(* The parts that have no run of their own, side by side: "topic" says     *)
(* which of them runs in a behaviour, the others stay in their initial     *)
(* state.  The constants of a part bear its two letters.  The properties   *)
(* gather what the parts promise by theme; each is a conjunction of        *)
(* properties of the parts, stated and explained in their modules.         *)
(***************************************************************************)
EXTENDS Naturals, Sequences, FiniteSets

CONSTANTS
  RbProducer, RbConsumer, RbMessages, RbCapacity,
  BqProducer, BqConsumer, BqDrain, BqPushes, BqPops, BqCapacity,
  DiProducer, DiWorker, DiPerProducer, DiCapacities,
  WsWorkers, WsTasks,
  StThread, StRecords, StMaxU64, StMaxSpurious,
  PuValues,
  PnNode, PnMaxUpdates,
  OrNode, OrItem, OrMaxUpdates,
  RfNodes, RfMaxTerm, RfMaxLog,
  CbCaller, CbFailureThreshold, CbSuccessThreshold, CbResetTimeout, CbMaxOutages,
  CbMaxDrops,
  RtPolicies,
  WaWriter, WaWatcher, WaKey, WaMaxWrites, WaBuffer, WaWindow,
  RiNode, RiPositions, RiLayouts,
  NoNodes, NoLists, NoMaxCrashes,
  MeConn, MeRequests, MeLatencies, MeKinds,
  RpNode, RpReplicas, RpWriteQuorum, RpWrite, RpEntryOf, RpMaxCrashes,
  RpMaxTimeouts, RpNone

VARIABLE topic   \* never changes

-----------------------------------------------------------------------------
(* The instances. *)

VARIABLES
  rbQueue, rbClosed, rbCall, rbLast, rbPc, rbWaiting, rbSent, rbClosing
rb ==
  <<rbQueue, rbClosed, rbCall, rbLast, rbPc, rbWaiting, rbSent, rbClosing>>
RB == INSTANCE RingBuffer WITH
  Producer <- RbProducer, Consumer <- RbConsumer, Messages <- RbMessages,
  Capacity <- RbCapacity, queue <- rbQueue, closed <- rbClosed, call <- rbCall,
  last <- rbLast, pc <- rbPc, waiting <- rbWaiting, sent <- rbSent,
  closing <- rbClosing

VARIABLES
  bqQueue, bqCall, bqLast, bqNotFull, bqNotEmpty, bqLeft
bq == <<bqQueue, bqCall, bqLast, bqNotFull, bqNotEmpty, bqLeft>>
BQ == INSTANCE BoundedQueue WITH
  Producer <- BqProducer, Consumer <- BqConsumer, Drain <- BqDrain,
  Pushes <- BqPushes, Pops <- BqPops, Capacity <- BqCapacity, queue <- bqQueue,
  call <- bqCall, last <- bqLast, not_full <- bqNotFull, not_empty <- bqNotEmpty,
  left <- bqLeft

VARIABLES
  diCapacity, diQueue, diRunning, diStats, diDropped, diSent, diPc, diTask,
  diLooked
di ==
  <<diCapacity, diQueue, diRunning, diStats, diDropped, diSent, diPc, diTask,
  diLooked>>
DI == INSTANCE Dispatcher WITH
  Producer <- DiProducer, Worker <- DiWorker, PerProducer <- DiPerProducer,
  Capacities <- DiCapacities, capacity <- diCapacity, queue <- diQueue,
  running <- diRunning, stats <- diStats, dropped <- diDropped, sent <- diSent,
  pc <- diPc, task <- diTask, looked <- diLooked

VARIABLES
  wsDeque, wsProcessed, wsPc, wsStealer, wsOldest
ws == <<wsDeque, wsProcessed, wsPc, wsStealer, wsOldest>>
WS == INSTANCE WorkStealing WITH
  Workers <- WsWorkers, Tasks <- WsTasks, deque <- wsDeque,
  processed <- wsProcessed, pc <- wsPc, stealer <- wsStealer, oldest <- wsOldest

VARIABLES
  stProgram, stValue, stAt, stSeen, stRead, stSpurious, stGuarded
st == <<stProgram, stValue, stAt, stSeen, stRead, stSpurious, stGuarded>>
ST == INSTANCE AtomicStats WITH
  Thread <- StThread, Records <- StRecords, MaxU64 <- StMaxU64,
  MaxSpurious <- StMaxSpurious, program <- stProgram, value <- stValue,
  at <- stAt, seen <- stSeen, read <- stRead, spurious <- stSpurious,
  guarded <- stGuarded

VARIABLES
  puWrites, puKnows, puTodo, puStage, puGot
pu == <<puWrites, puKnows, puTodo, puStage, puGot>>
PU == INSTANCE Publication WITH
  Values <- PuValues, writes <- puWrites, knows <- puKnows, todo <- puTodo,
  stage <- puStage, got <- puGot

VARIABLES
  pnP, pnN, pnUps, pnDowns
pn == <<pnP, pnN, pnUps, pnDowns>>
PN == INSTANCE PNCounter WITH
  Node <- PnNode, MaxUpdates <- PnMaxUpdates, p <- pnP, n <- pnN, ups <- pnUps,
  downs <- pnDowns

VARIABLES
  orCounter, orElements, orRemoves, orWanted
or == <<orCounter, orElements, orRemoves, orWanted>>
OR == INSTANCE OrSet WITH
  Node <- OrNode, Item <- OrItem, MaxUpdates <- OrMaxUpdates,
  counter <- orCounter, elements <- orElements, removes <- orRemoves,
  wanted <- orWanted

VARIABLES
  rfRole, rfCurrentTerm, rfVotedFor, rfLog, rfCommitIndex, rfAlive, rfElected
rf ==
  <<rfRole, rfCurrentTerm, rfVotedFor, rfLog, rfCommitIndex, rfAlive, rfElected>>
RF == INSTANCE RaftDemo WITH
  Nodes <- RfNodes, MaxTerm <- RfMaxTerm, MaxLog <- RfMaxLog, role <- rfRole,
  current_term <- rfCurrentTerm, voted_for <- rfVotedFor, log <- rfLog,
  commit_index <- rfCommitIndex, alive <- rfAlive, elected <- rfElected

VARIABLES
  cbState, cbFailureCount, cbSuccessCount, cbElapsed, cbPc, cbUp, cbOutages,
  cbDrops, cbQuiet, cbTested
cb ==
  <<cbState, cbFailureCount, cbSuccessCount, cbElapsed, cbPc, cbUp, cbOutages,
  cbDrops, cbQuiet, cbTested>>
CB == INSTANCE CircuitBreaker WITH
  Caller <- CbCaller, failure_threshold <- CbFailureThreshold,
  success_threshold <- CbSuccessThreshold, reset_timeout <- CbResetTimeout,
  MaxOutages <- CbMaxOutages, MaxDrops <- CbMaxDrops, state <- cbState,
  failure_count <- cbFailureCount, success_count <- cbSuccessCount,
  elapsed <- cbElapsed, pc <- cbPc, up <- cbUp, outages <- cbOutages,
  drops <- cbDrops, quiet <- cbQuiet, tested <- cbTested

VARIABLES
  rtPolicy, rtAttempt, rtPc, rtDelay, rtBefore, rtLeft, rtResult
rt == <<rtPolicy, rtAttempt, rtPc, rtDelay, rtBefore, rtLeft, rtResult>>
RT == INSTANCE RetryBackoff WITH
  Policies <- RtPolicies, policy <- rtPolicy, attempt <- rtAttempt, pc <- rtPc,
  delay <- rtDelay, before <- rtBefore, left <- rtLeft, result <- rtResult

VARIABLES
  waStore, waChanges, waCalls, waPending, waEvents, waPc, waNext, waSince,
  waStream, waHeard, waSkipped, waGone
wa ==
  <<waStore, waChanges, waCalls, waPending, waEvents, waPc, waNext, waSince,
  waStream, waHeard, waSkipped, waGone>>
WA == INSTANCE WatchServer WITH
  Writer <- WaWriter, Watcher <- WaWatcher, Key <- WaKey,
  MaxWrites <- WaMaxWrites, Buffer <- WaBuffer, Window <- WaWindow,
  store <- waStore, changes <- waChanges, calls <- waCalls, pending <- waPending,
  events <- waEvents, pc <- waPc, next <- waNext, since <- waSince,
  stream <- waStream, heard <- waHeard, skipped <- waSkipped, gone <- waGone

VARIABLES
  riLayout, riRing, riNodes, riRemoved
ri == <<riLayout, riRing, riNodes, riRemoved>>
RI == INSTANCE KvRing WITH
  Node <- RiNode, Positions <- RiPositions, Layouts <- RiLayouts,
  layout <- riLayout, ring <- riRing, nodes <- riNodes, removed <- riRemoved

VARIABLES
  noLists, noStage, noStep, noPool, noLive, noCounting, noAlive, noTotal,
  noCrashes
no ==
  <<noLists, noStage, noStep, noPool, noLive, noCounting, noAlive, noTotal,
  noCrashes>>
NO == INSTANCE KvNode WITH
  Nodes <- NoNodes, Lists <- NoLists,
  MaxCrashes <- NoMaxCrashes, lists <- noLists, stage <- noStage, step <- noStep,
  pool <- noPool, live <- noLive, counting <- noCounting, alive <- noAlive,
  total <- noTotal, crashes <- noCrashes

VARIABLES
  meCount, meActiveConnections, meLag, mePc, meKind, meLatency, mePrev,
  meDone, meSamples
me ==
  <<meCount, meActiveConnections, meLag, mePc, meKind, meLatency, mePrev,
  meDone, meSamples>>
ME == INSTANCE KvMetrics WITH
  Conn <- MeConn, Requests <- MeRequests, Latencies <- MeLatencies,
  Kinds <- MeKinds, count <- meCount, active_connections <- meActiveConnections,
  lag <- meLag, pc <- mePc, kind <- meKind, latency <- meLatency, prev <- mePrev,
  done <- meDone, samples <- meSamples

VARIABLES
  rpUp, rpStore, rpCounter, rpJob, rpMsgs, rpLate, rpCrashes, rpTimeouts,
  rpOverlapped, rpAcked, rpBefore
rp ==
  <<rpUp, rpStore, rpCounter, rpJob, rpMsgs, rpLate, rpCrashes, rpTimeouts,
  rpOverlapped, rpAcked, rpBefore>>
RP == INSTANCE KvReplication WITH
  Node <- RpNode, Replicas <- RpReplicas, WriteQuorum <- RpWriteQuorum,
  Write <- RpWrite, EntryOf <- RpEntryOf, MaxCrashes <- RpMaxCrashes,
  MaxTimeouts <- RpMaxTimeouts, None <- RpNone, up <- rpUp, store <- rpStore,
  counter <- rpCounter, job <- rpJob, msgs <- rpMsgs, late <- rpLate,
  crashes <- rpCrashes, timeouts <- rpTimeouts, overlapped <- rpOverlapped,
  acked <- rpAcked, before <- rpBefore

vars ==
  <<topic, rb, bq, di, ws, st, pu, pn, or, rf, cb, rt, wa, ri, no, me, rp>>

Topics ==
  {"ring_buffer", "bounded_queue", "dispatcher", "work_stealing",
  "statistics", "publication", "counter", "set", "raft", "breaker", "retry",
  "watch", "ring", "node", "metrics", "crash"}

Init ==
  /\ topic \in Topics
  /\ RB!Init /\ BQ!Init /\ DI!Init /\ WS!Init
  /\ ST!Init /\ PU!Init /\ PN!Init /\ OR!Init
  /\ RF!Init /\ CB!Init /\ RT!Init /\ WA!Init
  /\ RI!Init /\ NO!Init /\ ME!Init /\ RP!Init
  (* What a part may choose at the start is chosen in its own behaviours. *)
  /\ topic # "dispatcher" => diCapacity = CHOOSE c \in DiCapacities : TRUE
  /\ topic # "statistics" => stProgram = "exo06"
  /\ topic # "retry" => rtPolicy = CHOOSE q \in RtPolicies : TRUE
  /\ topic # "ring" => riLayout = CHOOSE l \in RiLayouts : TRUE
  /\ topic # "node" => noLists = CHOOSE l \in NoLists : TRUE

-----------------------------------------------------------------------------
(* One part runs, the others stay as they are. *)

On(t) == topic = t

Others(t) ==
  /\ UNCHANGED topic
  /\ t # "ring_buffer" => UNCHANGED rb
  /\ t # "bounded_queue" => UNCHANGED bq
  /\ t # "dispatcher" => UNCHANGED di
  /\ t # "work_stealing" => UNCHANGED ws
  /\ t # "statistics" => UNCHANGED st
  /\ t # "publication" => UNCHANGED pu
  /\ t # "counter" => UNCHANGED pn
  /\ t # "set" => UNCHANGED or
  /\ t # "raft" => UNCHANGED rf
  /\ t # "breaker" => UNCHANGED cb
  /\ t # "retry" => UNCHANGED rt
  /\ t # "watch" => UNCHANGED wa
  /\ t # "ring" => UNCHANGED ri
  /\ t # "node" => UNCHANGED no
  /\ t # "metrics" => UNCHANGED me
  /\ t # "crash" => UNCHANGED rp

RunRingBuffer == On("ring_buffer") /\ RB!Next /\ Others("ring_buffer")
RunBoundedQueue == On("bounded_queue") /\ BQ!Next /\ Others("bounded_queue")
RunDispatcher == On("dispatcher") /\ DI!Next /\ Others("dispatcher")
RunWorkStealing == On("work_stealing") /\ WS!Next /\ Others("work_stealing")
RunAtomicStats == On("statistics") /\ ST!Next /\ Others("statistics")
RunPublication == On("publication") /\ PU!Next /\ Others("publication")
RunPNCounter == On("counter") /\ PN!Next /\ Others("counter")
RunOrSet == On("set") /\ OR!Next /\ Others("set")
RunRaftDemo == On("raft") /\ RF!Next /\ Others("raft")
RunCircuitBreaker == On("breaker") /\ CB!Next /\ Others("breaker")
RunRetryBackoff == On("retry") /\ RT!Next /\ Others("retry")
RunWatchServer == On("watch") /\ WA!Next /\ Others("watch")
RunKvRing == On("ring") /\ RI!Next /\ Others("ring")
RunKvNode == On("node") /\ NO!Next /\ Others("node")
RunKvMetrics == On("metrics") /\ ME!Next /\ Others("metrics")
RunKvReplication == On("crash") /\ RP!Next /\ Others("crash")

Next ==
  \/ RunRingBuffer \/ RunBoundedQueue \/ RunDispatcher
  \/ RunWorkStealing \/ RunAtomicStats \/ RunPublication
  \/ RunPNCounter \/ RunOrSet \/ RunRaftDemo
  \/ RunCircuitBreaker \/ RunRetryBackoff \/ RunWatchServer
  \/ RunKvRing \/ RunKvNode \/ RunKvMetrics
  \/ RunKvReplication

(* What each part's module assumes of its scheduling, while it runs. *)
Fairness ==
  /\ \A t \in RB!Thread : WF_rb(On("ring_buffer") /\ RB!Work(t))
  /\ \A p \in RbProducer : WF_rb(On("ring_buffer") /\ RB!Produce(p))
  /\ \A c \in RbConsumer : WF_rb(On("ring_buffer") /\ RB!Consume(c))
  /\ WF_rb(On("ring_buffer") /\ RB!CloseNotifies)
  /\ WF_bq(On("bounded_queue") /\ BQ!Begin)
  /\ \A t \in BQ!Thread : WF_bq(On("bounded_queue") /\ (BQ!Push(t) \/ BQ!Pop(t)))
  /\ \A w \in DiWorker : WF_di(On("dispatcher") /\ DI!Work(w))
  /\ \A w \in WS!Worker : WF_ws(On("work_stealing") /\ WS!Run(w))
  /\ \A r, s \in PnNode : WF_pn(On("counter") /\ PN!Merge(r, s))
  /\ \A r, s \in OrNode : WF_or(On("set") /\ OR!Merge(r, s))
  /\ \A t \in StThread : WF_st(On("statistics") /\ ST!Run(t))
  /\ WF_cb(On("breaker") /\ CB!Tick)
  /\ WF_cb(On("breaker") /\ \E c \in CbCaller : CB!Call(c))
  /\ \A c \in CbCaller :
       WF_cb(On("breaker") /\ (CB!Answer(c) \/ CB!Report(c)))
  /\ WF_rt(On("retry") /\ RT!Next)
  /\ \A t \in WaWriter : WF_wa(On("watch") /\ WA!Publish(t))
  /\ \A w \in WaWatcher : WF_wa(On("watch") /\ WA!Task(w))
  /\ \A w \in WaWatcher : WF_wa(On("watch") /\ WA!Read(w))
  /\ \A n \in NO!Node : WF_no(On("node") /\ NO!Run(n))
  /\ \A j \in RP!Job :
       WF_rp(On("crash") /\ (RP!Store(j) \/ RP!GiveUp(j) \/ RP!Conclude(j)))

Spec == Init /\ [][Next]_vars /\ Fairness

-----------------------------------------------------------------------------
(* What the parts assume of their constants. *)

ASSUME RingBufferConstants == RB!RingBufferAssumption /\ RbConsumer # {}
ASSUME BoundedQueueConstants == BQ!BoundedQueueAssumption /\ BQ!LeavesOne
ASSUME DispatcherConstants == DI!DispatcherAssumption
ASSUME AtomicStatsConstants == ST!AtomicStatsAssumption
ASSUME PNCounterConstants == PN!PNCounterAssumption
ASSUME OrSetConstants == OR!OrSetAssumption
ASSUME RaftDemoConstants == RF!RaftDemoAssumption
ASSUME KvRingConstants == RI!KvRingAssumption
ASSUME CircuitBreakerConstants == CB!CircuitBreakerAssumption
ASSUME WatchServerConstants == WA!WatchServerAssumption
ASSUME PublicationConstants == PU!PublicationAssumption
ASSUME WorkStealingConstants == WS!WorkStealingAssumption
ASSUME KvMetricsConstants == ME!KvMetricsAssumption
ASSUME KvNodeConstants == NO!KvNodeAssumption
ASSUME RetryBackoffConstants == RT!RetryBackoffAssumption

-----------------------------------------------------------------------------
(* Properties. *)

\* Each part keeps the types of its variables, and what its TypeOK says of how they
\* hang together.
TypeOK ==
  /\ On("ring_buffer") => RB!TypeOK
  /\ On("bounded_queue") => BQ!TypeOK
  /\ On("dispatcher") => DI!TypeOK
  /\ On("work_stealing") => WS!TypeOK
  /\ On("statistics") => ST!TypeOK
  /\ On("counter") => PN!TypeOK
  /\ On("set") => OR!TypeOK
  /\ On("raft") => RF!TypeOK
  /\ On("breaker") => CB!TypeOK
  /\ On("retry") => RT!TypeOK
  /\ On("watch") => WA!TypeOK
  /\ On("ring") => RI!TypeOK
  /\ On("node") => NO!TypeOK
  /\ On("metrics") => ME!TypeOK

\* The queues of exercise 5 and of the locks demo, whose calls wait, wake and notify
\* in steps of their own, implement the bounded queue of BoundedFifo: what they
\* return is in order and no wake-up is lost (exo05_ringbuffer.rs:39-101,
\* demo05_mutex_rwlock.rs:123-179).
QueuesAreFifo == RB!ImplementsFifo /\ BQ!ImplementsFifo

\* The threads of the exercises end: close() and stop() free those that wait, a lost
\* compare-exchange or a lost steal is tried again but not for ever, and a call that
\* is retried gives up (exo05_ringbuffer.rs:94-101, exo07_dispatcher.rs:66-75,
\* exo06_stats.rs:67-95, demo07_lockfree_crossbeam.rs:170-220,
\* demo_3_4b_retry_backoff.rs:98-135).
ThreadsEnd ==
  /\ RB!ClosedEnds /\ BQ!AllThreadsEnd /\ DI!StoppedLeave /\ WS!WorkersLeave
  /\ ST!RecordsEnd /\ RT!CallsEnd

\* Nothing that was handed over is lost or done twice: the queues are empty when
\* their threads have ended, a task is waiting, in work, counted or reported as
\* dropped, and a thief leaves when all the deques are dry
\* (exo05_ringbuffer.rs:149-163, demo05_mutex_rwlock.rs:286-300,
\* exo07_dispatcher.rs:223-230, demo07_lockfree_crossbeam.rs:236).
WorkIsDone ==
  /\ On("ring_buffer") => RB!Drained
  /\ On("bounded_queue") => BQ!EndsEmpty
  /\ On("dispatcher") => DI!CountedOnce
  /\ On("work_stealing") => WS!AllProcessed /\ WS!LeavesWhenDry

\* What the dispatcher leaves behind was submitted after every worker's last look at
\* the queue (exo07_dispatcher.rs:66-75 and the test at 318).
LeftBehindUnseen == On("dispatcher") => DI!LeftBehindUnseen

\* Statistics that several threads move agree with a reference: the atomics with
\* the mutex, the published value with the one stored before the flag, the gauges
\* and averages of a node with its tasks and samples (exo06_stats.rs:67-95,
\* demo06_atomics_cas.rs:61-93, metrics.rs:66-77, server.rs:59-66).
CountersAgree ==
  /\ On("statistics") => ST!JoinedAsUnderLock /\ ST!ExtremesCover /\ ST!ExtremesTaken
  /\ On("publication") => PU!PublishedIsRead
  /\ On("metrics") =>
       ME!ConnectionsCounted /\ ME!LagWithinSamples /\ ME!OpsCoverKinds

\* Whatever replicas exchange, in whatever order and how often, a counter counts an
\* update once and an add survives the removes of the others
\* (demo_3_3b_crdt.rs:7-17, 38-40, 119-121).
UpdatesAreKept ==
  /\ On("counter") => PN!NeverOvercounts /\ PN!SyncCountsAll
  /\ On("set") => OR!AddWins

\* Once the updates are over, the replicas of a counter or of a set agree for good
\* (demo_3_3b_crdt.rs:7-17).
ReplicasConverge == PN!ReplicasConverge /\ OR!ReplicasConverge

\* However nodes crash and come back between elections, a term has one leader and an
\* election leaves one leader alive (demo_3_3c_raft.rs:11-12, 100-164).
OneLeaderPerTerm ==
  [][On("raft") => RF!OneLeaderPerTerm' /\ RF!ElectionLeavesOne]_vars

\* A circuit that opens stays open for its timeout whatever late calls report, and
\* closes on fresh successes; a retry gives up in turn and waits as its policy says
\* (demo_3_4a_circuit_breaker.rs:69-155, demo_3_4b_retry_backoff.rs:34-135).
CallsAreHeldBack ==
  [][/\ On("breaker") => CB!StaysOpen' /\ CB!ClosesOnSuccesses
     /\ On("retry") => RT!GivesUpInTurn' /\ RT!BacksOff']_vars

\* Every change of the gRPC store is published once, and a watcher hears the channel
\* in order or is told how much it lost (app-tokio-tonic/src/bin/server.rs:64-167).
ChangesAreHeard == On("watch") => WA!ChangesPublished /\ WA!HeardInOrder

\* The ring gives distinct nodes, the nearest first, after any additions and removals
\* and whatever positions collide; these move the keys of one node only
\* (consistent_hash.rs:43-103).  Stated of the state a step leaves: each is left.
PlacementHolds ==
  [][On("ring") =>
       RI!ReplicasAreNearest /\ RI!RingOfMembers /\ RI!MovesAreMinimal]_vars

\* The nodes agree on the ring and its names when their lists are in order, and only
\* then (main.rs:138-162).
NamesAgree == On("node") => NO!NamesAgree

\* What was down is used again: the circuit closes, the heartbeat loop finds the
\* peers that came back, a watcher that fell behind catches up
\* (demo_3_4a_circuit_breaker.rs:69-95, main.rs:230-270,
\* app-tokio-tonic/src/bin/server.rs:135-166).
Recovers == CB!Recovers /\ NO!PeersFoundAgain /\ WA!WatchersCatchUp

\* Every put is answered even if a node crashes meanwhile (replication.rs:106-168).
PutsAnswered == RP!PutsAnswered
=============================================================================
