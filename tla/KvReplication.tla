---------------------------- MODULE KvReplication ----------------------------
(***************************************************************************)
(* Quorum writes of one key over a cluster: put_replicated of              *)
(* replication.rs, with the Put and Replicate handlers of server.rs and    *)
(* the versions of storage.rs.                                             *)
(*                                                                         *)
(* Every node coordinates the puts it receives.  A coordinator that is a   *)
(* replica of the key writes locally and numbers the write; another one    *)
(* forwards the put to the first replica, whose handler runs the same code *)
(* as a put of its own.  Then the coordinator replicates to every other    *)
(* replica, counts the acknowledgements and compares them to the quorum.   *)
(*                                                                         *)
(* Nothing is locked between the steps of a storage call (KvStorage has    *)
(* them all): put takes its version and then inserts; put_with_version     *)
(* raises the counter, compares the versions and then inserts.             *)
(*                                                                         *)
(* A message is delivered at any time or never, and a call may fail at any *)
(* time: that covers broken connections and peers missing from the pool.   *)
(* A call that times out once its request is written leaves its answer     *)
(* unread on the connection, and as no answer names its request, the next  *)
(* call from that node to that peer may read it for its own (KvRpc).  Data *)
(* is in memory: a node that restarts is empty and numbers its writes from *)
(* 1 again.                                                                *)
(***************************************************************************)
EXTENDS Integers, FiniteSets, SequencesExt

CONSTANTS
  Node,
  Replicas,     \* the replicas of the key, in ring order (get_nodes)
  WriteQuorum,  \* write_quorum
  Write,        \* the clients' puts; a write is its own value
  EntryOf,      \* EntryOf[w]: the nodes that may receive put w from its client
  MaxCrashes,   \* bound on the crashes
  MaxTimeouts,  \* bound on the calls that time out with their request written
  None          \* no entry

Replica == Range(Replicas)
Primary == Head(Replicas)

ASSUME ReplicasAssumption ==
  Replicas \in Seq(Node) /\ Replicas # <<>> /\ IsFiniteSet(Node)
ASSUME QuorumAssumption == WriteQuorum \in Nat
ASSUME BoundAssumption == MaxCrashes \in Nat /\ MaxTimeouts \in Nat
ASSUME NoneAssumption ==
  None \notin Node /\ None \notin [ver : Nat, val : Write]
ASSUME EntryAssumption == EntryOf \in [Write -> SUBSET Node]

(* A job is one run of put_replicated: the client's, or the one that the     *)
(* primary runs for a forwarded put.                                         *)
Job == Write \X {"client", "forwarded"}

VARIABLES
  up,          \* up[n]: the process of node n runs
  store,       \* store[n]: the entry of the key at n
  counter,     \* counter[n]: its version_counter
  job,         \* job[j]: where it runs, its phase, version, acks and tasks
  msgs,        \* requests, on their way or in the hands of their handler
               \* ("checking", "inserting": in put_with_version), and answers
  late,        \* the calls given up whose answer another call may read
  crashes, timeouts,
  overlapped,  \* history: at some node a write of the key began during another
  acked,       \* history: the writes acknowledged to their client
  before       \* history: the writes acknowledged when each one was sent

vars ==
  <<up, store, counter, job, msgs, late, crashes, timeouts, overlapped, acked,
  before>>

NoJob == [at |-> None, phase |-> "none", ver |-> 0, acks |-> 0,
          waiting |-> {}]

Init ==
  /\ up = [n \in Node |-> TRUE]
  /\ store = [n \in Node |-> None]
  /\ counter = [n \in Node |-> 0]
  /\ job = [j \in Job |-> NoJob]
  /\ msgs = {}
  /\ late = {}
  /\ crashes = 0 /\ timeouts = 0
  /\ overlapped = FALSE
  /\ acked = {}
  /\ before = [w \in Write |-> {}]

Active(j, phase) ==
  /\ job[j].phase = phase
  /\ up[job[j].at]

-----------------------------------------------------------------------------
(* The first half of put_replicated. *)

\* A write of the key is under way in the storage of node n.
Busy(n) ==
  \/ \E j \in Job : job[j].phase = "storing" /\ job[j].at = n
  \/ \E m \in msgs : m.type \in {"checking", "inserting"} /\ m.to = n

Starts(n) == overlapped' = (overlapped \/ Busy(n))

\* Mutant: the version is computed but the counter is not advanced.
NumberKeepsCounter(j, n) ==
  /\ counter' = counter
  /\ job' = [job EXCEPT ![j] = [at |-> n, phase |-> "storing",
                                ver |-> counter[n] + 1, acks |-> 0,
                                waiting |-> {}]]
  /\ Starts(n)

\* StorageEngine::put takes a version.
Number(j, n) ==
  /\ counter' = [counter EXCEPT ![n] = @ + 1]
  /\ job' = [job EXCEPT ![j] = [at |-> n, phase |-> "storing",
                                ver |-> counter[n] + 1, acks |-> 0,
                                waiting |-> {}]]
  /\ Starts(n)

ClientPutAtReplica(w, n) ==
  LET j == <<w, "client">> IN
  /\ job[j] = NoJob
  /\ n \in EntryOf[w] \cap Replica
  /\ up[n]
  /\ Number(j, n)
  /\ before' = [before EXCEPT ![w] = acked]
  /\ UNCHANGED <<up, store, msgs, late, crashes, timeouts, acked>>

ClientPutElsewhere(w, n) ==
  LET j == <<w, "client">> IN
  /\ job[j] = NoJob
  /\ n \in EntryOf[w] \ Replica
  /\ up[n]
  /\ job' = [job EXCEPT ![j] = [at |-> n, phase |-> "forwarding", ver |-> 0,
                                acks |-> 0, waiting |-> {}]]
  /\ msgs' = msgs \cup {[type |-> "put", job |-> j, from |-> n,
                         to |-> Primary]}
  /\ before' = [before EXCEPT ![w] = acked]
  /\ UNCHANGED <<up, store, counter, late, crashes, timeouts, overlapped, acked>>

\* The Put handler of the primary runs put_replicated in its turn.
ReceivePut(m) ==
  /\ m.type = "put"
  /\ up[m.to]
  /\ Number(<<m.job[1], "forwarded">>, m.to)
  /\ msgs' = msgs \ {m}
  /\ UNCHANGED <<up, store, late, crashes, timeouts, acked, before>>

\* One Replicate to each other replica.
Copies(j, n, v) ==
  {[type |-> "replicate", job |-> j, from |-> n, to |-> r, ver |-> v] :
     r \in Replica \ {n}}

\* StorageEngine::put inserts whatever is there, then the copies are sent.
Store(j) ==
  LET n == job[j].at
      v == job[j].ver
  IN
  /\ Active(j, "storing")
  /\ store' = [store EXCEPT ![n] = [ver |-> v, val |-> j[1]]]
  /\ job' = [job EXCEPT ![j] = [at |-> n, phase |-> "replicating", ver |-> v,
                                acks |-> 1, waiting |-> Replica \ {n}]]
  /\ msgs' = msgs \cup Copies(j, n, v)
  /\ UNCHANGED <<up, counter, late, crashes, timeouts, overlapped, acked, before>>

-----------------------------------------------------------------------------
(* Calls between nodes.  A Put and a Replicate are answered alike (Ack), or *)
(* with an error; no answer names the request.  Where a call was given up   *)
(* the next one reads its answer, unless the connection was replaced.       *)

CallOf(m) == <<m.type, m.job, m.from>>

Own(j, type, m) == m.type = type /\ m.job = j

\* m may be the answer that job j reads where it waits for one of this type.
Reads(j, type, m) ==
  /\ m.type \in {"ack", "put_reply"}
  /\ m.to = job[j].at
  /\ Own(j, type, m) \/ CallOf(m) \in late

\* Mutant: the answer read and the one left unread are both forgotten.
LateForgotten(j, type, m) ==
  IF Own(j, type, m) THEN late ELSE late \ {CallOf(m)}

\* Who reads the answer to an earlier call leaves its own unread.
LateAfter(j, type, m) ==
  IF Own(j, type, m) THEN late
  ELSE (late \ {CallOf(m)}) \cup {<<type, j, m.from>>}

\* The call times out with its request written.
TimesOut(type, j, r) ==
  /\ timeouts < MaxTimeouts
  /\ timeouts' = timeouts + 1
  /\ late' = late \cup {<<type, j, r>>}

\* The forwarding node takes over the version that it reads, counts one
\* acknowledgement and replicates to every replica, the primary included.
ReceivePutReply(j, m) ==
  /\ Active(j, "forwarding")
  /\ m.from = Primary
  /\ Reads(j, "put_reply", m)
  /\ IF m.ok
       THEN /\ job' = [job EXCEPT ![j] = [at |-> job[j].at,
                                          phase |-> "replicating",
                                          ver |-> m.ver, acks |-> 1,
                                          waiting |-> Replica]]
            /\ msgs' = (msgs \ {m}) \cup Copies(j, job[j].at, m.ver)
       ELSE /\ job' = [job EXCEPT ![j].phase = "failed"]
            /\ msgs' = msgs \ {m}
  /\ late' = LateAfter(j, "put_reply", m)
  /\ UNCHANGED <<up, store, counter, crashes, timeouts, overlapped, acked, before>>

ForwardFails(j) ==
  /\ Active(j, "forwarding")
  /\ job' = [job EXCEPT ![j].phase = "failed"]
  /\ UNCHANGED <<up, store, counter, msgs, late, crashes, timeouts, overlapped,
                 acked, before>>

ForwardTimesOut(j) ==
  /\ Active(j, "forwarding")
  /\ job' = [job EXCEPT ![j].phase = "failed"]
  /\ TimesOut("put_reply", j, Primary)
  /\ UNCHANGED <<up, store, counter, msgs, crashes, overlapped, acked, before>>

-----------------------------------------------------------------------------
(* The Replicate handler: put_with_version, then Ack whether or not the     *)
(* copy was applied.                                                        *)

Newer(n, v) == store[n] = None \/ store[n].ver < v

\* The handler of copy m goes on to its next step.
GoesOn(m, step) == msgs' = (msgs \ {m}) \cup {[m EXCEPT !.type = step]}

AnswersAck(m) ==
  msgs' = (msgs \ {m}) \cup
          {[type |-> "ack", job |-> m.job, from |-> m.to, to |-> m.from,
            ver |-> m.ver, ok |-> TRUE]}

\* Mutant: the received version does not raise the counter.
ReceiveReplicateKeepsCounter(m) ==
  /\ m.type = "replicate"
  /\ up[m.to]
  /\ GoesOn(m, "checking")
  /\ Starts(m.to)
  /\ UNCHANGED <<up, store, counter, job, late, crashes, timeouts, acked, before>>

ReceiveReplicate(m) ==
  /\ m.type = "replicate"
  /\ up[m.to]
  /\ counter' = [counter EXCEPT ![m.to] = IF m.ver > @ THEN m.ver ELSE @]
  /\ GoesOn(m, "checking")
  /\ Starts(m.to)
  /\ UNCHANGED <<up, store, job, late, crashes, timeouts, acked, before>>

\* Mutant: the copy is stored whatever its version.
CheckNothing(m) ==
  /\ m.type = "checking"
  /\ GoesOn(m, "inserting")
  /\ UNCHANGED <<up, store, counter, job, late, crashes, timeouts, overlapped,
                 acked, before>>

CheckVersion(m) ==
  /\ m.type = "checking"
  /\ IF Newer(m.to, m.ver) THEN GoesOn(m, "inserting") ELSE AnswersAck(m)
  /\ UNCHANGED <<up, store, counter, job, late, crashes, timeouts, overlapped,
                 acked, before>>

InsertCopy(m) ==
  /\ m.type = "inserting"
  /\ store' = [store EXCEPT ![m.to] = [ver |-> m.ver, val |-> m.job[1]]]
  /\ AnswersAck(m)
  /\ UNCHANGED <<up, counter, job, late, crashes, timeouts, overlapped, acked,
                 before>>

-----------------------------------------------------------------------------
(* The second half of put_replicated: one task for each replica. *)

\* Mutant: the task that answered is not taken off, its answer counts again.
ReceiveAckAgain(j, m) ==
  /\ Active(j, "replicating")
  /\ m.from \in job[j].waiting
  /\ Reads(j, "ack", m)
  /\ job' = [job EXCEPT ![j].acks = @ + 1]
  /\ UNCHANGED <<up, store, counter, msgs, late, crashes, timeouts, overlapped,
                 acked, before>>

ReceiveAck(j, m) ==
  /\ Active(j, "replicating")
  /\ m.from \in job[j].waiting
  /\ Reads(j, "ack", m)
  /\ job' = [job EXCEPT ![j].acks = IF m.ok THEN @ + 1 ELSE @,
                        ![j].waiting = @ \ {m.from}]
  /\ msgs' = msgs \ {m}
  /\ late' = LateAfter(j, "ack", m)
  /\ UNCHANGED <<up, store, counter, crashes, timeouts, overlapped, acked, before>>

TakeOffTask(j, r) ==
  /\ Active(j, "replicating")
  /\ r \in job[j].waiting
  /\ job' = [job EXCEPT ![j].waiting = @ \ {r}]

ReplicateFails(j, r) ==
  /\ TakeOffTask(j, r)
  /\ UNCHANGED <<up, store, counter, msgs, late, crashes, timeouts, overlapped,
                 acked, before>>

ReplicateTimesOut(j, r) ==
  /\ TakeOffTask(j, r)
  /\ TimesOut("ack", j, r)
  /\ UNCHANGED <<up, store, counter, msgs, crashes, overlapped, acked, before>>

\* Mutant: the coordinator is counted twice.
QuorumMetOffByOne(j) == job[j].acks + 1 >= WriteQuorum

QuorumMet(j) == job[j].acks >= WriteQuorum

Answer(j) ==
  IF j[2] = "client"
    THEN UNCHANGED msgs
    ELSE LET caller == <<j[1], "client">> IN
         msgs' = msgs \cup {[type |-> "put_reply", job |-> caller,
                             from |-> job[j].at, to |-> job[caller].at,
                             ver |-> job[j].ver, ok |-> QuorumMet(j)]}

\* All the tasks have ended: Ack or QuorumNotMet, nothing is undone.
Conclude(j) ==
  /\ Active(j, "replicating")
  /\ job[j].waiting = {}
  /\ job' = [job EXCEPT ![j].phase = IF QuorumMet(j) THEN "acked" ELSE "failed"]
  /\ acked' = IF QuorumMet(j) /\ j[2] = "client"
                THEN acked \cup {j[1]} ELSE acked
  /\ Answer(j)
  /\ UNCHANGED <<up, store, counter, late, crashes, timeouts, overlapped, before>>

-----------------------------------------------------------------------------
(* Crash and restart of a process: its tasks, its handlers, what it was     *)
(* sent and its memory are gone (docker-compose.yml: restart unless-        *)
(* stopped).  What it sent is still received.                               *)

Crash(n) ==
  /\ up[n]
  /\ crashes < MaxCrashes
  /\ crashes' = crashes + 1
  /\ up' = [up EXCEPT ![n] = FALSE]
  /\ store' = [store EXCEPT ![n] = None]
  /\ counter' = [counter EXCEPT ![n] = 0]
  /\ job' = [j \in Job |-> IF job[j].at = n /\ job[j].phase # "acked"
                             THEN [job[j] EXCEPT !.phase = "failed"] ELSE job[j]]
  /\ msgs' = {m \in msgs : m.to # n}
  /\ late' = {call \in late : job[call[2]].at # n}
  /\ UNCHANGED <<timeouts, overlapped, acked, before>>

Restart(n) ==
  /\ ~ up[n]
  /\ up' = [up EXCEPT ![n] = TRUE]
  /\ UNCHANGED <<store, counter, job, msgs, late, crashes, timeouts, overlapped,
                 acked, before>>

-----------------------------------------------------------------------------
Handle(m) ==
  ReceivePut(m) \/ ReceiveReplicate(m) \/ CheckVersion(m) \/ InsertCopy(m)

ReadAnswer(j, m) == ReceivePutReply(j, m) \/ ReceiveAck(j, m)

\* Mutant: the forwarded put is awaited without a timeout.
GiveUpOnReplicasOnly(j) == \E r \in Replica : ReplicateFails(j, r)

GiveUp(j) == ForwardFails(j) \/ \E r \in Replica : ReplicateFails(j, r)

GiveUpWritten(j) ==
  ForwardTimesOut(j) \/ \E r \in Replica : ReplicateTimesOut(j, r)

Next ==
  \/ \E w \in Write, n \in Node :
       ClientPutAtReplica(w, n) \/ ClientPutElsewhere(w, n)
  \/ \E m \in msgs : Handle(m)
  \/ \E j \in Job, m \in msgs : ReadAnswer(j, m)
  \/ \E j \in Job : Store(j) \/ GiveUp(j) \/ GiveUpWritten(j) \/ Conclude(j)
  \/ \E n \in Node : Crash(n) \/ Restart(n)

Spec == Init /\ [][Next]_vars

\* Tasks run and every wait ends, by an answer or by its timeout.
FairSpec ==
  Spec /\ \A j \in Job : WF_vars(Store(j) \/ GiveUp(j) \/ Conclude(j))

-----------------------------------------------------------------------------
(* Properties. *)

Message ==
       [type : {"put"}, job : Job, from : Node, to : Node]
  \cup [type : {"replicate", "checking", "inserting"}, job : Job, from : Node,
        to : Node, ver : Nat]
  \cup [type : {"put_reply", "ack"}, job : Job, from : Node, to : Node,
        ver : Nat, ok : BOOLEAN]

TypeOK ==
  /\ up \in [Node -> BOOLEAN]
  /\ store \in [Node -> [ver : Nat, val : Write] \cup {None}]
  /\ counter \in [Node -> Nat]
  /\ job \in [Job -> [at : Node \cup {None},
                      phase : {"none", "forwarding", "storing", "replicating",
                               "acked", "failed"},
                      ver : Nat, acks : 0 .. Cardinality(Replica) + 1,
                      waiting : SUBSET Node]]
  /\ msgs \subseteq Message
  /\ late \subseteq {"put_reply", "ack"} \X Job \X Replica
  /\ crashes \in Nat /\ timeouts \in Nat
  /\ overlapped \in BOOLEAN
  /\ acked \subseteq Write
  /\ before \in [Write -> SUBSET Write]

Version(w) == job[<<w, "client">>].ver

\* The replicas whose answers lag behind the calls of some node.
Lagging == {r \in Replica : \E call \in late : call[3] = r}

\* The replicas that numbered v, or received a copy under it or a later version.
ReachedBy(v) == {n \in Replica : counter[n] >= v}

\* While no node crashes, an acknowledged write reached WriteQuorum replicas, less
\* one for each replica whose answers lag: a call that times out can make the
\* quorum of every later write too small by one, and no more than one, although
\* a forwarding node takes a late answer for its version and counts the primary
\* twice (client.rs:44-50, replication.rs:119, 153-170).
AckedOnQuorum ==
  crashes = 0 =>
    \A w \in acked :
      Cardinality(ReachedBy(Version(w))) + Cardinality(Lagging) >= WriteQuorum

\* No answer was taken for another one's, and the writes of the key were stored
\* one at a time at each node.
Orderly == timeouts = 0 /\ ~ overlapped

\* With a quorum of all the replicas, as by default (main.rs:68-72), and while no
\* node crashes and no call times out, a write sent after another one was
\* acknowledged gets a greater version wherever it is coordinated, also when
\* writes of the key overlap in the storages (replication.rs:14-15).
LaterWriteIsNewer ==
  (crashes = 0 /\ timeouts = 0) =>
    \A w \in Write : \A u \in before[w] :
      Version(w) # 0 => Version(w) > Version(u)

\* The replicas that run hold no write that one acknowledged now was sent after.
EarlierReplaced ==
  \A w \in acked' \ acked, n \in Replica :
    (up[n] /\ store[n] # None) => store[n].val \notin before[w]

\* When a write is acknowledged, no replica that runs still holds a write that
\* was acknowledged before it was sent: a refused copy is refused for a write
\* that is not older (storage.rs:169-172, server.rs:181-185).
AckedReplacesEarlier == [][EarlierReplaced]_vars

\* The register that clients see: the write that each replica holds, and the puts
\* that were sent.
Held == [n \in Replica |-> IF store[n] = None THEN {} ELSE {store[n].val}]

Sent == {w \in Write : job[<<w, "client">>] # NoJob}

Register == INSTANCE AckedRegister WITH held <- Held, sent <- Sent

\* With a quorum of all the replicas, until a node crashes, a call times out or two
\* writes of the key overlap in one storage, the cluster implements AckedRegister:
\* whichever node coordinates a put, in whatever order copies and answers come and
\* whatever is lost, a superseded write never comes back to a replica, and none
\* holds one when a later write is acknowledged (replication.rs:14-15,
\* storage.rs:169-172, server.rs:181-185).
RegisterWhileOrderly ==
  Register!Init /\ [][(crashes' = 0 /\ Orderly') => Register!Next]_(Register!vars)

Down == {n \in Node : ~ up[n]}

\* With a quorum of all of two replicas or more, while calls are answered in time
\* and writes do not overlap: as long as one node at most is down and none has
\* come back, some replica still holds each acknowledged write or one that does
\* not precede it (README.md:183, "lecture toujours possible").  A node that came
\* back numbers its writes from 1, and a copy of an earlier write may replace one
\* of these everywhere.
AckedSurvivesCrash ==
  (crashes = Cardinality(Down) /\ crashes =< 1 /\ Orderly) =>
    \A w \in acked : \E n \in Replica :
      store[n] # None /\ store[n].val \notin before[w]

\* Every request that arrives was handled; answers nobody waits for may be left.
Quiet ==
  /\ \A m \in msgs : m.type \in {"put_reply", "ack"}
  /\ \A j \in Job : job[j].phase \in {"none", "acked", "failed"}

\* Once nothing is in progress and no write failed, the replicas agree
\* (replication.rs:14-15).
ReplicasConverge ==
  (Quiet /\ \A j \in Job : job[j].phase # "failed")
    => \A n, r \in Replica : store[n] = store[r]

\* The primary alone numbers the writes of the key.
NumberedByPrimary ==
  /\ crashes = 0
  /\ \A j \in Job : job[j].at \in Replica => job[j].at = Primary

\* With one numbering node and no call timed out, a version names one write, on
\* whatever node it is found, although copies of it reach a replica from two
\* coordinators and writes overlap (replication.rs:115-120, storage.rs:156-208).
VersionNamesWrite ==
  (NumberedByPrimary /\ timeouts = 0) =>
    \A n, r \in Node :
      (store[n] # None /\ store[r] # None /\ store[n].ver = store[r].ver)
        => store[n].val = store[r].val

\* With one numbering node the replicas end up with the same entry however their
\* copies are reordered, unless a call timed out or writes of the key overlapped
\* in a storage (replication.rs:14-15).
PrimaryConverges == (NumberedByPrimary /\ Orderly) => ReplicasConverge

\* Every put is answered, Ack or error, as long as its coordinator lives.
PutsAnswered ==
  []<>(\A j \in Job :
         job[j].phase \notin {"forwarding", "storing", "replicating"})
=============================================================================
