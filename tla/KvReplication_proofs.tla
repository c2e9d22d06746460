------------------------ MODULE KvReplication_proofs ------------------------
(***************************************************************************)
(* Theorems about quorum writes, for every set of nodes, list of replicas, *)
(* quorum, set of puts and number of crashes and timeouts.                 *)
(***************************************************************************)
EXTENDS KvReplication, FiniteSetTheorems, TLAPS

(***************************************************************************)
(* The inductive invariant.                                                *)
(***************************************************************************)

Client(w) == <<w, "client">>
Forwarded(w) == <<w, "forwarded">>

\* The type of the messages that answer a call, and of the copies that a handler
\* is storing.
Answers == {"put_reply", "ack"}
Storing == {"checking", "inserting"}

\* A job waits for replicas only, and each of them can add one to its
\* acknowledgements.  It has a version from the moment it has copies to send;
\* at a replica it has one from the start.
JobOK(j) ==
  /\ job[j].waiting \subseteq Replica
  /\ job[j].acks + Cardinality(job[j].waiting) =< Cardinality(Replica) + 1
  /\ job[j].phase = "none" => job[j] = NoJob
  /\ job[j].phase # "none" => job[j].at \in Node
  /\ job[j].phase = "forwarding" => j[2] = "client" /\ job[j].ver = 0
  /\ job[j].phase = "storing" => job[j].at \in Replica /\ job[j].acks = 0
  /\ job[j].phase \in {"replicating", "acked"} => job[j].ver # 0
  /\ job[j].phase = "acked" => job[j].acks >= WriteQuorum
  /\ job[j].at \in Replica => job[j].ver # 0

\* A put is forwarded from a node that is no replica to the primary.  The version
\* that comes back is that of a job which met its quorum, or the answers of the
\* primary lag.
ForwardOK(w) ==
  /\ job[Forwarded(w)].phase # "none" =>
       /\ job[Forwarded(w)].at = Primary
       /\ job[Client(w)].at \in Node \ Replica
  /\ (job[Client(w)].at \notin Replica /\ job[Client(w)].ver # 0) =>
       \/ /\ job[Forwarded(w)].phase = "acked"
          /\ job[Forwarded(w)].ver = job[Client(w)].ver
       \/ timeouts # 0 /\ (crashes = 0 => Primary \in Lagging)

\* What a message says of the job it belongs to.
MessageOK(m) ==
  /\ m.type = "put" =>
       /\ m.job = Client(m.job[1])
       /\ job[m.job].at = m.from
       /\ job[Forwarded(m.job[1])] = NoJob
       /\ m.from \in Node \ Replica
       /\ m.to = Primary
  /\ m.type = "put_reply" =>
       /\ m.job = Client(m.job[1])
       /\ m.from = Primary
       /\ m.ver # 0
       /\ job[Forwarded(m.job[1])].ver = m.ver
       /\ m.ok => job[Forwarded(m.job[1])].phase = "acked"
  /\ m.type \in {"replicate"} \cup Storing =>
       /\ m.to \in Replica
       /\ m.ver = job[m.job].ver
       /\ m.ver # 0
  /\ m.type = "ack" =>
       /\ m.from \in Replica
       /\ m.ver = job[m.job].ver
       /\ m.ver # 0

\* An entry is a write under a version that one of its jobs has.  The counter of
\* a node is at least every version that it stores or is about to store.
NodeOK(n) ==
  /\ store[n] # None =>
       /\ store[n].ver # 0
       /\ store[n].ver =< counter[n]
       /\ \E j \in Job : j[1] = store[n].val /\ job[j].ver = store[n].ver
  /\ \A j \in Job :
       job[j].phase = "storing" /\ job[j].at = n => job[j].ver =< counter[n]
  /\ \A m \in msgs : m.type \in Storing /\ m.to = n => m.ver =< counter[n]

HistoryOK ==
  \A w \in Write : /\ w \in acked => job[Client(w)].phase = "acked"
                   /\ before[w] \subseteq acked

\* A node that is down counts among the crashes, and runs nothing.
CrashesOK ==
  /\ IsFiniteSet(Down) /\ Cardinality(Down) =< crashes

\* An answer is left unread when a call timed out.
LateOK == timeouts = 0 => late = {}

Structure ==
  /\ TypeOK
  /\ \A j \in Job : JobOK(j)
  /\ \A w \in Write : ForwardOK(w)
  /\ \A m \in msgs : MessageOK(m)
  /\ \A n \in Node : NodeOK(n)
  /\ HistoryOK
  /\ CrashesOK
  /\ LateOK

(***************************************************************************)
(* Until two writes of the key overlap in one storage, what a node is      *)
(* about to insert is newer than its entry.                                *)
(***************************************************************************)
Serial ==
  ~ overlapped =>
    /\ \A j \in Job : job[j].phase = "storing" =>
         /\ Newer(job[j].at, job[j].ver)
         /\ \A k \in Job :
              job[k].phase = "storing" /\ job[k].at = job[j].at => k = j
         /\ \A m \in msgs : m.type \in Storing => m.to # job[j].at
    /\ \A m \in msgs : m.type \in Storing =>
         /\ m.type = "inserting" => Newer(m.to, m.ver)
         /\ \A q \in msgs : q.type \in Storing /\ q.to = m.to => q = m

(***************************************************************************)
(* No node that crashed has come back.  Then the counter of a node that is *)
(* up never goes back, nor does its entry while writes do not overlap.     *)
(***************************************************************************)
Intact == crashes = Cardinality(Down)

Holds(n, v) == store[n] # None /\ store[n].ver >= v

\* Version v came to node n, unless it is down, and what n holds is not older.
Reached(n, v) == up[n] => counter[n] >= v /\ (~ overlapped => Holds(n, v))

\* The replicas that job j no longer waits for, and that its version reached or
\* whose answers lag.
Counted(j) ==
  {n \in Replica \ job[j].waiting : Reached(n, job[j].ver) \/ n \in Lagging}

\* Acknowledgements of a job that runs at a replica stand for distinct replicas;
\* a forwarding job counts the primary once more.
AcksReached ==
  (Intact /\ (crashes = 0 \/ timeouts = 0)) =>
    /\ \A j \in Job :
         /\ job[j].at \in Replica => job[j].acks =< Cardinality(Counted(j))
         /\ job[j].at \in Node => job[j].acks =< Cardinality(Counted(j)) + 1
         /\ job[j].at \in Replica /\ job[j].phase \notin {"none", "storing"} =>
              Reached(job[j].at, job[j].ver)
         /\ job[j].at \in Node \ Replica /\ job[j].ver # 0 =>
              Reached(Primary, job[j].ver)
    /\ \A m \in msgs : m.type \in Answers => Reached(m.from, m.ver)

\* A write gets a greater version than those acknowledged before it was sent.
LaterJobsNewer ==
  (Intact /\ timeouts = 0) =>
    \A j \in Job : job[j].ver # 0 =>
      \A u \in before[j[1]] : job[j].ver > Version(u)

\* A copy of every version is at each replica, or on its way to it, or its job is
\* about to send it.
CopiesDelivered ==
  (crashes = 0 /\ ~ overlapped) =>
    \A j \in Job, n \in Replica : job[j].at \in Replica =>
      \/ job[j].phase = "storing"
      \/ Holds(n, job[j].ver)
      \/ \E m \in msgs : /\ m.type \in {"replicate"} \cup Storing
                         /\ m.job = j
                         /\ m.to = n

\* The primary never numbers two writes alike.
VersionsUnique ==
  (NumberedByPrimary /\ timeouts = 0) =>
    \A j, k \in Job :
      /\ job[j].ver =< counter[Primary]
      /\ (job[j].ver # 0 /\ job[j].ver = job[k].ver) => j[1] = k[1]

(***************************************************************************)
(* Replicas, jobs and messages.                                            *)
(***************************************************************************)

\* The replicas are nodes, finitely many, and the primary is one of them.
LEMMA ReplicaFacts ==
  /\ Replica \subseteq Node
  /\ IsFiniteSet(Replica)
  /\ Cardinality(Replica) \in Nat
  /\ Primary \in Replica
  /\ None \notin Replica
<1>1. Replica \subseteq Node
  BY ReplicasAssumption DEF Replica, Range
<1>2. IsFiniteSet(Replica)
  BY <1>1, ReplicasAssumption, FS_Subset
<1>3. Primary \in Replica
  BY ReplicasAssumption DEF Replica, Range, Primary
<1>4. QED BY <1>1, <1>2, <1>3, FS_CardinalityType, NoneAssumption

\* A set of replicas loses one element with each replica taken off.
LEMMA TakeOff ==
  ASSUME NEW S \in SUBSET Replica, NEW r \in S
  PROVE  /\ Cardinality(S) \in Nat /\ Cardinality(S) >= 1
         /\ Cardinality(S \ {r}) = Cardinality(S) - 1
<1>1. IsFiniteSet(S)
  BY ReplicaFacts, FS_Subset
<1>2. Cardinality(S) \in Nat /\ Cardinality(S) # 0
  BY <1>1, FS_CardinalityType, FS_EmptySet
<1>3. Cardinality(S \ {r}) = Cardinality(S) - 1
  BY <1>1, FS_RemoveElement
<1>4. QED BY <1>2, <1>3

\* Sets of replicas are counted by numbers, and a part by a smaller one.
LEMMA SubsetOfReplicas ==
  ASSUME NEW S \in SUBSET Replica, NEW T \in SUBSET S
  PROVE  /\ IsFiniteSet(S) /\ IsFiniteSet(T)
         /\ Cardinality(S) \in Nat /\ Cardinality(T) \in Nat
         /\ Cardinality(T) =< Cardinality(S)
         /\ Cardinality(S) =< Cardinality(Replica)
<1>1. IsFiniteSet(S) /\ IsFiniteSet(T)
  BY ReplicaFacts, FS_Subset
<1>2. QED BY <1>1, ReplicaFacts, FS_Subset, FS_CardinalityType

\* Jobs are pairs of a write and a role.
LEMMA JobFacts ==
  /\ \A w \in Write : Client(w) \in Job /\ Forwarded(w) \in Job
  /\ \A w \in Write : Client(w)[1] = w /\ Forwarded(w)[1] = w
  /\ \A w \in Write : Client(w)[2] = "client" /\ Forwarded(w)[2] = "forwarded"
  /\ \A j \in Job : j[1] \in Write
  /\ \A j \in Job : \/ j[2] = "client" /\ j = Client(j[1])
                    \/ j[2] = "forwarded" /\ j = Forwarded(j[1])
  /\ \A w, x \in Write : Client(w) # Forwarded(x)
  /\ \A w, x \in Write : Client(w) = Client(x) => w = x
  /\ \A w, x \in Write : Forwarded(w) = Forwarded(x) => w = x
BY DEF Job, Client, Forwarded

\* The fields of a message, by its type.
LEMMA MessageFacts ==
  ASSUME NEW m \in Message
  PROVE  /\ m.job \in Job /\ m.from \in Node /\ m.to \in Node
         /\ m.type \in {"put", "replicate"} \cup Storing \cup Answers
         /\ m.type # "put" => m.ver \in Nat
         /\ m.type \in Answers => m.ok \in BOOLEAN
BY DEF Message, Storing, Answers

\* The copies that a coordinator sends are messages.
LEMMA CopiesType ==
  ASSUME NEW j \in Job, NEW n \in Node, NEW v \in Nat
  PROVE  /\ Copies(j, n, v) \subseteq Message
         /\ \A m \in Copies(j, n, v) :
              /\ m.type = "replicate" /\ m.job = j
              /\ m.to \in Replica /\ m.ver = v
         /\ \A r \in Replica \ {n} :
              \E m \in Copies(j, n, v) :
                m.type = "replicate" /\ m.job = j /\ m.to = r
<1>1. /\ Copies(j, n, v) \subseteq Message
      /\ \A m \in Copies(j, n, v) :
           /\ m.type = "replicate" /\ m.job = j
           /\ m.to \in Replica /\ m.ver = v
  BY ReplicaFacts DEF Copies, Message
<1>2. ASSUME NEW r \in Replica \ {n}
      PROVE  \E m \in Copies(j, n, v) :
               m.type = "replicate" /\ m.job = j /\ m.to = r
  <2>1. [type |-> "replicate", job |-> j, from |-> n, to |-> r, ver |-> v]
          \in Copies(j, n, v)
    BY DEF Copies
  <2>2. QED BY <2>1
<1>3. QED BY <1>1, <1>2

\* The handler of a copy at its next step.
LEMMA NextStepType ==
  ASSUME NEW m \in Message, m.type \in {"replicate"} \cup Storing,
         NEW step \in Storing, NEW q, q = [m EXCEPT !.type = step]
  PROVE  /\ q \in Message /\ q.type = step
         /\ q.job = m.job /\ q.to = m.to /\ q.ver = m.ver /\ q.from = m.from
<1>1. m \in [type : {"replicate", "checking", "inserting"}, job : Job,
             from : Node, to : Node, ver : Nat]
  BY DEF Message, Storing
<1>2. QED BY <1>1 DEF Message, Storing

JobType == [at : Node \cup {None},
            phase : {"none", "forwarding", "storing", "replicating", "acked",
                     "failed"},
            ver : Nat, acks : 0 .. Cardinality(Replica) + 1,
            waiting : SUBSET Node]

\* A step that gives one job a new record.
LEMMA SetJob ==
  ASSUME Structure, NEW j \in Job, NEW r \in JobType,
         job' = [job EXCEPT ![j] = r]
  PROVE  /\ job' \in [Job -> JobType]
         /\ job'[j] = r
         /\ \A k \in Job : k # j => job'[k] = job[k]
BY DEF Structure, TypeOK, JobType

\* A job that started has a node, and a forwarding or storing one some more.
LEMMA JobIs ==
  ASSUME Structure, NEW j \in Job
  PROVE  /\ job \in [Job -> JobType]
         /\ job[j] \in JobType /\ JobOK(j)
         /\ job[j].ver \in Nat /\ job[j].acks \in Nat
         /\ job[j].waiting \in SUBSET Replica
         /\ job[j].phase = "none" =>
              /\ job[j] = NoJob /\ job[j].at \notin Node
              /\ job[j].ver = 0 /\ job[j].acks = 0
         /\ job[j].phase # "none" => job[j] # NoJob /\ job[j].at \in Node
         /\ job[j].phase = "forwarding" =>
              job[j].at \in Node \ Replica /\ j = Client(j[1])
<1>1. job \in [Job -> JobType] /\ job[j] \in JobType /\ JobOK(j)
  BY DEF Structure, TypeOK, JobType
<1>2. /\ job[j].ver \in Nat /\ job[j].acks \in Nat
      /\ job[j].waiting \in SUBSET Replica
  BY <1>1, ReplicaFacts DEF JobType, JobOK
<1>3. NoJob.at = None /\ NoJob.ver = 0 /\ NoJob.acks = 0 /\ NoJob.phase = "none"
  BY DEF NoJob
<1>4. job[j].phase = "forwarding" =>
        job[j].at \in Node \ Replica /\ j = Client(j[1])
  BY <1>1, JobFacts DEF JobOK
<1>5. QED BY <1>1, <1>2, <1>3, <1>4, NoneAssumption DEF JobOK

(***************************************************************************)
(* What one step does to one job.                                          *)
(***************************************************************************)

\* It keeps its version and its acknowledgements.  It ends, if at all, with a
\* quorum or as a failure, and while it stores only by a crash.
Keeps(j) ==
  /\ job'[j].at = job[j].at
  /\ job'[j].ver = job[j].ver
  /\ job'[j].acks = job[j].acks
  /\ job'[j].waiting \subseteq job[j].waiting
  /\ \/ job'[j].phase = job[j].phase
     \/ job'[j].phase = "failed" /\ job[j].phase \notin {"none", "acked"}
     \/ job'[j].phase = "acked" /\ job[j].phase = "replicating" /\ QuorumMet(j)
  /\ job[j].phase = "none" => job'[j] = job[j]
  /\ (job[j].phase = "storing" /\ job'[j].phase # "storing") =>
       Crash(job[j].at)

NumberedJob(n) == [at |-> n, phase |-> "storing", ver |-> counter[n] + 1,
                   acks |-> 0, waiting |-> {}]

\* A replica that is up numbers it, for its client or for the put m.
Numbered(j, n) ==
  /\ job[j] = NoJob
  /\ up[n]
  /\ job' = [job EXCEPT ![j] = NumberedJob(n)]
  /\ counter' = [counter EXCEPT ![n] = counter[n] + 1]
  /\ Starts(n)
  /\ UNCHANGED <<up, store, late, crashes, timeouts, acked>>
  /\ \/ /\ j = Client(j[1]) /\ msgs' = msgs
        /\ before' = [before EXCEPT ![j[1]] = acked]
     \/ /\ j = Forwarded(j[1])
        /\ \E m \in msgs : /\ m.type = "put" /\ m.job = Client(j[1])
                           /\ n = Primary
                           /\ msgs' = msgs \ {m}
        /\ UNCHANGED before

\* It waits at a node that is no replica for the answer of the primary.
Forwards(j) ==
  /\ job[j] = NoJob
  /\ j = Client(j[1])
  /\ \E n \in Node \ Replica : ClientPutElsewhere(j[1], n)

\* It takes over the version of the answer m.
TakesVersion(j, m) == ReceivePutReply(j, m) /\ m.ok

\* It counts the answer m.
Counts(j, m) == ReceiveAck(j, m) /\ m.ok

LEMMA SameJob ==
  ASSUME NEW j \in Job, job'[j] = job[j]
  PROVE  Keeps(j)
BY DEF Keeps

\* A job whose phase alone changes.
LEMMA SetPhase ==
  ASSUME NEW q \in JobType, NEW e
  PROVE  [q EXCEPT !.phase = e] =
           [at |-> q.at, phase |-> e, ver |-> q.ver, acks |-> q.acks,
            waiting |-> q.waiting]
BY DEF JobType

\* A job that ends keeps everything else.
LEMMA EndStep ==
  ASSUME Structure, NEW j \in Job, NEW e \in {"failed", "acked"},
         job[j].phase \in {"forwarding", "replicating"},
         e = "acked" => job[j].phase = "replicating" /\ QuorumMet(j),
         job' = [job EXCEPT ![j].phase = e]
  PROVE  /\ job' \in [Job -> JobType]
         /\ \A k \in Job : Keeps(k)
<1> DEFINE r == [at |-> job[j].at, phase |-> e, ver |-> job[j].ver,
                 acks |-> job[j].acks, waiting |-> job[j].waiting]
<1>1. job[j] \in JobType
  BY JobIs
<1>2. r \in JobType
  BY <1>1 DEF JobType
<1>3. job' = [job EXCEPT ![j] = r]
  BY <1>1, SetPhase DEF Structure, TypeOK
<1>4. /\ job' \in [Job -> JobType] /\ job'[j] = r
      /\ \A k \in Job : k # j => job'[k] = job[k]
  BY <1>2, <1>3, SetJob
<1>5. Keeps(j)
  BY <1>4 DEF Keeps
<1>6. QED BY <1>4, <1>5, SameJob

\* A job waits for one replica less, and counts one answer more or not.
LEMMA TaskEnds ==
  ASSUME Structure, NEW j \in Job, NEW n \in job[j].waiting, NEW a \in {0, 1},
         job[j].phase = "replicating",
         job' = [job EXCEPT ![j].acks = @ + a, ![j].waiting = @ \ {n}]
  PROVE  /\ job' \in [Job -> JobType]
         /\ job'[j] = [at |-> job[j].at, phase |-> "replicating",
                       ver |-> job[j].ver, acks |-> job[j].acks + a,
                       waiting |-> job[j].waiting \ {n}]
         /\ \A k \in Job : k # j => Keeps(k)
         /\ a = 0 => Keeps(j)
<1> DEFINE r == [at |-> job[j].at, phase |-> "replicating", ver |-> job[j].ver,
                 acks |-> job[j].acks + a, waiting |-> job[j].waiting \ {n}]
<1>1. /\ job \in [Job -> JobType]
      /\ job[j] \in JobType /\ JobOK(j) /\ job[j].waiting \in SUBSET Replica
      /\ job[j].acks \in Nat
  BY JobIs
<1>2. /\ Cardinality(job[j].waiting) \in Nat
      /\ Cardinality(job[j].waiting) >= 1
  BY <1>1, TakeOff
<1>3. job[j].acks + a \in 0 .. Cardinality(Replica) + 1
  BY <1>1, <1>2, ReplicaFacts DEF JobOK
<1>4. r \in JobType
  BY <1>1, <1>3 DEF JobType
<1>5. job' = [job EXCEPT ![j] = r]
  BY <1>1 DEF JobType
<1>6. /\ job' \in [Job -> JobType] /\ job'[j] = r
      /\ \A k \in Job : k # j => job'[k] = job[k]
  BY <1>4, <1>5, SetJob
<1>7. a = 0 => Keeps(j)
  BY <1>1, <1>6 DEF Keeps
<1>8. QED BY <1>6, <1>7, SameJob

\* The steps that number a write.
LEMMA PutAtReplicaNumbers ==
  ASSUME Structure, NEW w \in Write, NEW n \in Node, ClientPutAtReplica(w, n)
  PROVE  n \in Replica /\ Client(w) \in Job /\ Numbered(Client(w), n)
BY JobFacts DEF ClientPutAtReplica, Number, Client, Numbered, NumberedJob

LEMMA ReceivePutNumbers ==
  ASSUME Structure, NEW m \in msgs, ReceivePut(m)
  PROVE  /\ m.job[1] \in Write /\ m.job = Client(m.job[1])
         /\ Forwarded(m.job[1]) \in Job /\ m.to = Primary
         /\ Numbered(Forwarded(m.job[1]), Primary)
<1>1. m \in Message /\ MessageOK(m) /\ m.type = "put"
  BY DEF ReceivePut, Structure, TypeOK
<1>2. /\ m.job[1] \in Write /\ m.job = Client(m.job[1]) /\ m.to = Primary
      /\ Forwarded(m.job[1]) \in Job /\ Forwarded(m.job[1])[1] = m.job[1]
      /\ job[Forwarded(m.job[1])] = NoJob
  BY <1>1, MessageFacts, JobFacts DEF MessageOK
<1>3. QED
  BY <1>1, <1>2 DEF ReceivePut, Number, Forwarded, Numbered, NumberedJob

LEMMA NumberedFacts ==
  ASSUME Structure, NEW j \in Job, NEW n \in Replica, Numbered(j, n)
  PROVE  /\ n \in Node /\ up[n]
         /\ counter[n] \in Nat /\ counter[n] + 1 \in Nat /\ counter[n] + 1 # 0
         /\ counter' \in [Node -> Nat]
         /\ counter'[n] = counter[n] + 1
         /\ \A i \in Node : i # n => counter'[i] = counter[i]
         /\ job[j] = NoJob
         /\ job' \in [Job -> JobType]
         /\ job'[j] = NumberedJob(n)
         /\ job'[j].at = n /\ job'[j].phase = "storing"
         /\ job'[j].ver = counter[n] + 1 /\ job'[j].acks = 0
         /\ job'[j].waiting = {}
         /\ \A k \in Job : k # j => job'[k] = job[k] /\ Keeps(k)
         /\ msgs' \subseteq msgs
         /\ UNCHANGED <<up, store, late, crashes, timeouts, acked>>
<1>1. n \in Node /\ counter \in [Node -> Nat]
  BY ReplicaFacts DEF Structure, TypeOK
<1>2. counter[n] \in Nat /\ counter[n] + 1 \in Nat /\ counter[n] + 1 # 0
  BY <1>1
<1>3. NumberedJob(n) \in JobType
  BY <1>1, <1>2, ReplicaFacts DEF NumberedJob, JobType
<1>4. /\ job' \in [Job -> JobType] /\ job'[j] = NumberedJob(n)
      /\ \A k \in Job : k # j => job'[k] = job[k]
  BY <1>3, SetJob DEF Numbered
<1>5. /\ job'[j].at = n /\ job'[j].phase = "storing"
      /\ job'[j].ver = counter[n] + 1 /\ job'[j].acks = 0
      /\ job'[j].waiting = {}
  BY <1>4 DEF NumberedJob
<1>6. /\ counter' \in [Node -> Nat] /\ counter'[n] = counter[n] + 1
      /\ \A i \in Node : i # n => counter'[i] = counter[i]
  BY <1>1, <1>2 DEF Numbered
<1>7. msgs' \subseteq msgs
  BY DEF Numbered
<1>8. QED BY <1>1, <1>2, <1>4, <1>5, <1>6, <1>7, SameJob DEF Numbered

LEMMA PutElsewhereFacts ==
  ASSUME Structure, NEW w \in Write, NEW n \in Node, ClientPutElsewhere(w, n)
  PROVE  /\ n \notin Replica /\ Client(w) \in Job /\ Client(w)[1] = w
         /\ job[Client(w)] = NoJob
         /\ Forwards(Client(w))
         /\ job' \in [Job -> JobType]
         /\ job'[Client(w)].at = n /\ job'[Client(w)].phase = "forwarding"
         /\ job'[Client(w)].ver = 0 /\ job'[Client(w)].acks = 0
         /\ job'[Client(w)].waiting = {}
         /\ \A k \in Job : k # Client(w) => job'[k] = job[k] /\ Keeps(k)
<1> DEFINE j == Client(w)
           r == [at |-> n, phase |-> "forwarding", ver |-> 0, acks |-> 0,
                 waiting |-> {}]
<1>1. /\ n \in Node \ Replica /\ j \in Job /\ j[1] = w /\ job[j] = NoJob
      /\ job' = [job EXCEPT ![j] = r]
  BY JobFacts DEF ClientPutElsewhere, Client
<1>2. r \in JobType
  BY ReplicaFacts DEF JobType
<1>3. /\ job' \in [Job -> JobType] /\ job'[j] = r
      /\ \A k \in Job : k # j => job'[k] = job[k]
  BY <1>1, <1>2, SetJob
<1>4. Forwards(j)
  BY <1>1 DEF Forwards
<1>5. QED BY <1>1, <1>3, <1>4, SameJob

LEMMA ForwardsFacts ==
  ASSUME Structure, NEW j \in Job, Forwards(j)
  PROVE  /\ j[1] \in Write /\ j[2] = "client" /\ job[j] = NoJob
         /\ job'[j].at \in Node \ Replica /\ job'[j].phase = "forwarding"
         /\ job'[j].ver = 0 /\ job'[j].acks = 0 /\ job'[j].waiting = {}
<1>1. PICK n \in Node \ Replica : ClientPutElsewhere(j[1], n)
  BY DEF Forwards
<1>2. /\ j[1] \in Write /\ j = Client(j[1]) /\ j[2] = "client"
      /\ job[j] = NoJob
  BY JobFacts DEF Forwards
<1>3. /\ job'[Client(j[1])].at = n /\ job'[Client(j[1])].phase = "forwarding"
      /\ job'[Client(j[1])].ver = 0 /\ job'[Client(j[1])].acks = 0
      /\ job'[Client(j[1])].waiting = {}
  BY <1>1, <1>2, PutElsewhereFacts
<1>4. QED BY <1>2, <1>3

LEMMA StoreFacts ==
  ASSUME Structure, NEW j \in Job, Store(j)
  PROVE  LET n == job[j].at
             v == job[j].ver
         IN
         /\ n \in Replica /\ n \in Node /\ up[n]
         /\ v \in Nat /\ v # 0 /\ v =< counter[n]
         /\ job[j].phase = "storing"
         /\ job' \in [Job -> JobType]
         /\ job'[j].at = n /\ job'[j].phase = "replicating" /\ job'[j].ver = v
         /\ job'[j].acks = 1 /\ job'[j].waiting = Replica \ {n}
         /\ \A k \in Job : k # j => job'[k] = job[k] /\ Keeps(k)
         /\ [ver |-> v, val |-> j[1]] \in [ver : Nat, val : Write]
         /\ store'[n] = [ver |-> v, val |-> j[1]]
         /\ store'[n] # None /\ store'[n].ver = v /\ store'[n].val = j[1]
         /\ \A i \in Node : i # n => store'[i] = store[i]
         /\ msgs' = msgs \cup Copies(j, n, v)
         /\ UNCHANGED <<up, counter, late, crashes, timeouts, overlapped, acked,
                        before>>
<1> DEFINE n == job[j].at
           v == job[j].ver
           r == [at |-> n, phase |-> "replicating", ver |-> v, acks |-> 1,
                 waiting |-> Replica \ {n}]
<1>1. /\ job[j] \in JobType /\ JobOK(j) /\ job[j].phase = "storing"
      /\ up[n] /\ v \in Nat
  BY JobIs DEF Store, Active
<1>2. n \in Replica /\ n \in Node /\ v # 0 /\ j[1] \in Write
  BY <1>1, ReplicaFacts, JobFacts DEF JobOK
<1>3. v =< counter[n]
  BY <1>1, <1>2 DEF Structure, NodeOK
<1>4. r \in JobType
  <2>1. 1 \in 0 .. Cardinality(Replica) + 1
    BY ReplicaFacts
  <2>2. QED BY <1>1, <1>2, <2>1, ReplicaFacts DEF JobType
<1>5. /\ job' = [job EXCEPT ![j] = r]
      /\ store' = [store EXCEPT ![n] = [ver |-> v, val |-> j[1]]]
      /\ msgs' = msgs \cup Copies(j, n, v)
      /\ UNCHANGED <<up, counter, late, crashes, timeouts, overlapped, acked,
                     before>>
  BY DEF Store
<1>6. /\ job' \in [Job -> JobType] /\ job'[j] = r
      /\ \A k \in Job : k # j => job'[k] = job[k]
  BY <1>4, <1>5, SetJob
<1>7. /\ store'[n] = [ver |-> v, val |-> j[1]]
      /\ \A i \in Node : i # n => store'[i] = store[i]
  BY <1>2, <1>5 DEF Structure, TypeOK
<1>8. store'[n] # None /\ store'[n].ver = v /\ store'[n].val = j[1]
  BY <1>1, <1>2, <1>7, NoneAssumption
<1>9. QED BY <1>1, <1>2, <1>3, <1>5, <1>6, <1>7, <1>8, SameJob

\* Which answer a job reads, and what it leaves unread.
LEMMA ReadsFacts ==
  ASSUME Structure, NEW j \in Job, NEW m \in msgs, NEW type, Reads(j, type, m),
         late' = LateAfter(j, type, m)
  PROVE  /\ m \in Message /\ MessageOK(m) /\ m.type \in Answers
         /\ m.from \in Replica /\ m.ver \in Nat /\ m.ver # 0
         /\ m.ok \in BOOLEAN
         /\ \/ Own(j, type, m) /\ late' = late
            \/ /\ timeouts # 0 /\ CallOf(m) \in late
               /\ late' = (late \ {CallOf(m)}) \cup {<<type, j, m.from>>}
<1>1. m \in Message /\ MessageOK(m) /\ m.type \in Answers
  BY DEF Structure, TypeOK, Reads, Answers
<1>2. /\ m.from \in Replica /\ m.ver \in Nat /\ m.ver # 0
      /\ m.ok \in BOOLEAN
  BY <1>1, MessageFacts, ReplicaFacts DEF MessageOK, Answers
<1>3. CallOf(m) \in late => timeouts # 0
  BY DEF Structure, LateOK
<1>4. QED BY <1>1, <1>2, <1>3 DEF Reads, LateAfter

LEMMA PutReplyFacts ==
  ASSUME Structure, NEW j \in Job, NEW m \in msgs, ReceivePutReply(j, m)
  PROVE  /\ job[j].phase = "forwarding" /\ j = Client(j[1])
         /\ job[j].at \in Node \ Replica /\ up[job[j].at]
         /\ m.from = Primary /\ m.ver \in Nat /\ m.ver # 0
         /\ m \in Message /\ MessageOK(m) /\ m.type \in Answers
         /\ job' \in [Job -> JobType]
         /\ \A k \in Job : k # j => Keeps(k)
         /\ ~ m.ok => Keeps(j) /\ msgs' = msgs \ {m}
         /\ m.ok =>
              /\ job'[j].at = job[j].at /\ job'[j].phase = "replicating"
              /\ job'[j].ver = m.ver /\ job'[j].acks = 1
              /\ job'[j].waiting = Replica
              /\ msgs' = (msgs \ {m}) \cup Copies(j, job[j].at, m.ver)
         /\ \/ m.type = "put_reply" /\ m.job = j /\ late' = late
            \/ /\ timeouts # 0
               /\ late' = (late \ {CallOf(m)}) \cup {<<"put_reply", j, Primary>>}
<1>1. job[j].phase = "forwarding" /\ up[job[j].at] /\ m.from = Primary
  BY DEF ReceivePutReply, Active
<1>2. /\ m \in Message /\ MessageOK(m) /\ m.type \in Answers
      /\ m.ver \in Nat /\ m.ver # 0 /\ m.ok \in BOOLEAN
      /\ \/ m.type = "put_reply" /\ m.job = j /\ late' = late
         \/ /\ timeouts # 0
            /\ late' = (late \ {CallOf(m)}) \cup {<<"put_reply", j, Primary>>}
  BY <1>1, ReadsFacts DEF ReceivePutReply, Own
<1>3. /\ job[j] \in JobType /\ j = Client(j[1])
      /\ job[j].at \in Node \ Replica
  BY <1>1, JobIs
<1>4. CASE m.ok
  <2> DEFINE r == [at |-> job[j].at, phase |-> "replicating", ver |-> m.ver,
                   acks |-> 1, waiting |-> Replica]
  <2>1. r \in JobType
    <3>1. 1 \in 0 .. Cardinality(Replica) + 1
      BY ReplicaFacts
    <3>2. QED BY <1>2, <1>3, <3>1, ReplicaFacts DEF JobType
  <2>2. /\ job' = [job EXCEPT ![j] = r]
        /\ msgs' = (msgs \ {m}) \cup Copies(j, job[j].at, m.ver)
    BY <1>4 DEF ReceivePutReply
  <2>3. /\ job' \in [Job -> JobType] /\ job'[j] = r
        /\ \A k \in Job : k # j => job'[k] = job[k]
    BY <2>1, <2>2, SetJob
  <2>4. QED BY <1>1, <1>2, <1>3, <1>4, <2>2, <2>3, SameJob
<1>5. CASE ~ m.ok
  <2>1. job' = [job EXCEPT ![j].phase = "failed"] /\ msgs' = msgs \ {m}
    BY <1>5 DEF ReceivePutReply
  <2>2. job' \in [Job -> JobType] /\ \A k \in Job : Keeps(k)
    BY <1>1, <2>1, EndStep
  <2>3. QED BY <1>1, <1>2, <1>3, <1>5, <2>1, <2>2
<1>6. QED BY <1>2, <1>4, <1>5

LEMMA AckFacts ==
  ASSUME Structure, NEW j \in Job, NEW m \in msgs, ReceiveAck(j, m)
  PROVE  /\ job[j].phase = "replicating" /\ m.from \in job[j].waiting
         /\ m.from \in Replica /\ m.type \in Answers
         /\ m \in Message /\ MessageOK(m)
         /\ job' \in [Job -> JobType]
         /\ \A k \in Job : k # j => Keeps(k)
         /\ ~ m.ok => Keeps(j)
         /\ m.ok =>
              /\ job'[j].at = job[j].at /\ job'[j].phase = "replicating"
              /\ job'[j].ver = job[j].ver /\ job'[j].acks = job[j].acks + 1
              /\ job'[j].waiting = job[j].waiting \ {m.from}
         /\ msgs' = msgs \ {m}
         /\ \/ m.type = "ack" /\ m.job = j /\ late' = late
            \/ /\ timeouts # 0
               /\ late' = (late \ {CallOf(m)}) \cup {<<"ack", j, m.from>>}
<1>1. /\ job[j].phase = "replicating" /\ m.from \in job[j].waiting
      /\ msgs' = msgs \ {m}
  BY DEF ReceiveAck, Active
<1>2. /\ m \in Message /\ MessageOK(m) /\ m.type \in Answers
      /\ m.from \in Replica /\ m.ok \in BOOLEAN
      /\ \/ m.type = "ack" /\ m.job = j /\ late' = late
         \/ /\ timeouts # 0
            /\ late' = (late \ {CallOf(m)}) \cup {<<"ack", j, m.from>>}
  BY <1>1, ReadsFacts DEF ReceiveAck, Own
<1>3. PICK a \in {0, 1} : a = IF m.ok THEN 1 ELSE 0
  OBVIOUS
<1>4. job' = [job EXCEPT ![j].acks = @ + a, ![j].waiting = @ \ {m.from}]
  <2>1. job[j].acks \in Nat
    BY JobIs
  <2>2. CASE m.ok
    BY <1>3, <2>2 DEF ReceiveAck
  <2>3. CASE ~ m.ok
    <3>1. job[j].acks + a = job[j].acks
      BY <1>3, <2>1, <2>3
    <3>2. QED BY <2>3, <3>1 DEF ReceiveAck
  <2>4. QED BY <2>2, <2>3
<1>5. /\ job' \in [Job -> JobType]
      /\ job'[j] = [at |-> job[j].at, phase |-> "replicating",
                    ver |-> job[j].ver, acks |-> job[j].acks + a,
                    waiting |-> job[j].waiting \ {m.from}]
      /\ \A k \in Job : k # j => Keeps(k)
      /\ a = 0 => Keeps(j)
  BY <1>1, <1>4, TaskEnds
<1>6. QED BY <1>1, <1>2, <1>3, <1>5

\* The steps by which a job ends, or ends one of its tasks.
LEMMA ForwardEnds ==
  ASSUME Structure, NEW j \in Job, ForwardFails(j) \/ ForwardTimesOut(j)
  PROVE  /\ job' \in [Job -> JobType] /\ \A k \in Job : Keeps(k)
         /\ UNCHANGED <<up, store, counter, msgs, crashes, overlapped, acked,
                        before>>
<1>1. /\ job[j].phase = "forwarding"
      /\ job' = [job EXCEPT ![j].phase = "failed"]
      /\ UNCHANGED <<up, store, counter, msgs, crashes, overlapped, acked, before>>
  BY DEF ForwardFails, ForwardTimesOut, Active
<1>2. QED BY <1>1, EndStep

LEMMA ReplicateEnds ==
  ASSUME Structure, NEW j \in Job, NEW r \in Replica,
         ReplicateFails(j, r) \/ ReplicateTimesOut(j, r)
  PROVE  /\ job' \in [Job -> JobType] /\ \A k \in Job : Keeps(k)
         /\ UNCHANGED <<up, store, counter, msgs, crashes, overlapped, acked,
                        before>>
<1>1. /\ job[j].phase = "replicating" /\ r \in job[j].waiting
      /\ job' = [job EXCEPT ![j].waiting = @ \ {r}]
      /\ UNCHANGED <<up, store, counter, msgs, crashes, overlapped, acked, before>>
  BY DEF ReplicateFails, ReplicateTimesOut, TakeOffTask, Active
<1>2. /\ job[j] \in JobType /\ job[j].acks + 0 = job[j].acks
      /\ job \in [Job -> JobType]
  BY JobIs
<1>3. job' = [job EXCEPT ![j].acks = @ + 0, ![j].waiting = @ \ {r}]
  BY <1>1, <1>2 DEF JobType
<1>4. QED BY <1>1, <1>3, TaskEnds

LEMMA ConcludeFacts ==
  ASSUME Structure, NEW j \in Job, Conclude(j)
  PROVE  /\ job[j].phase = "replicating" /\ up[job[j].at] /\ job[j].waiting = {}
         /\ job' \in [Job -> JobType] /\ \A k \in Job : Keeps(k)
         /\ QuorumMet(j) => job'[j].phase = "acked"
         /\ UNCHANGED <<up, store, counter, late, crashes, timeouts, overlapped,
                        before>>
         /\ \/ UNCHANGED acked
            \/ /\ QuorumMet(j) /\ j = Client(j[1])
               /\ acked' = acked \cup {j[1]}
         /\ j = Client(j[1]) => msgs' = msgs
         /\ j = Forwarded(j[1]) =>
              msgs' = msgs \cup
                {[type |-> "put_reply", job |-> Client(j[1]),
                  from |-> job[j].at, to |-> job[Client(j[1])].at,
                  ver |-> job[j].ver, ok |-> QuorumMet(j)]}
<1>1. /\ job[j].phase = "replicating" /\ up[job[j].at] /\ job[j].waiting = {}
      /\ UNCHANGED <<up, store, counter, late, crashes, timeouts, overlapped,
                     before>>
  BY DEF Conclude, Active
<1>2. PICK e \in {"acked", "failed"} : e = IF QuorumMet(j) THEN "acked" ELSE "failed"
  OBVIOUS
<1>3. job' = [job EXCEPT ![j].phase = e]
  BY <1>2 DEF Conclude
<1>4. job' \in [Job -> JobType] /\ \A k \in Job : Keeps(k)
  BY <1>1, <1>2, <1>3, EndStep
<1>5. QuorumMet(j) => job'[j].phase = "acked"
  <2>1. job[j] \in JobType
    BY JobIs
  <2>2. job'[j] = [job[j] EXCEPT !.phase = e]
    BY <1>3 DEF Structure, TypeOK
  <2>3. QED BY <1>2, <2>1, <2>2, SetPhase
<1>6. \/ UNCHANGED acked
      \/ /\ QuorumMet(j) /\ j = Client(j[1])
         /\ acked' = acked \cup {j[1]}
  BY JobFacts DEF Conclude
<1>7. /\ j = Client(j[1]) => msgs' = msgs
      /\ j = Forwarded(j[1]) =>
           msgs' = msgs \cup
             {[type |-> "put_reply", job |-> Client(j[1]),
               from |-> job[j].at, to |-> job[Client(j[1])].at,
               ver |-> job[j].ver, ok |-> QuorumMet(j)]}
  BY JobFacts DEF Conclude, Answer, Client
<1>8. QED BY <1>1, <1>4, <1>5, <1>6, <1>7

\* A crash fails the jobs of its node that were not acknowledged.
LEMMA CrashFacts ==
  ASSUME Structure, NEW n \in Node, Crash(n)
  PROVE  /\ job' \in [Job -> JobType] /\ \A j \in Job : Keeps(j)
         /\ \A j \in Job : job[j].at = n => job'[j].phase \in {"acked", "failed"}
         /\ Down' = Down \cup {n} /\ n \notin Down
<1>1. ASSUME NEW j \in Job
      PROVE  /\ job'[j] \in JobType /\ Keeps(j)
             /\ job[j].at = n => job'[j].phase \in {"acked", "failed"}
  <2>1. job[j] \in JobType /\ (job[j].at = n => job[j].phase # "none")
    BY JobIs
  <2>2. job'[j] = IF job[j].at = n /\ job[j].phase # "acked"
                    THEN [job[j] EXCEPT !.phase = "failed"] ELSE job[j]
    BY DEF Crash
  <2>3. CASE job[j].at = n /\ job[j].phase # "acked"
    <3>1. job'[j] = [at |-> job[j].at, phase |-> "failed", ver |-> job[j].ver,
                     acks |-> job[j].acks, waiting |-> job[j].waiting]
      BY <2>1, <2>2, <2>3, SetPhase
    <3>2. job'[j] \in JobType
      BY <2>1, <3>1 DEF JobType
    <3>3. QED BY <2>1, <2>3, <3>1, <3>2 DEF Keeps
  <2>4. CASE ~ (job[j].at = n /\ job[j].phase # "acked")
    <3>1. job'[j] = job[j]
      BY <2>2, <2>4
    <3>2. QED BY <2>1, <2>4, <3>1, SameJob
  <2>5. QED BY <2>3, <2>4
<1>2. job' \in [Job -> JobType]
  BY <1>1 DEF Crash
<1>3. Down' = Down \cup {n} /\ n \notin Down
  BY DEF Crash, Down, Structure, TypeOK
<1>4. QED BY <1>1, <1>2, <1>3

\* One step of any kind.
LEMMA NextCases ==
  ASSUME [Next]_vars
  PROVE  \/ \E w \in Write, n \in Node : ClientPutAtReplica(w, n)
         \/ \E w \in Write, n \in Node : ClientPutElsewhere(w, n)
         \/ \E m \in msgs : ReceivePut(m)
         \/ \E m \in msgs : ReceiveReplicate(m)
         \/ \E m \in msgs : CheckVersion(m)
         \/ \E m \in msgs : InsertCopy(m)
         \/ \E j \in Job, m \in msgs : ReceivePutReply(j, m)
         \/ \E j \in Job, m \in msgs : ReceiveAck(j, m)
         \/ \E j \in Job : Store(j)
         \/ \E j \in Job : ForwardFails(j) \/ ForwardTimesOut(j)
         \/ \E j \in Job, r \in Replica :
              ReplicateFails(j, r) \/ ReplicateTimesOut(j, r)
         \/ \E j \in Job : Conclude(j)
         \/ \E n \in Node : Crash(n)
         \/ \E n \in Node : Restart(n)
         \/ UNCHANGED vars
BY DEF Next, Handle, ReadAnswer, GiveUp, GiveUpWritten

\* What a step does to a job is one of these.
JobStep(j) ==
  \/ Keeps(j)
  \/ \E n \in Replica : Numbered(j, n)
  \/ Forwards(j)
  \/ Store(j)
  \/ \E m \in msgs : TakesVersion(j, m) \/ Counts(j, m)

LEMMA JobSteps ==
  ASSUME Structure, [Next]_vars
  PROVE  job' \in [Job -> JobType] /\ \A j \in Job : JobStep(j)
<1>1. CASE \E w \in Write, n \in Node : ClientPutAtReplica(w, n)
  BY <1>1, PutAtReplicaNumbers, NumberedFacts DEF JobStep
<1>2. CASE \E w \in Write, n \in Node : ClientPutElsewhere(w, n)
  BY <1>2, PutElsewhereFacts DEF JobStep
<1>3. CASE \E m \in msgs : ReceivePut(m)
  BY <1>3, ReceivePutNumbers, NumberedFacts, ReplicaFacts DEF JobStep
<1>4. CASE \E j \in Job, m \in msgs : ReceivePutReply(j, m)
  BY <1>4, PutReplyFacts DEF JobStep, TakesVersion
<1>5. CASE \E j \in Job, m \in msgs : ReceiveAck(j, m)
  BY <1>5, AckFacts DEF JobStep, Counts
<1>6. CASE \E j \in Job : Store(j)
  BY <1>6, StoreFacts DEF JobStep
<1>7. CASE \E j \in Job : ForwardFails(j) \/ ForwardTimesOut(j)
  BY <1>7, ForwardEnds DEF JobStep
<1>8. CASE \E j \in Job, r \in Replica :
             ReplicateFails(j, r) \/ ReplicateTimesOut(j, r)
  BY <1>8, ReplicateEnds DEF JobStep
<1>9. CASE \E j \in Job : Conclude(j)
  BY <1>9, ConcludeFacts DEF JobStep
<1>10. CASE \E n \in Node : Crash(n)
  BY <1>10, CrashFacts DEF JobStep
<1>11. CASE UNCHANGED job
  BY <1>11, SameJob, JobIs DEF JobStep, Structure, TypeOK, JobType
<1>12. QED
  BY NextCases, <1>1, <1>2, <1>3, <1>4, <1>5, <1>6, <1>7, <1>8, <1>9, <1>10,
     <1>11
     DEF ReceiveReplicate, CheckVersion, InsertCopy, Restart, vars

(***************************************************************************)
(* What one step does to the messages.                                     *)
(***************************************************************************)

SameCopy(q, m) ==
  m.job = q.job /\ m.from = q.from /\ m.to = q.to /\ m.ver = q.ver

\* The handler of copy q raised the counter, or found the copy newer; it goes on
\* as m.
Raised(q, m) ==
  ReceiveReplicate(q) /\ m.type = "checking" /\ SameCopy(q, m)
Passed(q, m) ==
  /\ CheckVersion(q) /\ Newer(q.to, q.ver)
  /\ m.type = "inserting" /\ SameCopy(q, m)

\* The handler of copy q found it too old, or inserted it; m is its Ack.
Answered(q, m) ==
  /\ (CheckVersion(q) /\ ~ Newer(q.to, q.ver)) \/ InsertCopy(q)
  /\ m.type = "ack" /\ m.job = q.job /\ m.from = q.to /\ m.ver = q.ver

\* Job j sends copy m of its version.
Sends(j, m) ==
  /\ Store(j) \/ \E q \in msgs : TakesVersion(j, q)
  /\ m.type = "replicate" /\ m.job = j
  /\ m.to \in Replica /\ m.ver = job'[j].ver /\ m.ver # 0

\* The primary answers the forwarded put of w.
Replies(w, m) ==
  LET j == Forwarded(w) IN
  /\ Conclude(j)
  /\ m.type = "put_reply" /\ m.job = Client(w) /\ m.from = job[j].at
  /\ m.ver = job[j].ver /\ m.ok = QuorumMet(j)

PutOf(w, n) ==
  [type |-> "put", job |-> Client(w), from |-> n, to |-> Primary]

MessageStep(m) ==
  \/ m \in msgs
  \/ \E w \in Write, n \in Node : ClientPutElsewhere(w, n) /\ m = PutOf(w, n)
  \/ \E j \in Job : Sends(j, m)
  \/ \E q \in msgs : Raised(q, m) \/ Passed(q, m) \/ Answered(q, m)
  \/ \E w \in Write : Replies(w, m)

\* The steps of the handler of a copy.
LEMMA ReceiveReplicateFacts ==
  ASSUME Structure, NEW q \in msgs, ReceiveReplicate(q)
  PROVE  /\ q \in Message /\ MessageOK(q) /\ q.type = "replicate"
         /\ q.to \in Node /\ q.to \in Replica /\ up[q.to]
         /\ q.ver \in Nat /\ q.ver # 0
         /\ counter' \in [Node -> Nat]
         /\ counter'[q.to] >= counter[q.to] /\ counter'[q.to] >= q.ver
         /\ \A i \in Node : i # q.to => counter'[i] = counter[i]
         /\ \A m \in msgs' : m \in msgs \/ (m \in Message /\ Raised(q, m))
         /\ \E m \in msgs' : Raised(q, m)
         /\ msgs \ {q} \subseteq msgs'
         /\ q \notin msgs'
         /\ UNCHANGED <<up, store, job, late, crashes, timeouts, acked, before>>
<1>1. q \in Message /\ MessageOK(q) /\ q.type = "replicate"
  BY DEF ReceiveReplicate, Structure, TypeOK
<1>2. /\ q.to \in Node /\ q.to \in Replica /\ q.ver \in Nat /\ q.ver # 0
      /\ q.from \in Node
  BY <1>1, MessageFacts, ReplicaFacts DEF MessageOK
<1>3. PICK e \in Nat : /\ e = IF q.ver > counter[q.to] THEN q.ver ELSE counter[q.to]
                       /\ e >= q.ver /\ e >= counter[q.to]
  BY <1>2 DEF Structure, TypeOK
<1>4. counter' = [counter EXCEPT ![q.to] = e]
  BY <1>2, <1>3 DEF ReceiveReplicate, Structure, TypeOK
<1>5. PICK c : c = [q EXCEPT !.type = "checking"]
  OBVIOUS
<1>6. c \in Message /\ c.type = "checking" /\ SameCopy(q, c)
  BY <1>1, <1>5, NextStepType DEF SameCopy, Storing
<1>7. msgs' = (msgs \ {q}) \cup {c}
  BY <1>5 DEF ReceiveReplicate, GoesOn
<1>8. c # q /\ Raised(q, c)
  BY <1>1, <1>6 DEF Raised
<1>9. QED
  BY <1>1, <1>2, <1>3, <1>4, <1>6, <1>7, <1>8
     DEF ReceiveReplicate, Structure, TypeOK

AckOf(q) == [type |-> "ack", job |-> q.job, from |-> q.to, to |-> q.from,
             ver |-> q.ver, ok |-> TRUE]

LEMMA AnswerFacts ==
  ASSUME NEW q \in Message, q.type \in Storing
  PROVE  /\ AckOf(q) \in Message /\ AckOf(q).type = "ack"
         /\ AckOf(q).job = q.job /\ AckOf(q).from = q.to /\ AckOf(q).ver = q.ver
         /\ AckOf(q) # q
BY DEF AckOf, Message, Storing

LEMMA CheckVersionFacts ==
  ASSUME Structure, NEW q \in msgs, CheckVersion(q)
  PROVE  /\ q \in Message /\ MessageOK(q) /\ q.type = "checking"
         /\ q.to \in Node /\ q.to \in Replica /\ q.ver \in Nat /\ q.ver # 0
         /\ q.ver =< counter[q.to]
         /\ \A m \in msgs' :
              m \in msgs \/ (m \in Message /\ (Passed(q, m) \/ Answered(q, m)))
         /\ Newer(q.to, q.ver) => \E m \in msgs' : Passed(q, m)
         /\ msgs \ {q} \subseteq msgs'
         /\ q \notin msgs'
         /\ UNCHANGED <<up, store, counter, job, late, crashes, timeouts,
                        overlapped, acked, before>>
<1>1. q \in Message /\ MessageOK(q) /\ q.type = "checking"
  BY DEF CheckVersion, Structure, TypeOK
<1>2. q.to \in Node /\ q.to \in Replica /\ q.ver \in Nat /\ q.ver # 0
  BY <1>1, MessageFacts DEF MessageOK, Storing
<1>3. q.ver =< counter[q.to]
  BY <1>1, <1>2 DEF Structure, NodeOK, Storing
<1>4. CASE Newer(q.to, q.ver)
  <2>1. PICK c : c = [q EXCEPT !.type = "inserting"]
    OBVIOUS
  <2>2. c \in Message /\ c.type = "inserting" /\ SameCopy(q, c)
    BY <1>1, <2>1, NextStepType DEF SameCopy, Storing
  <2>3. msgs' = (msgs \ {q}) \cup {c}
    BY <1>4, <2>1 DEF CheckVersion, GoesOn
  <2>4. c # q /\ Passed(q, c)
    BY <1>1, <1>4, <2>2 DEF Passed
  <2>5. QED BY <1>1, <1>2, <1>3, <2>2, <2>3, <2>4 DEF CheckVersion
<1>5. CASE ~ Newer(q.to, q.ver)
  <2>1. /\ AckOf(q) \in Message /\ AckOf(q) # q /\ Answered(q, AckOf(q))
    BY <1>1, <1>5, AnswerFacts DEF Answered, Storing
  <2>2. msgs' = (msgs \ {q}) \cup {AckOf(q)}
    BY <1>5 DEF CheckVersion, AnswersAck, AckOf
  <2>3. QED BY <1>1, <1>2, <1>3, <1>5, <2>1, <2>2 DEF CheckVersion
<1>6. QED BY <1>4, <1>5

LEMMA InsertCopyFacts ==
  ASSUME Structure, NEW q \in msgs, InsertCopy(q)
  PROVE  /\ q \in Message /\ MessageOK(q) /\ q.type = "inserting"
         /\ q.to \in Node /\ q.to \in Replica /\ q.ver \in Nat /\ q.ver # 0
         /\ q.job \in Job /\ q.ver =< counter[q.to]
         /\ [ver |-> q.ver, val |-> q.job[1]] \in [ver : Nat, val : Write]
         /\ store' = [store EXCEPT ![q.to] = [ver |-> q.ver, val |-> q.job[1]]]
         /\ store'[q.to] # None /\ store'[q.to].ver = q.ver
         /\ store'[q.to].val = q.job[1]
         /\ \A i \in Node : i # q.to => store'[i] = store[i]
         /\ \A m \in msgs' : m \in msgs \/ (m \in Message /\ Answered(q, m))
         /\ msgs \ {q} \subseteq msgs'
         /\ q \notin msgs'
         /\ UNCHANGED <<up, counter, job, late, crashes, timeouts, overlapped,
                        acked, before>>
<1>1. q \in Message /\ MessageOK(q) /\ q.type = "inserting"
  BY DEF InsertCopy, Structure, TypeOK
<1>2. /\ q.to \in Node /\ q.to \in Replica /\ q.ver \in Nat /\ q.ver # 0
      /\ q.job \in Job /\ q.job[1] \in Write
  BY <1>1, MessageFacts, JobFacts DEF MessageOK, Storing
<1>3. q.ver =< counter[q.to]
  BY <1>1, <1>2 DEF Structure, NodeOK, Storing
<1>4. /\ store' = [store EXCEPT ![q.to] = [ver |-> q.ver, val |-> q.job[1]]]
      /\ store'[q.to] = [ver |-> q.ver, val |-> q.job[1]]
      /\ \A i \in Node : i # q.to => store'[i] = store[i]
  BY <1>2 DEF InsertCopy, Structure, TypeOK
<1>5. AckOf(q) \in Message /\ AckOf(q) # q /\ Answered(q, AckOf(q))
  BY <1>1, AnswerFacts DEF Answered, Storing
<1>6. msgs' = (msgs \ {q}) \cup {AckOf(q)}
  BY DEF InsertCopy, AnswersAck, AckOf
<1>7. /\ store'[q.to] # None /\ store'[q.to].ver = q.ver
      /\ store'[q.to].val = q.job[1]
  BY <1>2, <1>4, NoneAssumption
<1>8. QED BY <1>1, <1>2, <1>3, <1>4, <1>5, <1>6, <1>7 DEF InsertCopy

LEMMA MessageSteps ==
  ASSUME Structure, [Next]_vars, NEW m \in msgs'
  PROVE  m \in Message /\ MessageStep(m)
<1>1. msgs \subseteq Message
  BY DEF Structure, TypeOK
<1>2. CASE m \in msgs
  BY <1>1, <1>2 DEF MessageStep
<1>3. ASSUME NEW w \in Write, NEW n \in Node, ClientPutElsewhere(w, n)
      PROVE  m \in Message /\ MessageStep(m)
  <2>1. PutOf(w, n) \in Message
    BY JobFacts, ReplicaFacts DEF PutOf, Message
  <2>2. m \in msgs \/ m = PutOf(w, n)
    BY <1>3 DEF ClientPutElsewhere, PutOf, Client
  <2>3. QED BY <1>2, <1>3, <2>1, <2>2 DEF MessageStep
<1>4. ASSUME NEW q \in msgs,
             ReceiveReplicate(q) \/ CheckVersion(q) \/ InsertCopy(q)
      PROVE  m \in Message /\ MessageStep(m)
  BY <1>2, <1>4, ReceiveReplicateFacts, CheckVersionFacts, InsertCopyFacts
     DEF MessageStep
<1>5. ASSUME NEW j \in Job, NEW q \in msgs, ReceivePutReply(j, q)
      PROVE  m \in Message /\ MessageStep(m)
  <2>1. CASE m \in Copies(j, job[j].at, q.ver) /\ q.ok
    <3>1. /\ m \in Message /\ m.type = "replicate" /\ m.job = j
          /\ m.to \in Replica /\ m.ver = q.ver /\ q.ver # 0
          /\ job'[j].ver = q.ver
      BY <1>5, <2>1, PutReplyFacts, CopiesType
    <3>2. Sends(j, m)
      BY <1>5, <2>1, <3>1 DEF Sends, TakesVersion
    <3>3. QED BY <3>1, <3>2 DEF MessageStep
  <2>2. m \in msgs \/ (m \in Copies(j, job[j].at, q.ver) /\ q.ok)
    BY <1>5, PutReplyFacts
  <2>3. QED BY <1>2, <2>1, <2>2
<1>6. ASSUME NEW j \in Job, Store(j)
      PROVE  m \in Message /\ MessageStep(m)
  <2>1. CASE m \in Copies(j, job[j].at, job[j].ver)
    <3>1. /\ job[j].at \in Node /\ job[j].ver \in Nat /\ job[j].ver # 0
          /\ job'[j].ver = job[j].ver
      BY <1>6, StoreFacts
    <3>2. /\ m \in Message /\ m.type = "replicate" /\ m.job = j
          /\ m.to \in Replica /\ m.ver = job[j].ver
      BY <2>1, <3>1, CopiesType
    <3>3. Sends(j, m)
      BY <1>6, <3>1, <3>2 DEF Sends
    <3>4. QED BY <3>2, <3>3 DEF MessageStep
  <2>2. m \in msgs \/ m \in Copies(j, job[j].at, job[j].ver)
    BY <1>6, StoreFacts
  <2>3. QED BY <1>2, <2>1, <2>2
<1>7. ASSUME NEW j \in Job, Conclude(j)
      PROVE  m \in Message /\ MessageStep(m)
  <2>1. CASE j = Client(j[1])
    BY <1>2, <1>7, <2>1, ConcludeFacts
  <2>2. CASE j = Forwarded(j[1]) /\ m \notin msgs
    <3> DEFINE w == j[1]
    <3>1. w \in Write /\ Client(w) \in Job
      BY JobFacts
    <3>2. m = [type |-> "put_reply", job |-> Client(w),
               from |-> job[j].at, to |-> job[Client(w)].at,
               ver |-> job[j].ver, ok |-> QuorumMet(j)]
      BY <1>7, <2>2, ConcludeFacts
    <3>3. job[j].at \in Node /\ job[j].ver \in Nat
      BY <1>7, ConcludeFacts, JobIs
    <3>4. job[Client(w)].at \in Node
      BY <1>7, <2>2, <3>1, ConcludeFacts DEF Structure, ForwardOK
    <3>5. QuorumMet(j) \in BOOLEAN
      BY DEF QuorumMet
    <3>6. m \in Message
      BY <3>1, <3>2, <3>3, <3>4, <3>5 DEF Message
    <3>7. Replies(w, m)
      BY <1>7, <2>2, <3>2 DEF Replies
    <3>8. QED BY <3>1, <3>6, <3>7 DEF MessageStep
  <2>3. QED BY <1>2, <2>1, <2>2, JobFacts
<1>8. QED
  <2>1. CASE \E w \in Write, n \in Node : ClientPutAtReplica(w, n)
    BY <1>2, <2>1 DEF ClientPutAtReplica
  <2>2. CASE \E q \in msgs : ReceivePut(q)
    BY <1>2, <2>2 DEF ReceivePut
  <2>3. CASE \E j \in Job, q \in msgs : ReceiveAck(j, q)
    BY <1>2, <2>3 DEF ReceiveAck
  <2>4. CASE \E j \in Job : ForwardFails(j) \/ ForwardTimesOut(j)
    BY <1>2, <2>4 DEF ForwardFails, ForwardTimesOut
  <2>5. CASE \E j \in Job, r \in Replica :
               ReplicateFails(j, r) \/ ReplicateTimesOut(j, r)
    BY <1>2, <2>5 DEF ReplicateFails, ReplicateTimesOut
  <2>6. CASE \E n \in Node : Crash(n) \/ Restart(n)
    BY <1>2, <2>6 DEF Crash, Restart
  <2>7. CASE UNCHANGED vars
    BY <1>2, <2>7 DEF vars
  <2>8. QED
    BY NextCases, <1>3, <1>4, <1>5, <1>6, <1>7, <2>1, <2>2, <2>3, <2>4, <2>5,
       <2>6, <2>7

(***************************************************************************)
(* What one step does to the nodes and to the histories.                   *)
(***************************************************************************)

StoreStep(n) ==
  \/ store'[n] = store[n]
  \/ \E j \in Job : Store(j) /\ job[j].at = n
  \/ \E m \in msgs : InsertCopy(m) /\ m.to = n
  \/ Crash(n)

LEMMA NodeSteps ==
  ASSUME Structure, [Next]_vars
  PROVE  /\ up' \in [Node -> BOOLEAN]
         /\ store' \in [Node -> [ver : Nat, val : Write] \cup {None}]
         /\ counter' \in [Node -> Nat]
         /\ \A n \in Node : StoreStep(n)
         /\ \A n \in Node : counter'[n] >= counter[n] \/ Crash(n)
         /\ \A n \in Node : up'[n] => up[n] \/ Restart(n)
         /\ \A n \in Node : up[n] => up'[n] \/ Crash(n)
<1> DEFINE Goal ==
             /\ up' \in [Node -> BOOLEAN]
             /\ store' \in [Node -> [ver : Nat, val : Write] \cup {None}]
             /\ counter' \in [Node -> Nat]
             /\ \A n \in Node : StoreStep(n)
             /\ \A n \in Node : counter'[n] >= counter[n] \/ Crash(n)
             /\ \A n \in Node : up'[n] => up[n] \/ Restart(n)
             /\ \A n \in Node : up[n] => up'[n] \/ Crash(n)
<1>1. /\ up \in [Node -> BOOLEAN]
      /\ store \in [Node -> [ver : Nat, val : Write] \cup {None}]
      /\ counter \in [Node -> Nat]
      /\ \A n \in Node : counter[n] \in Nat /\ counter[n] >= counter[n]
  BY DEF Structure, TypeOK
<1>2. ASSUME UNCHANGED <<up, store, counter>> PROVE Goal
  BY <1>1, <1>2 DEF StoreStep
<1>3. ASSUME NEW j \in Job, NEW n \in Replica, Numbered(j, n) PROVE Goal
  <2>1. /\ UNCHANGED <<up, store>> /\ counter' \in [Node -> Nat]
        /\ counter'[n] = counter[n] + 1
        /\ \A i \in Node : i # n => counter'[i] = counter[i]
    BY <1>3, NumberedFacts
  <2>2. \A i \in Node : counter'[i] >= counter[i]
    BY <1>1, <2>1
  <2>3. QED BY <1>1, <2>1, <2>2 DEF StoreStep
<1>4. ASSUME NEW j \in Job, Store(j) PROVE Goal
  <2> DEFINE e == [ver |-> job[j].ver, val |-> j[1]]
  <2>1. /\ UNCHANGED <<up, counter>> /\ e \in [ver : Nat, val : Write]
        /\ store' = [store EXCEPT ![job[j].at] = e]
        /\ \A i \in Node : i # job[j].at => store'[i] = store[i]
    BY <1>4, StoreFacts DEF Store
  <2>2. store' \in [Node -> [ver : Nat, val : Write] \cup {None}]
    BY <1>1, <2>1
  <2>3. QED BY <1>1, <1>4, <2>1, <2>2 DEF StoreStep
<1>5. ASSUME NEW q \in msgs, ReceiveReplicate(q) PROVE Goal
  <2>1. /\ UNCHANGED <<up, store>> /\ counter' \in [Node -> Nat]
        /\ counter'[q.to] >= counter[q.to]
        /\ \A i \in Node : i # q.to => counter'[i] = counter[i]
    BY <1>5, ReceiveReplicateFacts
  <2>2. QED BY <1>1, <2>1 DEF StoreStep
<1>6. ASSUME NEW q \in msgs, InsertCopy(q) PROVE Goal
  <2> DEFINE e == [ver |-> q.ver, val |-> q.job[1]]
  <2>1. /\ UNCHANGED <<up, counter>> /\ e \in [ver : Nat, val : Write]
        /\ store' = [store EXCEPT ![q.to] = e]
        /\ \A i \in Node : i # q.to => store'[i] = store[i]
    BY <1>6, InsertCopyFacts
  <2>2. store' \in [Node -> [ver : Nat, val : Write] \cup {None}]
    BY <1>1, <2>1
  <2>3. QED BY <1>1, <1>6, <2>1, <2>2 DEF StoreStep
<1>7. ASSUME NEW n \in Node, Crash(n) PROVE Goal
  <2>1. /\ up' = [up EXCEPT ![n] = FALSE]
        /\ store' = [store EXCEPT ![n] = None]
        /\ counter' = [counter EXCEPT ![n] = 0]
    BY <1>7 DEF Crash
  <2>2. \A i \in Node : i # n => /\ store'[i] = store[i]
                                 /\ counter'[i] = counter[i] /\ up'[i] = up[i]
    BY <1>1, <2>1
  <2>3. ~ up'[n]
    BY <1>1, <2>1
  <2>4. QED BY <1>1, <1>7, <2>1, <2>2, <2>3 DEF StoreStep
<1>8. ASSUME NEW n \in Node, Restart(n) PROVE Goal
  BY <1>1, <1>8 DEF Restart, StoreStep
<1>9. QED
  <2>1. CASE \E w \in Write, n \in Node : ClientPutAtReplica(w, n)
    BY <1>3, <2>1, PutAtReplicaNumbers
  <2>2. CASE \E q \in msgs : ReceivePut(q)
    BY <1>3, <2>2, ReceivePutNumbers, ReplicaFacts
  <2>3. QED
    BY NextCases, <1>2, <1>3, <1>4, <1>5, <1>6, <1>7, <1>8, <2>1, <2>2,
       ForwardEnds, ReplicateEnds, ConcludeFacts
       DEF ClientPutElsewhere, CheckVersion, ReceivePutReply, ReceiveAck, vars

\* The replicas whose answers lag are those of the calls given up.
LEMMA LagGrows ==
  ASSUME Structure, [Next]_vars
  PROVE  /\ late' \subseteq {"put_reply", "ack"} \X Job \X Replica
         /\ timeouts' \in Nat /\ timeouts' >= timeouts
         /\ timeouts' = 0 => late' = {}
         /\ crashes' \in Nat /\ crashes' >= crashes
         /\ crashes' = 0 => Lagging \subseteq Lagging'
<1> DEFINE Goal == /\ late' \subseteq {"put_reply", "ack"} \X Job \X Replica
                   /\ timeouts' \in Nat /\ timeouts' >= timeouts
                   /\ timeouts' = 0 => late' = {}
                   /\ crashes' \in Nat /\ crashes' >= crashes
                   /\ crashes' = 0 => Lagging \subseteq Lagging'
<1>1. /\ late \subseteq {"put_reply", "ack"} \X Job \X Replica
      /\ timeouts \in Nat /\ crashes \in Nat
      /\ timeouts = 0 => late = {}
  BY DEF Structure, TypeOK, LateOK
<1>2. ASSUME UNCHANGED <<late, crashes, timeouts>> PROVE Goal
  BY <1>1, <1>2 DEF Lagging
<1>3. ASSUME NEW type \in {"put_reply", "ack"}, NEW j \in Job, NEW r \in Replica,
             TimesOut(type, j, r), UNCHANGED crashes
      PROVE  Goal
  <2>1. <<type, j, r>> \in {"put_reply", "ack"} \X Job \X Replica
    OBVIOUS
  <2>2. late' = late \cup {<<type, j, r>>} /\ timeouts' = timeouts + 1
    BY <1>3 DEF TimesOut
  <2>3. Lagging \subseteq Lagging'
    BY <2>2 DEF Lagging
  <2>4. QED BY <1>1, <1>3, <2>1, <2>2, <2>3
<1>4. ASSUME NEW type \in {"put_reply", "ack"}, NEW j \in Job, NEW m \in msgs,
             m.from \in Replica, timeouts # 0,
             late' = (late \ {CallOf(m)}) \cup {<<type, j, m.from>>},
             UNCHANGED <<crashes, timeouts>>
      PROVE  Goal
  <2>1. <<type, j, m.from>> \in {"put_reply", "ack"} \X Job \X Replica
    BY <1>4
  <2>2. ASSUME NEW r \in Lagging PROVE r \in Lagging'
    <3>1. PICK call \in late : call[3] = r
      BY DEF Lagging
    <3>2. CASE call = CallOf(m)
      <4>1. r = m.from /\ r \in Replica
        BY <3>1, <3>2, <1>4 DEF CallOf
      <4>2. <<type, j, m.from>> \in late' /\ <<type, j, m.from>>[3] = r
        BY <1>4, <4>1
      <4>3. QED BY <4>1, <4>2 DEF Lagging
    <3>3. CASE call # CallOf(m)
      BY <1>4, <3>1, <3>3 DEF Lagging
    <3>4. QED BY <3>2, <3>3
  <2>3. QED BY <1>1, <1>4, <2>1, <2>2
<1>5. ASSUME NEW j \in Job, NEW m \in msgs, ReceivePutReply(j, m) PROVE Goal
  <2>1. UNCHANGED <<crashes, timeouts>> /\ m.from \in Replica /\ m.from = Primary
    BY <1>5, PutReplyFacts, ReplicaFacts DEF ReceivePutReply
  <2>2. CASE late' = late
    BY <1>2, <2>1, <2>2
  <2>3. CASE late' # late
    BY <1>4, <1>5, <2>1, <2>3, PutReplyFacts
  <2>4. QED BY <2>2, <2>3
<1>6. ASSUME NEW j \in Job, NEW m \in msgs, ReceiveAck(j, m) PROVE Goal
  <2>1. UNCHANGED <<crashes, timeouts>> /\ m.from \in Replica
    BY <1>6, AckFacts DEF ReceiveAck
  <2>2. CASE late' = late
    BY <1>2, <2>1, <2>2
  <2>3. CASE late' # late
    BY <1>4, <1>6, <2>1, <2>3, AckFacts
  <2>4. QED BY <2>2, <2>3
<1>7. ASSUME NEW n \in Node, Crash(n) PROVE Goal
  <2>1. /\ crashes' = crashes + 1 /\ UNCHANGED timeouts /\ late' \subseteq late
    BY <1>7 DEF Crash
  <2>2. QED BY <1>1, <2>1
<1>8. CASE \E j \in Job : ForwardFails(j) \/ ForwardTimesOut(j)
  BY <1>2, <1>3, <1>8, ReplicaFacts DEF ForwardFails, ForwardTimesOut
<1>9. CASE \E j \in Job, r \in Replica :
             ReplicateFails(j, r) \/ ReplicateTimesOut(j, r)
  BY <1>2, <1>3, <1>9 DEF ReplicateFails, ReplicateTimesOut
<1>10. QED
  BY NextCases, <1>2, <1>5, <1>6, <1>7, <1>8, <1>9
     DEF ClientPutAtReplica, ClientPutElsewhere, ReceivePut, ReceiveReplicate,
         CheckVersion, InsertCopy, Store, Conclude, Restart, vars

LEMMA HistorySteps ==
  ASSUME Structure, [Next]_vars
  PROVE  /\ overlapped' \in BOOLEAN /\ (overlapped => overlapped')
         /\ acked \subseteq acked' /\ acked' \subseteq Write
         /\ before' \in [Write -> SUBSET Write]
         /\ \A w \in acked' \ acked : job'[Client(w)].phase = "acked"
         /\ \A w \in Write :
              \/ before'[w] = before[w]
              \/ job[Client(w)] = NoJob /\ before'[w] = acked
<1> DEFINE Goal ==
             /\ overlapped' \in BOOLEAN /\ (overlapped => overlapped')
             /\ acked \subseteq acked' /\ acked' \subseteq Write
             /\ before' \in [Write -> SUBSET Write]
             /\ \A w \in acked' \ acked : job'[Client(w)].phase = "acked"
             /\ \A w \in Write :
                  \/ before'[w] = before[w]
                  \/ job[Client(w)] = NoJob /\ before'[w] = acked
<1>1. /\ overlapped \in BOOLEAN /\ acked \subseteq Write
      /\ before \in [Write -> SUBSET Write]
  BY DEF Structure, TypeOK
<1>2. ASSUME UNCHANGED <<overlapped, acked, before>> PROVE Goal
  BY <1>1, <1>2
<1>3. ASSUME NEW w \in Write, job[Client(w)] = NoJob,
             before' = [before EXCEPT ![w] = acked], UNCHANGED acked,
             overlapped' \in BOOLEAN, overlapped => overlapped'
      PROVE  Goal
  BY <1>1, <1>3
<1>4. ASSUME NEW n, Starts(n)
      PROVE  overlapped' \in BOOLEAN /\ (overlapped => overlapped')
  <2>1. Busy(n) \in BOOLEAN
    BY DEF Busy
  <2>2. QED BY <1>1, <1>4, <2>1 DEF Starts
<1>5. ASSUME NEW j \in Job, Conclude(j) PROVE Goal
  <2>1. UNCHANGED <<overlapped, before>> /\ j[1] \in Write
    BY <1>5, ConcludeFacts, JobFacts
  <2>2. CASE UNCHANGED acked
    BY <1>2, <2>1, <2>2
  <2>3. CASE QuorumMet(j) /\ j = Client(j[1]) /\ acked' = acked \cup {j[1]}
    <3>1. job'[j].phase = "acked"
      BY <1>5, <2>3, ConcludeFacts
    <3>2. QED BY <1>1, <2>1, <2>3, <3>1
  <2>4. QED BY <1>5, <2>2, <2>3, ConcludeFacts
<1>6. QED
  <2>1. CASE \E w \in Write, n \in Node : ClientPutAtReplica(w, n)
    BY <1>3, <1>4, <2>1 DEF ClientPutAtReplica, Number, Client
  <2>2. CASE \E w \in Write, n \in Node : ClientPutElsewhere(w, n)
    BY <1>1, <1>3, <2>2 DEF ClientPutElsewhere, Client
  <2>3. CASE \E q \in msgs : ReceivePut(q)
    BY <1>1, <1>4, <2>3 DEF ReceivePut, Number
  <2>4. CASE \E q \in msgs : ReceiveReplicate(q)
    BY <1>1, <1>4, <2>4 DEF ReceiveReplicate
  <2>5. QED
    BY NextCases, <1>2, <1>5, <2>1, <2>2, <2>3, <2>4, ForwardEnds, ReplicateEnds
       DEF CheckVersion, InsertCopy, ReceivePutReply, ReceiveAck, Store, Crash,
           Restart, vars

(***************************************************************************)
(* The structure of jobs, messages, nodes and histories is kept by every   *)
(* step.                                                                   *)
(***************************************************************************)
LEMMA InitStructure == Init => Structure
<1> SUFFICES ASSUME Init PROVE Structure
  OBVIOUS
<1>1. TypeOK
  <2>1. NoJob \in JobType
    BY ReplicaFacts DEF NoJob, JobType
  <2>2. job \in [Job -> JobType] /\ late = {}
    BY <2>1 DEF Init
  <2>3. QED BY <2>2 DEF Init, TypeOK, JobType
<1>2. \A j \in Job : JobOK(j)
  <2>1. Cardinality({}) = 0 /\ Cardinality(Replica) \in Nat
    BY ReplicaFacts, FS_EmptySet
  <2>2. ASSUME NEW j \in Job PROVE JobOK(j)
    <3>1. /\ job[j] = NoJob /\ NoJob.at = None /\ NoJob.phase = "none"
          /\ NoJob.ver = 0 /\ NoJob.acks = 0 /\ NoJob.waiting = {}
      BY DEF Init, NoJob
    <3>2. None \notin Replica
      BY ReplicaFacts, NoneAssumption
    <3>3. QED BY <2>1, <3>1, <3>2 DEF JobOK
  <2>3. QED BY <2>2
<1>3. \A w \in Write : ForwardOK(w)
  BY JobFacts DEF Init, ForwardOK, NoJob
<1>4. \A n \in Node : NodeOK(n)
  BY DEF Init, NodeOK, NoJob
<1>5. CrashesOK
  <2>1. Down = {}
    BY DEF Init, Down
  <2>2. QED BY <2>1, FS_EmptySet DEF Init, CrashesOK
<1>6. QED
  BY <1>1, <1>2, <1>3, <1>4, <1>5 DEF Structure, Init, HistoryOK, LateOK

\* A version, a place and an acknowledgement are for good.
LEMMA JobKept ==
  ASSUME Structure, [Next]_vars, NEW j \in Job
  PROVE  /\ job[j].ver # 0 => job'[j].ver = job[j].ver
         /\ job[j].phase # "none" =>
              job'[j].phase # "none" /\ job'[j].at = job[j].at
         /\ job[j].phase = "acked" => job'[j].phase = "acked"
<1>1. /\ job[j].phase = "none" => job[j].ver = 0
      /\ job[j] = NoJob => job[j].phase = "none"
      /\ job[j].phase = "forwarding" => job[j].ver = 0
  BY JobIs DEF JobOK, NoJob
<1>2. CASE Keeps(j)
  BY <1>1, <1>2 DEF Keeps
<1>3. CASE job[j] = NoJob
  BY <1>1, <1>3
<1>4. CASE Store(j)
  BY <1>4, StoreFacts
<1>5. ASSUME NEW m \in msgs, TakesVersion(j, m)
      PROVE  /\ job[j].phase = "forwarding" /\ job'[j].phase # "none"
             /\ job'[j].at = job[j].at
  BY <1>5, PutReplyFacts DEF TakesVersion
<1>6. ASSUME NEW m \in msgs, Counts(j, m)
      PROVE  /\ job[j].phase = "replicating" /\ job'[j].phase # "none"
             /\ job'[j].at = job[j].at /\ job'[j].ver = job[j].ver
  BY <1>6, AckFacts DEF Counts
<1>7. JobStep(j)
  BY JobSteps
<1>8. QED
  BY <1>1, <1>2, <1>3, <1>4, <1>5, <1>6, <1>7 DEF JobStep, Numbered, Forwards

LEMMA NextJobOK ==
  ASSUME Structure, [Next]_vars, NEW j \in Job
  PROVE  JobOK(j)'
<1>1. /\ job[j] \in JobType /\ JobOK(j) /\ job[j].waiting \in SUBSET Replica
      /\ job[j].acks \in Nat
      /\ Cardinality(Replica) \in Nat
  BY JobIs, ReplicaFacts
<1>2. CASE Keeps(j)
  <2>1. /\ job'[j].waiting \in SUBSET job[j].waiting
        /\ Cardinality(job'[j].waiting) \in Nat
        /\ Cardinality(job[j].waiting) \in Nat
        /\ Cardinality(job'[j].waiting) =< Cardinality(job[j].waiting)
    BY <1>1, <1>2, SubsetOfReplicas DEF Keeps
  <2>2. job'[j].acks + Cardinality(job'[j].waiting) =< Cardinality(Replica) + 1
    BY <1>1, <1>2, <2>1 DEF Keeps, JobOK
  <2>3. QED BY <1>1, <1>2, <2>1, <2>2 DEF Keeps, JobOK, QuorumMet
<1>3. ASSUME NEW n \in Replica, Numbered(j, n) PROVE JobOK(j)'
  <2>1. /\ job'[j].at = n /\ job'[j].phase = "storing"
        /\ job'[j].ver # 0 /\ job'[j].acks = 0 /\ job'[j].waiting = {}
        /\ n \in Node
    BY <1>3, NumberedFacts
  <2>2. QED BY <1>1, <1>3, <2>1, FS_EmptySet DEF JobOK
<1>4. CASE Forwards(j)
  <2>1. /\ job'[j].at \in Node \ Replica /\ job'[j].phase = "forwarding"
        /\ job'[j].ver = 0 /\ job'[j].acks = 0 /\ job'[j].waiting = {}
        /\ j[2] = "client"
    BY <1>4, ForwardsFacts
  <2>2. Cardinality({}) = 0
    BY FS_EmptySet
  <2>3. QED BY <1>1, <2>1, <2>2 DEF JobOK
<1>5. CASE Store(j)
  <2>1. /\ job[j].at \in Replica /\ job[j].at \in Node /\ job[j].ver # 0
        /\ job'[j].at = job[j].at /\ job'[j].phase = "replicating"
        /\ job'[j].ver = job[j].ver
        /\ job'[j].acks = 1 /\ job'[j].waiting = Replica \ {job[j].at}
    BY <1>5, StoreFacts
  <2>2. Cardinality(Replica \ {job[j].at}) = Cardinality(Replica) - 1
    BY <2>1, TakeOff
  <2>3. QED BY <1>1, <2>1, <2>2 DEF JobOK
<1>6. ASSUME NEW m \in msgs, TakesVersion(j, m) PROVE JobOK(j)'
  <2>1. /\ job[j].at \in Node \ Replica /\ m.ver # 0
        /\ job'[j].at = job[j].at /\ job'[j].phase = "replicating"
        /\ job'[j].ver = m.ver /\ job'[j].acks = 1
        /\ job'[j].waiting = Replica
    BY <1>6, PutReplyFacts DEF TakesVersion
  <2>2. QED BY <1>1, <2>1 DEF JobOK
<1>7. ASSUME NEW m \in msgs, Counts(j, m) PROVE JobOK(j)'
  <2>1. /\ job[j].phase = "replicating" /\ m.from \in job[j].waiting
        /\ job'[j].at = job[j].at /\ job'[j].phase = "replicating"
        /\ job'[j].ver = job[j].ver /\ job'[j].acks = job[j].acks + 1
        /\ job'[j].waiting = job[j].waiting \ {m.from}
    BY <1>7, AckFacts DEF Counts
  <2>2. /\ Cardinality(job[j].waiting) \in Nat
        /\ Cardinality(job[j].waiting \ {m.from})
             = Cardinality(job[j].waiting) - 1
    BY <1>1, <2>1, TakeOff
  <2>3. job'[j].acks + Cardinality(job'[j].waiting) =< Cardinality(Replica) + 1
    BY <1>1, <2>1, <2>2 DEF JobOK
  <2>4. QED BY <1>1, <2>1, <2>3 DEF JobOK
<1>8. JobStep(j)
  BY JobSteps
<1>9. QED BY <1>2, <1>3, <1>4, <1>5, <1>6, <1>7, <1>8 DEF JobStep

LEMMA NextForwardOK ==
  ASSUME Structure, [Next]_vars, NEW w \in Write
  PROVE  ForwardOK(w)'
<1> DEFINE c == Client(w)
           f == Forwarded(w)
<1>1. /\ c \in Job /\ f \in Job /\ c[1] = w /\ f[1] = w /\ c # f
      /\ \A x \in Write : f # Client(x)
      /\ ForwardOK(w)
  BY JobFacts DEF Structure
<1>2. job'[f].phase # "none" =>
        job'[f].at = Primary /\ job'[c].at \in Node \ Replica
  <2>1. CASE job[f].phase # "none"
    <3>1. job[f].at = Primary /\ job[c].at \in Node \ Replica
      BY <1>1, <2>1 DEF ForwardOK
    <3>2. job[c].phase # "none"
      BY <1>1, <3>1, JobIs
    <3>3. QED BY <1>1, <2>1, <3>1, <3>2, JobKept
  <2>2. ASSUME NEW n \in Replica, Numbered(f, n)
        PROVE  job'[f].at = Primary /\ job'[c].at \in Node \ Replica
    <3>1. PICK m \in msgs : m.type = "put" /\ m.job = c /\ n = Primary
      BY <1>1, <2>2 DEF Numbered
    <3>2. MessageOK(m) /\ m.job[1] = w
      BY <1>1, <3>1 DEF Structure
    <3>3. job[c].at \in Node \ Replica
      BY <3>1, <3>2 DEF MessageOK
    <3>4. QED BY <1>1, <2>2, <3>1, <3>3, NumberedFacts
  <2>3. CASE job[f].phase = "none" /\ job'[f].phase # "none"
    <3>1. JobStep(f) /\ ~ Keeps(f)
      BY <1>1, <2>3, JobSteps DEF Keeps
    <3>2. ~ Forwards(f) /\ ~ Store(f)
      BY <1>1, <2>3, StoreFacts DEF Forwards
    <3>3. \A m \in msgs : ~ TakesVersion(f, m) /\ ~ Counts(f, m)
      BY <1>1, <2>3, PutReplyFacts, AckFacts DEF TakesVersion, Counts
    <3>4. QED BY <2>2, <3>1, <3>2, <3>3 DEF JobStep
  <2>4. QED BY <2>1, <2>3
<1> DEFINE Old == /\ job[f].phase = "acked"
                  /\ job[f].ver = job[c].ver
           Lags == timeouts # 0 /\ (crashes = 0 => Primary \in Lagging)
           Lagged == timeouts' # 0 /\ (crashes' = 0 => Primary \in Lagging')
<1>3. Lags => Lagged
  <2>1. timeouts \in Nat /\ crashes \in Nat
    BY DEF Structure, TypeOK
  <2>2. QED BY <2>1, LagGrows
<1>4. ASSUME job'[c].at \notin Replica, job'[c].ver # 0
      PROVE  \/ job'[f].phase = "acked" /\ job'[f].ver = job'[c].ver
             \/ Lagged
  <2>1. CASE job'[c].at = job[c].at /\ job'[c].ver = job[c].ver
    <3>1. Old \/ Lags
      BY <1>1, <1>4, <2>1 DEF ForwardOK
    <3>2. Old => job'[f].phase = "acked" /\ job'[f].ver = job'[c].ver
      BY <1>1, <1>4, <2>1, JobKept
    <3>3. QED BY <1>3, <3>1, <3>2
  <2>2. ASSUME NEW m \in msgs, TakesVersion(c, m)
        PROVE  \/ job'[f].phase = "acked" /\ job'[f].ver = job'[c].ver
               \/ Lagged
    <3>1. /\ m.ok /\ MessageOK(m) /\ job'[c].ver = m.ver /\ m.ver # 0
          /\ \/ m.type = "put_reply" /\ m.job = c
             \/ /\ timeouts # 0
                /\ late' = (late \ {CallOf(m)}) \cup {<<"put_reply", c, Primary>>}
      BY <1>1, <2>2, PutReplyFacts DEF TakesVersion
    <3>2. CASE m.type = "put_reply" /\ m.job = c
      <4>1. job[f].ver = m.ver /\ job[f].phase = "acked"
        BY <1>1, <3>1, <3>2 DEF MessageOK
      <4>2. QED BY <1>1, <3>1, <4>1, JobKept
    <3>3. CASE /\ timeouts # 0
               /\ late' = (late \ {CallOf(m)}) \cup {<<"put_reply", c, Primary>>}
      <4>1. <<"put_reply", c, Primary>> \in late'
        BY <3>3
      <4>2. Primary \in Lagging'
        BY <4>1, ReplicaFacts DEF Lagging
      <4>3. timeouts' # 0
        BY <3>3, LagGrows DEF Structure, TypeOK
      <4>4. QED BY <4>2, <4>3
    <3>4. QED BY <3>1, <3>2, <3>3
  <2>3. JobStep(c)
    BY <1>1, JobSteps
  <2>4. CASE Keeps(c)
    BY <2>1, <2>4 DEF Keeps
  <2>5. ASSUME NEW n \in Replica, Numbered(c, n) PROVE FALSE
    BY <1>1, <1>4, <2>5, NumberedFacts
  <2>6. ~ Forwards(c)
    BY <1>1, <1>4, ForwardsFacts
  <2>7. CASE Store(c)
    BY <1>1, <2>1, <2>7, StoreFacts
  <2>8. ASSUME NEW m \in msgs, Counts(c, m)
        PROVE  job'[c].at = job[c].at /\ job'[c].ver = job[c].ver
    BY <1>1, <2>8, AckFacts DEF Counts
  <2>9. QED
    BY <2>1, <2>2, <2>3, <2>4, <2>5, <2>6, <2>7, <2>8 DEF JobStep
<1>5. QED BY <1>2, <1>4 DEF ForwardOK

\* What a message said stays true.
LEMMA MessageKept ==
  ASSUME Structure, [Next]_vars, NEW m \in msgs, m \in msgs'
  PROVE  MessageOK(m)'
<1>1. /\ MessageOK(m) /\ m \in Message /\ m.job \in Job /\ m.job[1] \in Write
      /\ Client(m.job[1]) \in Job /\ Forwarded(m.job[1]) \in Job
      /\ Forwarded(m.job[1])[1] = m.job[1]
  BY MessageFacts, JobFacts DEF Structure, TypeOK
<1> DEFINE f == Forwarded(m.job[1])
<1>2. CASE m.type = "put"
  <2>1. /\ m.job = Client(m.job[1]) /\ job[m.job].at = m.from
        /\ job[f] = NoJob /\ m.from \in Node \ Replica /\ m.to = Primary
    BY <1>1, <1>2 DEF MessageOK
  <2>2. job'[m.job].at = m.from
    BY <1>1, <2>1, JobIs, JobKept
  <2>3. ASSUME NEW n \in Replica, Numbered(f, n) PROVE FALSE
    <3>1. PICK q \in msgs : /\ q.type = "put" /\ q.job = Client(m.job[1])
                            /\ msgs' = msgs \ {q}
      BY <1>1, <2>3, JobFacts DEF Numbered
    <3>2. /\ q.from = m.from /\ q.to = m.to /\ q.job = m.job
          /\ q \in Message
      BY <2>1, <3>1 DEF Structure, TypeOK, MessageOK
    <3>3. q = m
      BY <1>1, <1>2, <3>1, <3>2 DEF Message
    <3>4. QED BY <3>1, <3>3
  <2>4. job'[f] = NoJob
    <3>1. job[f].phase = "none" /\ JobStep(f) /\ f # Client(f[1])
      BY <1>1, <2>1, JobSteps, JobFacts DEF NoJob
    <3>2. ~ Forwards(f) /\ ~ Store(f)
      BY <1>1, <3>1, StoreFacts DEF Forwards
    <3>3. \A q \in msgs : ~ TakesVersion(f, q) /\ ~ Counts(f, q)
      BY <1>1, <3>1, PutReplyFacts, AckFacts DEF TakesVersion, Counts
    <3>4. Keeps(f)
      BY <2>3, <3>1, <3>2, <3>3 DEF JobStep
    <3>5. QED BY <2>1, <3>1, <3>4 DEF Keeps
  <2>5. QED BY <1>2, <2>1, <2>2, <2>4 DEF MessageOK, Storing
<1>3. CASE m.type = "put_reply"
  BY <1>1, <1>3, JobKept DEF MessageOK, Storing
<1>4. CASE m.type \in {"replicate", "ack"} \cup Storing
  BY <1>1, <1>4, JobKept DEF MessageOK, Storing
<1>5. QED BY <1>1, <1>2, <1>3, <1>4, MessageFacts DEF Answers

LEMMA NextMessageOK ==
  ASSUME Structure, [Next]_vars, NEW m \in msgs'
  PROVE  MessageOK(m)'
<1>1. ASSUME NEW w \in Write, NEW n \in Node, ClientPutElsewhere(w, n),
             m = PutOf(w, n)
      PROVE  MessageOK(m)'
  <2>1. /\ m.type = "put" /\ m.job = Client(w) /\ m.from = n /\ m.to = Primary
        /\ m.job[1] = w /\ Forwarded(w) \in Job /\ Forwarded(w) # Client(w)
    BY <1>1, JobFacts DEF PutOf
  <2>2. /\ n \notin Replica /\ job'[Client(w)].at = n /\ Client(w) \in Job
        /\ job[Client(w)] = NoJob
        /\ job'[Forwarded(w)] = job[Forwarded(w)]
    BY <1>1, <2>1, PutElsewhereFacts
  <2>3. job[Forwarded(w)] = NoJob
    <3>1. job[Client(w)].at \notin Node
      BY <2>2, NoneAssumption DEF NoJob
    <3>2. job[Forwarded(w)].phase = "none"
      BY <3>1 DEF Structure, ForwardOK
    <3>3. QED BY <2>1, <3>2, JobIs
  <2>4. QED BY <2>1, <2>2, <2>3 DEF MessageOK, Storing
<1>2. ASSUME NEW j \in Job, Sends(j, m) PROVE MessageOK(m)'
  BY <1>2 DEF Sends, MessageOK, Storing
<1>3. ASSUME NEW q \in msgs, Raised(q, m) \/ Passed(q, m)
      PROVE  MessageOK(m)'
  <2>1. /\ SameCopy(q, m) /\ m.type \in Storing
        /\ MessageOK(q) /\ q.type \in {"replicate"} \cup Storing
        /\ UNCHANGED job
    BY <1>3, ReceiveReplicateFacts, CheckVersionFacts DEF Raised, Passed, Storing
  <2>2. QED BY <2>1 DEF SameCopy, MessageOK, Storing
<1>4. ASSUME NEW q \in msgs, Answered(q, m) PROVE MessageOK(m)'
  <2>1. /\ m.type = "ack" /\ m.job = q.job /\ m.from = q.to /\ m.ver = q.ver
        /\ MessageOK(q) /\ q.type \in Storing
        /\ UNCHANGED job
    BY <1>4, CheckVersionFacts, InsertCopyFacts DEF Answered, Storing
  <2>2. QED BY <2>1 DEF MessageOK, Storing
<1>5. ASSUME NEW w \in Write, Replies(w, m) PROVE MessageOK(m)'
  <2> DEFINE f == Forwarded(w)
  <2>1. /\ Conclude(f) /\ m.type = "put_reply" /\ m.job = Client(w)
        /\ m.from = job[f].at /\ m.ver = job[f].ver /\ m.ok = QuorumMet(f)
        /\ f \in Job /\ m.job[1] = w
    BY <1>5, JobFacts DEF Replies
  <2>2. /\ job[f].phase = "replicating" /\ job'[f].ver = job[f].ver
        /\ QuorumMet(f) => job'[f].phase = "acked"
    BY <2>1, ConcludeFacts DEF Keeps
  <2>3. job[f].at = Primary /\ job[f].ver # 0
    BY <2>1, <2>2, JobIs DEF Structure, ForwardOK, JobOK
  <2>4. QED BY <2>1, <2>2, <2>3 DEF MessageOK, Storing
<1>6. QED
  BY <1>1, <1>2, <1>3, <1>4, <1>5, MessageKept, MessageSteps DEF MessageStep

\* What a node is sent or runs is not disturbed by its own crash: it is gone.
LEMMA CrashEnds ==
  ASSUME Structure, NEW n \in Node, Crash(n)
  PROVE  /\ \A j \in Job : job'[j].phase = "storing" => job'[j].at # n
         /\ \A m \in msgs' : m.to # n
         /\ store'[n] = None
         /\ ~ up'[n]
<1>1. \A j \in Job : job'[j].phase = "storing" => job'[j].at # n
  BY CrashFacts DEF Keeps
<1>2. QED BY <1>1 DEF Crash, Structure, TypeOK

LEMMA NextNodeOK ==
  ASSUME Structure, [Next]_vars, NEW n \in Node
  PROVE  NodeOK(n)'
<1>1. /\ NodeOK(n) /\ counter[n] \in Nat /\ counter'[n] \in Nat
      /\ store[n] # None => store[n].ver \in Nat
  BY NodeSteps DEF Structure, TypeOK
<1>2. ASSUME store'[n] # None
      PROVE  /\ store'[n].ver # 0 /\ store'[n].ver =< counter'[n]
             /\ \E j \in Job : j[1] = store'[n].val /\ job'[j].ver = store'[n].ver
  <2>1. CASE store'[n] = store[n]
    <3>1. store[n].ver # 0 /\ store[n].ver =< counter[n]
      BY <1>1, <1>2, <2>1 DEF NodeOK
    <3>2. ~ Crash(n)
      BY <1>2, CrashEnds
    <3>3. PICK j \in Job : j[1] = store[n].val /\ job[j].ver = store[n].ver
      BY <1>1, <1>2, <2>1 DEF NodeOK
    <3>4. job'[j].ver = job[j].ver
      BY <3>1, <3>3, JobKept
    <3>5. counter'[n] >= counter[n]
      BY <3>2, NodeSteps
    <3>6. store'[n].ver =< counter'[n]
      BY <1>1, <1>2, <2>1, <3>1, <3>5
    <3>7. QED BY <2>1, <3>1, <3>3, <3>4, <3>6
  <2>2. ASSUME NEW j \in Job, Store(j), job[j].at = n
        PROVE  /\ store'[n].ver # 0 /\ store'[n].ver =< counter'[n]
               /\ j[1] = store'[n].val /\ job'[j].ver = store'[n].ver
    BY <2>2, StoreFacts
  <2>3. ASSUME NEW m \in msgs, InsertCopy(m), m.to = n
        PROVE  /\ store'[n].ver # 0 /\ store'[n].ver =< counter'[n]
               /\ m.job \in Job
               /\ m.job[1] = store'[n].val /\ job'[m.job].ver = store'[n].ver
    BY <2>3, InsertCopyFacts DEF MessageOK, Storing
  <2>4. ~ Crash(n)
    BY <1>2, CrashEnds
  <2>5. QED BY <2>1, <2>2, <2>3, <2>4, NodeSteps DEF StoreStep
<1>3. ASSUME NEW j \in Job, job'[j].phase = "storing", job'[j].at = n
      PROVE  job'[j].ver =< counter'[n]
  <2>1. CASE Keeps(j)
    <3>1. job[j].phase = "storing" /\ job[j].at = n /\ job'[j].ver = job[j].ver
      BY <1>3, <2>1 DEF Keeps
    <3>2. job[j].ver \in Nat /\ job[j].ver =< counter[n]
      BY <1>1, <3>1, JobIs DEF NodeOK
    <3>3. counter'[n] >= counter[n]
      BY <1>3, CrashEnds, NodeSteps
    <3>4. QED BY <1>1, <3>1, <3>2, <3>3
  <2>2. ASSUME NEW i \in Replica, Numbered(j, i)
        PROVE  job'[j].ver =< counter'[n]
    BY <1>3, <2>2, NumberedFacts
  <2>3. ~ Forwards(j) /\ ~ Store(j)
    BY <1>3, ForwardsFacts, StoreFacts
  <2>4. \A m \in msgs : ~ TakesVersion(j, m) /\ ~ Counts(j, m)
    BY <1>3, PutReplyFacts, AckFacts DEF TakesVersion, Counts
  <2>5. QED BY <2>1, <2>2, <2>3, <2>4, JobSteps DEF JobStep
<1>4. ASSUME NEW m \in msgs', m.type \in Storing, m.to = n
      PROVE  m.ver =< counter'[n]
  <2>1. m \in Message /\ m.ver \in Nat /\ MessageStep(m)
    BY <1>4, MessageSteps, MessageFacts DEF Storing
  <2>2. counter'[n] >= counter[n]
    BY <1>4, CrashEnds, NodeSteps
  <2>3. CASE m \in msgs
    BY <1>1, <1>4, <2>1, <2>2, <2>3 DEF NodeOK
  <2>4. ASSUME NEW q \in msgs, Raised(q, m) PROVE m.ver =< counter'[n]
    BY <1>4, <2>1, <2>4, ReceiveReplicateFacts DEF Raised, SameCopy
  <2>5. ASSUME NEW q \in msgs, Passed(q, m) PROVE m.ver =< counter'[n]
    BY <1>4, <2>5, CheckVersionFacts DEF Passed, SameCopy
  <2>6. QED
    BY <1>4, <2>1, <2>3, <2>4, <2>5
       DEF MessageStep, Storing, PutOf, Sends, Answered, Replies
<1>5. QED BY <1>2, <1>3, <1>4 DEF NodeOK

\* The nodes that are down.
LEMMA DownSteps ==
  ASSUME Structure, [Next]_vars
  PROVE  /\ IsFiniteSet(Down) /\ Cardinality(Down) \in Nat /\ crashes \in Nat
         /\ Cardinality(Down) =< crashes
         /\ IsFiniteSet(Down') /\ Cardinality(Down') \in Nat
         /\ \A n \in Node : Crash(n) => /\ crashes' = crashes + 1
                                        /\ Cardinality(Down') = Cardinality(Down) + 1
         /\ \A n \in Node : Restart(n) => /\ crashes' = crashes
                                          /\ Cardinality(Down') = Cardinality(Down) - 1
         /\ \/ \E n \in Node : Crash(n) \/ Restart(n)
            \/ Down' = Down /\ UNCHANGED <<up, crashes>>
<1>1. /\ IsFiniteSet(Down) /\ Cardinality(Down) \in Nat /\ crashes \in Nat
      /\ Cardinality(Down) =< crashes
  BY FS_CardinalityType DEF Structure, TypeOK, CrashesOK
<1>2. ASSUME NEW n \in Node, Crash(n)
      PROVE  /\ IsFiniteSet(Down') /\ crashes' = crashes + 1
             /\ Cardinality(Down') = Cardinality(Down) + 1
  <2>1. Down' = Down \cup {n} /\ n \notin Down
    BY <1>2, CrashFacts
  <2>2. QED BY <1>1, <1>2, <2>1, FS_AddElement DEF Crash
<1>3. ASSUME NEW n \in Node, Restart(n)
      PROVE  /\ IsFiniteSet(Down') /\ crashes' = crashes
             /\ Cardinality(Down') = Cardinality(Down) - 1
  <2>1. Down' = Down \ {n} /\ n \in Down
    BY <1>3 DEF Restart, Down, Structure, TypeOK
  <2>2. QED BY <1>1, <1>3, <2>1, FS_RemoveElement DEF Restart
<1>4. UNCHANGED <<up, crashes>> => Down' = Down
  BY DEF Down
<1>5. \/ \E n \in Node : Crash(n) \/ Restart(n)
      \/ UNCHANGED <<up, crashes>>
  BY NextCases, ForwardEnds, ReplicateEnds
     DEF ClientPutAtReplica, ClientPutElsewhere, ReceivePut, ReceiveReplicate,
         CheckVersion, InsertCopy, Store, ReceivePutReply, ReceiveAck, Conclude,
         vars
<1>6. IsFiniteSet(Down')
  BY <1>1, <1>2, <1>3, <1>4, <1>5
<1>7. QED BY <1>1, <1>2, <1>3, <1>4, <1>5, <1>6, FS_CardinalityType

LEMMA NextStructure == Structure /\ [Next]_vars => Structure'
<1> SUFFICES ASSUME Structure, [Next]_vars PROVE Structure'
  OBVIOUS
<1>1. TypeOK'
  <2>1. job' \in [Job -> JobType] /\ msgs' \subseteq Message
    BY JobSteps, MessageSteps
  <2>2. QED BY <2>1, NodeSteps, LagGrows, HistorySteps DEF TypeOK, JobType
<1>2. \A j \in Job : JobOK(j)'
  BY NextJobOK
<1>3. \A w \in Write : ForwardOK(w)'
  BY NextForwardOK
<1>4. \A m \in msgs' : MessageOK(m)'
  BY NextMessageOK
<1>5. \A n \in Node : NodeOK(n)'
  BY NextNodeOK
<1>6. HistoryOK'
  <2>1. HistoryOK
    BY DEF Structure
  <2>2. \A w \in Write : w \in acked' => job'[Client(w)].phase = "acked"
    BY <2>1, HistorySteps, JobKept, JobFacts DEF HistoryOK
  <2>3. \A w \in Write : before'[w] \subseteq acked'
    BY <2>1, HistorySteps DEF HistoryOK
  <2>4. QED BY <2>2, <2>3 DEF HistoryOK
<1>7. CrashesOK' /\ LateOK'
  BY DownSteps, LagGrows DEF CrashesOK, LateOK
<1>8. QED
  BY <1>1, <1>2, <1>3, <1>4, <1>5, <1>6, <1>7 DEF Structure

LEMMA AlwaysStructure == Spec => []Structure
BY InitStructure, NextStructure, PTL DEF Spec

\* The state of every node, job, call, message and history has its type, whatever
\* the order of steps, failures, late answers, crashes and restarts.
THEOREM TypeCorrect == Spec => []TypeOK
<1>1. Structure => TypeOK
  BY DEF Structure
<1>2. QED BY <1>1, AlwaysStructure, PTL

(***************************************************************************)
(* Until two writes of the key overlap in one storage.                     *)
(***************************************************************************)

\* Where a job that is storing, and a copy that is being stored, come from.
LEMMA StoringJob ==
  ASSUME Structure, [Next]_vars, NEW j \in Job, job'[j].phase = "storing"
  PROVE  \/ /\ job[j].phase = "storing" /\ job'[j].at = job[j].at
            /\ job'[j].ver = job[j].ver /\ ~ Store(j)
         \/ \E n \in Replica : Numbered(j, n)
<1>1. ~ Store(j) /\ ~ Forwards(j)
  BY StoreFacts, ForwardsFacts
<1>2. \A m \in msgs : ~ TakesVersion(j, m) /\ ~ Counts(j, m)
  BY PutReplyFacts, AckFacts DEF TakesVersion, Counts
<1>3. QED BY <1>1, <1>2, JobSteps DEF JobStep, Keeps

LEMMA StoringCopy ==
  ASSUME Structure, [Next]_vars, NEW m \in msgs', m.type \in Storing
  PROVE  m \in msgs \/ \E q \in msgs : Raised(q, m) \/ Passed(q, m)
BY MessageSteps DEF MessageStep, Storing, PutOf, Sends, Answered, Replies

\* A write begins at a node where none is under way.
LEMMA NumberedAlone ==
  ASSUME Structure, NEW j \in Job, NEW n \in Replica, Numbered(j, n), ~ overlapped'
  PROVE  /\ \A k \in Job : job[k].phase = "storing" => job[k].at # n
         /\ \A m \in msgs : m.type \in Storing => m.to # n
BY DEF Numbered, Starts, Busy, Storing

LEMMA RaisedAlone ==
  ASSUME Structure, NEW q \in msgs, ReceiveReplicate(q), ~ overlapped'
  PROVE  /\ \A k \in Job : job[k].phase = "storing" => job[k].at # q.to
         /\ \A m \in msgs : m.type \in Storing => m.to # q.to
BY DEF ReceiveReplicate, Starts, Busy, Storing

\* The entry that a write is about to replace does not change meanwhile.
LEMMA EntryWaits ==
  ASSUME Structure, Serial, ~ overlapped, [Next]_vars, NEW n \in Node,
         \/ \E j \in Job : /\ job[j].phase = "storing" /\ job[j].at = n
                           /\ job'[j].phase = "storing" /\ ~ Store(j)
                           /\ job'[j].at = n
         \/ \E m \in msgs : m.type \in Storing /\ m.to = n /\ m \in msgs'
  PROVE  store'[n] = store[n]
<1>1. ASSUME NEW k \in Job, Store(k), job[k].at = n PROVE FALSE
  <2>1. job[k].phase = "storing"
    BY <1>1, StoreFacts
  <2>2. QED BY <1>1, <2>1 DEF Serial
<1>2. ASSUME NEW q \in msgs, InsertCopy(q), q.to = n PROVE FALSE
  <2>1. q.type \in Storing /\ q \notin msgs'
    BY <1>2, InsertCopyFacts DEF Storing
  <2>2. QED BY <1>2, <2>1 DEF Serial
<1>3. ~ Crash(n)
  BY CrashEnds
<1>4. QED BY <1>1, <1>2, <1>3, NodeSteps DEF StoreStep

LEMMA InitSerial == Init => Serial
BY DEF Init, Serial, NoJob

LEMMA NextSerial == Structure /\ Serial /\ [Next]_vars => Serial'
<1> SUFFICES ASSUME Structure, Serial, [Next]_vars, ~ overlapped' PROVE Serial'
  BY DEF Serial
<1>1. ~ overlapped
  BY HistorySteps
<1>2. ASSUME NEW j \in Job, job'[j].phase = "storing"
      PROVE  (store'[job'[j].at] = None \/ store'[job'[j].at].ver < job'[j].ver)
  <2>1. CASE job[j].phase = "storing" /\ job'[j].at = job[j].at
             /\ job'[j].ver = job[j].ver /\ ~ Store(j)
    <3>1. Newer(job[j].at, job[j].ver) /\ job[j].at \in Node
      BY <1>1, <2>1, JobIs DEF Serial
    <3>2. store'[job[j].at] = store[job[j].at]
      BY <1>1, <1>2, <2>1, <3>1, EntryWaits
    <3>3. QED BY <2>1, <3>1, <3>2 DEF Newer
  <2>2. ASSUME NEW n \in Replica, Numbered(j, n)
        PROVE  (store'[job'[j].at] = None \/ store'[job'[j].at].ver < job'[j].ver)
    <3>1. /\ n \in Node /\ job'[j].at = n /\ job'[j].ver = counter[n] + 1
          /\ store' = store /\ counter[n] \in Nat
      BY <2>2, NumberedFacts
    <3>2. store[n] # None => store[n].ver \in Nat /\ store[n].ver =< counter[n]
      BY <3>1 DEF Structure, TypeOK, NodeOK
    <3>3. QED BY <3>1, <3>2
  <2>3. QED BY <1>2, <2>1, <2>2, StoringJob
<1>3. ASSUME NEW j \in Job, job'[j].phase = "storing", NEW k \in Job,
             job'[k].phase = "storing", job'[k].at = job'[j].at
      PROVE  k = j
  <2>1. ASSUME NEW n \in Replica, Numbered(j, n) PROVE k = j
    <3>1. k # j => job'[k] = job[k]
      BY <2>1, NumberedFacts
    <3>2. QED BY <1>3, <2>1, <3>1, NumberedFacts, NumberedAlone
  <2>2. ASSUME NEW n \in Replica, Numbered(k, n) PROVE k = j
    <3>1. k # j => job'[j] = job[j]
      BY <2>2, NumberedFacts
    <3>2. QED BY <1>3, <2>2, <3>1, NumberedFacts, NumberedAlone
  <2>3. CASE /\ job[j].phase = "storing" /\ job'[j].at = job[j].at
             /\ job[k].phase = "storing" /\ job'[k].at = job[k].at
    BY <1>1, <1>3, <2>3 DEF Serial
  <2>4. QED BY <1>3, <2>1, <2>2, <2>3, StoringJob
<1>4. ASSUME NEW j \in Job, job'[j].phase = "storing",
             NEW m \in msgs', m.type \in Storing
      PROVE  m.to # job'[j].at
  <2>1. ASSUME NEW n \in Replica, Numbered(j, n) PROVE m.to # job'[j].at
    <3>1. m \in msgs /\ job'[j].at = n
      BY <2>1, NumberedFacts
    <3>2. QED BY <1>4, <2>1, <3>1, NumberedAlone
  <2>2. CASE job[j].phase = "storing" /\ job'[j].at = job[j].at
    <3>1. CASE m \in msgs
      BY <1>1, <1>4, <2>2, <3>1 DEF Serial
    <3>2. ASSUME NEW q \in msgs, Raised(q, m) PROVE m.to # job[j].at
      BY <2>2, <3>2, RaisedAlone DEF Raised, SameCopy
    <3>3. ASSUME NEW q \in msgs, Passed(q, m) PROVE m.to # job[j].at
      <4>1. q.type \in Storing /\ q.to = m.to
        BY <3>3, CheckVersionFacts DEF Passed, SameCopy, Storing
      <4>2. QED BY <1>1, <2>2, <4>1 DEF Serial
    <3>4. QED BY <1>4, <2>2, <3>1, <3>2, <3>3, StoringCopy
  <2>3. QED BY <1>4, <2>1, <2>2, StoringJob
<1>5. ASSUME NEW m \in msgs', m.type = "inserting"
      PROVE  (store'[m.to] = None \/ store'[m.to].ver < m.ver)
  <2>1. CASE m \in msgs
    <3>1. Newer(m.to, m.ver) /\ m.to \in Node /\ m.type \in Storing
      BY <1>1, <1>5, <2>1, MessageFacts DEF Serial, Structure, TypeOK, Storing
    <3>2. store'[m.to] = store[m.to]
      BY <1>1, <2>1, <3>1, EntryWaits
    <3>3. QED BY <3>1, <3>2 DEF Newer
  <2>2. ASSUME NEW q \in msgs, Passed(q, m)
        PROVE  (store'[m.to] = None \/ store'[m.to].ver < m.ver)
    BY <2>2, CheckVersionFacts DEF Passed, SameCopy, Newer
  <2>3. QED BY <1>5, <2>1, <2>2, StoringCopy DEF Raised, Storing
<1>6. ASSUME NEW m \in msgs', m.type \in Storing,
             NEW q \in msgs', q.type \in Storing, q.to = m.to
      PROVE  q = m
  <2>1. ASSUME NEW x \in msgs, ReceiveReplicate(x),
               NEW a \in msgs', a.type \in Storing, Raised(x, a),
               NEW b \in msgs', b.type \in Storing, b.to = a.to
        PROVE  a = b
    <3>1. b \notin msgs
      BY <2>1, RaisedAlone DEF Raised, SameCopy
    <3>2. Raised(x, b)
      BY <2>1, <3>1, ReceiveReplicateFacts
    <3>3. /\ a \in Message /\ b \in Message
      BY MessageSteps
    <3>4. QED BY <2>1, <3>2, <3>3 DEF Raised, SameCopy, Message
  <2>2. ASSUME NEW x \in msgs, CheckVersion(x),
               NEW a \in msgs', a.type \in Storing, Passed(x, a),
               NEW b \in msgs', b.type \in Storing, b.to = a.to
        PROVE  a = b
    <3>1. x.type \in Storing /\ x.to = a.to /\ x \notin msgs'
      BY <2>2, CheckVersionFacts DEF Passed, SameCopy, Storing
    <3>2. b \notin msgs
      BY <1>1, <2>2, <3>1 DEF Serial
    <3>3. Passed(x, b)
      BY <2>2, <3>2, CheckVersionFacts DEF Answered, Storing
    <3>4. /\ a \in Message /\ b \in Message
      BY MessageSteps
    <3>5. QED BY <2>2, <3>3, <3>4 DEF Passed, SameCopy, Message
  <2>3. CASE m \in msgs /\ q \in msgs
    BY <1>1, <1>6, <2>3 DEF Serial
  <2>4. QED
    BY <1>6, <2>1, <2>2, <2>3, StoringCopy DEF Raised, Passed
<1>7. QED BY <1>2, <1>3, <1>4, <1>5, <1>6 DEF Serial, Newer

(***************************************************************************)
(* No node that crashed has come back.                                     *)
(***************************************************************************)

\* Then none came back in the last step either.
LEMMA IntactKept ==
  ASSUME Structure, [Next]_vars, Intact'
  PROVE  Intact /\ \A n \in Node : up'[n] => up[n] /\ ~ Crash(n)
<1>1. Intact /\ \A n \in Node : ~ Restart(n)
  <2>1. crashes' = Cardinality(Down')
    BY DEF Intact
  <2>2. QED BY <2>1, DownSteps DEF Intact
<1>2. \A n \in Node : up'[n] => up[n] /\ ~ Crash(n)
  BY <1>1, NodeSteps, CrashEnds
<1>3. QED BY <1>1, <1>2

LEMMA NodeFacts ==
  ASSUME Structure, NEW n \in Node
  PROVE  /\ counter[n] \in Nat
         /\ store[n] # None =>
              store[n].ver \in Nat /\ store[n].ver =< counter[n]
BY DEF Structure, TypeOK, NodeOK

\* While writes do not overlap, an entry is only replaced by a newer one.
LEMMA HoldsKept ==
  ASSUME Structure, Serial, [Next]_vars, ~ overlapped', NEW n \in Node, ~ Crash(n),
         NEW v \in Nat, Holds(n, v)
  PROVE  Holds(n, v)'
<1>1. /\ ~ overlapped /\ store[n] # None /\ store[n].ver >= v
      /\ store[n].ver \in Nat
  BY HistorySteps, NodeFacts DEF Holds
<1>2. CASE store'[n] = store[n]
  BY <1>1, <1>2 DEF Holds
<1>3. ASSUME NEW j \in Job, Store(j), job[j].at = n PROVE Holds(n, v)'
  <2>1. /\ store'[n] # None /\ store'[n].ver = job[j].ver /\ job[j].ver \in Nat
        /\ job[j].phase = "storing"
    BY <1>3, StoreFacts
  <2>2. store[n].ver < job[j].ver
    BY <1>1, <1>3, <2>1 DEF Serial, Newer
  <2>3. QED BY <1>1, <2>1, <2>2 DEF Holds
<1>4. ASSUME NEW m \in msgs, InsertCopy(m), m.to = n PROVE Holds(n, v)'
  <2>1. /\ store'[n] # None /\ store'[n].ver = m.ver /\ m.ver \in Nat
        /\ m.type = "inserting"
    BY <1>4, InsertCopyFacts
  <2>2. store[n].ver < m.ver
    BY <1>1, <1>4, <2>1 DEF Serial, Newer, Storing
  <2>3. QED BY <1>1, <2>1, <2>2 DEF Holds
<1>5. QED BY <1>2, <1>3, <1>4, NodeSteps DEF StoreStep

LEMMA ReachedKept ==
  ASSUME Structure, Serial, [Next]_vars, Intact', NEW n \in Node, NEW v \in Nat,
         Reached(n, v)
  PROVE  Reached(n, v)'
<1> SUFFICES ASSUME up'[n]
             PROVE  counter'[n] >= v /\ (~ overlapped' => Holds(n, v)')
  BY DEF Reached
<1>1. up[n] /\ ~ Crash(n)
  BY IntactKept
<1>2. counter[n] >= v /\ (~ overlapped => Holds(n, v))
  BY <1>1 DEF Reached
<1>3. counter'[n] >= counter[n] /\ counter'[n] \in Nat /\ counter[n] \in Nat
  BY <1>1, NodeSteps, NodeFacts
<1>4. counter'[n] >= v
  BY <1>2, <1>3
<1>5. ASSUME ~ overlapped' PROVE Holds(n, v)'
  BY <1>1, <1>2, <1>5, HistorySteps, HoldsKept
<1>6. QED BY <1>4, <1>5

\* The condition under which the invariant counts acknowledgements.
Clear == Intact /\ (crashes = 0 \/ timeouts = 0)

LEMMA ClearKept ==
  ASSUME Structure, [Next]_vars, Clear'
  PROVE  /\ Clear /\ Intact'
         /\ \A n \in Lagging : n \in Lagging'
<1>1. Intact' /\ (crashes' = 0 \/ timeouts' = 0)
  BY DEF Clear
<1>2. /\ crashes \in Nat /\ timeouts \in Nat
      /\ timeouts = 0 => Lagging = {}
  BY DEF Structure, TypeOK, LateOK, Lagging
<1>3. QED BY <1>1, <1>2, IntactKept, LagGrows DEF Clear

LEMMA CountedFacts ==
  ASSUME NEW j \in Job
  PROVE  /\ Counted(j) \subseteq Replica /\ Counted(j)' \subseteq Replica
         /\ IsFiniteSet(Counted(j)) /\ IsFiniteSet(Counted(j)')
         /\ Cardinality(Counted(j)) \in Nat /\ Cardinality(Counted(j)') \in Nat
<1>1. Counted(j) \subseteq Replica /\ Counted(j)' \subseteq Replica
  BY DEF Counted
<1>2. QED BY <1>1, ReplicaFacts, FS_Subset, FS_CardinalityType

\* A job that keeps its version keeps the replicas that it counted.
LEMMA CountedGrows ==
  ASSUME Structure, Serial, [Next]_vars, Clear', NEW j \in Job,
         job'[j].ver = job[j].ver, job'[j].waiting \subseteq job[j].waiting
  PROVE  /\ Counted(j) \subseteq Counted(j)'
         /\ Cardinality(Counted(j)) \in Nat
         /\ Cardinality(Counted(j)') \in Nat
         /\ Cardinality(Counted(j)) =< Cardinality(Counted(j)')
         /\ IsFiniteSet(Counted(j)')
<1>1. ASSUME NEW n \in Counted(j) PROVE n \in Counted(j)'
  <2>1. n \in Replica \ job[j].waiting /\ n \in Node /\ job[j].ver \in Nat
    BY ReplicaFacts, JobIs DEF Counted
  <2>2. PICK v \in Nat : v = job[j].ver
    BY <2>1
  <2>3. Reached(n, v) \/ n \in Lagging
    BY <2>2 DEF Counted
  <2>4. Reached(n, v)' \/ n \in Lagging'
    BY <2>1, <2>3, ClearKept, ReachedKept
  <2>5. n \in Replica \ job'[j].waiting /\ job'[j].ver = v
    BY <2>1, <2>2
  <2>6. QED BY <2>4, <2>5 DEF Counted, Reached, Holds
<1>2. Counted(j)' \subseteq Replica
  BY DEF Counted
<1>3. IsFiniteSet(Counted(j)')
  BY <1>2, ReplicaFacts, FS_Subset
<1>4. QED BY <1>1, <1>3, FS_Subset, FS_CardinalityType

LEMMA InitAcks == Init => AcksReached
<1> SUFFICES ASSUME Init PROVE AcksReached
  OBVIOUS
<1>1. ASSUME NEW j \in Job
      PROVE  job[j].acks = 0 /\ job[j].at = None /\ job[j].phase = "none"
  BY DEF Init, NoJob
<1>2. \A j \in Job : Cardinality(Counted(j)) \in Nat
  BY CountedFacts
<1>3. msgs = {} /\ None \notin Replica /\ None \notin Node
  BY ReplicaFacts, NoneAssumption DEF Init
<1>4. QED BY <1>1, <1>2, <1>3 DEF AcksReached

\* The replica whose answer is counted was reached, or its answers lag.
LEMMA AnswerCounts ==
  ASSUME Structure, Serial, AcksReached, [Next]_vars, Clear', NEW j \in Job,
         NEW m \in msgs, Counts(j, m)
  PROVE  m.from \in Counted(j)' /\ m.from \notin Counted(j)
<1>1. /\ m.from \in job[j].waiting /\ m.from \in Replica /\ m.from \in Node
      /\ m.type \in Answers /\ MessageOK(m)
      /\ job'[j].ver = job[j].ver /\ job'[j].waiting = job[j].waiting \ {m.from}
      /\ job[j].ver \in Nat
  BY AckFacts, ReplicaFacts, JobIs DEF Counts
<1>2. m.from \notin Counted(j)
  BY <1>1 DEF Counted
<1>3. CASE m.type = "ack" /\ m.job = j
  <2>1. PICK v \in Nat : v = job[j].ver
    BY <1>1
  <2>2. m.ver = v
    BY <1>1, <1>3, <2>1 DEF MessageOK
  <2>3. Reached(m.from, v)
    BY <1>1, <2>2, ClearKept DEF AcksReached, Clear
  <2>4. Reached(m.from, v)'
    BY <1>1, <2>3, ClearKept, ReachedKept
  <2>5. QED BY <1>1, <1>2, <2>1, <2>4 DEF Counted, Reached, Holds
<1>4. CASE <<"ack", j, m.from>> \in late'
  <2>1. m.from \in Lagging'
    BY <1>1, <1>4 DEF Lagging
  <2>2. QED BY <1>1, <1>2, <2>1 DEF Counted
<1>5. QED BY <1>3, <1>4, AckFacts DEF Counts

LEMMA CountedAcks ==
  ASSUME Structure, Serial, AcksReached, [Next]_vars, Clear', NEW j \in Job
  PROVE  /\ job'[j].at \in Replica => job'[j].acks =< Cardinality(Counted(j)')
         /\ job'[j].at \in Node => job'[j].acks =< Cardinality(Counted(j)') + 1
<1>1. /\ job[j].at \in Replica => job[j].acks =< Cardinality(Counted(j))
      /\ job[j].at \in Node => job[j].acks =< Cardinality(Counted(j)) + 1
      /\ job[j].acks \in Nat
      /\ Cardinality(Counted(j)) \in Nat /\ Cardinality(Counted(j)') \in Nat
      /\ IsFiniteSet(Counted(j)')
  BY ClearKept, CountedFacts, JobIs DEF AcksReached, Clear
<1>2. CASE Keeps(j)
  BY <1>1, <1>2, CountedGrows DEF Keeps
<1>3. ASSUME NEW n \in Replica, Numbered(j, n) PROVE job'[j].acks = 0
  BY <1>3, NumberedFacts
<1>4. CASE Forwards(j)
  BY <1>1, <1>4, ForwardsFacts
<1>5. CASE Store(j)
  <2>1. PICK n \in Replica, v \in Nat : n = job[j].at /\ v = job[j].ver
    BY <1>5, StoreFacts
  <2>2. /\ n \in Node /\ up[n] /\ v =< counter[n]
        /\ job'[j].at = n /\ job'[j].ver = v /\ job'[j].acks = 1
        /\ job'[j].waiting = Replica \ {n}
        /\ store'[n] # None /\ store'[n].ver = v
        /\ counter' = counter
    BY <1>5, <2>1, StoreFacts
  <2>3. Reached(n, v)'
    BY <2>2, NodeFacts DEF Reached, Holds
  <2>4. n \in Counted(j)'
    BY <2>2, <2>3 DEF Counted, Reached, Holds
  <2>5. Cardinality(Counted(j)') # 0
    BY <1>1, <2>4, FS_EmptySet
  <2>6. QED BY <1>1, <2>2, <2>5
<1>6. ASSUME NEW m \in msgs, TakesVersion(j, m)
      PROVE  job'[j].acks = 1 /\ job'[j].at \notin Replica
  BY <1>6, PutReplyFacts DEF TakesVersion
<1>7. ASSUME NEW m \in msgs, Counts(j, m)
      PROVE  /\ job'[j].at \in Replica => job'[j].acks =< Cardinality(Counted(j)')
             /\ job'[j].at \in Node => job'[j].acks =< Cardinality(Counted(j)') + 1
  <2>1. /\ job'[j].at = job[j].at /\ job'[j].ver = job[j].ver
        /\ job'[j].acks = job[j].acks + 1
        /\ job'[j].waiting \subseteq job[j].waiting
    BY <1>7, AckFacts DEF Counts
  <2>2. Counted(j) \subseteq Counted(j)'
    BY <2>1, CountedGrows
  <2>3. m.from \in Counted(j)' /\ m.from \notin Counted(j)
    BY <1>7, AnswerCounts
  <2>4. /\ IsFiniteSet(Counted(j))
        /\ Cardinality(Counted(j) \cup {m.from}) = Cardinality(Counted(j)) + 1
    BY <2>3, CountedFacts, FS_AddElement
  <2>5. Cardinality(Counted(j) \cup {m.from}) =< Cardinality(Counted(j)')
    BY <1>1, <2>2, <2>3, FS_Subset
  <2>6. QED BY <1>1, <2>1, <2>4, <2>5
<1>8. QED
  BY <1>1, <1>2, <1>3, <1>4, <1>5, <1>6, <1>7, JobSteps DEF JobStep

\* A version is at the replica that numbered it, and one that came back from the
\* primary is at the primary.
LEMMA NumberReached ==
  ASSUME Structure, Serial, AcksReached, [Next]_vars, Clear', NEW j \in Job,
         NEW n \in Replica, NEW v \in Nat, v = job'[j].ver,
         \/ /\ job'[j].at = n
            /\ job'[j].phase \notin {"none", "storing"}
         \/ /\ job'[j].at \in Node \ Replica
            /\ v # 0 /\ n = Primary
  PROVE  Reached(n, v)'
<1> DEFINE Old == \/ /\ job[j].at = n
                     /\ job[j].phase \notin {"none", "storing"}
                  \/ /\ job[j].at \in Node \ Replica
                     /\ v # 0 /\ n = Primary
<1>1. n \in Node
  BY ReplicaFacts
<1>2. ASSUME v = job[j].ver, Old PROVE Reached(n, v)'
  <2>1. Reached(n, v)
    BY <1>2, ClearKept DEF AcksReached, Clear
  <2>2. QED BY <1>1, <2>1, ClearKept, ReachedKept
<1>3. CASE Keeps(j)
  <2>1. v = job[j].ver /\ job'[j].at = job[j].at
    BY <1>3 DEF Keeps
  <2>2. CASE Old
    BY <1>2, <2>1, <2>2
  <2>3. CASE ~ Old
    <3>1. job'[j].at = n /\ job'[j].phase \notin {"none", "storing"}
      BY <2>1, <2>3
    <3>2. job[j].phase = "storing"
      BY <1>3, <2>1, <2>3, <3>1 DEF Keeps
    <3>3. Crash(n)
      BY <1>3, <2>1, <3>1, <3>2 DEF Keeps
    <3>4. ~ up'[n]
      BY <1>1, <3>3, CrashEnds
    <3>5. QED BY <3>4 DEF Reached
  <2>4. QED BY <2>2, <2>3
<1>4. ASSUME NEW i \in Replica, Numbered(j, i) PROVE FALSE
  BY <1>4, NumberedFacts
<1>5. ~ Forwards(j)
  BY ForwardsFacts
<1>6. CASE Store(j)
  <2>1. /\ job[j].at \in Replica
        /\ job'[j].at = job[j].at /\ job'[j].ver = job[j].ver
    BY <1>6, StoreFacts
  <2>2. n = job[j].at /\ v = job[j].ver
    BY <2>1
  <2>3. /\ v =< counter[n] /\ counter' = counter
        /\ store'[n] # None /\ store'[n].ver = v
    BY <1>6, <2>2, StoreFacts
  <2>4. QED BY <1>1, <2>3, NodeFacts DEF Reached, Holds
<1>7. ASSUME NEW m \in msgs, TakesVersion(j, m) PROVE Reached(n, v)'
  <2>1. /\ n = Primary /\ v = m.ver /\ m.from = Primary /\ m.type \in Answers
    BY <1>7, PutReplyFacts DEF TakesVersion
  <2>2. Reached(n, v)
    BY <2>1, ClearKept DEF AcksReached, Clear
  <2>3. QED BY <1>1, <2>2, ClearKept, ReachedKept
<1>8. ASSUME NEW m \in msgs, Counts(j, m) PROVE Reached(n, v)'
  <2>1. /\ job[j].phase = "replicating" /\ job'[j].at = job[j].at
        /\ job'[j].ver = job[j].ver
    BY <1>8, AckFacts DEF Counts
  <2>2. QED BY <1>2, <2>1
<1>9. QED
  BY <1>3, <1>4, <1>5, <1>6, <1>7, <1>8, JobSteps DEF JobStep

LEMMA AnswersReached ==
  ASSUME Structure, Serial, AcksReached, [Next]_vars, Clear', NEW m \in msgs',
         m.type \in Answers
  PROVE  Reached(m.from, m.ver)'
<1>1. m \in Message /\ m.from \in Node /\ m.ver \in Nat
  BY MessageSteps, MessageFacts DEF Answers
<1>2. CASE m \in msgs
  <2>1. Reached(m.from, m.ver)
    BY <1>2, ClearKept DEF AcksReached, Clear
  <2>2. QED BY <1>1, <2>1, ClearKept, ReachedKept
<1>3. ASSUME NEW q \in msgs, Answered(q, m) PROVE Reached(m.from, m.ver)'
  <2>1. m.from = q.to /\ m.ver = q.ver
    BY <1>3 DEF Answered
  <2>2. CASE InsertCopy(q)
    <3>1. /\ q.ver =< counter[q.to] /\ counter' = counter
          /\ store'[q.to] # None /\ store'[q.to].ver = q.ver
      BY <2>2, InsertCopyFacts
    <3>2. QED BY <1>1, <2>1, <3>1, NodeFacts DEF Reached, Holds
  <2>3. CASE CheckVersion(q) /\ ~ Newer(q.to, q.ver)
    <3>1. /\ q.ver =< counter[q.to] /\ UNCHANGED <<store, counter>>
          /\ store[q.to] # None /\ ~ (store[q.to].ver < q.ver)
      BY <2>3, CheckVersionFacts DEF Newer
    <3>2. store[q.to].ver \in Nat
      BY <1>1, <2>1, <3>1, NodeFacts
    <3>3. QED BY <1>1, <2>1, <3>1, <3>2, NodeFacts DEF Reached, Holds
  <2>4. QED BY <1>3, <2>2, <2>3 DEF Answered
<1>4. ASSUME NEW w \in Write, Replies(w, m) PROVE Reached(m.from, m.ver)'
  <2>1. /\ Forwarded(w) \in Job /\ Conclude(Forwarded(w))
        /\ m.from = job[Forwarded(w)].at /\ m.ver = job[Forwarded(w)].ver
    BY <1>4, JobFacts DEF Replies
  <2>2. job[Forwarded(w)].phase = "replicating"
    BY <2>1, ConcludeFacts
  <2>3. job[Forwarded(w)].at \in Replica
    BY <2>2, ReplicaFacts DEF Structure, ForwardOK
  <2>4. Reached(m.from, m.ver)
    BY <2>1, <2>2, <2>3, ClearKept DEF AcksReached, Clear
  <2>5. QED BY <1>1, <2>4, ClearKept, ReachedKept
<1>5. QED
  BY <1>2, <1>3, <1>4, MessageSteps
     DEF MessageStep, Answers, PutOf, Sends, Raised, Passed

LEMMA NextAcks ==
  Structure /\ Serial /\ AcksReached /\ [Next]_vars => AcksReached'
<1> SUFFICES ASSUME Structure, Serial, AcksReached, [Next]_vars, Clear'
             PROVE  AcksReached'
  BY DEF AcksReached, Clear
<1>1. ASSUME NEW j \in Job
      PROVE  /\ job'[j].at \in Replica /\ job'[j].phase \notin {"none", "storing"}
                  => Reached(job[j].at, job[j].ver)'
             /\ job'[j].at \in Node \ Replica /\ job'[j].ver # 0
                  => Reached(Primary, job[j].ver)'
  <2>1. PICK v \in Nat : v = job'[j].ver
    BY JobSteps DEF JobType
  <2>2. PICK n : n = job'[j].at
    OBVIOUS
  <2>3. n \in Replica /\ job'[j].phase \notin {"none", "storing"} => Reached(n, v)'
    BY <2>1, <2>2, NumberReached
  <2>4. n \in Node \ Replica /\ v # 0 => Reached(Primary, v)'
    BY <2>1, <2>2, NumberReached, ReplicaFacts
  <2>5. QED BY <2>1, <2>2, <2>3, <2>4 DEF Reached, Holds
<1>2. QED BY <1>1, CountedAcks, AnswersReached DEF AcksReached

\* The invariant so far.
Counting == Structure /\ Serial /\ AcksReached

LEMMA AlwaysCounting == Spec => []Counting
<1>1. Init => Counting
  BY InitStructure, InitSerial, InitAcks DEF Counting
<1>2. Counting /\ [Next]_vars => Counting'
  BY NextStructure, NextSerial, NextAcks DEF Counting
<1>3. QED BY <1>1, <1>2, PTL DEF Spec

\* An acknowledged write was numbered by a job with a quorum that ran at a replica,
\* or at a node whose answers from the primary lag.
LEMMA AckedJob ==
  ASSUME Structure, NEW w \in acked
  PROVE  /\ w \in Write /\ Client(w) \in Job
         /\ Version(w) = job[Client(w)].ver
         /\ Version(w) \in Nat /\ Version(w) # 0
         /\ job[Client(w)].phase = "acked" /\ job[Client(w)].at \in Node
         /\ job[Client(w)].acks >= WriteQuorum
         /\ \/ \E j \in Job : /\ job[j].at \in Replica /\ job[j].ver = Version(w)
                              /\ job[j].acks >= WriteQuorum
            \/ /\ job[Client(w)].at \in Node \ Replica
               /\ timeouts # 0 /\ (crashes = 0 => Primary \in Lagging)
<1>1. /\ w \in Write /\ Client(w) \in Job /\ Forwarded(w) \in Job
      /\ job[Client(w)].phase = "acked"
      /\ Version(w) = job[Client(w)].ver
  BY JobFacts DEF Structure, TypeOK, HistoryOK, Version, Client
<1>2. /\ JobOK(Client(w)) /\ JobOK(Forwarded(w)) /\ ForwardOK(w)
      /\ job[Client(w)].ver \in Nat /\ job[Client(w)].at \in Node
  BY <1>1, JobIs DEF Structure
<1>3. job[Client(w)].ver # 0 /\ job[Client(w)].acks >= WriteQuorum
  BY <1>1, <1>2 DEF JobOK
<1>4. CASE job[Client(w)].at \in Replica
  BY <1>1, <1>2, <1>3, <1>4
<1>5. CASE job[Client(w)].at \notin Replica
  <2>1. \/ /\ job[Forwarded(w)].phase = "acked"
           /\ job[Forwarded(w)].ver = job[Client(w)].ver
        \/ timeouts # 0 /\ (crashes = 0 => Primary \in Lagging)
    BY <1>2, <1>3, <1>5 DEF ForwardOK
  <2>2. job[Forwarded(w)].phase = "acked" =>
          job[Forwarded(w)].at \in Replica /\ job[Forwarded(w)].acks >= WriteQuorum
    BY <1>2, ReplicaFacts DEF ForwardOK, JobOK
  <2>3. QED BY <1>1, <1>2, <1>3, <1>5, <2>1, <2>2
<1>6. QED BY <1>4, <1>5

LEMMA NoCrashFacts ==
  ASSUME Structure, crashes = 0
  PROVE  Intact /\ \A n \in Node : up[n]
<1>1. IsFiniteSet(Down) /\ Cardinality(Down) \in Nat /\ Cardinality(Down) =< 0
  BY FS_CardinalityType DEF Structure, CrashesOK
<1>2. Cardinality(Down) = 0 /\ Down = {}
  BY <1>1, FS_EmptySet
<1>3. QED BY <1>2 DEF Intact, Down

\* For every quorum and every list of replicas: while no node crashes, a write is
\* acknowledged with at most one replica too few for each replica whose answers
\* lag, however many calls time out and whichever answers they are taken for.
THEOREM AckedIsOnQuorum == Spec => []AckedOnQuorum
<1>1. Counting => AckedOnQuorum
  <2> SUFFICES ASSUME Structure, AcksReached, crashes = 0, NEW w \in acked
               PROVE  Cardinality(ReachedBy(Version(w))) + Cardinality(Lagging)
                        >= WriteQuorum
    BY DEF AckedOnQuorum, Counting
  <2> DEFINE R == ReachedBy(Version(w))
             L == Lagging
  <2>1. Clear /\ \A n \in Replica : up[n]
    BY NoCrashFacts, ReplicaFacts DEF Clear
  <2>2. /\ R \subseteq Replica /\ L \subseteq Replica
        /\ IsFiniteSet(R) /\ IsFiniteSet(L) /\ IsFiniteSet(R \cup L)
        /\ Cardinality(R) \in Nat /\ Cardinality(L) \in Nat
        /\ IsFiniteSet(R \cap L) /\ Cardinality(R \cap L) \in Nat
        /\ Cardinality(R \cup L)
             = Cardinality(R) + Cardinality(L) - Cardinality(R \cap L)
    <3>1. R \subseteq Replica /\ L \subseteq Replica
      BY DEF ReachedBy, Lagging
    <3>2. IsFiniteSet(R) /\ IsFiniteSet(L) /\ IsFiniteSet(R \cap L)
      BY <3>1, ReplicaFacts, FS_Subset
    <3>3. QED BY <3>1, <3>2, FS_Union, FS_CardinalityType
  <2>3. ASSUME NEW j \in Job, job[j].ver = Version(w)
        PROVE  /\ Cardinality(Counted(j)) \in Nat
               /\ Cardinality(Counted(j)) =< Cardinality(R \cup L)
    <3>1. Counted(j) \subseteq R \cup L
      BY <2>1, <2>3 DEF Counted, Reached, ReachedBy
    <3>2. QED BY <2>2, <3>1, CountedFacts, FS_Subset
  <2>4. CASE \E j \in Job : /\ job[j].at \in Replica /\ job[j].ver = Version(w)
                            /\ job[j].acks >= WriteQuorum
    <3>1. PICK j \in Job : /\ job[j].at \in Replica /\ job[j].ver = Version(w)
                           /\ job[j].acks >= WriteQuorum
      BY <2>4
    <3>2. job[j].acks =< Cardinality(Counted(j)) /\ job[j].acks \in Nat
      BY <2>1, <3>1, JobIs DEF AcksReached, Clear
    <3>3. Cardinality(Counted(j)) \in Nat
          /\ Cardinality(Counted(j)) =< Cardinality(R \cup L)
      BY <2>3, <3>1
    <3>4. QED BY <2>2, <3>1, <3>2, <3>3, QuorumAssumption
  <2>5. CASE job[Client(w)].at \in Node \ Replica /\ Primary \in Lagging
    <3> DEFINE j == Client(w)
    <3>1. /\ j \in Job /\ job[j].ver = Version(w) /\ Version(w) # 0
          /\ job[j].acks >= WriteQuorum /\ job[j].acks \in Nat
      BY AckedJob, JobIs
    <3>2. /\ job[j].acks =< Cardinality(Counted(j)) + 1
          /\ Reached(Primary, Version(w))
      BY <2>1, <2>5, <3>1 DEF AcksReached, Clear
    <3>3. Primary \in R \cap L
      BY <2>1, <2>5, <3>2, ReplicaFacts DEF Reached, ReachedBy
    <3>4. Cardinality(R \cap L) # 0
      BY <2>2, <3>3, FS_EmptySet
    <3>5. Cardinality(Counted(j)) \in Nat
          /\ Cardinality(Counted(j)) =< Cardinality(R \cup L)
      BY <2>3, <3>1
    <3>6. PICK a, b, c, d \in Nat :
            /\ a = Cardinality(R) /\ b = Cardinality(L)
            /\ c = Cardinality(R \cap L) /\ d = Cardinality(R \cup L)
      BY <2>2, FS_CardinalityType
    <3>7. job[j].acks =< d + 1 /\ d = a + b - c /\ c >= 1
      BY <2>2, <3>1, <3>2, <3>4, <3>5, <3>6
    <3>8. a + b >= job[j].acks
      BY <3>1, <3>7
    <3>9. QED BY <3>1, <3>6, <3>8, QuorumAssumption
  <2>6. QED BY <2>4, <2>5, AckedJob
<1>2. QED BY <1>1, AlwaysCounting, PTL

(***************************************************************************)
(* With a quorum of all the replicas, as by default (replication_factor    *)
(* and write_quorum are both 2, main.rs:68-72), and while no call times    *)
(* out, a write is newer than those acknowledged before it was sent.       *)
(***************************************************************************)
FullQuorum == WriteQuorum >= Cardinality(Replica)

\* Then an acknowledged write has reached every replica.
LEMMA AckedEverywhere ==
  ASSUME FullQuorum, Structure, AcksReached, Intact, timeouts = 0, NEW w \in acked,
         NEW n \in Replica
  PROVE  Reached(n, Version(w))
<1>1. Lagging = {}
  BY DEF Structure, LateOK, Lagging
<1>2. PICK j \in Job : /\ job[j].at \in Replica /\ job[j].ver = Version(w)
                       /\ job[j].acks >= WriteQuorum
  BY AckedJob
<1>3. /\ job[j].acks =< Cardinality(Counted(j)) /\ job[j].acks \in Nat
  BY <1>2, JobIs DEF AcksReached
<1>4. /\ Counted(j) \subseteq Replica /\ Cardinality(Counted(j)) \in Nat
      /\ Cardinality(Counted(j)) =< Cardinality(Replica)
      /\ Cardinality(Replica) \in Nat
  BY CountedFacts, ReplicaFacts, FS_Subset
<1>5. Cardinality(Counted(j)) = Cardinality(Replica)
  BY <1>2, <1>3, <1>4, QuorumAssumption DEF FullQuorum
<1>6. Counted(j) = Replica
  BY <1>4, <1>5, ReplicaFacts, FS_Subset
<1>7. Reached(n, job[j].ver)
  BY <1>1, <1>6 DEF Counted
<1>8. QED BY <1>2, <1>7

\* A put that has a version has a job of its client.
LEMMA ClientIsThere ==
  ASSUME Structure, NEW j \in Job, job[j].ver # 0
  PROVE  /\ job[j].phase # "none"
         /\ Client(j[1]) \in Job /\ job[Client(j[1])] # NoJob
         /\ job[Client(j[1])].at \in Node
<1>1. job[j].phase # "none" /\ job[j].at \in Node /\ job[j] # NoJob
  BY JobIs
<1>2. j[1] \in Write /\ Client(j[1]) \in Job
  BY JobFacts
<1>3. CASE j = Client(j[1])
  BY <1>1, <1>2, <1>3
<1>4. CASE j = Forwarded(j[1])
  <2>1. job[Client(j[1])].at \in Node
    BY <1>1, <1>2, <1>4 DEF Structure, ForwardOK
  <2>2. QED BY <1>1, <1>2, <2>1, NoneAssumption DEF NoJob
<1>5. QED BY <1>3, <1>4, JobFacts

LEMMA NoTimeoutKept ==
  ASSUME Structure, [Next]_vars, timeouts' = 0
  PROVE  timeouts = 0
BY LagGrows DEF Structure, TypeOK

LEMMA InitNewer == Init => LaterJobsNewer
BY DEF Init, LaterJobsNewer, NoJob

LEMMA NextNewer ==
  ASSUME FullQuorum
  PROVE  Counting /\ LaterJobsNewer /\ [Next]_vars => LaterJobsNewer'
<1> SUFFICES ASSUME Structure, Serial, AcksReached, LaterJobsNewer, [Next]_vars,
                    Intact', timeouts' = 0,
                    NEW j \in Job, job'[j].ver # 0, NEW u \in before'[j[1]]
             PROVE  job'[j].ver > Version(u)'
  BY DEF LaterJobsNewer, Counting
<1> DEFINE w == j[1]
<1>1. Intact /\ timeouts = 0 /\ w \in Write /\ Client(w) \in Job
  BY IntactKept, NoTimeoutKept, JobFacts
<1>2. u \in acked
  BY <1>1, HistorySteps DEF Structure, HistoryOK
<1>3. /\ u \in Write /\ Client(u) \in Job /\ Version(u) = job[Client(u)].ver
      /\ Version(u) \in Nat /\ Version(u) # 0
  BY <1>2, AckedJob
<1>4. Version(u)' = Version(u)
  <2>1. job'[Client(u)].ver = job[Client(u)].ver
    BY <1>3, JobKept
  <2>2. QED BY <2>1 DEF Version, Client
<1>5. job[Client(w)] # NoJob => u \in before[w]
  BY <1>1, HistorySteps
<1>6. CASE job[j].ver # 0
  <2>1. job'[j].ver = job[j].ver
    BY <1>6, JobKept
  <2>2. job[j].ver > Version(u)
    BY <1>1, <1>5, <1>6, ClientIsThere DEF LaterJobsNewer
  <2>3. QED BY <1>4, <2>1, <2>2
<1>7. ASSUME NEW n \in Replica, Numbered(j, n) PROVE job'[j].ver > Version(u)
  <2>1. /\ n \in Node /\ up[n] /\ job'[j].ver = counter[n] + 1
        /\ counter[n] \in Nat
    BY <1>7, NumberedFacts
  <2>2. counter[n] >= Version(u)
    BY <1>1, <1>2, <2>1, AckedEverywhere DEF Reached
  <2>3. QED BY <1>3, <2>1, <2>2
<1>8. ASSUME NEW m \in msgs, TakesVersion(j, m) PROVE job'[j].ver > Version(u)
  <2>1. /\ m.type = "put_reply" /\ m.job = j /\ MessageOK(m)
        /\ job'[j].ver = m.ver /\ m.ver # 0
        /\ job[j].phase = "forwarding" /\ j = Client(w)
    BY <1>1, <1>8, PutReplyFacts DEF TakesVersion
  <2>2. /\ Forwarded(w) \in Job /\ Forwarded(w)[1] = w
        /\ job[Forwarded(w)].ver = m.ver
    BY <1>1, <2>1, JobFacts DEF MessageOK
  <2>3. u \in before[w]
    BY <1>5, <2>1, JobIs
  <2>4. job[Forwarded(w)].ver > Version(u)
    BY <1>1, <2>1, <2>2, <2>3 DEF LaterJobsNewer
  <2>5. QED BY <2>1, <2>2, <2>4
<1>9. CASE Keeps(j)
  BY <1>6, <1>9 DEF Keeps
<1>10. ASSUME NEW m \in msgs, Counts(j, m) PROVE job'[j].ver = job[j].ver
  BY <1>10, AckFacts DEF Counts
<1>11. ~ Forwards(j)
  BY ForwardsFacts
<1>12. Store(j) => job'[j].ver = job[j].ver
  BY StoreFacts
<1>13. JobStep(j)
  BY JobSteps
<1>14. QED
  BY <1>4, <1>6, <1>7, <1>8, <1>9, <1>10, <1>11, <1>12, <1>13 DEF JobStep

LEMMA AlwaysNewer ==
  ASSUME FullQuorum
  PROVE  Spec => [](Counting /\ LaterJobsNewer)
BY AlwaysCounting, InitNewer, NextNewer, PTL DEF Spec

\* With a quorum of all the replicas, a write sent after another one was
\* acknowledged is numbered above it, whichever nodes coordinate the two and
\* whatever overlaps, as long as every call is answered in time.
THEOREM LaterIsNewer ==
  ASSUME FullQuorum
  PROVE  Spec => []LaterWriteIsNewer
<1>1. Counting /\ LaterJobsNewer => LaterWriteIsNewer
  <2> SUFFICES ASSUME Structure, LaterJobsNewer, crashes = 0, timeouts = 0,
                      NEW w \in Write, NEW u \in before[w], Version(w) # 0
               PROVE  Version(w) > Version(u)
    BY DEF LaterWriteIsNewer, Counting
  <2>1. Client(w) \in Job /\ Client(w)[1] = w /\ Version(w) = job[Client(w)].ver
    BY JobFacts DEF Version, Client
  <2>2. QED BY <2>1, NoCrashFacts DEF LaterJobsNewer
<1>2. QED BY <1>1, AlwaysNewer, PTL

\* A job of an acknowledged write has the version of the write, as long as no
\* answer is taken for another one's.
LEMMA AckedVersion ==
  ASSUME Structure, timeouts = 0, NEW j \in Job, job[j].ver # 0, j[1] \in acked
  PROVE  job[j].ver = Version(j[1])
<1> DEFINE u == j[1]
<1>1. u \in Write /\ (j = Client(u) \/ j = Forwarded(u))
  BY JobFacts
<1>2. CASE j = Client(u)
  BY <1>2 DEF Version, Client
<1>3. CASE j = Forwarded(u)
  <2>1. ForwardOK(u) /\ job[j].phase # "none"
    BY <1>1, ClientIsThere DEF Structure
  <2>2. job[Client(u)].at \notin Replica
    BY <1>3, <2>1 DEF ForwardOK
  <2>3. job[Client(u)].ver # 0 /\ Version(u) = job[Client(u)].ver
    BY AckedJob
  <2>4. QED BY <1>3, <2>1, <2>2, <2>3 DEF ForwardOK
<1>4. QED BY <1>1, <1>2, <1>3

\* What a replica holds, once it has reached the version of a write, is no write
\* that was acknowledged before that one was sent.
LEMMA NoEarlierEntry ==
  ASSUME Structure, LaterJobsNewer, Intact, timeouts = 0, NEW w \in Write,
         Version(w) # 0, NEW n \in Node, Holds(n, Version(w))
  PROVE  store[n].val \notin before[w]
<1> SUFFICES ASSUME store[n].val \in before[w] PROVE FALSE
  OBVIOUS
<1>1. store[n].val \in acked
  BY DEF Structure, HistoryOK
<1>2. store[n] # None /\ store[n].ver >= Version(w) /\ store[n].ver \in Nat
  BY NodeFacts DEF Holds
<1>3. PICK j \in Job : /\ j[1] = store[n].val /\ job[j].ver = store[n].ver
                       /\ job[j].ver # 0
  BY <1>2 DEF Structure, NodeOK
<1>4. store[n].ver = Version(store[n].val)
  BY <1>1, <1>3, AckedVersion
<1>5. /\ Client(w) \in Job /\ Client(w)[1] = w /\ Version(w) = job[Client(w)].ver
      /\ Version(w) \in Nat
  BY JobFacts, JobIs DEF Version, Client
<1>6. Version(w) > Version(store[n].val)
  BY <1>5 DEF LaterJobsNewer
<1>7. QED BY <1>2, <1>4, <1>5, <1>6

\* With a quorum of all the replicas, and at least two of them: as long as one
\* node at most has crashed and none has come back, calls are answered in time and
\* writes do not overlap, some replica holds each acknowledged write or one that
\* does not precede it.
THEOREM AckedSurvivesOneCrash ==
  ASSUME FullQuorum, Cardinality(Replica) >= 2
  PROVE  Spec => []AckedSurvivesCrash
<1>1. Counting /\ LaterJobsNewer => AckedSurvivesCrash
  <2> SUFFICES ASSUME Structure, AcksReached, LaterJobsNewer, Orderly,
                      crashes = Cardinality(Down), crashes =< 1, NEW w \in acked
               PROVE  \E n \in Replica :
                        store[n] # None /\ store[n].val \notin before[w]
    BY DEF AckedSurvivesCrash, Counting
  <2>1. Intact /\ timeouts = 0 /\ ~ overlapped
    BY DEF Intact, Orderly
  <2>2. PICK n \in Replica : up[n]
    <3>1. SUFFICES ASSUME \A n \in Replica : ~ up[n] PROVE FALSE
      OBVIOUS
    <3>2. Replica \subseteq Down
      BY <3>1, ReplicaFacts DEF Down
    <3>3. Cardinality(Replica) =< Cardinality(Down)
      BY <3>2, FS_Subset DEF Structure, CrashesOK
    <3>4. Cardinality(Replica) \in Nat /\ crashes \in Nat
      BY ReplicaFacts DEF Structure, TypeOK
    <3>5. QED BY <3>3, <3>4
  <2>3. Holds(n, Version(w))
    BY <2>1, <2>2, AckedEverywhere DEF Reached
  <2>4. w \in Write /\ Version(w) # 0 /\ n \in Node
    BY AckedJob, ReplicaFacts
  <2>5. store[n].val \notin before[w]
    BY <2>1, <2>3, <2>4, NoEarlierEntry
  <2>6. QED BY <2>3, <2>5 DEF Holds
<1>2. QED BY <1>1, AlwaysNewer, PTL

(***************************************************************************)
(* With a quorum of all the replicas, no crash, no call timed out and no   *)
(* overlap of writes in a storage, the cluster is the register of          *)
(* AckedRegister.                                                          *)
(***************************************************************************)

\* The steps of the register, by what they do to the state that is mapped to it.
LEMMA RegisterSteps ==
  ASSUME NEW w \in Write
  PROVE  /\ (/\ w \notin Sent /\ Sent' = Sent \cup {w} /\ UNCHANGED acked
             /\ before' = [before EXCEPT ![w] = acked]
             /\ Held' = Held)
            => Register!Send(w)
         /\ \A n \in Replica :
              (/\ w \in Sent /\ UNCHANGED <<acked, before>> /\ Sent' = Sent
               /\ \A x \in acked : w \notin before[x]
               /\ Held' = [Held EXCEPT ![n] = {w}])
              => Register!Copy(n, w)
         /\ (/\ w \in Sent \ acked /\ acked' = acked \cup {w}
             /\ \A n \in Replica : Held[n] # {} /\ Held[n] \cap before[w] = {}
             /\ Held' = Held /\ Sent' = Sent /\ UNCHANGED before)
            => Register!Ack(w)
BY DEF Register!Send, Register!Copy, Register!Ack, Register!Superseded

LEMMA RegisterNext ==
  ASSUME NEW w \in Write,
         \/ Register!Send(w)
         \/ \E n \in Replica : Register!Copy(n, w)
         \/ Register!Ack(w)
  PROVE  Register!Next
BY DEF Register!Next

LEMMA RegisterStutter ==
  ASSUME UNCHANGED store, Sent' = Sent, UNCHANGED <<acked, before>>
  PROVE  UNCHANGED Register!vars
<1>1. Held' = Held
  BY DEF Held
<1>2. QED BY <1>1 DEF Register!vars

\* What the replicas hold after a step that gives w to one of them.
LEMMA HeldTaken ==
  ASSUME NEW n \in Replica, NEW w \in Write,
         store'[n] # None, store'[n].val = w,
         \A i \in Replica : i # n => store'[i] = store[i]
  PROVE  Held' = [Held EXCEPT ![n] = {w}]
<1>1. \A i \in Replica :
        Held'[i] = IF store'[i] = None THEN {} ELSE {store'[i].val}
  BY DEF Held
<1>2. \A i \in Replica :
        Held[i] = IF store[i] = None THEN {} ELSE {store[i].val}
  BY DEF Held
<1>3. \A i \in Replica : i # n => Held'[i] = Held[i]
  BY <1>1, <1>2
<1>4. Held'[n] = {w}
  BY <1>1
<1>5. Held = [i \in Replica |-> Held[i]] /\ Held' = [i \in Replica |-> Held'[i]]
  BY DEF Held
<1>6. QED BY <1>3, <1>4, <1>5

\* A write is sent when its client's job exists, and that job keeps its node.
LEMMA SentKept ==
  ASSUME Structure,
         \A w \in Write :
           \/ Keeps(Client(w))
           \/ job[Client(w)].at \in Node /\ job'[Client(w)].at \in Node
  PROVE  Sent' = Sent
<1>1. /\ Sent = {w \in Write : job[Client(w)] # NoJob}
      /\ Sent' = {w \in Write : job'[Client(w)] # NoJob}
  BY DEF Sent, Client
<1>2. NoJob.at \notin Node
  BY NoneAssumption DEF NoJob
<1>3. ASSUME NEW w \in Write
      PROVE  job'[Client(w)] = NoJob <=> job[Client(w)] = NoJob
  <2>1. Client(w) \in Job
    BY JobFacts
  <2>2. \/ job[Client(w)].phase = "none" /\ job[Client(w)] = NoJob
        \/ job[Client(w)].at \in Node
    BY <2>1, JobIs
  <2>3. Keeps(Client(w)) =>
          /\ job'[Client(w)].at = job[Client(w)].at
          /\ job[Client(w)].phase = "none" => job'[Client(w)] = job[Client(w)]
    BY DEF Keeps
  <2>4. QED BY <1>2, <2>2, <2>3
<1>4. QED BY <1>1, <1>3

\* A put that arrives is sent.
LEMMA PutIsSent ==
  ASSUME Structure, NEW w \in Write, job[Client(w)] = NoJob,
         job'[Client(w)].at \in Node,
         \A k \in Job : k # Client(w) => job'[k] = job[k]
  PROVE  Sent' = Sent \cup {w} /\ w \notin Sent
<1>1. /\ Sent = {x \in Write : job[Client(x)] # NoJob}
      /\ Sent' = {x \in Write : job'[Client(x)] # NoJob}
  BY DEF Sent, Client
<1>2. job'[Client(w)] # NoJob
  BY NoneAssumption DEF NoJob
<1>3. \A x \in Write : x # w => job'[Client(x)] = job[Client(x)]
  BY JobFacts
<1>4. QED BY <1>1, <1>2, <1>3

LEMMA PutRegister ==
  ASSUME Structure, NEW w \in Write, NEW n \in Node,
         ClientPutAtReplica(w, n) \/ ClientPutElsewhere(w, n)
  PROVE  Register!Send(w)
<1>1. UNCHANGED <<store, acked>> /\ before' = [before EXCEPT ![w] = acked]
  BY DEF ClientPutAtReplica, ClientPutElsewhere
<1>2. /\ job[Client(w)] = NoJob /\ job'[Client(w)].at \in Node
      /\ \A k \in Job : k # Client(w) => job'[k] = job[k]
  BY PutAtReplicaNumbers, NumberedFacts, PutElsewhereFacts
<1>3. Sent' = Sent \cup {w} /\ w \notin Sent
  BY <1>2, PutIsSent
<1>4. Held' = Held
  BY <1>1 DEF Held
<1>5. QED BY <1>1, <1>3, <1>4, RegisterSteps

\* A version that is newer than what a replica holds is of no superseded write.
LEMMA NewerIsCurrent ==
  ASSUME FullQuorum, Structure, AcksReached, LaterJobsNewer, crashes = 0, Orderly,
         NEW j \in Job, job[j].ver # 0, NEW n \in Replica, Newer(n, job[j].ver),
         NEW w \in acked
  PROVE  j[1] \notin before[w]
<1> SUFFICES ASSUME j[1] \in before[w] PROVE FALSE
  OBVIOUS
<1>1. Intact /\ up[n] /\ n \in Node /\ timeouts = 0 /\ ~ overlapped
  BY NoCrashFacts, ReplicaFacts DEF Orderly
<1>2. w \in Write /\ Version(w) # 0 /\ Version(w) \in Nat
  BY AckedJob
<1>3. Holds(n, Version(w))
  BY <1>1, AckedEverywhere DEF Reached
<1>4. job[j].ver = Version(j[1])
  BY <1>1, <1>2, AckedVersion DEF Structure, HistoryOK
<1>5. Client(w) \in Job /\ Client(w)[1] = w /\ Version(w) = job[Client(w)].ver
  BY <1>2, JobFacts DEF Version, Client
<1>6. Version(w) > Version(j[1])
  BY <1>1, <1>2, <1>5 DEF LaterJobsNewer
<1>7. store[n] # None /\ store[n].ver >= Version(w)
  BY <1>3 DEF Holds
<1>8. store[n].ver < job[j].ver
  BY <1>7 DEF Newer
<1>9. store[n].ver \in Nat /\ job[j].ver \in Nat
  BY <1>1, <1>7, NodeFacts, JobIs
<1>10. QED BY <1>2, <1>4, <1>6, <1>7, <1>8, <1>9

\* A replica takes a version of job j, newer than its entry.
LEMMA TakenIsCopy ==
  ASSUME FullQuorum, Structure, AcksReached, LaterJobsNewer, crashes = 0, Orderly,
         NEW j \in Job, job[j].ver # 0, NEW n \in Replica, Newer(n, job[j].ver),
         store'[n] # None, store'[n].val = j[1],
         \A i \in Replica : i # n => store'[i] = store[i],
         UNCHANGED <<acked, before>>, Sent' = Sent
  PROVE  Register!Copy(n, j[1])
<1>1. j[1] \in Write
  BY JobFacts
<1>2. Held' = [Held EXCEPT ![n] = {j[1]}]
  BY <1>1, HeldTaken
<1>3. \A x \in acked : j[1] \notin before[x]
  BY NewerIsCurrent
<1>4. j[1] \in Sent
  BY <1>1, ClientIsThere DEF Sent, Client
<1>5. QED BY <1>1, <1>2, <1>3, <1>4, RegisterSteps

LEMMA StoreRegister ==
  ASSUME FullQuorum, Counting, LaterJobsNewer, crashes = 0, Orderly,
         NEW j \in Job, Store(j)
  PROVE  Register!Copy(job[j].at, j[1])
<1>1. PICK n \in Replica, v \in Nat : n = job[j].at /\ v = job[j].ver
  BY StoreFacts DEF Counting
<1>2. /\ v # 0 /\ job[j].phase = "storing" /\ n \in Node
      /\ job'[j].at = n
      /\ store'[n] # None /\ store'[n].val = j[1]
      /\ \A i \in Node : i # n => store'[i] = store[i]
      /\ \A k \in Job : k # j => Keeps(k)
      /\ UNCHANGED <<acked, before>>
  BY <1>1, StoreFacts DEF Counting
<1>3. Newer(n, v)
  BY <1>1, <1>2 DEF Counting, Serial, Orderly
<1>4. Sent' = Sent
  BY <1>1, <1>2, SentKept, JobFacts DEF Counting
<1>5. QED BY <1>1, <1>2, <1>3, <1>4, TakenIsCopy, ReplicaFacts DEF Counting

LEMMA InsertRegister ==
  ASSUME FullQuorum, Counting, LaterJobsNewer, crashes = 0, Orderly,
         NEW m \in msgs, InsertCopy(m)
  PROVE  Register!Copy(m.to, m.job[1])
<1>1. /\ m.type = "inserting" /\ m.to \in Replica /\ m.job \in Job
      /\ m.ver = job[m.job].ver /\ m.ver # 0
      /\ store'[m.to] # None /\ store'[m.to].val = m.job[1]
      /\ \A i \in Node : i # m.to => store'[i] = store[i]
      /\ UNCHANGED <<job, acked, before>>
  BY InsertCopyFacts DEF Counting, MessageOK, Storing
<1>2. Newer(m.to, m.ver)
  BY <1>1 DEF Counting, Serial, Orderly, Storing
<1>3. Sent' = Sent
  BY <1>1 DEF Sent
<1>4. QED BY <1>1, <1>2, <1>3, TakenIsCopy, ReplicaFacts DEF Counting

\* Every replica holds a write once one is acknowledged, and none that was
\* acknowledged before that one was sent.
AckedIsHeld ==
  (crashes = 0 /\ Orderly) =>
    \A w \in acked, n \in Replica :
      store[n] # None /\ store[n].val \notin before[w]

LEMMA AlwaysHeld ==
  ASSUME FullQuorum
  PROVE  Spec => [](Counting /\ LaterJobsNewer /\ AckedIsHeld)
<1>1. Counting /\ LaterJobsNewer => AckedIsHeld
  <2> SUFFICES ASSUME Structure, AcksReached, LaterJobsNewer, crashes = 0, Orderly,
                      NEW w \in acked, NEW n \in Replica
               PROVE  store[n] # None /\ store[n].val \notin before[w]
    BY DEF AckedIsHeld, Counting
  <2>1. Intact /\ up[n] /\ n \in Node /\ timeouts = 0 /\ ~ overlapped
    BY NoCrashFacts, ReplicaFacts DEF Orderly
  <2>2. Holds(n, Version(w))
    BY <2>1, AckedEverywhere DEF Reached
  <2>3. w \in Write /\ Version(w) # 0
    BY AckedJob
  <2>4. QED BY <2>1, <2>2, <2>3, NoEarlierEntry DEF Holds
<1>2. QED BY <1>1, AlwaysNewer, PTL

LEMMA ConcludeRegister ==
  ASSUME Structure, AckedIsHeld', crashes = 0, Orderly, NEW j \in Job, Conclude(j)
  PROVE  \/ UNCHANGED Register!vars
         \/ Register!Ack(j[1])
<1>1. /\ job[j].phase = "replicating" /\ job[j].at \in Node /\ j[1] \in Write
      /\ \A k \in Job : Keeps(k)
      /\ UNCHANGED <<store, before, crashes, timeouts, overlapped>>
      /\ \/ UNCHANGED acked
         \/ j = Client(j[1]) /\ acked' = acked \cup {j[1]}
  BY ConcludeFacts, JobIs, JobFacts
<1>2. Sent' = Sent
  BY <1>1, SentKept, JobFacts
<1>3. Held' = Held
  BY <1>1 DEF Held
<1>4. CASE acked' = acked
  BY <1>1, <1>2, <1>4, RegisterStutter
<1>5. CASE acked' # acked
  <2> DEFINE w == j[1]
  <2>1. acked' = acked \cup {w} /\ j = Client(w) /\ w \notin acked
    BY <1>1, <1>5
  <2>2. w \in Sent
    BY <1>1, <2>1, JobIs DEF Sent, Client
  <2>3. \A n \in Replica : store[n] # None /\ store[n].val \notin before[w]
    BY <1>1, <2>1 DEF AckedIsHeld, Orderly
  <2>4. \A n \in Replica : Held[n] # {} /\ Held[n] \cap before[w] = {}
    BY <2>3 DEF Held
  <2>5. QED BY <1>1, <1>2, <1>3, <2>1, <2>2, <2>4, RegisterSteps
<1>6. QED BY <1>4, <1>5

\* What coordinators do with answers, and the handlers before they store, changes
\* nothing that a client sees.
LEMMA QuietRegister ==
  ASSUME Structure, [Next]_vars, crashes' = 0,
         ~ \E w \in Write, n \in Node :
             ClientPutAtReplica(w, n) \/ ClientPutElsewhere(w, n),
         ~ \E j \in Job : Store(j) \/ Conclude(j),
         ~ \E m \in msgs : InsertCopy(m)
  PROVE  UNCHANGED Register!vars
<1> DEFINE Still == UNCHANGED <<store, acked, before>> /\ Sent' = Sent
<1>1. ASSUME NEW m \in msgs, ReceivePut(m) PROVE Still
  <2>1. Numbered(Forwarded(m.job[1]), Primary) /\ Forwarded(m.job[1]) \in Job
    BY <1>1, ReceivePutNumbers
  <2>2. \A w \in Write : Client(w) \in Job /\ Client(w) # Forwarded(m.job[1])
    BY <1>1, ReceivePutNumbers, JobFacts
  <2>3. Sent' = Sent
    BY <2>1, <2>2, NumberedFacts, SentKept, ReplicaFacts
  <2>4. QED BY <1>1, <2>3 DEF ReceivePut
<1>2. ASSUME NEW m \in msgs, ReceiveReplicate(m) \/ CheckVersion(m) PROVE Still
  BY <1>2 DEF ReceiveReplicate, CheckVersion, Sent
<1>3. ASSUME NEW j \in Job, NEW m \in msgs, ReceivePutReply(j, m) PROVE Still
  <2>1. /\ \A k \in Job : k # j => Keeps(k)
        /\ Keeps(j) \/ (job[j].at \in Node /\ job'[j].at \in Node)
    BY <1>3, PutReplyFacts
  <2>2. Sent' = Sent
    BY <2>1, SentKept, JobFacts
  <2>3. QED BY <1>3, <2>2 DEF ReceivePutReply
<1>4. ASSUME NEW j \in Job, NEW m \in msgs, ReceiveAck(j, m) PROVE Still
  <2>1. /\ \A k \in Job : k # j => Keeps(k)
        /\ Keeps(j) \/ (job[j].at \in Node /\ job'[j].at \in Node)
    BY <1>4, AckFacts, JobIs
  <2>2. Sent' = Sent
    BY <2>1, SentKept, JobFacts
  <2>3. QED BY <1>4, <2>2 DEF ReceiveAck
<1>5. ASSUME NEW j \in Job, ForwardFails(j) \/ ForwardTimesOut(j) PROVE Still
  BY <1>5, ForwardEnds, SentKept, JobFacts
<1>6. ASSUME NEW j \in Job, NEW r \in Replica,
             ReplicateFails(j, r) \/ ReplicateTimesOut(j, r)
      PROVE  Still
  BY <1>6, ReplicateEnds, SentKept, JobFacts
<1>7. ~ \E n \in Node : Crash(n) \/ Restart(n)
  <2>1. crashes = 0 /\ ~ \E n \in Node : Crash(n)
    BY LagGrows DEF Crash, Structure, TypeOK
  <2>2. QED BY <2>1, NoCrashFacts DEF Restart
<1>8. ASSUME UNCHANGED vars PROVE Still
  BY <1>8 DEF vars, Sent
<1>9. Still
  BY NextCases, <1>1, <1>2, <1>3, <1>4, <1>5, <1>6, <1>7, <1>8
<1>10. QED BY <1>9, RegisterStutter

\* What one step of the cluster is to the register.
LEMMA RegisterCases ==
  ASSUME FullQuorum, Counting, LaterJobsNewer, AckedIsHeld', [Next]_vars,
         crashes' = 0, Orderly'
  PROVE  UNCHANGED Register!vars \/ Register!Next
<1>1. Structure /\ crashes = 0 /\ Orderly
  BY LagGrows, HistorySteps, NoTimeoutKept DEF Counting, Structure, TypeOK, Orderly
<1>2. ASSUME NEW w \in Write, NEW n \in Node,
             ClientPutAtReplica(w, n) \/ ClientPutElsewhere(w, n)
      PROVE  Register!Next
  BY <1>1, <1>2, PutRegister, RegisterNext
<1>3. ASSUME NEW j \in Job, Store(j) PROVE Register!Next
  BY <1>1, <1>3, StoreRegister, StoreFacts, JobFacts, RegisterNext
<1>4. ASSUME NEW m \in msgs, InsertCopy(m) PROVE Register!Next
  BY <1>1, <1>4, InsertRegister, InsertCopyFacts, JobFacts, RegisterNext
<1>5. ASSUME NEW j \in Job, Conclude(j)
      PROVE  UNCHANGED Register!vars \/ Register!Next
  BY <1>1, <1>5, ConcludeRegister, JobFacts, RegisterNext
<1>6. QED BY <1>1, <1>2, <1>3, <1>4, <1>5, QuietRegister

LEMMA InitRegister == Init => Register!Init
<1> SUFFICES ASSUME Init PROVE Register!Init
  OBVIOUS
<1>1. Held = [n \in Replica |-> {}]
  BY ReplicaFacts DEF Init, Held
<1>2. Sent = {}
  BY JobFacts DEF Init, Sent, Client
<1>3. QED BY <1>1, <1>2 DEF Register!Init, Init

\* With a quorum of all the replicas, until a node crashes, a call times out or two
\* writes overlap in one storage, the cluster is the register: each put, insertion
\* and acknowledgement is one of its steps, and the rest of what coordinators,
\* handlers and messages do changes nothing that a client can see.
THEOREM ImplementsRegisterWhileOrderly ==
  ASSUME FullQuorum
  PROVE  Spec => RegisterWhileOrderly
<1> DEFINE Step == (crashes' = 0 /\ Orderly') => Register!Next
<1>1. Counting /\ LaterJobsNewer /\ AckedIsHeld' /\ [Next]_vars
        => [Step]_(Register!vars)
  <2> SUFFICES ASSUME Counting, LaterJobsNewer, AckedIsHeld', [Next]_vars
               PROVE  [Step]_(Register!vars)
    OBVIOUS
  <2>1. CASE crashes' = 0 /\ Orderly'
    <3>1. UNCHANGED Register!vars \/ Register!Next
      BY <2>1, RegisterCases
    <3>2. QED BY <3>1
  <2>2. CASE ~ (crashes' = 0 /\ Orderly')
    BY <2>2
  <2>3. QED BY <2>1, <2>2
<1>2. QED BY <1>1, InitRegister, AlwaysHeld, PTL DEF Spec, RegisterWhileOrderly

\* What makes reads of the register fresh: an acknowledged write was sent, and the
\* writes that a write supersedes were acknowledged.
RegisterOrder ==
  /\ Held \in [Replica -> SUBSET Write]
  /\ before \in [Write -> SUBSET Write]
  /\ acked \subseteq Sent
  /\ \A w \in Write : before[w] \subseteq acked

\* The register keeps its promise: a read of any replica, once a write is
\* acknowledged, finds one, and none that was acknowledged before it was sent.
THEOREM RegisterReadsAreFresh == Register!Spec => []Register!ReadsAreFresh
<1> DEFINE Inv == RegisterOrder /\ Register!ReadsAreFresh
<1>1. Register!Init => Inv
  BY DEF Register!Init, Register!ReadsAreFresh, RegisterOrder
<1>2. Inv /\ [Register!Next]_(Register!vars) => Inv'
  <2> SUFFICES ASSUME RegisterOrder, Register!ReadsAreFresh,
                      [Register!Next]_(Register!vars)
               PROVE  RegisterOrder' /\ Register!ReadsAreFresh'
    OBVIOUS
  <2>1. ASSUME NEW w \in Write, Register!Send(w)
        PROVE  RegisterOrder' /\ Register!ReadsAreFresh'
    <3>1. /\ w \notin Sent /\ Sent' = Sent \cup {w} /\ acked' = acked
          /\ before' = [before EXCEPT ![w] = acked] /\ Held' = Held
      BY <2>1 DEF Register!Send
    <3>2. w \notin acked /\ acked \subseteq Write
      BY <3>1 DEF RegisterOrder, Sent
    <3>3. /\ before' \in [Write -> SUBSET Write]
          /\ \A x \in acked : before'[x] = before[x]
      BY <3>1, <3>2 DEF RegisterOrder
    <3>4. RegisterOrder'
      BY <3>1, <3>3 DEF RegisterOrder
    <3>5. Register!ReadsAreFresh'
      BY <3>1, <3>3 DEF Register!ReadsAreFresh
    <3>6. QED BY <3>4, <3>5
  <2>2. ASSUME NEW w \in Write, NEW n \in Replica, Register!Copy(n, w)
        PROVE  RegisterOrder' /\ Register!ReadsAreFresh'
    BY <2>2 DEF Register!Copy, Register!Superseded, RegisterOrder,
                Register!ReadsAreFresh
  <2>3. ASSUME NEW w \in Write, Register!Ack(w)
        PROVE  RegisterOrder' /\ Register!ReadsAreFresh'
    <3>1. /\ w \in Sent /\ acked' = acked \cup {w}
          /\ \A n \in Replica : Held[n] # {} /\ Held[n] \cap before[w] = {}
          /\ Held' = Held /\ Sent' = Sent /\ before' = before
      BY <2>3 DEF Register!Ack
    <3>2. RegisterOrder'
      BY <3>1 DEF RegisterOrder
    <3>3. Register!ReadsAreFresh'
      BY <3>1 DEF Register!ReadsAreFresh
    <3>4. QED BY <3>2, <3>3
  <2>4. CASE UNCHANGED Register!vars
    BY <2>4 DEF Register!vars, RegisterOrder, Register!ReadsAreFresh
  <2>5. QED BY <2>1, <2>2, <2>3, <2>4 DEF Register!Next
<1>3. QED BY <1>1, <1>2, PTL DEF Register!Spec

\* With a quorum of all the replicas, a read of any replica once a write is
\* acknowledged finds one, and none that was acknowledged before it was sent, until
\* a node crashes, a call times out or writes overlap in a storage.
THEOREM ReplicaReadsAreFresh ==
  ASSUME FullQuorum
  PROVE  Spec => []((crashes = 0 /\ Orderly) => Register!ReadsAreFresh)
<1>1. AckedIsHeld => ((crashes = 0 /\ Orderly) => Register!ReadsAreFresh)
  BY DEF AckedIsHeld, Register!ReadsAreFresh, Held
<1>2. QED BY <1>1, AlwaysHeld, PTL

(***************************************************************************)
(* One numbering node.                                                     *)
(***************************************************************************)

\* Without crashes, none in this step either.
LEMMA NoCrashKept ==
  ASSUME Structure, [Next]_vars, crashes' = 0
  PROVE  crashes = 0 /\ ~ \E n \in Node : Crash(n) \/ Restart(n)
<1>1. crashes = 0 /\ ~ \E n \in Node : Crash(n)
  BY LagGrows DEF Crash, Structure, TypeOK
<1>2. QED BY <1>1, NoCrashFacts DEF Restart

\* A step ends with one numbering node only if it starts so.
LEMMA PrimaryKept ==
  ASSUME Structure, [Next]_vars, NumberedByPrimary'
  PROVE  /\ NumberedByPrimary /\ crashes' = 0
         /\ ~ \E n \in Node : Crash(n)
<1>1. crashes' = 0 /\ crashes = 0 /\ ~ \E n \in Node : Crash(n)
  BY NoCrashKept DEF NumberedByPrimary
<1>2. ASSUME NEW j \in Job, job[j].at \in Replica PROVE job[j].at = Primary
  <2>1. job'[j].at = job[j].at
    BY <1>2, JobIs, JobKept, ReplicaFacts
  <2>2. QED BY <1>2, <2>1 DEF NumberedByPrimary
<1>3. QED BY <1>1, <1>2 DEF NumberedByPrimary

\* A version comes from a local write or from a job of the same put.
LEMMA VersionOrigin ==
  ASSUME Structure, [Next]_vars, timeouts = 0, NEW j \in Job
  PROVE  \/ job'[j].ver = 0
         \/ \E k \in Job : k[1] = j[1] /\ job'[j].ver = job[k].ver
         \/ \E n \in Replica : Numbered(j, n)
<1>1. Keeps(j) => job'[j].ver = job[j].ver
  BY DEF Keeps
<1>2. \A m \in msgs : Counts(j, m) => job'[j].ver = job[j].ver
  BY AckFacts DEF Counts
<1>3. Store(j) => job'[j].ver = job[j].ver
  BY StoreFacts
<1>4. Forwards(j) => job'[j].ver = 0
  BY ForwardsFacts
<1>5. ASSUME NEW m \in msgs, TakesVersion(j, m)
      PROVE  \E k \in Job : k[1] = j[1] /\ job'[j].ver = job[k].ver
  <2>1. m.type = "put_reply" /\ m.job = j /\ MessageOK(m) /\ job'[j].ver = m.ver
    BY <1>5, PutReplyFacts DEF TakesVersion
  <2>2. j[1] \in Write /\ job[Forwarded(j[1])].ver = m.ver
    BY <2>1, JobFacts DEF MessageOK
  <2>3. QED BY <2>1, <2>2, JobFacts
<1>6. QED BY <1>1, <1>2, <1>3, <1>4, <1>5, JobSteps DEF JobStep

LEMMA InitUnique == Init => VersionsUnique
BY ReplicaFacts DEF Init, VersionsUnique, NoJob

LEMMA NextUnique ==
  Structure /\ VersionsUnique /\ [Next]_vars => VersionsUnique'
<1> SUFFICES ASSUME Structure, VersionsUnique, [Next]_vars, NumberedByPrimary',
                    timeouts' = 0, NEW j \in Job, NEW k \in Job
             PROVE  /\ job'[j].ver =< counter'[Primary]
                    /\ (job'[j].ver # 0 /\ job'[j].ver = job'[k].ver)
                         => j[1] = k[1]
  BY DEF VersionsUnique
<1>1. NumberedByPrimary /\ timeouts = 0 /\ Primary \in Node
  BY PrimaryKept, NoTimeoutKept, ReplicaFacts
<1>2. /\ counter[Primary] \in Nat /\ counter'[Primary] \in Nat
      /\ counter'[Primary] >= counter[Primary]
  BY <1>1, PrimaryKept, NodeSteps, NodeFacts
<1>3. \A h \in Job : job[h].ver \in Nat /\ job[h].ver =< counter[Primary]
  BY <1>1, JobIs DEF VersionsUnique
<1>4. ASSUME NEW i \in Job, NEW n \in Replica, Numbered(i, n)
      PROVE  /\ job'[i].ver = counter[Primary] + 1
             /\ counter'[Primary] = counter[Primary] + 1
             /\ \A h \in Job : h # i => job'[h].ver =< counter[Primary]
  <2>1. /\ job'[i].at = n /\ job'[i].ver = counter[n] + 1
        /\ counter'[n] = counter[n] + 1
        /\ \A h \in Job : h # i => job'[h] = job[h]
    BY <1>4, NumberedFacts
  <2>2. n = Primary
    BY <2>1 DEF NumberedByPrimary
  <2>3. QED BY <1>3, <2>1, <2>2
<1>5. ASSUME NEW i \in Job
      PROVE  job'[i].ver =< counter'[Primary] /\ job'[i].ver \in Nat
  <2>1. job'[i].ver \in Nat
    BY JobSteps DEF JobType
  <2>2. CASE \E n \in Replica : Numbered(i, n)
    BY <1>2, <1>4, <2>1, <2>2
  <2>3. CASE \E h \in Job : h[1] = i[1] /\ job'[i].ver = job[h].ver
    BY <1>2, <1>3, <2>1, <2>3
  <2>4. CASE job'[i].ver = 0
    BY <1>2, <2>4
  <2>5. QED BY <1>1, <2>2, <2>3, <2>4, VersionOrigin
<1>6. ASSUME job'[j].ver # 0, job'[j].ver = job'[k].ver PROVE j[1] = k[1]
  <2>1. CASE \E n \in Replica : Numbered(j, n) \/ Numbered(k, n)
    BY <1>2, <1>4, <1>6, <2>1
  <2>2. CASE ~ \E n \in Replica : Numbered(j, n) \/ Numbered(k, n)
    <3>1. PICK h \in Job : h[1] = j[1] /\ job'[j].ver = job[h].ver
      BY <1>1, <1>6, <2>2, VersionOrigin
    <3>2. PICK i \in Job : i[1] = k[1] /\ job'[k].ver = job[i].ver
      BY <1>1, <1>6, <2>2, VersionOrigin
    <3>3. h[1] = i[1]
      BY <1>1, <1>6, <3>1, <3>2 DEF VersionsUnique
    <3>4. QED BY <3>1, <3>2, <3>3
  <2>3. QED BY <2>1, <2>2
<1>7. QED BY <1>5, <1>6

LEMMA AlwaysUnique == Spec => [](Structure /\ VersionsUnique)
BY InitStructure, InitUnique, NextStructure, NextUnique, PTL DEF Spec

LEMMA UniqueNames == Structure /\ VersionsUnique => VersionNamesWrite
<1> SUFFICES ASSUME Structure, VersionsUnique, NumberedByPrimary, timeouts = 0,
                    NEW n \in Node, NEW r \in Node,
                    store[n] # None, store[r] # None, store[n].ver = store[r].ver
             PROVE  store[n].val = store[r].val
  BY DEF VersionNamesWrite
<1>1. PICK j \in Job : /\ j[1] = store[n].val /\ job[j].ver = store[n].ver
                       /\ job[j].ver # 0
  BY DEF Structure, NodeOK
<1>2. PICK k \in Job : k[1] = store[r].val /\ job[k].ver = store[r].ver
  BY DEF Structure, NodeOK
<1>3. QED BY <1>1, <1>2 DEF VersionsUnique

\* When one node numbers the writes of the key, no node crashes and no call times
\* out, a version names one write on whatever node it is found, however the writes
\* overlap.
THEOREM VersionsNameWrites == Spec => []VersionNamesWrite
BY UniqueNames, AlwaysUnique, PTL

(***************************************************************************)
(* Copies that are not lost.                                               *)
(***************************************************************************)
Copying == {"replicate"} \cup Storing

\* A copy only disappears in a step of its handler.
LEMMA CopySteps ==
  ASSUME Structure, [Next]_vars, NEW m \in msgs, m.type \in Copying,
         m \notin msgs', ~ \E n \in Node : Crash(n) \/ Restart(n)
  PROVE  ReceiveReplicate(m) \/ CheckVersion(m) \/ InsertCopy(m)
<1>1. m.type \notin Answers /\ m.type # "put"
  BY DEF Copying, Storing, Answers
<1>2. ASSUME NEW q \in msgs, ReceivePut(q) PROVE m \in msgs'
  BY <1>1, <1>2 DEF ReceivePut
<1>3. ASSUME NEW q \in msgs,
             ReceiveReplicate(q) \/ CheckVersion(q) \/ InsertCopy(q)
      PROVE  q = m
  BY <1>3, ReceiveReplicateFacts, CheckVersionFacts, InsertCopyFacts
<1>4. ASSUME NEW j \in Job, NEW q \in msgs, ReceivePutReply(j, q) PROVE m \in msgs'
  BY <1>1, <1>4, PutReplyFacts
<1>5. ASSUME NEW j \in Job, NEW q \in msgs, ReceiveAck(j, q) PROVE m \in msgs'
  BY <1>1, <1>5, AckFacts
<1>6. ASSUME NEW j \in Job, Store(j) PROVE m \in msgs'
  BY <1>6, StoreFacts
<1>7. ASSUME NEW j \in Job, Conclude(j) PROVE m \in msgs'
  BY <1>7, ConcludeFacts, JobFacts
<1>8. ASSUME NEW j \in Job, ForwardFails(j) \/ ForwardTimesOut(j) PROVE m \in msgs'
  BY <1>8, ForwardEnds
<1>9. ASSUME NEW j \in Job, NEW r \in Replica,
             ReplicateFails(j, r) \/ ReplicateTimesOut(j, r)
      PROVE  m \in msgs'
  BY <1>9, ReplicateEnds
<1>10. ASSUME NEW w \in Write, NEW n \in Node,
              ClientPutAtReplica(w, n) \/ ClientPutElsewhere(w, n)
       PROVE  m \in msgs'
  BY <1>10 DEF ClientPutAtReplica, ClientPutElsewhere
<1>11. ~ UNCHANGED vars
  BY DEF vars
<1>12. QED
  BY NextCases, <1>2, <1>3, <1>4, <1>5, <1>6, <1>7, <1>8, <1>9, <1>10, <1>11

LEMMA InitDelivered == Init => CopiesDelivered
BY ReplicaFacts, NoneAssumption DEF Init, CopiesDelivered, NoJob

LEMMA NextDelivered ==
  Structure /\ Serial /\ CopiesDelivered /\ [Next]_vars => CopiesDelivered'
<1> SUFFICES ASSUME Structure, Serial, CopiesDelivered, [Next]_vars, crashes' = 0,
                    ~ overlapped', NEW j \in Job, NEW n \in Replica,
                    job'[j].at \in Replica, job'[j].phase # "storing"
             PROVE  \/ Holds(n, job[j].ver)'
                    \/ \E m \in msgs' : m.type \in Copying /\ m.job = j /\ m.to = n
  BY DEF CopiesDelivered, Copying
<1> DEFINE OnItsWay == \E m \in msgs' : m.type \in Copying /\ m.job = j /\ m.to = n
<1>1. /\ crashes = 0 /\ ~ overlapped /\ n \in Node
      /\ ~ \E i \in Node : Crash(i) \/ Restart(i)
  BY NoCrashKept, HistorySteps, ReplicaFacts
<1>2. CASE job[j].phase = "none"
  <2>1. job[j] = NoJob /\ NoJob.at \notin Replica /\ job[j].phase # "storing"
    BY <1>2, JobIs, ReplicaFacts DEF NoJob
  <2>2. ~ Keeps(j)
    BY <1>2, <2>1 DEF Keeps
  <2>3. ~ Forwards(j) /\ ~ Store(j) /\ \A i \in Replica : ~ Numbered(j, i)
    BY <2>1, ForwardsFacts, StoreFacts, NumberedFacts
  <2>4. \A m \in msgs : ~ TakesVersion(j, m) /\ ~ Counts(j, m)
    BY <1>2, PutReplyFacts, AckFacts DEF TakesVersion, Counts
  <2>5. QED BY <2>2, <2>3, <2>4, JobSteps DEF JobStep
<1>3. CASE job[j].phase = "storing"
  <2>1. ~ Keeps(j)
    <3>1. job[j].at \in Node
      BY <1>3, JobIs
    <3>2. QED BY <1>1, <1>3, <3>1 DEF Keeps
  <2>2. ~ Forwards(j) /\ \A i \in Replica : ~ Numbered(j, i)
    BY <1>3, ForwardsFacts, NumberedFacts, JobIs
  <2>3. \A m \in msgs : ~ TakesVersion(j, m) /\ ~ Counts(j, m)
    BY <1>3, PutReplyFacts, AckFacts DEF TakesVersion, Counts
  <2>4. Store(j)
    BY <2>1, <2>2, <2>3, JobSteps DEF JobStep
  <2>5. PICK i \in Replica, v \in Nat : i = job[j].at /\ v = job[j].ver
    BY <2>4, StoreFacts
  <2>6. /\ i \in Node /\ job'[j].ver = v
        /\ store'[i] # None /\ store'[i].ver = v
        /\ msgs' = msgs \cup Copies(j, i, v)
    BY <2>4, <2>5, StoreFacts
  <2>7. CASE n = i
    <3>1. v >= v
      OBVIOUS
    <3>2. QED BY <2>6, <2>7, <3>1 DEF Holds
  <2>8. CASE n # i
    BY <2>6, <2>8, CopiesType DEF Copying
  <2>9. QED BY <2>7, <2>8
<1>4. CASE job[j].phase \notin {"none", "storing"}
  <2>1. job'[j].at = job[j].at
    BY <1>4, JobKept
  <2>2. job[j].ver # 0
    BY <2>1, JobIs DEF JobOK
  <2>3. PICK v \in Nat : v = job[j].ver /\ v = job'[j].ver
    BY <2>2, JobKept, JobIs
  <2>4. CASE Holds(n, v)
    <3>1. Holds(n, v)'
      BY <1>1, <2>4, HoldsKept
    <3>2. QED BY <2>3, <3>1 DEF Holds
  <2>5. CASE ~ Holds(n, v)
    <3> job[j].at \in Replica /\ job[j].phase # "storing"
      BY <1>4, <2>1
    <3> ~ Holds(n, job[j].ver)
      BY <2>3, <2>5 DEF Holds
    <3>1. PICK m \in msgs : m.type \in Copying /\ m.job = j /\ m.to = n
      BY <1>1 DEF CopiesDelivered, Copying
    <3>2. m.ver = v
      BY <2>3, <3>1 DEF Structure, MessageOK, Copying
    <3>3. CASE m \in msgs'
      BY <3>1, <3>3
    <3>4. CASE ReceiveReplicate(m)
      <4>1. \E q \in msgs' : Raised(m, q)
        BY <3>4, ReceiveReplicateFacts
      <4>2. QED BY <3>1, <4>1 DEF Raised, SameCopy, Copying, Storing
    <3>5. CASE CheckVersion(m) /\ Newer(n, v)
      <4>1. \E q \in msgs' : Passed(m, q)
        BY <3>1, <3>2, <3>5, CheckVersionFacts
      <4>2. QED BY <3>1, <4>1 DEF Passed, SameCopy, Copying, Storing
    <3>6. CASE CheckVersion(m) /\ ~ Newer(n, v)
      <4>1. store[n] # None /\ ~ (store[n].ver < v) /\ store' = store
        BY <3>6, CheckVersionFacts DEF Newer
      <4>2. store[n].ver >= v
        BY <1>1, <4>1, NodeFacts
      <4>3. QED BY <2>3, <4>1, <4>2 DEF Holds
    <3>7. CASE InsertCopy(m)
      <4>1. store'[n] # None /\ store'[n].ver = v
        BY <3>1, <3>2, <3>7, InsertCopyFacts
      <4>2. v >= v
        OBVIOUS
      <4>3. QED BY <2>3, <4>1, <4>2 DEF Holds
    <3>8. QED
      BY <1>1, <3>1, <3>3, <3>4, <3>5, <3>6, <3>7, CopySteps
  <2>6. QED BY <2>4, <2>5
<1>5. QED BY <1>2, <1>3, <1>4

LEMMA AlwaysDelivered ==
  Spec => [](Counting /\ VersionsUnique /\ CopiesDelivered)
<1>1. Counting /\ CopiesDelivered /\ [Next]_vars => CopiesDelivered'
  BY NextDelivered DEF Counting
<1>2. QED BY <1>1, AlwaysCounting, AlwaysUnique, InitDelivered, PTL DEF Spec

\* An entry is the copy of a version that some replica numbered, as long as no
\* answer is taken for another one's.
LEMMA EntryJob ==
  ASSUME Structure, timeouts = 0, NEW n \in Node, store[n] # None
  PROVE  \E k \in Job : /\ job[k].at \in Replica
                        /\ job[k].ver = store[n].ver
<1> DEFINE u == store[n].val
<1>1. PICK j \in Job : j[1] = u /\ job[j].ver = store[n].ver /\ job[j].ver # 0
  BY DEF Structure, NodeOK
<1>2. u \in Write /\ Forwarded(u) \in Job
  BY <1>1, JobFacts
<1>3. ForwardOK(u) /\ job[j].phase # "none"
  BY <1>1, <1>2, ClientIsThere DEF Structure
<1>4. CASE job[j].at \in Replica
  BY <1>1, <1>4
<1>5. CASE job[j].at \notin Replica
  <2>1. j = Client(u)
    <3>1. j = Client(u) \/ j = Forwarded(u)
      BY <1>1, JobFacts
    <3>2. QED BY <1>3, <1>5, <3>1, ReplicaFacts DEF ForwardOK
  <2>2. /\ job[Forwarded(u)].phase = "acked"
        /\ job[Forwarded(u)].ver = job[j].ver
    BY <1>1, <1>3, <1>5, <2>1 DEF ForwardOK
  <2>3. job[Forwarded(u)].at \in Replica
    BY <1>3, <2>2, ReplicaFacts DEF ForwardOK
  <2>4. QED BY <1>1, <1>2, <2>2, <2>3
<1>6. QED BY <1>4, <1>5

\* When one node numbers the writes of the key, until a node crashes, a call times
\* out or writes overlap in a storage, and once nothing is in progress, the
\* replicas have the same entry, in whatever order and however late the copies
\* came.
THEOREM PrimaryAlwaysConverges == Spec => []PrimaryConverges
<1>1. Counting /\ VersionsUnique /\ CopiesDelivered => PrimaryConverges
  <2> SUFFICES ASSUME Structure, VersionsUnique, CopiesDelivered,
                      NumberedByPrimary, Orderly, Quiet,
                      NEW n \in Replica, NEW r \in Replica
               PROVE  store[n] = store[r]
    BY DEF PrimaryConverges, ReplicasConverge, Counting
  <2>1. /\ crashes = 0 /\ timeouts = 0 /\ ~ overlapped
        /\ n \in Node /\ r \in Node
    BY ReplicaFacts DEF NumberedByPrimary, Orderly
  <2>2. ASSUME NEW i \in Replica, NEW h \in Replica, store[i] # None
        PROVE  Holds(h, store[i].ver)
    <3>1. PICK k \in Job : job[k].at \in Replica /\ job[k].ver = store[i].ver
      BY <2>1, <2>2, EntryJob, ReplicaFacts
    <3>2. job[k].phase # "storing" /\ \A m \in msgs : m.type \notin Copying
      BY DEF Quiet, Copying, Storing
    <3>3. QED BY <2>1, <3>1, <3>2 DEF CopiesDelivered, Copying
  <2>3. CASE store[n] = None
    BY <2>2, <2>3 DEF Holds
  <2>4. CASE store[n] # None
    <3>1. store[r] # None /\ store[r].ver >= store[n].ver
      BY <2>2, <2>4 DEF Holds
    <3>2. store[n].ver >= store[r].ver
      BY <2>2, <3>1 DEF Holds
    <3>3. store[n].ver \in Nat /\ store[r].ver \in Nat
      BY <2>1, <2>4, <3>1, NodeFacts
    <3>4. store[n].ver = store[r].ver
      BY <3>1, <3>2, <3>3
    <3>5. store[n].val = store[r].val
      BY <2>1, <2>4, <3>1, <3>4, UniqueNames DEF VersionNamesWrite
    <3>6. /\ store[n] \in [ver : Nat, val : Write]
          /\ store[r] \in [ver : Nat, val : Write]
      BY <2>1, <2>4, <3>1 DEF Structure, TypeOK
    <3>7. QED BY <3>4, <3>5, <3>6
  <2>5. QED BY <2>3, <2>4
<1>2. QED BY <1>1, AlwaysDelivered, PTL
=============================================================================
