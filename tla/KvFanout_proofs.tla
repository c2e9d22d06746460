-------------------------- MODULE KvFanout_proofs --------------------------
(***************************************************************************)
(* Theorems about the replicated operations over shared connections, for   *)
(* every set of nodes, clients and replicas, and every op_timeout, quorum  *)
(* and number of requests.                                                 *)
(***************************************************************************)
EXTENDS KvFanout, Data_proofs

(***************************************************************************)
(* The inductive invariant.                                                *)
(***************************************************************************)

\* An idle task has no call, and only a get has replicas still to try.  A call
\* is to another node; its age starts at zero and is never past its timeout.
JobOK(t) ==
  /\ asks[t] \subseteq Replica \ {NodeOf(t)}
  /\ job[t] = "none" => asks[t] = {}
  /\ job[t] # "get" => todo[t] = <<>>
  /\ IsInjective(todo[t])
  /\ asks[t] = {} => age[t] = 0
  /\ age[t] =< OpTimeout

Structure == TypeOK /\ \A t \in Task : JobOK(t)

\* The other replicas that the get of client c has tried or is trying.
Tried(c) == (Replica \ ToSet(todo[c])) \ {At[c]}

\* A put or delete has waited as long as its calls, a get one op_timeout for
\* each replica tried before and as long as its call.
ElapsedOK(c) ==
  /\ job[c] = "none" => elapsed[c] = 0
  /\ job[c] # "get" => elapsed[c] =< IF asks[c] = {} THEN OpTimeout ELSE age[c]
  /\ job[c] = "get" =>
       IF asks[c] = {}
         THEN elapsed[c] =< OpTimeout * Cardinality(Tried(c))
         ELSE elapsed[c] + OpTimeout =< OpTimeout * Cardinality(Tried(c)) + age[c]

\* Task t has written a request to l.
Sends(t, l) == NodeOf(t) = l[1] /\ l[2] \in sent[t]

\* Where the request of a call is: in the stream, with the connection task,
\* answered; or nowhere, when nobody calls.
Quiet(l) == requests[l] = <<>> /\ job[l] = "none" /\ responses[l] = <<>>

OnItsWay(l, op) ==
  requests[l] = <<op>> /\ job[l] = "none" /\ responses[l] = <<>>

InService(l, op) == requests[l] = <<>> /\ job[l] = op /\ responses[l] = <<>>

Answered(l, op) ==
  /\ requests[l] = <<>> /\ job[l] = "none"
  /\ Len(responses[l]) = 1
  /\ Head(responses[l]).op = op
  /\ op = "replicate" => Head(responses[l]).ok

\* A connection carries the request of the task that holds its mutex and
\* nothing else.
FlightOK(l) ==
  /\ (\A t \in Task : ~ Sends(t, l)) => Quiet(l)
  /\ \A t \in Task : Sends(t, l) =>
       /\ Head(queue[l]) = t
       /\ \/ OnItsWay(l, Wire(job[t]))
          \/ InService(l, Wire(job[t]))
          \/ Answered(l, Wire(job[t]))

\* Until a call times out, every call of a put ends in an acknowledgement, and
\* a Replicate is always acknowledged.
AcksOK(t) ==
  /\ job[t] = "put" => good[t] + Cardinality(asks[t]) = Len(Replicas)
  /\ job[t] = "replicate" => good[t] = 1 /\ asks[t] = {}

\* Every get that runs in a task of S has found the key or will look further,
\* and so will the gets that run at the other end of its calls.
Sure(S) ==
  \A t \in S : job[t] = "get" =>
    /\ good[t] > 0 \/ asks[t] # {} \/ todo[t] # <<>>
    /\ \A n \in sent[t] :
         /\ InService(To(t, n), "get") => To(t, n) \in S
         /\ Answered(To(t, n), "get") => Head(responses[To(t, n)]).ok

\* While every replica stores the key, the get of client c and the gets that
\* it caused began after they all did.
GetOK(c) ==
  stored[c] /\ job[c] = "get" => \E S \in SUBSET Task : c \in S /\ Sure(S)

StoredOK(c) == stored[c] => \A r \in Replica : has[r]

Elapsed == \A c \in Client : ElapsedOK(c)

Flights == \A l \in Link : FlightOK(l)
Acks == \A t \in Task : AcksOK(t)
Stores == \A c \in Client : StoredOK(c)
Gets == \A c \in Client : GetOK(c)

\* What holds as long as no call has timed out.
Calm == Flights /\ Acks /\ Stores /\ Gets

\* The inductive invariant.
IInv ==
  /\ Structure
  /\ Elapsed
  /\ timedOut \/ Calm
  /\ RightUntilTimeout

(***************************************************************************)
(* Tasks, connections and calls.                                           *)
(***************************************************************************)

LEMMA Places ==
  /\ Replica \subseteq Node /\ IsFiniteSet(Replica)
  /\ \A t \in Task : NodeOf(t) \in Node
  /\ \A l \in Link : /\ l \in Task /\ l \notin Client
                     /\ l[1] \in Node /\ l[2] \in Replica /\ l[1] # l[2]
                     /\ NodeOf(l) = l[2] /\ l = <<l[1], l[2]>>
  /\ \A t \in Task : \A n \in Replica \ {NodeOf(t)} :
       /\ To(t, n) \in Link
       /\ To(t, n)[1] = NodeOf(t) /\ To(t, n)[2] = n
  /\ \A c \in Client : c \in Task /\ NodeOf(c) = At[c]
  <1>1. Replica \subseteq Node
    BY ReplicaAssumption DEF Replica, ToSet
  <1>2. IsFiniteSet(Replica)
    BY <1>1, ReplicaAssumption, FS_Subset
  <1>3. \A l \in Link : /\ l \in Task /\ l \notin Client
                        /\ l[1] \in Node /\ l[2] \in Replica /\ l[1] # l[2]
                        /\ NodeOf(l) = l[2] /\ l = <<l[1], l[2]>>
    BY ClientAssumption DEF Link, Task, NodeOf
  <1>4. \A c \in Client : c \in Task /\ NodeOf(c) = At[c] /\ At[c] \in Node
    BY ClientAssumption DEF Task, NodeOf
  <1>5. \A t \in Task : NodeOf(t) \in Node
    BY <1>1, <1>3, <1>4 DEF Task
  <1>6. ASSUME NEW t \in Task, NEW n \in Replica \ {NodeOf(t)}
        PROVE  /\ To(t, n) \in Link
               /\ To(t, n)[1] = NodeOf(t) /\ To(t, n)[2] = n
    BY <1>1, <1>5 DEF To, Link
  <1> QED
    BY <1>1, <1>2, <1>3, <1>4, <1>5, <1>6

\* A task whose node starts calls joins the queue of each connection.
LEMMA Asking ==
  ASSUME Structure, NEW t \in Task, asks[t] = {},
         NEW S \in SUBSET (Replica \ {NodeOf(t)}), Ask(t, S)
  PROVE  /\ queue' \in [Link -> Seq(Task)]
         /\ asks' \in [Task -> SUBSET Replica] /\ age' \in [Task -> Nat]
         /\ \A l \in Link : /\ QueueOK(l)'
                            /\ queue[l] # <<>> => Head(queue'[l]) = Head(queue[l])
  <1>1. /\ asks' \in [Task -> SUBSET Replica] /\ age' \in [Task -> Nat]
        /\ asks'[t] = S /\ \A u \in Task \ {t} : asks'[u] = asks[u]
    BY DEF Ask, Structure, TypeOK
  <1>2. ASSUME NEW l \in Link
        PROVE  /\ queue'[l] \in Seq(Task) /\ QueueOK(l)'
               /\ queue[l] # <<>> => Head(queue'[l]) = Head(queue[l])
    <2>1. /\ queue[l] \in Seq(Task) /\ IsInjective(queue[l])
          /\ ToSet(queue[l]) = {u \in Task : NodeOf(u) = l[1] /\ l[2] \in asks[u]}
          /\ t \notin ToSet(queue[l])
      BY DEF Structure, TypeOK, QueueOK
    <2>2. CASE l[1] = NodeOf(t) /\ l[2] \in S
      <3>1. queue'[l] = Append(queue[l], t)
        BY <2>2 DEF Ask
      <3>2. /\ queue'[l] \in Seq(Task) /\ IsInjective(queue'[l])
            /\ ToSet(queue'[l]) = ToSet(queue[l]) \cup {t}
            /\ queue[l] # <<>> => Head(queue'[l]) = Head(queue[l])
        BY <2>1, <3>1, Joining
      <3>3. ToSet(queue'[l]) = {u \in Task : NodeOf(u) = l[1] /\ l[2] \in asks'[u]}
        BY <1>1, <2>1, <2>2, <3>2
      <3> QED
        BY <3>2, <3>3 DEF QueueOK
    <2>3. CASE ~ (l[1] = NodeOf(t) /\ l[2] \in S)
      <3>1. queue'[l] = queue[l]
        BY <2>3 DEF Ask
      <3>2. ToSet(queue'[l]) = {u \in Task : NodeOf(u) = l[1] /\ l[2] \in asks'[u]}
        BY <1>1, <2>1, <2>3, <3>1
      <3> QED
        BY <2>1, <3>1, <3>2 DEF QueueOK
    <2> QED
      BY <2>2, <2>3
  <1>3. queue' \in [Link -> Seq(Task)]
    BY <1>2 DEF Ask
  <1> QED
    BY <1>1, <1>2, <1>3

\* A call that is over leaves no place in the queue behind.
LEMMA HangingUp ==
  ASSUME Structure, NEW t \in Task, NEW n \in asks[t], HangUp(t, n)
  PROVE  /\ queue' \in [Link -> Seq(Task)]
         /\ asks' \in [Task -> SUBSET Replica] /\ age' \in [Task -> Nat]
         /\ sent' \in [Task -> SUBSET Replica]
         /\ \A u \in Task : sent'[u] \subseteq asks'[u] /\ asks'[u] \subseteq asks[u]
         /\ \A l \in Link : /\ QueueOK(l)'
                            /\ l # To(t, n) => queue'[l] = queue[l]
         /\ To(t, n) \in Link
  <1>1. PICK k \in Link : k = To(t, n) /\ k[1] = NodeOf(t) /\ k[2] = n
    BY Places DEF Structure, JobOK
  <1>2. /\ asks' \in [Task -> SUBSET Replica] /\ age' \in [Task -> Nat]
        /\ sent' \in [Task -> SUBSET Replica]
        /\ asks'[t] = asks[t] \ {n} /\ \A u \in Task \ {t} : asks'[u] = asks[u]
        /\ sent'[t] = sent[t] \ {n} /\ \A u \in Task \ {t} : sent'[u] = sent[u]
    BY DEF HangUp, Structure, TypeOK
  <1>3. \A u \in Task : sent'[u] \subseteq asks'[u] /\ asks'[u] \subseteq asks[u]
    BY <1>2 DEF Structure, TypeOK
  <1>4. /\ queue[k] \in Seq(Task) /\ IsInjective(queue[k])
        /\ ToSet(queue[k]) = {u \in Task : NodeOf(u) = k[1] /\ k[2] \in asks[u]}
        /\ t \in ToSet(queue[k])
    BY <1>1 DEF Structure, TypeOK, QueueOK
  <1>5. /\ queue'[k] = Leave(queue[k], t)
        /\ DOMAIN queue' = Link
        /\ queue' = [queue EXCEPT ![k] = queue'[k]]
        /\ \A l \in Link \ {k} : queue'[l] = queue[l]
    BY <1>1 DEF HangUp, Structure, TypeOK
  <1>6. /\ queue'[k] \in Seq(Task) /\ IsInjective(queue'[k])
        /\ ToSet(queue'[k]) = ToSet(queue[k]) \ {t}
    BY <1>4, <1>5, Leaving
  <1>7. ASSUME NEW l \in Link
        PROVE  queue'[l] \in Seq(Task) /\ QueueOK(l)'
    <2>1. CASE l = k
      <3>1. ToSet(queue'[l]) = {u \in Task : NodeOf(u) = l[1] /\ l[2] \in asks'[u]}
        BY <1>1, <1>2, <1>4, <1>6, <2>1
      <3> QED
        BY <1>6, <2>1, <3>1 DEF QueueOK
    <2>2. CASE l # k
      <3>1. /\ IsInjective(queue[l]) /\ queue[l] \in Seq(Task)
            /\ ToSet(queue[l]) = {u \in Task : NodeOf(u) = l[1] /\ l[2] \in asks[u]}
        BY DEF Structure, TypeOK, QueueOK
      <3>2. ~ (NodeOf(t) = l[1] /\ l[2] = n)
        BY <1>1, <2>2, Places DEF To
      <3>3. queue'[l] = queue[l]
        BY <1>5, <2>2
      <3>4. \A u \in Task : NodeOf(u) = l[1] =>
              (l[2] \in asks'[u] <=> l[2] \in asks[u])
        BY <1>2, <3>2
      <3> QED
        BY <3>1, <3>3, <3>4 DEF QueueOK
    <2> QED
      BY <2>1, <2>2
  <1>8. queue' \in [Link -> Seq(Task)]
    BY <1>5, <1>7 DEF Structure, TypeOK
  <1> QED
    BY <1>1, <1>2, <1>3, <1>5, <1>7, <1>8

\* The four handlers.
LEMMA Handlers ==
  ASSUME NEW t, NEW op, Handle(t, op)
  PROVE  /\ op = "put" => Spread(t, TRUE, 1)
         /\ op = "delete" => Spread(t, FALSE, IF has[NodeOf(t)] THEN 1 ELSE 0)
         /\ op = "replicate" =>
              /\ Store(NodeOf(t), TRUE)
              /\ good' = [good EXCEPT ![t] = 1]
              /\ todo' = [todo EXCEPT ![t] = <<>>]
              /\ Ask(t, {})
         /\ op = "get" =>
              /\ todo' = [todo EXCEPT ![t] = Replicas]
              /\ good' = [good EXCEPT ![t] = 0]
              /\ stored' = [c \in Client |->
                   IF c = t THEN ~ timedOut /\ \A r \in Replica : has[r]
                            ELSE stored[c]]
              /\ Ask(t, {})
              /\ has' = has
  <1>1. CASE op = "put"
    BY <1>1 DEF Handle
  <1>2. CASE op = "delete"
    BY <1>2 DEF Handle
  <1>3. CASE op = "replicate"
    BY <1>3 DEF Handle
  <1>4. CASE op = "get"
    BY <1>4 DEF Handle
  <1> QED
    BY <1>1, <1>2, <1>3, <1>4

LEMMA HandleStructure ==
  ASSUME Structure, NEW t \in Task, job[t] = "none",
         NEW op \in Op \cup {"replicate"}, Handle(t, op)
  PROVE  /\ queue' \in [Link -> Seq(Task)]
         /\ asks' \in [Task -> SUBSET Replica] /\ age' \in [Task -> Nat]
         /\ \A l \in Link : /\ QueueOK(l)'
                            /\ queue[l] # <<>> => Head(queue'[l]) = Head(queue[l])
         /\ has' \in [Node -> BOOLEAN] /\ stored' \in [Client -> BOOLEAN]
         /\ good' \in [Task -> Nat] /\ todo' \in [Task -> Seq(Replica)]
         /\ job' \in [Task -> Op \cup {"none", "replicate"}]
         /\ \A u \in Task : JobOK(u)' /\ sent'[u] \subseteq asks'[u]
         /\ sent' = sent /\ sent[t] = {} /\ asks[t] = {}
  <1>1. /\ asks[t] = {} /\ sent[t] = {} /\ age[t] = 0 /\ NodeOf(t) \in Node
        /\ \A u \in Task : JobOK(u)
    BY Places DEF Structure, TypeOK, JobOK
  <1>2. /\ job' \in [Task -> Op \cup {"none", "replicate"}]
        /\ job'[t] = op /\ \A u \in Task \ {t} : job'[u] = job[u]
    BY DEF Handle, Structure, TypeOK
  <1>3. PICK S \in SUBSET (Replica \ {NodeOf(t)}) : Ask(t, S)
    BY Handlers DEF Spread, Op
  <1>4. /\ queue' \in [Link -> Seq(Task)]
        /\ asks' \in [Task -> SUBSET Replica] /\ age' \in [Task -> Nat]
        /\ \A l \in Link : /\ QueueOK(l)'
                           /\ queue[l] # <<>> => Head(queue'[l]) = Head(queue[l])
    BY <1>1, <1>3, Asking
  <1>5. /\ has' \in [Node -> BOOLEAN] /\ stored' \in [Client -> BOOLEAN]
    <2>1. \/ has' = has
          \/ \E v \in BOOLEAN : has' = [has EXCEPT ![NodeOf(t)] = v]
      BY Handlers DEF Spread, Store, Op
    <2>2. \/ stored' = stored
          \/ stored' = [c \in Client |-> FALSE]
          \/ stored' = [c \in Client |->
               IF c = t THEN ~ timedOut /\ \A r \in Replica : has[r]
                        ELSE stored[c]]
      BY Handlers DEF Spread, Store, Op
    <2>3. has \in [Node -> BOOLEAN] /\ stored \in [Client -> BOOLEAN]
      BY DEF Structure, TypeOK
    <2> QED
      BY <2>1, <2>2, <2>3
  <1>6. Replicas \in Seq(Replica) /\ IsInjective(Replicas)
    BY ReplicaAssumption DEF Replica, ToSet
  <1>7. /\ good' \in [Task -> Nat]
        /\ todo' \in [Task -> Seq(Replica)]
        /\ todo'[t] = IF op = "get" THEN Replicas ELSE <<>>
        /\ \A u \in Task \ {t} : todo'[u] = todo[u]
    <2>1. \E g \in Nat : good' = [good EXCEPT ![t] = g]
      BY Handlers DEF Spread, Op
    <2>2. todo' = [todo EXCEPT ![t] = IF op = "get" THEN Replicas ELSE <<>>]
      BY Handlers DEF Spread, Op
    <2>3. good \in [Task -> Nat] /\ todo \in [Task -> Seq(Replica)]
      BY DEF Structure, TypeOK
    <2>4. <<>> \in Seq(Replica)
      OBVIOUS
    <2>5. (IF op = "get" THEN Replicas ELSE <<>>) \in Seq(Replica)
      BY <1>6, <2>4
    <2> QED
      BY <2>1, <2>2, <2>3, <2>5
  <1>8. /\ asks'[t] = S /\ \A u \in Task \ {t} : asks'[u] = asks[u]
        /\ age'[t] = 0 /\ \A u \in Task \ {t} : age'[u] = age[u]
    BY <1>3 DEF Ask, Structure, TypeOK
  <1>9. ASSUME NEW u \in Task
        PROVE  JobOK(u)'
    <2>1. CASE u = t
      <3>1. IsInjective(todo'[t])
        BY <1>6, <1>7 DEF IsInjective
      <3> QED
        BY <1>2, <1>7, <1>8, <2>1, <3>1, ParameterAssumption DEF JobOK, Op
    <2>2. CASE u # t
      BY <1>1, <1>2, <1>7, <1>8, <2>2 DEF JobOK
    <2> QED
      BY <2>1, <2>2
  <1>10. sent' = sent
    BY DEF Handle
  <1>11. \A u \in Task : sent'[u] \subseteq asks'[u]
    BY <1>1, <1>8, <1>10 DEF Structure, TypeOK
  <1> QED
    BY <1>1, <1>2, <1>4, <1>5, <1>7, <1>9, <1>10, <1>11

(***************************************************************************)
(* The structure is invariant.                                             *)
(***************************************************************************)

LEMMA InitStructure == Init => Structure
  <1> SUFFICES ASSUME Init
               PROVE  Structure
    OBVIOUS
  <1>1. PICK S \in Stored : has = [n \in Node |-> n \in S]
    BY DEF Init
  <1>2. has \in [Node -> BOOLEAN]
    BY <1>1
  <1>3. /\ requests \in [Link -> Seq(Op \cup {"replicate"})]
        /\ responses \in [Link -> Seq(Response)]
        /\ queue \in [Link -> Seq(Task)]
        /\ todo \in [Task -> Seq(Replica)]
    BY DEF Init
  <1>4. /\ job \in [Task -> Op \cup {"none", "replicate"}]
        /\ good \in [Task -> Nat]
        /\ age \in [Task -> Nat] /\ elapsed \in [Client -> Nat]
        /\ made \in [Client -> Nat] /\ result \in [Client -> Response]
        /\ served \in Nat
        /\ asks \in [Task -> SUBSET Replica] /\ sent \in [Task -> SUBSET Replica]
        /\ timedOut \in BOOLEAN /\ stored \in [Client -> BOOLEAN]
        /\ \A t \in Task : sent[t] \subseteq asks[t]
    BY DEF Init, NoAnswer, Response, Op
  <1>5. \A l \in Link : QueueOK(l)
    BY DEF Init, QueueOK, IsInjective, ToSet
  <1>6. \A t \in Task : JobOK(t)
    BY ParameterAssumption DEF Init, JobOK, IsInjective
  <1> QED
    BY <1>2, <1>3, <1>4, <1>5, <1>6 DEF Structure, TypeOK

LEMMA ClientCallsStructure ==
  ASSUME Structure, NEW c \in Client, ClientCalls(c)
  PROVE  Structure'
  <1>1. PICK op \in OpsOf[c] : Handle(c, op)
    BY DEF ClientCalls
  <1>2. c \in Task /\ job[c] = "none" /\ op \in Op
    BY ClientAssumption DEF ClientCalls, Task
  <1>3. /\ made' \in [Client -> Nat] /\ result' \in [Client -> Response]
        /\ requests' = requests /\ responses' = responses /\ elapsed' = elapsed
        /\ served' = served /\ timedOut' = timedOut
    BY DEF ClientCalls, Structure, TypeOK, NoAnswer, Response
  <1> QED
    BY <1>1, <1>2, <1>3, HandleStructure DEF Structure, TypeOK

LEMMA ServeStructure ==
  ASSUME Structure, NEW l \in Link, Serve(l)
  PROVE  Structure'
  <1> DEFINE op == Head(requests[l])
  <1>1. /\ l \in Task /\ job[l] = "none" /\ op \in Op \cup {"replicate"}
        /\ Handle(l, op)
    BY DEF Serve, Task, Structure, TypeOK
  <1>2. /\ requests' \in [Link -> Seq(Op \cup {"replicate"})]
        /\ made' = made /\ result' = result /\ responses' = responses
        /\ elapsed' = elapsed /\ served' \in Nat /\ timedOut' = timedOut
    <2>1. Tail(requests[l]) \in Seq(Op \cup {"replicate"})
      BY DEF Serve, Structure, TypeOK
    <2> QED
      BY <2>1 DEF Serve, Structure, TypeOK
  <1> HIDE DEF op
  <1> QED
    BY <1>1, <1>2, HandleStructure DEF Structure, TypeOK

LEMMA TryNextStructure ==
  ASSUME Structure, NEW t \in Task, TryNext(t)
  PROVE  Structure'
  <1> DEFINE r == Head(todo[t])
  <1>1. /\ todo[t] \in Seq(Replica) /\ todo[t] # <<>> /\ IsInjective(todo[t])
        /\ asks[t] = {} /\ good[t] = 0 /\ job[t] = "get"
    BY DEF TryNext, Structure, TypeOK, JobOK
  <1>2. /\ r \in Replica /\ Tail(todo[t]) \in Seq(Replica)
        /\ IsInjective(Tail(todo[t]))
    BY <1>1, Advancing
  <1>3. /\ todo' \in [Task -> Seq(Replica)] /\ todo'[t] = Tail(todo[t])
        /\ \A u \in Task \ {t} : todo'[u] = todo[u]
    BY <1>2 DEF TryNext, Structure, TypeOK
  <1>4. /\ UNCHANGED <<has, requests, responses, job, sent, elapsed, made,
                       result, served, timedOut, stored>>
    BY DEF TryNext, clients
  <1>5. CASE r = NodeOf(t)
    <2>1. /\ queue' = queue /\ asks' = asks /\ age' = age
          /\ good' = [good EXCEPT ![t] = IF has[r] THEN 1 ELSE 0]
      BY <1>5 DEF TryNext
    <2>4. good' \in [Task -> Nat]
      BY <2>1 DEF Structure, TypeOK
    <2>2. \A u \in Task : JobOK(u)'
      BY <1>1, <1>2, <1>3, <1>4, <2>1 DEF Structure, JobOK
    <2>3. \A l \in Link : QueueOK(l)'
      BY <2>1 DEF Structure, TypeOK, QueueOK
    <2> QED
      BY <1>3, <1>4, <2>1, <2>2, <2>3, <2>4 DEF Structure, TypeOK
  <1>6. CASE r # NodeOf(t)
    <2>1. Ask(t, {r}) /\ good' = good /\ {r} \in SUBSET (Replica \ {NodeOf(t)})
      BY <1>2, <1>6 DEF TryNext
    <2>2. /\ queue' \in [Link -> Seq(Task)]
          /\ asks' \in [Task -> SUBSET Replica] /\ age' \in [Task -> Nat]
          /\ \A l \in Link : QueueOK(l)'
      BY <1>1, <2>1, Asking
    <2>3. /\ asks'[t] = {r} /\ \A u \in Task \ {t} : asks'[u] = asks[u]
          /\ age'[t] = 0 /\ \A u \in Task \ {t} : age'[u] = age[u]
      BY <2>1 DEF Ask, Structure, TypeOK
    <2>4. \A u \in Task : JobOK(u)'
      BY <1>1, <1>2, <1>3, <1>4, <2>1, <2>3, ParameterAssumption
      DEF Structure, JobOK
    <2>5. \A u \in Task : sent'[u] \subseteq asks'[u]
      BY <1>1, <1>4, <2>3 DEF Structure, TypeOK
    <2> QED
      BY <1>3, <1>4, <2>1, <2>2, <2>4, <2>5 DEF Structure, TypeOK
  <1> QED
    BY <1>5, <1>6

LEMMA SendStructure ==
  ASSUME Structure, NEW t \in Task, NEW n \in Node, Send(t, n)
  PROVE  Structure'
  <1>1. PICK l \in Link : l = To(t, n)
    BY Places DEF Send, Structure, TypeOK, JobOK
  <1>2. /\ n \in asks[t] /\ n \in Replica /\ job[t] # "none"
    BY DEF Send, Structure, TypeOK, JobOK
  <1>3. Wire(job[t]) \in Op \cup {"replicate"}
    BY <1>2 DEF Wire, Structure, TypeOK, Op
  <1>4. Append(requests[l], Wire(job[t])) \in Seq(Op \cup {"replicate"})
    BY <1>3 DEF Structure, TypeOK
  <1>5. requests' \in [Link -> Seq(Op \cup {"replicate"})]
    BY <1>1, <1>4 DEF Send, Structure, TypeOK
  <1>6. /\ sent' \in [Task -> SUBSET Replica]
        /\ \A u \in Task : sent'[u] \subseteq asks[u]
    BY <1>2 DEF Send, Structure, TypeOK
  <1>7. UNCHANGED <<has, queue, responses, job, todo, good, asks, age, elapsed,
                    made, result, served, timedOut, stored>>
    BY DEF Send, clients
  <1>8. (\A l1 \in Link : QueueOK(l1)') /\ \A u \in Task : JobOK(u)'
    BY <1>7 DEF Structure, TypeOK, QueueOK, JobOK
  <1> QED
    BY <1>5, <1>6, <1>7, <1>8 DEF Structure, TypeOK

\* A call that is over disturbs no job.
LEMMA HangUpJobs ==
  ASSUME Structure, NEW t \in Task, NEW n \in asks[t], HangUp(t, n),
         job' = job, todo' = todo
  PROVE  \A u \in Task : JobOK(u)'
  <1>1. /\ asks'[t] = asks[t] \ {n} /\ \A u \in Task \ {t} : asks'[u] = asks[u]
        /\ age'[t] = (IF asks[t] = {n} THEN 0 ELSE age[t])
        /\ \A u \in Task \ {t} : age'[u] = age[u]
    BY DEF HangUp, Structure, TypeOK
  <1> QED
    BY <1>1, ParameterAssumption DEF Structure, TypeOK, JobOK

LEMMA ReceiveStructure ==
  ASSUME Structure, NEW t \in Task, NEW n \in Node, Receive(t, n)
  PROVE  Structure'
  <1>1. HangUp(t, n) /\ n \in asks[t]
    BY DEF Receive, Structure, TypeOK
  <1>2. PICK l \in Link : l = To(t, n)
    BY <1>1, HangingUp
  <1>3. /\ responses' \in [Link -> Seq(Response)]
        /\ good' \in [Task -> Nat]
    <2>1. Tail(responses[l]) \in Seq(Response)
      BY <1>2 DEF Receive, Structure, TypeOK
    <2>2. responses' = [responses EXCEPT ![l] = Tail(responses[l])]
      BY <1>2 DEF Receive
    <2>3. good' = good \/ good' = [good EXCEPT ![t] = good[t] + 1]
      BY DEF Receive
    <2>4. good \in [Task -> Nat] /\ responses \in [Link -> Seq(Response)]
      BY DEF Structure, TypeOK
    <2>5. good' \in [Task -> Nat]
      BY <2>3, <2>4
    <2> QED
      BY <2>1, <2>2, <2>4, <2>5
  <1>4. UNCHANGED <<has, requests, job, todo, elapsed, made, result, served,
                    timedOut, stored>>
    BY DEF Receive, clients
  <1>5. \A u \in Task : JobOK(u)'
    BY <1>1, <1>4, HangUpJobs
  <1> QED
    BY <1>1, <1>3, <1>4, <1>5, HangingUp DEF Structure, TypeOK

LEMMA TimeOutStructure ==
  ASSUME Structure, NEW t \in Task, NEW n \in Node, TimeOut(t, n)
  PROVE  Structure'
  <1>1. HangUp(t, n) /\ n \in asks[t]
    BY DEF TimeOut
  <1>2. UNCHANGED <<has, requests, responses, job, todo, good, elapsed, made,
                    result, served>>
    BY DEF TimeOut, clients
  <1>3. timedOut' \in BOOLEAN /\ stored' \in [Client -> BOOLEAN]
    BY DEF TimeOut
  <1>4. \A u \in Task : JobOK(u)'
    BY <1>1, <1>2, HangUpJobs
  <1> QED
    BY <1>1, <1>2, <1>3, <1>4, HangingUp DEF Structure, TypeOK

LEMMA ConcludeStructure ==
  ASSUME Structure, NEW t \in Task, Conclude(t)
  PROVE  Structure'
  <1>1. asks[t] = {} /\ job[t] # "none"
    BY DEF Conclude, Over
  <1>2. Answer(t) \in Response
    BY DEF Answer, Response, Structure, TypeOK
  <1>3. /\ job' \in [Task -> Op \cup {"none", "replicate"}]
        /\ good' \in [Task -> Nat] /\ todo' \in [Task -> Seq(Replica)]
        /\ todo'[t] = <<>> /\ job'[t] = "none"
        /\ \A u \in Task \ {t} : todo'[u] = todo[u] /\ job'[u] = job[u]
    BY DEF Conclude, Structure, TypeOK
  <1>4. UNCHANGED <<has, queue, requests, asks, sent, age, made, served,
                    timedOut, stored>>
    BY DEF Conclude, calls
  <1>5. \A u \in Task : JobOK(u)'
    <2> SUFFICES ASSUME NEW u \in Task
                 PROVE  JobOK(u)'
      OBVIOUS
    <2>1. JobOK(u)
      BY DEF Structure
    <2>2. CASE u = t
      <3>1. IsInjective(todo'[u])
        BY <1>3, <2>2 DEF IsInjective
      <3> QED
        BY <1>1, <1>3, <1>4, <2>1, <2>2, <3>1 DEF JobOK
    <2>3. CASE u # t
      BY <1>3, <1>4, <2>1, <2>3 DEF JobOK
    <2> QED
      BY <2>2, <2>3
  <1>6. \A l \in Link : QueueOK(l)'
    BY <1>4 DEF Structure, TypeOK, QueueOK
  <1>7. CASE t \in Client
    <2>1. /\ result' = [result EXCEPT ![t] = Answer(t)]
          /\ elapsed' = [elapsed EXCEPT ![t] = 0]
          /\ responses' = responses
      BY <1>7 DEF Conclude
    <2>2. result' \in [Client -> Response] /\ elapsed' \in [Client -> Nat]
      BY <1>2, <2>1 DEF Structure, TypeOK
    <2> QED
      BY <1>3, <1>4, <1>5, <1>6, <2>1, <2>2 DEF Structure, TypeOK
  <1>8. CASE t \notin Client
    <2>1. t \in Link
      BY <1>8 DEF Task
    <2>2. Append(responses[t], Answer(t)) \in Seq(Response)
      BY <1>2, <2>1 DEF Structure, TypeOK
    <2>3. /\ result' = result /\ elapsed' = elapsed
          /\ responses' = [responses EXCEPT ![t] = Append(responses[t], Answer(t))]
      BY <1>8 DEF Conclude
    <2>4. responses' \in [Link -> Seq(Response)]
      <3> HIDE DEF Answer
      <3> QED
        BY <2>1, <2>2, <2>3 DEF Structure, TypeOK
    <2> QED
      BY <1>3, <1>4, <1>5, <1>6, <2>3, <2>4 DEF Structure, TypeOK
  <1> QED
    BY <1>7, <1>8

LEMMA TickStructure ==
  ASSUME Structure, Tick
  PROVE  Structure'
  <1>1. /\ age' \in [Task -> Nat] /\ elapsed' \in [Client -> Nat]
        /\ \A t \in Task : age'[t] = IF asks[t] # {} THEN age[t] + 1 ELSE age[t]
    BY DEF Tick, Aging, Structure, TypeOK
  <1>2. UNCHANGED <<has, queue, requests, responses, job, todo, good, asks,
                    sent, made, result, served, timedOut, stored>>
    BY DEF Tick, streams, clients
  <1>3. \A t \in Task : asks[t] # {} => age[t] < OpTimeout
    <2>1. \A t \in Task : asks[t] # {} => ~ (age[t] >= OpTimeout)
      BY DEF Tick, Due
    <2>2. \A t \in Task : age[t] \in Nat /\ OpTimeout \in Nat
      BY ParameterAssumption DEF Structure, TypeOK
    <2> QED
      BY <2>1, <2>2
  <1>4. \A t \in Task : JobOK(t)'
    <2> SUFFICES ASSUME NEW t \in Task
                 PROVE  JobOK(t)'
      OBVIOUS
    <2>1. age'[t] =< OpTimeout /\ (asks'[t] = {} => age'[t] = 0)
      <3>1. /\ age[t] \in Nat /\ OpTimeout \in Nat /\ age[t] =< OpTimeout
            /\ asks[t] = {} => age[t] = 0
        BY ParameterAssumption DEF Structure, TypeOK, JobOK
      <3> QED
        BY <1>1, <1>2, <1>3, <3>1
    <2> QED
      BY <1>2, <2>1 DEF Structure, JobOK
  <1>5. \A l \in Link : QueueOK(l)'
    BY <1>2 DEF Structure, TypeOK, QueueOK
  <1> QED
    BY <1>1, <1>2, <1>4, <1>5 DEF Structure, TypeOK

LEMMA StutterStructure ==
  ASSUME Structure, UNCHANGED vars
  PROVE  Structure'
  BY DEF vars, streams, calls, clients, Structure, TypeOK, QueueOK, JobOK

\* The steps that are somebody's.
LEMMA Steps ==
  ASSUME Next
  PROVE  \/ \E c \in Client : ClientCalls(c)
         \/ \E l \in Link : Serve(l)
         \/ \E t \in Task : \/ TryNext(t)
                            \/ \E n \in Node : Send(t, n)
                            \/ \E n \in Node : Receive(t, n)
                            \/ \E n \in Node : TimeOut(t, n)
                            \/ Conclude(t)
         \/ Tick
  BY Zenon DEF Next, Work

LEMMA NextStructure ==
  ASSUME Structure, [Next]_vars
  PROVE  Structure'
  BY Steps, ClientCallsStructure, ServeStructure, TryNextStructure,
     SendStructure, ReceiveStructure, TimeOutStructure, ConcludeStructure,
     TickStructure, StutterStructure

\* The types, and that each call has one place in the queue of its connection
\* and a dropped call none (client.rs:44), whatever the nodes, their replicas
\* and what the clients request.
THEOREM TypeCorrect == Spec => []TypeOK
  <1>1. Init => Structure
    BY InitStructure
  <1>2. Structure /\ [Next]_vars => Structure'
    BY NextStructure
  <1>3. Structure => TypeOK
    BY DEF Structure
  <1> QED
    BY <1>1, <1>2, <1>3, PTL DEF Spec

(***************************************************************************)
(* What an action does to a task, and that it leaves the others alone.     *)
(***************************************************************************)

\* Task u has the same job, at the same point.
Same(u) ==
  /\ job'[u] = job[u] /\ todo'[u] = todo[u] /\ good'[u] = good[u]
  /\ asks'[u] = asks[u] /\ sent'[u] = sent[u]

LEMMA HandleJob ==
  ASSUME Structure, NEW t \in Task, job[t] = "none",
         NEW op \in Op \cup {"replicate"}, Handle(t, op)
  PROVE  /\ \A u \in Task \ {t} : Same(u) /\ age'[u] = age[u]
         /\ job'[t] = op /\ sent'[t] = {} /\ age'[t] = 0
         /\ todo'[t] = IF op = "get" THEN Replicas ELSE <<>>
         /\ asks'[t] = IF op \in {"put", "delete"} THEN Replica \ {NodeOf(t)} ELSE {}
         /\ op \in {"put", "replicate"} => good'[t] = 1
         /\ op = "get" => good'[t] = 0
  <1>1. /\ job' = [job EXCEPT ![t] = op] /\ sent' = sent
        /\ sent[t] = {} /\ asks[t] = {}
    BY DEF Handle, Structure, TypeOK, JobOK
  <1>2. /\ todo' = [todo EXCEPT ![t] = IF op = "get" THEN Replicas ELSE <<>>]
        /\ Ask(t, IF op \in {"put", "delete"} THEN Replica \ {NodeOf(t)} ELSE {})
    BY Handlers DEF Spread, Op
  <1>3. PICK g \in Nat : /\ good' = [good EXCEPT ![t] = g]
                         /\ op \in {"put", "replicate"} => g = 1
                         /\ op = "get" => g = 0
    <2>1. CASE op = "put"
      BY <2>1, Handlers DEF Spread
    <2>2. CASE op = "delete"
      BY <2>2, Handlers DEF Spread
    <2>3. CASE op = "replicate"
      BY <2>3, Handlers
    <2>4. CASE op = "get"
      BY <2>4, Handlers
    <2> QED
      BY <2>1, <2>2, <2>3, <2>4 DEF Op
  <1> DEFINE S == IF op \in {"put", "delete"} THEN Replica \ {NodeOf(t)} ELSE {}
  <1>4. /\ asks' = [asks EXCEPT ![t] = S] /\ age' = [age EXCEPT ![t] = 0]
    BY <1>2 DEF Ask
  <1>5. /\ job \in [Task -> Op \cup {"none", "replicate"}]
        /\ todo \in [Task -> Seq(Replica)] /\ good \in [Task -> Nat]
        /\ asks \in [Task -> SUBSET Replica] /\ age \in [Task -> Nat]
    BY DEF Structure, TypeOK
  <1> QED
    BY <1>1, <1>2, <1>3, <1>4, <1>5 DEF Same

LEMMA HangUpJob ==
  ASSUME Structure, NEW t \in Task, NEW n \in asks[t], HangUp(t, n)
  PROVE  /\ \A u \in Task \ {t} : /\ asks'[u] = asks[u] /\ sent'[u] = sent[u]
                                  /\ age'[u] = age[u]
         /\ asks'[t] = asks[t] \ {n} /\ sent'[t] = sent[t] \ {n}
         /\ age'[t] = IF asks[t] = {n} THEN 0 ELSE age[t]
  BY DEF HangUp, Structure, TypeOK

LEMMA TryNextJob ==
  ASSUME Structure, NEW t \in Task, TryNext(t)
  PROVE  LET r == Head(todo[t]) IN
         /\ \A u \in Task \ {t} : Same(u) /\ age'[u] = age[u]
         /\ job'[t] = "get" /\ job[t] = "get" /\ sent'[t] = sent[t] /\ age'[t] = 0
         /\ todo[t] # <<>> /\ todo'[t] = Tail(todo[t])
         /\ asks[t] = {} /\ asks'[t] = IF r = NodeOf(t) THEN {} ELSE {r}
         /\ good[t] = 0
         /\ good'[t] = IF r = NodeOf(t) /\ has[r] THEN 1 ELSE 0
         /\ r \in Replica
         /\ ToSet(todo'[t]) = ToSet(todo[t]) \ {r} /\ r \in ToSet(todo[t])
         /\ ToSet(todo[t]) \subseteq Replica
  <1> DEFINE r == Head(todo[t])
  <1>1. /\ todo[t] \in Seq(Replica) /\ todo[t] # <<>> /\ IsInjective(todo[t])
        /\ asks[t] = {} /\ age[t] = 0 /\ good[t] = 0 /\ job[t] = "get"
    BY DEF TryNext, Structure, TypeOK, JobOK
  <1>2. /\ r \in Replica
        /\ ToSet(Tail(todo[t])) = ToSet(todo[t]) \ {r} /\ r \in ToSet(todo[t])
    BY <1>1, Advancing
  <1>3. ToSet(todo[t]) \subseteq Replica
    BY <1>1 DEF ToSet
  <1>4. /\ todo' = [todo EXCEPT ![t] = Tail(todo[t])]
        /\ job' = job /\ sent' = sent
    BY DEF TryNext
  <1>5. /\ todo \in [Task -> Seq(Replica)] /\ good \in [Task -> Nat]
        /\ asks \in [Task -> SUBSET Replica] /\ age \in [Task -> Nat]
    BY DEF Structure, TypeOK
  <1>6. CASE r = NodeOf(t)
    <2>1. /\ good' = [good EXCEPT ![t] = IF has[r] THEN 1 ELSE 0]
          /\ asks' = asks /\ age' = age
      BY <1>6 DEF TryNext
    <2> QED
      BY <1>1, <1>2, <1>3, <1>4, <1>5, <1>6, <2>1 DEF Same
  <1>7. CASE r # NodeOf(t)
    <2>1. /\ good' = good
          /\ asks' = [asks EXCEPT ![t] = {r}] /\ age' = [age EXCEPT ![t] = 0]
      BY <1>7 DEF TryNext, Ask
    <2> QED
      BY <1>1, <1>2, <1>3, <1>4, <1>5, <1>7, <2>1 DEF Same
  <1> QED
    BY <1>6, <1>7

LEMMA ConcludeJob ==
  ASSUME Structure, NEW t \in Task, Conclude(t)
  PROVE  /\ \A u \in Task \ {t} : Same(u) /\ age'[u] = age[u]
         /\ job[t] # "none" /\ job'[t] = "none"
         /\ asks[t] = {} /\ asks'[t] = {} /\ sent[t] = {} /\ sent'[t] = {}
         /\ todo'[t] = <<>> /\ good'[t] = 0
  BY DEF Conclude, Over, calls, Same, Structure, TypeOK

(***************************************************************************)
(* No request takes longer than its timeouts.                              *)
(***************************************************************************)

LEMMA InitElapsed == Init => Elapsed
  BY ParameterAssumption DEF Init, Elapsed, ElapsedOK, Task

LEMMA ElapsedKept ==
  ASSUME NEW c \in Client, ElapsedOK(c), job'[c] = job[c], todo'[c] = todo[c],
         asks'[c] = asks[c], age'[c] = age[c], elapsed'[c] = elapsed[c]
  PROVE  ElapsedOK(c)'
  BY DEF ElapsedOK, Tried

\* The replicas tried are some of the others, so their number is too.
LEMMA TriedCount ==
  ASSUME NEW c \in Client
  PROVE  /\ IsFiniteSet(Tried(c)) /\ Cardinality(Tried(c)) \in Nat
         /\ IsFiniteSet(Replica \ {At[c]}) /\ Cardinality(Replica \ {At[c]}) \in Nat
         /\ Cardinality(Tried(c)) =< Cardinality(Replica \ {At[c]})
  <1>1. /\ Tried(c) \subseteq Replica \ {At[c]}
        /\ Replica \ {At[c]} \subseteq Replica
    BY DEF Tried
  <1>2. IsFiniteSet(Replica)
    BY Places
  <1> QED
    BY <1>1, <1>2, FS_Subset, FS_CardinalityType

LEMMA Product ==
  ASSUME NEW x \in Nat, NEW k \in Nat, NEW m \in Nat, k =< m
  PROVE  /\ x * k \in Nat /\ x * k =< x * m
         /\ x * (k + 1) = x * k + x
  OBVIOUS

LEMMA ClientCallsElapsed ==
  ASSUME Structure, Elapsed, NEW d \in Client, ClientCalls(d)
  PROVE  Elapsed'
  <1> SUFFICES ASSUME NEW c \in Client
               PROVE  ElapsedOK(c)'
    BY DEF Elapsed
  <1>1. PICK op \in OpsOf[d] : Handle(d, op)
    BY DEF ClientCalls
  <1>2. /\ d \in Task /\ c \in Task /\ job[d] = "none" /\ op \in Op
        /\ elapsed' = elapsed /\ ElapsedOK(c)
    BY ClientAssumption DEF ClientCalls, Task, Elapsed
  <1>3. CASE c # d
    <2>1. Same(c) /\ age'[c] = age[c]
      BY <1>1, <1>2, <1>3, HandleJob
    <2> QED
      BY <1>2, <2>1, ElapsedKept DEF Same
  <1>4. CASE c = d
    <2>1. /\ elapsed'[c] = 0 /\ job'[c] = op /\ age'[c] = 0
          /\ op = "get" => asks'[c] = {}
      BY <1>1, <1>2, <1>4, HandleJob DEF ElapsedOK
    <2>2. 0 =< OpTimeout * Cardinality(Tried(c)')
      <3>1. Tried(c)' \subseteq Replica \ {At[c]}
        BY DEF Tried
      <3>2. Cardinality(Tried(c)') \in Nat
        BY <3>1, Places, FS_Subset, FS_CardinalityType
      <3> QED
        BY <3>2, ParameterAssumption, Product
    <2> QED
      BY <1>2, <2>1, <2>2, ParameterAssumption DEF ElapsedOK, Op
  <1> QED
    BY <1>3, <1>4

LEMMA ServeElapsed ==
  ASSUME Structure, Elapsed, NEW l \in Link, Serve(l)
  PROVE  Elapsed'
  <1> SUFFICES ASSUME NEW c \in Client
               PROVE  ElapsedOK(c)'
    BY DEF Elapsed
  <1>1. PICK op \in Op \cup {"replicate"} : Handle(l, op)
    BY DEF Serve, Structure, TypeOK
  <1>2. /\ l \in Task /\ c \in Task /\ c # l /\ job[l] = "none"
        /\ elapsed' = elapsed /\ ElapsedOK(c)
    BY Places DEF Serve, Elapsed
  <1>3. Same(c) /\ age'[c] = age[c]
    BY <1>1, <1>2, HandleJob
  <1> QED
    BY <1>2, <1>3, ElapsedKept DEF Same

\* One more replica is tried: another one, with a whole op_timeout.
LEMMA TryNextElapsed ==
  ASSUME Structure, Elapsed, NEW t \in Task, TryNext(t)
  PROVE  Elapsed'
  <1> SUFFICES ASSUME NEW c \in Client
               PROVE  ElapsedOK(c)'
    BY DEF Elapsed
  <1>1. /\ c \in Task /\ elapsed' = elapsed /\ ElapsedOK(c) /\ NodeOf(c) = At[c]
        /\ elapsed[c] \in Nat
    BY Places DEF TryNext, Elapsed, Structure, TypeOK
  <1>2. CASE c # t
    <2>1. Same(c) /\ age'[c] = age[c]
      BY <1>1, <1>2, TryNextJob
    <2> QED
      BY <1>1, <2>1, ElapsedKept DEF Same
  <1>3. CASE c = t
    <2> DEFINE r == Head(todo[t])
               T == Tried(c)
    <2>1. /\ job'[c] = "get" /\ job[c] = "get" /\ age'[c] = 0
          /\ asks[c] = {} /\ asks'[c] = IF r = NodeOf(c) THEN {} ELSE {r}
          /\ r \in Replica
          /\ ToSet(todo'[c]) = ToSet(todo[c]) \ {r} /\ r \in ToSet(todo[c])
      BY <1>3, TryNextJob
    <2>2. elapsed'[c] =< OpTimeout * Cardinality(T)
      BY <1>1, <2>1 DEF ElapsedOK
    <2>3. CASE r = At[c]
      <3>1. Tried(c)' = T
        BY <2>1, <2>3 DEF Tried
      <3> QED
        BY <1>1, <2>1, <2>2, <2>3, <3>1 DEF ElapsedOK
    <2>4. CASE r # At[c]
      <3>1. Tried(c)' = T \cup {r} /\ r \notin T
        BY <2>1, <2>4 DEF Tried
      <3>2. Cardinality(Tried(c)') = Cardinality(T) + 1 /\ Cardinality(T) \in Nat
        BY <3>1, TriedCount, FS_AddElement
      <3>3. /\ OpTimeout * Cardinality(Tried(c)')
                 = OpTimeout * Cardinality(T) + OpTimeout
            /\ OpTimeout * Cardinality(T) \in Nat
        BY <3>2, ParameterAssumption, Product
      <3>4. elapsed'[c] + OpTimeout
              =< OpTimeout * Cardinality(Tried(c)') + age'[c]
        BY <1>1, <2>1, <2>2, <3>3, ParameterAssumption
      <3> QED
        BY <1>1, <2>1, <2>4, <3>4 DEF ElapsedOK
    <2> QED
      BY <2>3, <2>4
  <1> QED
    BY <1>2, <1>3

LEMMA SendElapsed ==
  ASSUME Elapsed, NEW t \in Task, NEW n \in Node, Send(t, n)
  PROVE  Elapsed'
  BY ElapsedKept DEF Send, Elapsed

\* A call ends within its timeout.
LEMMA HangUpElapsed ==
  ASSUME Structure, Elapsed, NEW t \in Task, NEW n \in asks[t], HangUp(t, n),
         job' = job, todo' = todo, elapsed' = elapsed
  PROVE  Elapsed'
  <1> SUFFICES ASSUME NEW c \in Client
               PROVE  ElapsedOK(c)'
    BY DEF Elapsed
  <1>1. /\ c \in Task /\ ElapsedOK(c) /\ JobOK(c)
        /\ elapsed[c] \in Nat /\ age[c] \in Nat
    BY Places DEF Elapsed, Structure, TypeOK
  <1>2. CASE c # t \/ asks'[c] # {}
    <2>1. age'[c] = age[c] /\ (asks'[c] = {} <=> asks[c] = {})
      BY <1>1, <1>2, HangUpJob
    <2> QED
      BY <1>1, <2>1 DEF ElapsedOK, Tried
  <1>3. CASE c = t /\ asks'[c] = {}
    <2>1. asks[c] # {}
      BY <1>3
    <2>2. OpTimeout * Cardinality(Tried(c)) \in Nat
      BY TriedCount, ParameterAssumption, Product
    <2>3. /\ job[c] # "get" => elapsed[c] =< OpTimeout
          /\ job[c] = "get" => elapsed[c] =< OpTimeout * Cardinality(Tried(c))
      BY <1>1, <2>1, <2>2, ParameterAssumption DEF ElapsedOK, JobOK
    <2>4. job[c] # "none"
      BY <1>1, <2>1 DEF JobOK
    <2> QED
      BY <1>3, <2>3, <2>4 DEF ElapsedOK, Tried
  <1> QED
    BY <1>2, <1>3

LEMMA ConcludeElapsed ==
  ASSUME Structure, Elapsed, NEW t \in Task, Conclude(t)
  PROVE  Elapsed'
  <1> SUFFICES ASSUME NEW c \in Client
               PROVE  ElapsedOK(c)'
    BY DEF Elapsed
  <1>1. c \in Task /\ ElapsedOK(c)
    BY Places DEF Elapsed
  <1>2. CASE c # t
    <2>1. Same(c) /\ age'[c] = age[c] /\ elapsed'[c] = elapsed[c]
      BY <1>1, <1>2, ConcludeJob DEF Conclude, Structure, TypeOK
    <2> QED
      BY <1>1, <2>1, ElapsedKept DEF Same
  <1>3. CASE c = t
    <2>1. job'[c] = "none" /\ asks'[c] = {} /\ elapsed'[c] = 0
      BY <1>1, <1>3, ConcludeJob DEF Conclude, Structure, TypeOK
    <2> QED
      BY <2>1, ParameterAssumption DEF ElapsedOK
  <1> QED
    BY <1>2, <1>3

\* A request ages with its calls.
LEMMA TickElapsed ==
  ASSUME Structure, Elapsed, Tick
  PROVE  Elapsed'
  <1> SUFFICES ASSUME NEW c \in Client
               PROVE  ElapsedOK(c)'
    BY DEF Elapsed
  <1>1. /\ c \in Task /\ ElapsedOK(c) /\ JobOK(c)
        /\ elapsed[c] \in Nat /\ age[c] \in Nat
    BY Places DEF Elapsed, Structure, TypeOK
  <1>2. /\ job' = job /\ todo' = todo /\ asks' = asks
        /\ age'[c] = IF asks[c] # {} THEN age[c] + 1 ELSE age[c]
        /\ \/ elapsed'[c] = elapsed[c]
           \/ elapsed'[c] = elapsed[c] + 1 /\ asks[c] # {}
    BY <1>1 DEF Tick, Aging, streams
  <1>3. CASE asks[c] = {}
    <2>1. age'[c] = age[c] /\ elapsed'[c] = elapsed[c]
      BY <1>2, <1>3
    <2> QED
      BY <1>1, <1>2, <2>1, ElapsedKept
  <1>4. CASE asks[c] # {}
    <2>1. age'[c] = age[c] + 1 /\ elapsed'[c] =< elapsed[c] + 1 /\ elapsed'[c] \in Nat
      BY <1>1, <1>2, <1>4
    <2>2. OpTimeout * Cardinality(Tried(c)) \in Nat
      BY TriedCount, ParameterAssumption, Product
    <2>3. job[c] # "none"
      BY <1>1, <1>4 DEF JobOK
    <2>4. /\ job[c] # "get" => elapsed'[c] =< age'[c]
          /\ job[c] = "get" => elapsed'[c] + OpTimeout
                                 =< OpTimeout * Cardinality(Tried(c)) + age'[c]
      BY <1>1, <1>4, <2>1, <2>2, ParameterAssumption DEF ElapsedOK
    <2> QED
      BY <1>2, <1>4, <2>3, <2>4 DEF ElapsedOK, Tried
  <1> QED
    BY <1>3, <1>4

LEMMA NextElapsed ==
  ASSUME Structure, Elapsed, [Next]_vars
  PROVE  Elapsed'
  <1>1. ASSUME NEW t \in Task, NEW n \in Node, Receive(t, n)
        PROVE  Elapsed'
    BY <1>1, HangUpElapsed DEF Receive, Structure, TypeOK
  <1>2. ASSUME NEW t \in Task, NEW n \in Node, TimeOut(t, n)
        PROVE  Elapsed'
    BY <1>2, HangUpElapsed DEF TimeOut
  <1>3. CASE UNCHANGED vars
    BY <1>3, ElapsedKept DEF vars, streams, calls, clients, Elapsed
  <1> QED
    BY <1>1, <1>2, <1>3, Steps, ClientCallsElapsed, ServeElapsed, TryNextElapsed,
       SendElapsed, ConcludeElapsed, TickElapsed

\* A put or a delete is answered within one op_timeout, however many replicas
\* are silent, and a get within one for each other replica
\* (replication.rs:205, 223), whatever the other tasks do meanwhile.
THEOREM AlwaysAnsweredInTime == Spec => []AnsweredInTime
  <1>1. Init => Structure /\ Elapsed
    BY InitStructure, InitElapsed
  <1>2. Structure /\ Elapsed /\ [Next]_vars => Structure' /\ Elapsed'
    BY NextStructure, NextElapsed
  <1>3. Structure /\ Elapsed => AnsweredInTime
    <2> SUFFICES ASSUME Structure, Elapsed, NEW c \in Client
                 PROVE  elapsed[c] =< OpTimeout * IF job[c] = "get"
                                THEN Cardinality(Replica \ {At[c]}) ELSE 1
      BY DEF AnsweredInTime
    <2> DEFINE k == Cardinality(Tried(c))
               m == Cardinality(Replica \ {At[c]})
    <2>1. /\ ElapsedOK(c) /\ elapsed[c] \in Nat /\ OpTimeout \in Nat
          /\ age[c] =< OpTimeout /\ age[c] \in Nat
      BY Places, ParameterAssumption DEF Structure, TypeOK, JobOK, Elapsed
    <2>2. /\ k \in Nat /\ m \in Nat /\ k =< m
          /\ OpTimeout * k \in Nat /\ OpTimeout * m \in Nat
          /\ OpTimeout * k =< OpTimeout * m
      <3>1. k \in Nat /\ m \in Nat /\ k =< m
        BY TriedCount
      <3> HIDE DEF k, m
      <3> QED
        BY <2>1, <3>1, Product
    <2>3. CASE job[c] = "get"
      <3>1. elapsed[c] =< OpTimeout * k
        <4>1. OpTimeout * k \in Nat
          BY <2>2
        <4>2. CASE asks[c] = {}
          BY <2>1, <2>3, <4>2 DEF ElapsedOK
        <4>3. CASE asks[c] # {}
          <5>1. elapsed[c] + OpTimeout =< OpTimeout * k + age[c]
            BY <2>1, <2>3, <4>3 DEF ElapsedOK
          <5> HIDE DEF k
          <5> QED
            BY <2>1, <4>1, <5>1
        <4> QED
          BY <4>2, <4>3
      <3> HIDE DEF k, m
      <3>2. elapsed[c] =< OpTimeout * m
        BY <2>1, <2>2, <3>1
      <3> QED
        BY <2>3, <3>2 DEF m
    <2>4. CASE job[c] # "get"
      <3>1. elapsed[c] =< OpTimeout
        BY <2>1, <2>4 DEF ElapsedOK
      <3> QED
        BY <2>1, <2>4, <3>1
    <2> QED
      BY <2>3, <2>4
  <1> QED
    BY <1>1, <1>2, <1>3, PTL DEF Spec

(***************************************************************************)
(* A connection carries one request at a time, until a call times out.     *)
(***************************************************************************)

LEMMA LastOne ==
  ASSUME NEW T, NEW q \in Seq(T), Len(q) = 1
  PROVE  Tail(q) = <<>>
  <1>1. q # <<>>
    BY EmptySeq
  <1>2. Tail(q) \in Seq(T) /\ Len(Tail(q)) = Len(q) - 1
    BY <1>1, HeadTailProperties
  <1>3. Len(Tail(q)) = 0
    BY <1>2
  <1> QED
    BY <1>2, <1>3, EmptySeq

LEMMA FlightKept ==
  ASSUME NEW l \in Link, FlightOK(l),
         requests'[l] = requests[l], responses'[l] = responses[l], job'[l] = job[l],
         \A u \in Task : Sends(u, l)' <=> Sends(u, l),
         \A u \in Task : Sends(u, l) =>
           job'[u] = job[u] /\ Head(queue'[l]) = Head(queue[l])
  PROVE  FlightOK(l)'
  BY DEF FlightOK, Quiet, OnItsWay, InService, Answered

\* Who sends on a connection is in its queue, and not idle.
LEMMA Senders ==
  ASSUME Structure, NEW l \in Link, NEW u \in Task, Sends(u, l)
  PROVE  queue[l] # <<>> /\ job[u] # "none" /\ sent[u] # {} /\ asks[u] # {}
  <1>1. u \in ToSet(queue[l])
    BY DEF Sends, Structure, TypeOK, QueueOK
  <1>2. queue[l] # <<>>
    BY <1>1 DEF ToSet
  <1> QED
    BY <1>2 DEF Sends, Structure, TypeOK, JobOK

LEMMA HandleFlight ==
  ASSUME Structure, NEW t \in Task, job[t] = "none",
         NEW op \in Op \cup {"replicate"}, Handle(t, op),
         NEW l \in Link \ {t}, FlightOK(l),
         requests'[l] = requests[l], responses'[l] = responses[l]
  PROVE  FlightOK(l)'
  <1>1. /\ job'[l] = job[l] /\ sent' = sent
        /\ queue[l] # <<>> => Head(queue'[l]) = Head(queue[l])
    <2>1. l \in Task \ {t} /\ l \in Link
      BY Places
    <2>2. job'[l] = job[l]
      BY <2>1, HandleJob DEF Same
    <2>3. sent' = sent /\ (queue[l] # <<>> => Head(queue'[l]) = Head(queue[l]))
      BY <2>1, HandleStructure
    <2> QED
      BY <2>2, <2>3
  <1>2. \A u \in Task : Sends(u, l)' <=> Sends(u, l)
    BY <1>1 DEF Sends
  <1>3. \A u \in Task : Sends(u, l) =>
          job'[u] = job[u] /\ Head(queue'[l]) = Head(queue[l])
    <2> SUFFICES ASSUME NEW u \in Task, Sends(u, l)
                 PROVE  job'[u] = job[u] /\ Head(queue'[l]) = Head(queue[l])
      OBVIOUS
    <2>1. queue[l] # <<>> /\ job[u] # "none"
      BY Senders
    <2>2. u \in Task \ {t}
      BY <2>1
    <2>3. job'[u] = job[u]
      BY <2>2, HandleJob DEF Same
    <2> QED
      BY <1>1, <2>1, <2>3
  <1> QED
    BY <1>1, <1>2, <1>3, FlightKept

LEMMA ClientCallsFlights ==
  ASSUME Structure, Flights, NEW c \in Client, ClientCalls(c)
  PROVE  Flights'
  <1>1. PICK op \in OpsOf[c] : Handle(c, op)
    BY DEF ClientCalls
  <1>2. /\ c \in Task /\ job[c] = "none" /\ op \in Op /\ c \notin Link
        /\ requests' = requests /\ responses' = responses
    BY ClientAssumption DEF ClientCalls, Task
  <1> QED
    BY <1>1, <1>2, HandleFlight DEF Flights

LEMMA ServeFlights ==
  ASSUME Structure, Flights, NEW k \in Link, Serve(k)
  PROVE  Flights'
  <1> DEFINE op == Head(requests[k])
  <1>1. /\ k \in Task /\ job[k] = "none" /\ requests[k] # <<>>
        /\ op \in Op \cup {"replicate"} /\ Handle(k, op)
        /\ responses' = responses /\ requests'[k] = Tail(requests[k])
        /\ \A l \in Link \ {k} : requests'[l] = requests[l]
    BY DEF Serve, Task, Structure, TypeOK
  <1>2. ASSUME NEW l \in Link \ {k}
        PROVE  FlightOK(l)'
    <2> HIDE DEF op
    <2> QED
      BY <1>1, HandleFlight DEF Flights
  <1>3. FlightOK(k)'
    <2>1. PICK u \in Task : Sends(u, k)
      BY <1>1 DEF Flights, FlightOK, Quiet
    <2>2. /\ Head(queue[k]) = u /\ OnItsWay(k, Wire(job[u])) /\ u # k
      BY <1>1, <2>1, Senders DEF Flights, FlightOK, InService, Answered
    <2>3. \A v \in Task : Sends(v, k) => v = u
      BY <2>1, <2>2 DEF Flights, FlightOK
    <2>4. requests[k] = <<op>> /\ op = Wire(job[u]) /\ responses[k] = <<>>
      BY <2>2 DEF OnItsWay
    <2>5. Tail(requests[k]) = <<>>
      <3>1. requests[k] = <<Wire(job[u])>>
        BY <2>2 DEF OnItsWay
      <3>2. Len(requests[k]) = 1
        BY <3>1
      <3> QED
        BY <3>2, LastOne DEF Structure, TypeOK
    <2> HIDE DEF op
    <2>6. /\ job'[k] = op /\ job'[u] = job[u] /\ sent' = sent
          /\ Head(queue'[k]) = Head(queue[k])
      <3>1. job'[k] = op /\ job'[u] = job[u]
        BY <1>1, <2>2, HandleJob DEF Same
      <3>2. queue[k] # <<>>
        BY <2>1, Senders
      <3> QED
        BY <1>1, <3>1, <3>2, HandleStructure
    <2>7. InService(k, Wire(job[u]))' /\ job'[u] = job[u]
      BY <1>1, <2>4, <2>5, <2>6 DEF InService
    <2>8. \A v \in Task : Sends(v, k)' <=> Sends(v, k)
      BY <2>6 DEF Sends
    <2> QED
      BY <2>1, <2>2, <2>3, <2>6, <2>7, <2>8 DEF FlightOK
  <1> QED
    BY <1>2, <1>3 DEF Flights

LEMMA TryNextFlights ==
  ASSUME Structure, Flights, NEW t \in Task, TryNext(t)
  PROVE  Flights'
  <1> SUFFICES ASSUME NEW l \in Link
               PROVE  FlightOK(l)'
    BY DEF Flights
  <1>1. /\ requests' = requests /\ responses' = responses /\ job' = job
        /\ sent' = sent
    BY DEF TryNext
  <1>2. queue[l] # <<>> => Head(queue'[l]) = Head(queue[l])
    <2>1. CASE Head(todo[t]) = NodeOf(t)
      BY <2>1 DEF TryNext
    <2>2. CASE Head(todo[t]) # NodeOf(t)
      <3>1. /\ Ask(t, {Head(todo[t])}) /\ asks[t] = {}
            /\ {Head(todo[t])} \in SUBSET (Replica \ {NodeOf(t)})
        BY <2>2, TryNextJob DEF TryNext
      <3> QED
        BY <3>1, Asking
    <2> QED
      BY <2>1, <2>2
  <1>3. /\ \A u \in Task : Sends(u, l)' <=> Sends(u, l)
        /\ \A u \in Task : Sends(u, l) =>
             job'[u] = job[u] /\ Head(queue'[l]) = Head(queue[l])
    BY <1>1, <1>2, Senders DEF Sends
  <1> QED
    BY <1>1, <1>3, FlightKept DEF Flights

LEMMA SendFlights ==
  ASSUME Structure, Flights, NEW t \in Task, NEW n \in Node, Send(t, n)
  PROVE  Flights'
  <1>1. PICK k \in Link : k = To(t, n) /\ k[1] = NodeOf(t) /\ k[2] = n
    BY Places DEF Send, Structure, TypeOK, JobOK
  <1>2. /\ n \in asks[t] \ sent[t] /\ Head(queue[k]) = t
        /\ responses' = responses /\ job' = job /\ queue' = queue
        /\ requests'[k] = Append(requests[k], Wire(job[t]))
        /\ \A l \in Link \ {k} : requests'[l] = requests[l]
        /\ sent'[t] = sent[t] \cup {n}
        /\ \A u \in Task \ {t} : sent'[u] = sent[u]
    BY <1>1 DEF Send, Structure, TypeOK
  <1>3. ASSUME NEW l \in Link \ {k}
        PROVE  FlightOK(l)'
    <2>1. l[1] # NodeOf(t) \/ l[2] # n
      BY <1>1, Places
    <2>2. \A u \in Task : Sends(u, l)' <=> Sends(u, l)
      BY <1>2, <2>1 DEF Sends
    <2> QED
      BY <1>2, <2>2, FlightKept DEF Flights
  <1>4. FlightOK(k)'
    <2>1. \A u \in Task : ~ Sends(u, k)
      BY <1>1, <1>2 DEF Flights, FlightOK, Sends
    <2>2. /\ requests[k] = <<>> /\ job[k] = "none" /\ responses[k] = <<>>
      BY <2>1 DEF Flights, FlightOK, Quiet
    <2>3. requests'[k] = <<Wire(job[t])>>
      BY <1>2, <2>2
    <2>4. \A u \in Task : Sends(u, k)' <=> u = t
      BY <1>1, <1>2, <2>1 DEF Sends
    <2>5. OnItsWay(k, Wire(job[t]))'
      BY <1>2, <2>2, <2>3 DEF OnItsWay, Wire
    <2> QED
      BY <1>2, <2>4, <2>5 DEF FlightOK
  <1> QED
    BY <1>3, <1>4 DEF Flights

\* The answer that a task reads is the one to its request, and the only one.
LEMMA Reading ==
  ASSUME Structure, Flights, NEW t \in Task, NEW n \in Node, Receive(t, n)
  PROVE  /\ To(t, n) \in Link /\ To(t, n)[1] = NodeOf(t) /\ To(t, n)[2] = n
         /\ n \in asks[t] /\ HangUp(t, n)
         /\ Sends(t, To(t, n)) /\ Answered(To(t, n), Wire(job[t]))
         /\ \A u \in Task : Sends(u, To(t, n)) => u = t
         /\ responses'[To(t, n)] = <<>>
         /\ \A l \in Link \ {To(t, n)} : responses'[l] = responses[l]
  <1>1. PICK k \in Link : k = To(t, n) /\ k[1] = NodeOf(t) /\ k[2] = n
    BY Places DEF Receive, Structure, TypeOK, JobOK
  <1>2. /\ n \in asks[t] /\ HangUp(t, n) /\ Sends(t, k)
        /\ responses[k] # <<>> /\ responses'[k] = Tail(responses[k])
        /\ \A l \in Link \ {k} : responses'[l] = responses[l]
    BY <1>1 DEF Receive, Sends, Structure, TypeOK
  <1>3. /\ Answered(k, Wire(job[t])) /\ Head(queue[k]) = t
    BY <1>2 DEF Flights, FlightOK, OnItsWay, InService
  <1>4. \A u \in Task : Sends(u, k) => u = t
    BY <1>3 DEF Flights, FlightOK
  <1>5. responses[k] \in Seq(Response) /\ Len(responses[k]) = 1
    BY <1>3 DEF Answered, Structure, TypeOK
  <1>6. Tail(responses[k]) = <<>>
    BY <1>5, LastOne
  <1> QED
    BY <1>1, <1>2, <1>3, <1>4, <1>6

LEMMA ReceiveFlights ==
  ASSUME Structure, Flights, NEW t \in Task, NEW n \in Node, Receive(t, n)
  PROVE  Flights'
  <1>1. PICK k \in Link : k = To(t, n) /\ k[1] = NodeOf(t) /\ k[2] = n
    BY Reading
  <1>2. /\ requests' = requests /\ job' = job
        /\ sent'[t] = sent[t] \ {n}
        /\ \A u \in Task \ {t} : sent'[u] = sent[u]
    BY Reading, HangUpJob DEF Receive
  <1>3. ASSUME NEW l \in Link \ {k}
        PROVE  FlightOK(l)'
    <2>1. l[1] # NodeOf(t) \/ l[2] # n
      BY <1>1, Places
    <2>2. \A u \in Task : Sends(u, l)' <=> Sends(u, l)
      BY <1>2, <2>1 DEF Sends
    <2>3. queue'[l] = queue[l] /\ responses'[l] = responses[l]
      BY <1>1, Reading, HangingUp
    <2> QED
      BY <1>2, <2>2, <2>3, FlightKept DEF Flights
  <1>4. FlightOK(k)'
    <2>1. \A u \in Task : ~ Sends(u, k)'
      BY <1>1, <1>2, Reading DEF Sends
    <2>2. Quiet(k)'
      BY <1>1, <1>2, Reading DEF Answered, Quiet
    <2> QED
      BY <2>1, <2>2 DEF FlightOK
  <1> QED
    BY <1>3, <1>4 DEF Flights

\* A connection task that concludes had the request of a task that waits.
LEMMA Serving ==
  ASSUME Structure, Flights, NEW k \in Link, Conclude(k)
  PROVE  \E u \in Task : /\ Sends(u, k) /\ u # k /\ Head(queue[k]) = u
                         /\ InService(k, Wire(job[u]))
                         /\ \A v \in Task : Sends(v, k) => v = u
                         /\ responses'[k] = <<Answer(k)>>
  <1>1. k \in Task /\ job[k] # "none" /\ sent[k] = {} /\ k \notin Client
    BY Places, ConcludeJob
  <1>2. PICK u \in Task : Sends(u, k)
    BY <1>1 DEF Flights, FlightOK, Quiet
  <1>3. Head(queue[k]) = u /\ InService(k, Wire(job[u])) /\ u # k
    BY <1>1, <1>2 DEF Flights, FlightOK, OnItsWay, Answered, Sends
  <1>4. \A v \in Task : Sends(v, k) => v = u
    BY <1>3 DEF Flights, FlightOK
  <1>5. responses[k] = <<>> /\ responses'[k] = Append(responses[k], Answer(k))
    BY <1>1, <1>3 DEF InService, Conclude, Structure, TypeOK
  <1>6. responses'[k] = <<Answer(k)>>
    BY <1>5
  <1> QED
    BY <1>2, <1>3, <1>4, <1>6

LEMMA ConcludeFlights ==
  ASSUME Structure, Flights, Acks, NEW t \in Task, Conclude(t)
  PROVE  Flights'
  <1>1. /\ sent' = sent /\ requests' = requests /\ queue' = queue
        /\ job'[t] = "none" /\ sent[t] = {}
        /\ \A u \in Task \ {t} : job'[u] = job[u]
    BY ConcludeJob DEF Conclude, calls, Same
  <1>2. ASSUME NEW l \in Link \ {t}
        PROVE  FlightOK(l)'
    <2>1. responses'[l] = responses[l] /\ job'[l] = job[l]
      BY <1>1, Places DEF Conclude, Structure, TypeOK
    <2>2. /\ \A u \in Task : Sends(u, l)' <=> Sends(u, l)
          /\ \A u \in Task : Sends(u, l) =>
               job'[u] = job[u] /\ Head(queue'[l]) = Head(queue[l])
      BY <1>1 DEF Sends
    <2> QED
      BY <1>1, <2>1, <2>2, FlightKept DEF Flights
  <1>3. ASSUME t \in Link
        PROVE  FlightOK(t)'
    <2>1. PICK u \in Task : /\ Sends(u, t) /\ u # t /\ Head(queue[t]) = u
                            /\ InService(t, Wire(job[u]))
                            /\ \A v \in Task : Sends(v, t) => v = u
                            /\ responses'[t] = <<Answer(t)>>
      BY <1>3, Serving
    <2>2. /\ requests'[t] = <<>> /\ job[t] = Wire(job[u])
          /\ Len(responses'[t]) = 1 /\ Head(responses'[t]) = Answer(t)
          /\ job'[u] = job[u]
      BY <1>1, <2>1 DEF InService
    <2>3. /\ Answer(t).op = Wire(job[u])
          /\ Wire(job[u]) = "replicate" => Answer(t).ok
      <3>1. job[t] = "replicate" => job[t] # "put" /\ good[t] = 1
        BY DEF Acks, AcksOK
      <3>2. job[t] = "replicate" => good[t] >= 1
        BY <3>1
      <3> QED
        BY <2>2, <3>1, <3>2 DEF Answer
    <2>4. Answered(t, Wire(job[u]))'
      BY <1>1, <2>2, <2>3 DEF Answered
    <2>5. \A v \in Task : Sends(v, t)' <=> Sends(v, t)
      BY <1>1 DEF Sends
    <2> QED
      BY <1>1, <2>1, <2>2, <2>4, <2>5 DEF FlightOK
  <1> QED
    BY <1>2, <1>3 DEF Flights

(***************************************************************************)
(* Every call of a put is acknowledged, until one times out.               *)
(***************************************************************************)

LEMMA ReplicaCount ==
  /\ Cardinality(Replica) = Len(Replicas) /\ Len(Replicas) \in Nat
  /\ \A n \in Replica : 1 + Cardinality(Replica \ {n}) = Len(Replicas)
  <1> DEFINE k == Len(Replicas)
  <1>1. k \in Nat /\ Replicas \in [1 .. k -> Node] /\ DOMAIN Replicas = 1 .. k
    BY ReplicaAssumption, LenProperties
  <1>2. Replica = {Replicas[i] : i \in 1 .. k}
    BY <1>1 DEF Replica, ToSet
  <1>3. Replicas \in Bijection(1 .. k, Replica)
    BY <1>1, <1>2, ReplicaAssumption
    DEF Bijection, Injection, Surjection, IsInjective
  <1>4. ExistsBijection(1 .. k, Replica)
    BY <1>3 DEF ExistsBijection
  <1>5. IsFiniteSet(1 .. k) /\ Cardinality(1 .. k) = k
    BY <1>1, FS_Interval
  <1>6. Cardinality(Replica) = k
    BY <1>4, <1>5, FS_Bijection
  <1>7. ASSUME NEW n \in Replica
        PROVE  1 + Cardinality(Replica \ {n}) = k
    <2>1. Cardinality(Replica \ {n}) = Cardinality(Replica) - 1
      BY Places, FS_RemoveElement
    <2> HIDE DEF k
    <2> QED
      BY <1>1, <1>6, <2>1
  <1> QED
    BY <1>1, <1>6, <1>7

LEMMA AcksKept ==
  ASSUME NEW u \in Task, AcksOK(u), Same(u)
  PROVE  AcksOK(u)'
  BY DEF AcksOK, Same

LEMMA HandleAcks ==
  ASSUME Structure, Acks, NEW t \in Task, job[t] = "none",
         NEW op \in Op \cup {"replicate"}, Handle(t, op),
         op = "put" => NodeOf(t) \in Replica
  PROVE  Acks'
  <1>1. \A u \in Task \ {t} : AcksOK(u)'
    BY AcksKept, HandleJob DEF Acks
  <1>2. AcksOK(t)'
    BY HandleJob, ReplicaCount DEF AcksOK
  <1> QED
    BY <1>1, <1>2 DEF Acks

LEMMA ReceiveAcks ==
  ASSUME Structure, Flights, Acks, NEW t \in Task, NEW n \in Node, Receive(t, n)
  PROVE  Acks'
  <1>1. /\ n \in asks[t] /\ HangUp(t, n) /\ Answered(To(t, n), Wire(job[t]))
        /\ job' = job
    BY Reading DEF Receive
  <1>2. /\ asks'[t] = asks[t] \ {n}
        /\ \A u \in Task \ {t} : asks'[u] = asks[u] /\ good'[u] = good[u]
    BY <1>1, HangUpJob DEF Receive
  <1>3. ASSUME NEW u \in Task \ {t}
        PROVE  AcksOK(u)'
    BY <1>1, <1>2 DEF Acks, AcksOK
  <1>4. AcksOK(t)'
    <2>1. job[t] # "replicate"
      BY <1>1 DEF Acks, AcksOK
    <2>2. ASSUME job[t] = "put"
          PROVE  good'[t] + Cardinality(asks'[t]) = Len(Replicas)
      <3>1. Wire(job[t]) = "replicate"
        BY <2>2 DEF Wire
      <3>2. /\ Head(responses[To(t, n)]).op = Wire(job[t])
            /\ Head(responses[To(t, n)]).ok
        BY <1>1, <3>1 DEF Answered
      <3>3. good'[t] = good[t] + 1
        BY <3>2 DEF Receive, Structure, TypeOK
      <3>4. /\ asks[t] \subseteq Replica /\ IsFiniteSet(asks[t])
            /\ good[t] \in Nat
        BY Places, FS_Subset DEF Structure, TypeOK
      <3>5. /\ Cardinality(asks'[t]) = Cardinality(asks[t]) - 1
            /\ Cardinality(asks[t]) \in Nat
        BY <1>1, <1>2, <3>4, FS_RemoveElement, FS_CardinalityType
      <3>6. good[t] + Cardinality(asks[t]) = Len(Replicas)
        BY <2>2 DEF Acks, AcksOK
      <3> QED
        BY <3>3, <3>4, <3>5, <3>6
    <2> QED
      BY <1>1, <2>1, <2>2 DEF AcksOK
  <1> QED
    BY <1>3, <1>4 DEF Acks

(***************************************************************************)
(* A get finds a key that every replica stores, until a call times out.    *)
(***************************************************************************)

\* Only the get of client c makes stored[c] true, and then it is.
LEMMA HandleStores ==
  ASSUME Structure, Stores, NEW t \in Task, job[t] = "none",
         NEW op \in Op \cup {"replicate"}, Handle(t, op)
  PROVE  /\ Stores'
         /\ \A c \in Client : c # t \/ op # "get" => (stored'[c] => stored[c])
  <1> SUFFICES ASSUME NEW c \in Client
               PROVE  /\ StoredOK(c)'
                      /\ c # t \/ op # "get" => (stored'[c] => stored[c])
    BY DEF Stores
  <1>1. StoredOK(c) /\ has \in [Node -> BOOLEAN] /\ Replica \subseteq Node
    BY Places DEF Stores, Structure, TypeOK
  <1>2. CASE op = "get"
    <2>1. /\ stored' = [d \in Client |->
                        IF d = t THEN ~ timedOut /\ \A r \in Replica : has[r]
                                 ELSE stored[d]]
          /\ has' = has
      BY <1>2, Handlers
    <2>2. CASE c = t
      <3>1. stored'[c] => \A r \in Replica : has[r]
        BY <2>1, <2>2
      <3> QED
        BY <1>2, <2>1, <2>2, <3>1 DEF StoredOK
    <2>3. CASE c # t
      <3>1. stored'[c] = stored[c]
        BY <2>1, <2>3
      <3> QED
        BY <1>1, <2>1, <3>1 DEF StoredOK
    <2> QED
      BY <2>2, <2>3
  <1>3. CASE op # "get"
    <2>1. \/ has' = has /\ stored' = stored
          \/ has' = [has EXCEPT ![NodeOf(t)] = TRUE] /\ stored' = stored
          \/ stored' = [d \in Client |-> FALSE]
      BY <1>3, Handlers DEF Spread, Store, Op
    <2> QED
      BY <1>1, <2>1 DEF StoredOK
  <1> QED
    BY <1>2, <1>3

\* Task t reads a request for a get, or another: S is as sure as before.
LEMMA HandleSure ==
  ASSUME Structure, Flights, NEW t \in Task, job[t] = "none",
         NEW op \in Op \cup {"replicate"}, Handle(t, op),
         responses' = responses, \A l \in Link \ {t} : requests'[l] = requests[l],
         NEW S \in SUBSET Task, Sure(S)
  PROVE  Sure(S \cup {t})'
  <1> SUFFICES ASSUME NEW u \in S \cup {t}, job'[u] = "get"
               PROVE  /\ good'[u] > 0 \/ asks'[u] # {} \/ todo'[u] # <<>>
                      /\ \A n \in sent'[u] :
                           /\ InService(To(u, n), "get")' => To(u, n) \in S \cup {t}
                           /\ Answered(To(u, n), "get")' =>
                                Head(responses'[To(u, n)]).ok
    BY DEF Sure
  <1>1. CASE u = t
    <2>1. sent'[t] = {} /\ todo'[t] = Replicas
      BY <1>1, HandleJob
    <2> QED
      BY <1>1, <2>1, ReplicaAssumption
  <1>2. CASE u # t
    <2>1. Same(u) /\ u \in S /\ u \in Task
      BY <1>2, HandleJob
    <2>2. ASSUME NEW n \in sent'[u]
          PROVE  /\ InService(To(u, n), "get")' => To(u, n) \in S \cup {t}
                 /\ Answered(To(u, n), "get")' => Head(responses'[To(u, n)]).ok
      <3>1. n \in sent[u] /\ To(u, n) \in Link
        BY <2>1, <2>2, Places DEF Same, Structure, TypeOK, JobOK
      <3>2. CASE To(u, n) = t
        <4>1. job'[To(u, n)] # "none"
          BY <3>2, HandleJob DEF Op
        <4> QED
          BY <3>2, <4>1 DEF Answered
      <3>3. CASE To(u, n) # t
        <4>1. To(u, n) \in Task \ {t} /\ To(u, n) \in Link \ {t}
          BY <3>1, <3>3, Places
        <4>2. job'[To(u, n)] = job[To(u, n)] /\ requests'[To(u, n)] = requests[To(u, n)]
          <5> HIDE DEF To
          <5>1. job'[To(u, n)] = job[To(u, n)]
            BY <4>1, HandleJob DEF Same
          <5> QED
            BY <4>1, <5>1
        <4> QED
          BY <2>1, <3>1, <4>2 DEF Sure, Same, InService, Answered
      <3> QED
        BY <3>2, <3>3
    <2> QED
      BY <2>1, <2>2 DEF Sure, Same
  <1> QED
    BY <1>1, <1>2

LEMMA ClientCallsGets ==
  ASSUME Structure, Flights, Stores, Gets, NEW d \in Client, ClientCalls(d)
  PROVE  Gets'
  <1> SUFFICES ASSUME NEW c \in Client, stored'[c], job'[c] = "get"
               PROVE  \E S \in SUBSET Task : c \in S /\ Sure(S)'
    BY DEF Gets, GetOK
  <1>1. PICK op \in OpsOf[d] : Handle(d, op)
    BY DEF ClientCalls
  <1>2. /\ d \in Task /\ c \in Task /\ job[d] = "none" /\ op \in Op
        /\ requests' = requests /\ responses' = responses
    BY ClientAssumption DEF ClientCalls, Task
  <1>3. CASE c = d
    <2>1. Sure({})
      BY DEF Sure
    <2>2. Sure({} \cup {d})'
      BY <1>1, <1>2, <2>1, HandleSure
    <2> QED
      BY <1>2, <1>3, <2>2
  <1>4. CASE c # d
    <2>1. stored[c] /\ job[c] = "get"
      <3>1. job'[c] = job[c]
        BY <1>1, <1>2, <1>4, HandleJob DEF Same
      <3>2. stored'[c] => stored[c]
        BY <1>1, <1>2, <1>4, HandleStores
      <3> QED
        BY <3>1, <3>2
    <2>2. PICK S \in SUBSET Task : c \in S /\ Sure(S)
      BY <2>1 DEF Gets, GetOK
    <2>3. Sure(S \cup {d})'
      BY <1>1, <1>2, <2>2, HandleSure
    <2> QED
      BY <1>2, <2>2, <2>3
  <1> QED
    BY <1>3, <1>4

LEMMA ServeGets ==
  ASSUME Structure, Flights, Stores, Gets, NEW k \in Link, Serve(k)
  PROVE  Gets'
  <1> SUFFICES ASSUME NEW c \in Client, stored'[c], job'[c] = "get"
               PROVE  \E S \in SUBSET Task : c \in S /\ Sure(S)'
    BY DEF Gets, GetOK
  <1>1. PICK op \in Op \cup {"replicate"} : Handle(k, op)
    BY DEF Serve, Structure, TypeOK
  <1>2. /\ k \in Task /\ c \in Task /\ c # k /\ job[k] = "none"
        /\ responses' = responses /\ \A l \in Link \ {k} : requests'[l] = requests[l]
    BY Places DEF Serve, Structure, TypeOK
  <1>3. stored[c] /\ job[c] = "get"
    <2>1. job'[c] = job[c]
      BY <1>1, <1>2, HandleJob DEF Same
    <2>2. stored'[c] => stored[c]
      BY <1>1, <1>2, HandleStores
    <2> QED
      BY <2>1, <2>2
  <1>4. PICK S \in SUBSET Task : c \in S /\ Sure(S)
    BY <1>3 DEF Gets, GetOK
  <1>5. Sure(S \cup {k})'
    BY <1>1, <1>2, <1>4, HandleSure
  <1> QED
    BY <1>2, <1>4, <1>5

\* A get that finds the key here is done, one that asks elsewhere waits.
LEMMA TryNextGets ==
  ASSUME Structure, Stores, Gets, NEW t \in Task, TryNext(t)
  PROVE  Gets'
  <1> SUFFICES ASSUME NEW c \in Client, stored'[c], job'[c] = "get"
               PROVE  \E S \in SUBSET Task : c \in S /\ Sure(S)'
    BY DEF Gets, GetOK
  <1>1. /\ requests' = requests /\ responses' = responses /\ job' = job
        /\ sent' = sent /\ stored' = stored
    BY DEF TryNext
  <1>2. PICK S \in SUBSET Task : c \in S /\ Sure(S)
    BY <1>1 DEF Gets, GetOK
  <1>3. \A r \in Replica : has[r]
    BY <1>1 DEF Stores, StoredOK
  <1>4. ASSUME NEW u \in S, job[u] = "get"
        PROVE  good'[u] > 0 \/ asks'[u] # {} \/ todo'[u] # <<>>
    <2>1. CASE u = t
      <3>1. CASE Head(todo[t]) = NodeOf(t)
        <4>1. good'[t] = 1
          BY <1>3, <3>1, TryNextJob
        <4> QED
          BY <2>1, <4>1
      <3>2. CASE Head(todo[t]) # NodeOf(t)
        BY <2>1, <3>2, TryNextJob
      <3> QED
        BY <3>1, <3>2
    <2>2. CASE u # t
      <3>1. good'[u] = good[u] /\ asks'[u] = asks[u] /\ todo'[u] = todo[u]
        BY <1>4, <2>2, TryNextJob DEF Same
      <3>2. good[u] > 0 \/ asks[u] # {} \/ todo[u] # <<>>
        BY <1>2, <1>4 DEF Sure
      <3> QED
        BY <3>1, <3>2
    <2> QED
      BY <2>1, <2>2
  <1>5. \A u \in S : job[u] = "get" => \A n \in sent[u] :
          /\ InService(To(u, n), "get")' => To(u, n) \in S
          /\ Answered(To(u, n), "get")' => Head(responses'[To(u, n)]).ok
    BY <1>1, <1>2 DEF Sure, InService, Answered
  <1>6. Sure(S)'
    BY <1>1, <1>4, <1>5 DEF Sure
  <1> QED
    BY <1>2, <1>6

LEMMA SendGets ==
  ASSUME Structure, Gets, NEW t \in Task, NEW n \in Node, Send(t, n)
  PROVE  Gets'
  <1> SUFFICES ASSUME NEW c \in Client, stored'[c], job'[c] = "get"
               PROVE  \E S \in SUBSET Task : c \in S /\ Sure(S)'
    BY DEF Gets, GetOK
  <1>1. PICK k \in Link : k = To(t, n)
    BY Places DEF Send, Structure, TypeOK, JobOK
  <1>2. /\ responses' = responses /\ job' = job /\ stored' = stored
        /\ good' = good /\ asks' = asks /\ todo' = todo
        /\ requests'[k] = Append(requests[k], Wire(job[t]))
        /\ \A l \in Link \ {k} : requests'[l] = requests[l]
        /\ sent'[t] = sent[t] \cup {n}
        /\ \A u \in Task \ {t} : sent'[u] = sent[u]
    BY <1>1 DEF Send, Structure, TypeOK
  <1>3. requests'[k] # <<>>
    <2>1. Len(requests'[k]) = Len(requests[k]) + 1 /\ Len(requests[k]) \in Nat
      BY <1>2 DEF Structure, TypeOK
    <2> QED
      BY <2>1
  <1>4. PICK S \in SUBSET Task : c \in S /\ Sure(S)
    BY <1>2 DEF Gets, GetOK
  <1>5. ASSUME NEW u \in S, job[u] = "get", NEW m \in sent'[u]
        PROVE  /\ InService(To(u, m), "get")' => To(u, m) \in S
               /\ Answered(To(u, m), "get")' => Head(responses'[To(u, m)]).ok
    <2>1. CASE To(u, m) = k
      BY <1>3, <2>1 DEF InService, Answered
    <2>2. CASE To(u, m) # k
      <3>1. m \in sent[u]
        BY <1>1, <1>2, <1>5, <2>2
      <3>2. To(u, m) \in Link
        BY <3>1, Places DEF Structure, TypeOK, JobOK
      <3> QED
        BY <1>2, <1>4, <1>5, <2>2, <3>1, <3>2 DEF Sure, InService, Answered
    <2> QED
      BY <2>1, <2>2
  <1>6. Sure(S)'
    BY <1>2, <1>4, <1>5 DEF Sure
  <1> QED
    BY <1>4, <1>6

\* The answer to a get that is sure is a hit.
LEMMA ReceiveGets ==
  ASSUME Structure, Flights, Gets, NEW t \in Task, NEW n \in Node, Receive(t, n)
  PROVE  Gets'
  <1> SUFFICES ASSUME NEW c \in Client, stored'[c], job'[c] = "get"
               PROVE  \E S \in SUBSET Task : c \in S /\ Sure(S)'
    BY DEF Gets, GetOK
  <1>1. PICK k \in Link : k = To(t, n)
    BY Reading
  <1>2. /\ n \in asks[t] /\ HangUp(t, n)
        /\ Answered(k, Wire(job[t])) /\ responses'[k] = <<>>
        /\ \A l \in Link \ {k} : responses'[l] = responses[l]
        /\ requests' = requests /\ job' = job /\ stored' = stored /\ todo' = todo
    BY <1>1, Reading DEF Receive
  <1>3. /\ sent'[t] = sent[t] \ {n}
        /\ \A u \in Task \ {t} : /\ sent'[u] = sent[u] /\ asks'[u] = asks[u]
                                 /\ good'[u] = good[u]
    BY <1>2, HangUpJob DEF Receive
  <1>4. PICK S \in SUBSET Task : c \in S /\ Sure(S)
    BY <1>2 DEF Gets, GetOK
  <1>5. ASSUME NEW u \in S, job[u] = "get"
        PROVE  good'[u] > 0 \/ asks'[u] # {} \/ todo'[u] # <<>>
    <2>1. CASE u = t
      <3>1. Wire(job[t]) = "get" /\ n \in sent[t]
        BY <1>5, <2>1 DEF Wire, Receive
      <3>2. Head(responses[k]).op = Wire(job[t]) /\ Head(responses[k]).ok
        BY <1>1, <1>2, <1>4, <1>5, <2>1, <3>1 DEF Sure, Answered
      <3>3. good'[t] = good[t] + 1 /\ good[t] \in Nat
        BY <1>1, <3>2 DEF Receive, Structure, TypeOK
      <3> QED
        BY <2>1, <3>3
    <2>2. CASE u # t
      BY <1>2, <1>3, <1>4, <1>5, <2>2 DEF Sure
    <2> QED
      BY <2>1, <2>2
  <1>6. ASSUME NEW u \in S, job[u] = "get", NEW m \in sent'[u]
        PROVE  /\ InService(To(u, m), "get")' => To(u, m) \in S
               /\ Answered(To(u, m), "get")' => Head(responses'[To(u, m)]).ok
    <2>1. CASE To(u, m) = k
      <3>1. job'[k] = "none" /\ Len(responses'[k]) = 0
        BY <1>2 DEF Answered
      <3> QED
        BY <2>1, <3>1 DEF InService, Answered
    <2>2. CASE To(u, m) # k
      <3>1. m \in sent[u] /\ u \in Task
        BY <1>3, <1>6
      <3>2. To(u, m) \in Link
        BY <3>1, Places DEF Structure, TypeOK, JobOK
      <3> QED
        BY <1>2, <1>4, <1>6, <2>2, <3>1, <3>2 DEF Sure, InService, Answered
    <2> QED
      BY <2>1, <2>2
  <1>7. Sure(S)'
    BY <1>2, <1>5, <1>6 DEF Sure
  <1> QED
    BY <1>4, <1>7

\* A get that is sure concludes with a hit.
LEMMA SureHit ==
  ASSUME Structure, NEW t \in Task, Conclude(t), job[t] = "get",
         NEW S \in SUBSET Task, t \in S, Sure(S)
  PROVE  Answer(t).ok
  <1>1. good[t] > 0 /\ good[t] \in Nat
    BY DEF Conclude, Over, Sure, Structure, TypeOK
  <1>2. good[t] >= 1
    BY <1>1
  <1> QED
    BY <1>2 DEF Answer

LEMMA ConcludeGets ==
  ASSUME Structure, Flights, Gets, NEW t \in Task, Conclude(t)
  PROVE  Gets'
  <1> SUFFICES ASSUME NEW c \in Client, stored'[c], job'[c] = "get"
               PROVE  \E S \in SUBSET Task : c \in S /\ Sure(S)'
    BY DEF Gets, GetOK
  <1>1. /\ sent' = sent /\ requests' = requests /\ stored' = stored
        /\ \A l \in Link \ {t} : responses'[l] = responses[l]
        /\ \A u \in Task \ {t} : Same(u)
        /\ job'[t] = "none"
    <2>1. /\ sent' = sent /\ requests' = requests /\ stored' = stored
          /\ responses' = responses \/ \E r : responses' = [responses EXCEPT ![t] = r]
      BY DEF Conclude, calls
    <2>2. \A l \in Link \ {t} : responses'[l] = responses[l]
      BY <2>1 DEF Structure, TypeOK
    <2>3. (\A u \in Task \ {t} : Same(u)) /\ job'[t] = "none"
      BY ConcludeJob
    <2> QED
      BY <2>1, <2>2, <2>3
  <1>2. c # t /\ c \in Task /\ stored[c] /\ job[c] = "get"
    BY <1>1, Places DEF Same
  <1>3. PICK S \in SUBSET Task : c \in S /\ Sure(S)
    BY <1>2 DEF Gets, GetOK
  <1>4. ASSUME NEW u \in S, job'[u] = "get", NEW n \in sent[u]
        PROVE  /\ InService(To(u, n), "get")' => To(u, n) \in S
               /\ Answered(To(u, n), "get")' => Head(responses'[To(u, n)]).ok
    <2>1. u # t /\ u \in Task /\ job[u] = "get"
      BY <1>1, <1>4 DEF Same
    <2>2. To(u, n) \in Link /\ To(u, n)[1] = NodeOf(u) /\ To(u, n)[2] = n
      BY <2>1, Places DEF Structure, TypeOK, JobOK
    <2>3. CASE To(u, n) # t
      <3>1. job'[To(u, n)] = job[To(u, n)]
        BY <1>1, <2>2, <2>3, Places DEF Same
      <3> QED
        BY <1>1, <1>3, <1>4, <2>1, <2>2, <2>3, <3>1 DEF Sure, InService, Answered
    <2>4. CASE To(u, n) = t
      <3>1. Sends(u, t) /\ t \in Link
        BY <2>2, <2>4 DEF Sends
      <3>2. InService(t, Wire(job[u])) /\ responses'[t] = <<Answer(t)>>
        BY <2>1, <3>1, Serving
      <3>3. InService(t, "get") /\ job[t] = "get"
        BY <2>1, <3>2 DEF Wire, InService
      <3>4. Answer(t).ok
        BY <1>3, <1>4, <2>1, <2>4, <3>3, SureHit DEF Sure
      <3> QED
        BY <1>1, <2>4, <3>2, <3>4 DEF InService
    <2> QED
      BY <2>3, <2>4
  <1>5. Sure(S)'
    BY <1>1, <1>3, <1>4 DEF Sure, Same
  <1> QED
    BY <1>3, <1>5

(***************************************************************************)
(* Right until a call times out.                                           *)
(***************************************************************************)

LEMMA InitCalm == Init => Calm /\ RightUntilTimeout
  <1> SUFFICES ASSUME Init
               PROVE  Calm /\ RightUntilTimeout
    OBVIOUS
  <1>1. Flights
    BY Places DEF Init, Flights, FlightOK, Quiet, Sends
  <1>2. Acks /\ Stores /\ Gets /\ RightUntilTimeout
    BY DEF Init, Acks, AcksOK, Stores, StoredOK, Gets, GetOK,
           RightUntilTimeout, NoAnswer
  <1> QED
    BY <1>1, <1>2 DEF Calm

LEMMA ClientCallsCalm ==
  ASSUME Structure, Calm, RightUntilTimeout, ~ timedOut,
         NEW d \in Client, ClientCalls(d)
  PROVE  Calm' /\ RightUntilTimeout'
  <1>1. PICK op \in OpsOf[d] : Handle(d, op)
    BY DEF ClientCalls
  <1>2. /\ d \in Task /\ job[d] = "none" /\ op \in Op
        /\ op = "put" => NodeOf(d) \in Replica
    BY ClientAssumption, Places DEF ClientCalls
  <1>3. Flights' /\ Acks' /\ Stores' /\ Gets'
    BY <1>1, <1>2, ClientCallsFlights, HandleAcks, HandleStores, ClientCallsGets
    DEF Calm
  <1>4. RightUntilTimeout'
    <2>1. /\ result'[d].op = "none" /\ \A c \in Client \ {d} : result'[c] = result[c]
      BY DEF ClientCalls, NoAnswer, Structure, TypeOK
    <2>2. \A c \in Client \ {d} : stored'[c] => stored[c]
      BY <1>1, <1>2, HandleStores DEF Calm
    <2> QED
      BY <2>1, <2>2 DEF RightUntilTimeout
  <1> QED
    BY <1>3, <1>4 DEF Calm

LEMMA ServeCalm ==
  ASSUME Structure, Calm, RightUntilTimeout, ~ timedOut, NEW k \in Link, Serve(k)
  PROVE  Calm' /\ RightUntilTimeout'
  <1>1. PICK op \in Op \cup {"replicate"} : Handle(k, op)
    BY DEF Serve, Structure, TypeOK
  <1>2. /\ k \in Task /\ k \notin Client /\ job[k] = "none" /\ NodeOf(k) \in Replica
        /\ result' = result
    BY Places DEF Serve
  <1>3. Flights' /\ Acks' /\ Stores' /\ Gets'
    BY <1>1, <1>2, ServeFlights, HandleAcks, HandleStores, ServeGets DEF Calm
  <1>4. \A c \in Client : stored'[c] => stored[c]
    BY <1>1, <1>2, HandleStores DEF Calm
  <1> QED
    BY <1>2, <1>3, <1>4 DEF Calm, RightUntilTimeout

\* The quorum of a put is among its acknowledgements.
LEMMA ConcludeCalm ==
  ASSUME Structure, Calm, RightUntilTimeout, ~ timedOut, NEW t \in Task, Conclude(t)
  PROVE  Calm' /\ RightUntilTimeout'
  <1>1. /\ \A u \in Task \ {t} : Same(u)
        /\ job'[t] = "none" /\ asks[t] = {} /\ job[t] # "none"
        /\ has' = has /\ stored' = stored
    BY ConcludeJob DEF Conclude
  <1>2. Flights' /\ Gets'
    BY ConcludeFlights, ConcludeGets DEF Calm
  <1>3. Acks'
    BY <1>1, AcksKept DEF Calm, Acks, AcksOK
  <1>4. Stores'
    BY <1>1 DEF Calm, Stores, StoredOK
  <1>5. CASE t \notin Client
    <2>1. result' = result
      BY <1>5 DEF Conclude
    <2> QED
      BY <1>1, <1>2, <1>3, <1>4, <2>1 DEF Calm, RightUntilTimeout
  <1>6. CASE t \in Client
    <2>1. result'[t] = Answer(t) /\ \A c \in Client \ {t} : result'[c] = result[c]
      BY <1>6 DEF Conclude, Structure, TypeOK
    <2>2. ASSUME job[t] = "put", WriteQuorum =< Len(Replicas)
          PROVE  Answer(t).ok
      <3>1. good[t] + Cardinality(asks[t]) = Len(Replicas) /\ good[t] \in Nat
        BY <2>2 DEF Calm, Acks, AcksOK, Structure, TypeOK
      <3>2. Cardinality(asks[t]) = 0
        BY <1>1, FS_EmptySet
      <3>3. good[t] >= WriteQuorum
        BY <2>2, <3>1, <3>2, ParameterAssumption, ReplicaCount
      <3> QED
        BY <2>2, <3>3 DEF Answer
    <2>3. ASSUME job[t] = "get", stored[t]
          PROVE  Answer(t).ok
      <3>1. PICK S \in SUBSET Task : t \in S /\ Sure(S)
        BY <1>6, <2>3 DEF Calm, Gets, GetOK
      <3> QED
        BY <2>3, <3>1, SureHit
    <2>4. Answer(t).op = job[t]
      BY DEF Answer
    <2>5. RightUntilTimeout'
      BY <1>1, <2>1, <2>2, <2>3, <2>4 DEF RightUntilTimeout
    <2> QED
      BY <1>2, <1>3, <1>4, <2>5 DEF Calm
  <1> QED
    BY <1>5, <1>6

LEMMA TryNextCalm ==
  ASSUME Structure, Calm, RightUntilTimeout, NEW t \in Task, TryNext(t)
  PROVE  Calm' /\ RightUntilTimeout'
  <1>1. Flights' /\ Gets'
    BY TryNextFlights, TryNextGets DEF Calm
  <1>2. /\ has' = has /\ stored' = stored /\ result' = result /\ timedOut' = timedOut
        /\ job'[t] = "get" /\ \A u \in Task \ {t} : Same(u)
    BY TryNextJob DEF TryNext, clients
  <1>3. Acks'
    BY <1>2, AcksKept DEF Calm, Acks, AcksOK
  <1> QED
    BY <1>1, <1>2, <1>3 DEF Calm, Stores, StoredOK, RightUntilTimeout

LEMMA SendCalm ==
  ASSUME Structure, Calm, RightUntilTimeout, NEW t \in Task, NEW n \in Node, Send(t, n)
  PROVE  Calm' /\ RightUntilTimeout'
  <1>1. Flights' /\ Gets'
    BY SendFlights, SendGets DEF Calm
  <1>2. /\ has' = has /\ stored' = stored /\ result' = result /\ timedOut' = timedOut
        /\ job' = job /\ good' = good /\ asks' = asks
    BY DEF Send, clients
  <1> QED
    BY <1>1, <1>2 DEF Calm, Acks, AcksOK, Stores, StoredOK, RightUntilTimeout

LEMMA ReceiveCalm ==
  ASSUME Structure, Calm, RightUntilTimeout, NEW t \in Task, NEW n \in Node, Receive(t, n)
  PROVE  Calm' /\ RightUntilTimeout'
  <1>1. Flights' /\ Gets' /\ Acks'
    BY ReceiveFlights, ReceiveGets, ReceiveAcks DEF Calm
  <1>2. has' = has /\ stored' = stored /\ result' = result /\ timedOut' = timedOut
    BY DEF Receive, clients
  <1> QED
    BY <1>1, <1>2 DEF Calm, Stores, StoredOK, RightUntilTimeout

LEMMA IdleCalm ==
  ASSUME Calm, RightUntilTimeout, Tick \/ UNCHANGED vars
  PROVE  Calm' /\ RightUntilTimeout'
  <1>1. UNCHANGED <<has, queue, requests, responses, job, todo, good, asks, sent,
                    result, timedOut, stored>>
    BY DEF Tick, vars, streams, calls, clients
  <1>2. Flights'
    BY <1>1 DEF Calm, Flights, FlightOK, Quiet, OnItsWay, InService, Answered, Sends
  <1>3. Gets'
    BY <1>1 DEF Calm, Gets, GetOK, Sure, InService, Answered
  <1> QED
    BY <1>1, <1>2, <1>3 DEF Calm, Acks, AcksOK, Stores, StoredOK, RightUntilTimeout

LEMMA NextCalm ==
  ASSUME Structure, timedOut \/ Calm, RightUntilTimeout, [Next]_vars
  PROVE  (timedOut' \/ Calm') /\ RightUntilTimeout'
  <1>1. CASE timedOut'
    BY <1>1 DEF RightUntilTimeout
  <1>2. CASE ~ timedOut'
    <2>1. ~ timedOut
      <3>1. timedOut' = timedOut \/ timedOut'
        BY Steps DEF ClientCalls, Serve, TryNext, Send, Receive, TimeOut, Conclude,
                     Tick, vars
      <3> QED
        BY <1>2, <3>1
    <2>2. \A t \in Task, n \in Node : ~ TimeOut(t, n)
      BY <1>2 DEF TimeOut
    <2> QED
      BY <2>1, <2>2, Steps, ClientCallsCalm, ServeCalm, TryNextCalm, SendCalm,
         ReceiveCalm, ConcludeCalm, IdleCalm
  <1> QED
    BY <1>1, <1>2

\* The invariant is inductive.
LEMMA Invariance == Spec => []IInv
  <1>1. Init => IInv
    BY InitStructure, InitElapsed, InitCalm DEF IInv
  <1>2. IInv /\ [Next]_vars => IInv'
    BY NextStructure, NextElapsed, NextCalm DEF IInv
  <1> QED
    BY <1>1, <1>2, PTL DEF Spec

\* Whatever the clients do and however the handlers of the nodes wait for one
\* another: as long as no call timed out, each request on the shared connection
\* of two nodes gets its own answer, so a put at a replica has its quorum
\* (replication.rs:170) and a get finds a key that every replica has stored all
\* along (replication.rs:199-213).
THEOREM AlwaysRightUntilTimeout == Spec => []RightUntilTimeout
  <1>1. IInv => RightUntilTimeout
    BY DEF IInv
  <1> QED
    BY <1>1, Invariance, PTL

(***************************************************************************)
(* A request is echoed, it is not multiplied.                              *)
(***************************************************************************)

\* Task t has still to write a request to replica x, or will have when the get
\* tries x; or the x-th request of link t is in the stream.
OwedBy(what, t, x) ==
  \/ what = "stream" /\ t \in Link /\ x \in 1 .. Len(requests[t])
  \/ what = "send" /\ x \in asks[t] \ sent[t]
  \/ what = "try" /\ x \in ToSet(todo[t]) \ {NodeOf(t)}

\* The requests that are, and that the jobs may yet put, in the streams.
Owed ==
  {o \in {"stream", "send", "try"} \X Task \X (Nat \cup Replica) :
     OwedBy(o[1], o[2], o[3])}

\* Every request of a client pays for what its jobs may put there.
OwedOK ==
  /\ IsFiniteSet(Owed) /\ IsFiniteSet(CallsOfClients)
  /\ Cardinality(Owed) =< Cardinality(CallsOfClients)

LEMMA InitOwed == Init => OwedOK
  <1> SUFFICES ASSUME Init
               PROVE  OwedOK
    OBVIOUS
  <1>1. Owed = {}
    <2>1. \A t \in Link : Len(requests[t]) = 0
      BY DEF Init
    <2>2. \A t \in Task : asks[t] = {} /\ ToSet(todo[t]) = {}
      BY DEF Init, ToSet
    <2> QED
      BY <2>1, <2>2 DEF Owed, OwedBy
  <1>2. CallsOfClients = {}
    BY DEF Init, CallsOfClients
  <1> QED
    BY <1>1, <1>2, FS_EmptySet DEF OwedOK

\* A step that only settles what was owed.
LEMMA OwedSettled ==
  ASSUME OwedOK, made' = made, Owed' \subseteq Owed
  PROVE  OwedOK'
  <1>1. CallsOfClients' = CallsOfClients
    BY DEF CallsOfClients
  <1>2. /\ IsFiniteSet(Owed') /\ Cardinality(Owed') =< Cardinality(Owed)
        /\ Cardinality(Owed') \in Nat /\ Cardinality(Owed) \in Nat
        /\ Cardinality(CallsOfClients) \in Nat
    BY FS_Subset, FS_CardinalityType DEF OwedOK
  <1> QED
    BY <1>1, <1>2 DEF OwedOK

\* A step that puts one request in the place of another.
LEMMA OwedReplaced ==
  ASSUME OwedOK, made' = made, NEW a \in Owed, NEW b,
         Owed' \subseteq (Owed \ {a}) \cup {b}
  PROVE  OwedOK'
  <1>1. CallsOfClients' = CallsOfClients
    BY DEF CallsOfClients
  <1>2. /\ IsFiniteSet(Owed \ {a}) /\ Cardinality(Owed) \in Nat
        /\ Cardinality(Owed \ {a}) = Cardinality(Owed) - 1
    BY FS_RemoveElement, FS_CardinalityType DEF OwedOK
  <1>3. /\ IsFiniteSet((Owed \ {a}) \cup {b})
        /\ Cardinality((Owed \ {a}) \cup {b}) =< Cardinality(Owed)
        /\ Cardinality((Owed \ {a}) \cup {b}) \in Nat
    BY <1>2, FS_AddElement, FS_CardinalityType
  <1>4. /\ IsFiniteSet(Owed') /\ Cardinality(Owed') \in Nat
        /\ Cardinality(Owed') =< Cardinality((Owed \ {a}) \cup {b})
    BY <1>3, FS_Subset, FS_CardinalityType
  <1>5. Cardinality(CallsOfClients) \in Nat
    BY FS_CardinalityType DEF OwedOK
  <1> QED
    BY <1>1, <1>2, <1>3, <1>4, <1>5 DEF OwedOK

\* A handler may ask each of the other replicas, at once or one by one.
LEMMA HandleOwed ==
  ASSUME Structure, NEW t \in Task, job[t] = "none",
         NEW op \in Op \cup {"replicate"}, Handle(t, op)
  PROVE  \E g \in {"send", "try"} : \A o \in Owed' :
           \/ o[1] = "stream"
           \/ o \in Owed
           \/ \E n \in Replica \ {NodeOf(t)} : o = <<g, t, n>>
  <1> DEFINE g == IF op = "get" THEN "try" ELSE "send"
  <1>1. /\ todo'[t] = IF op = "get" THEN Replicas ELSE <<>>
        /\ asks'[t] \subseteq Replica \ {NodeOf(t)}
        /\ op = "get" => asks'[t] = {}
        /\ \A u \in Task \ {t} : Same(u)
    BY HandleJob
  <1>2. op # "get" => ToSet(todo'[t]) = {}
    BY <1>1 DEF ToSet
  <1>3. op = "get" => ToSet(todo'[t]) = Replica
    BY <1>1 DEF Replica
  <1> SUFFICES ASSUME NEW o \in Owed', o[1] # "stream"
               PROVE  o \in Owed \/ \E n \in Replica \ {NodeOf(t)} : o = <<g, t, n>>
    OBVIOUS
  <1>4. /\ o \in {"stream", "send", "try"} \X Task \X (Nat \cup Replica)
        /\ o = <<o[1], o[2], o[3]>>
        /\ \/ o[1] = "send" /\ o[3] \in asks'[o[2]] \ sent'[o[2]]
           \/ o[1] = "try" /\ o[3] \in ToSet(todo'[o[2]]) \ {NodeOf(o[2])}
    BY DEF Owed, OwedBy
  <1>5. CASE o[2] = t
    BY <1>1, <1>2, <1>3, <1>4, <1>5
  <1>6. CASE o[2] # t
    <2>1. o[2] \in Task \ {t}
      BY <1>4, <1>6
    <2>2. OwedBy(o[1], o[2], o[3])
      BY <1>1, <1>4, <2>1 DEF OwedBy, Same
    <2> QED
      BY <1>4, <2>2 DEF Owed
  <1> QED
    BY <1>5, <1>6

LEMMA ClientCallsOwed ==
  ASSUME Structure, OwedOK, NEW c \in Client, ClientCalls(c)
  PROVE  OwedOK'
  <1> DEFINE N == Replica \ {At[c]}
             New == {<<c, made[c] + 1>>} \X N
  <1>1. c \in Task /\ NodeOf(c) = At[c] /\ job[c] = "none"
    BY Places DEF ClientCalls
  <1>2. PICK op \in Op : Handle(c, op)
    BY ClientAssumption DEF ClientCalls
  <1>3. PICK g \in {"send", "try"} : \A o \in Owed' :
          \/ o[1] = "stream"
          \/ o \in Owed
          \/ \E n \in N : o = <<g, c, n>>
    BY <1>1, <1>2, HandleOwed
  <1> DEFINE B == {<<g, c, n>> : n \in N}
  <1>4. requests' = requests
    BY DEF ClientCalls
  <1>5. \A o \in Owed' : o[1] = "stream" => o \in Owed
    BY <1>4 DEF Owed, OwedBy
  <1>6. Owed' \subseteq Owed \cup B
    BY <1>3, <1>5
  <1>7. IsFiniteSet(N) /\ Cardinality(N) \in Nat
    BY Places, FS_Difference, FS_CardinalityType
  <1>8. IsFiniteSet(B) /\ Cardinality(B) =< Cardinality(N) /\ Cardinality(B) \in Nat
    <2> DEFINE f == [o \in B |-> o[3]]
    <2>1. f \in Injection(B, N)
      BY DEF Injection, IsInjective
    <2> HIDE DEF f
    <2> QED
      BY <1>7, <2>1, FS_Injection, FS_CardinalityType
  <1>9. /\ IsFiniteSet(New) /\ Cardinality(New) = Cardinality(N)
    <2>1. IsFiniteSet({<<c, made[c] + 1>>}) /\ Cardinality({<<c, made[c] + 1>>}) = 1
      BY FS_Singleton
    <2> QED
      BY <1>7, <2>1, FS_Product
  <1>10. CallsOfClients' = CallsOfClients \cup New
    <2>1. /\ made[c] \in Nat /\ made'[c] = made[c] + 1
          /\ \A d \in Client \ {c} : made'[d] = made[d]
      BY DEF ClientCalls, Structure, TypeOK
    <2>2. 1 .. made'[c] = (1 .. made[c]) \cup {made[c] + 1}
      BY <2>1
    <2>3. ({c} \X (1 .. made'[c])) \X N = (({c} \X (1 .. made[c])) \X N) \cup New
      BY <2>2
    <2> QED
      BY <2>1, <2>3 DEF CallsOfClients
  <1>11. CallsOfClients \cap New = {}
    <2>1. made[c] \in Nat /\ made[c] + 1 \notin 1 .. made[c]
      BY DEF Structure, TypeOK
    <2> QED
      BY <2>1 DEF CallsOfClients
  <1> HIDE DEF B, New, N
  <1>12. /\ IsFiniteSet(Owed \cup B)
         /\ Cardinality(Owed \cup B) =< Cardinality(Owed) + Cardinality(B)
         /\ Cardinality(Owed) \in Nat /\ Cardinality(Owed \cup B) \in Nat
    <2>1. Cardinality(Owed \cap B) \in Nat
      BY FS_Intersection, FS_CardinalityType DEF OwedOK
    <2>2. /\ IsFiniteSet(Owed \cup B)
          /\ Cardinality(Owed \cup B)
               = Cardinality(Owed) + Cardinality(B) - Cardinality(Owed \cap B)
      BY <1>8, FS_Union DEF OwedOK
    <2>3. Cardinality(Owed) \in Nat /\ Cardinality(Owed \cup B) \in Nat
      BY <2>2, FS_CardinalityType DEF OwedOK
    <2> QED
      BY <1>8, <2>1, <2>2, <2>3
  <1>13. /\ IsFiniteSet(Owed') /\ Cardinality(Owed') \in Nat
         /\ Cardinality(Owed') =< Cardinality(Owed \cup B)
    BY <1>6, <1>12, FS_Subset, FS_CardinalityType
  <1>14. /\ IsFiniteSet(CallsOfClients')
         /\ Cardinality(CallsOfClients') = Cardinality(CallsOfClients) + Cardinality(N)
         /\ Cardinality(CallsOfClients) \in Nat
    <2>1. Cardinality(CallsOfClients \cap New) = 0
      BY <1>11, FS_EmptySet
    <2>2. IsFiniteSet(CallsOfClients) /\ Cardinality(CallsOfClients) \in Nat
      BY FS_CardinalityType DEF OwedOK
    <2>3. /\ IsFiniteSet(CallsOfClients \cup New)
          /\ Cardinality(CallsOfClients \cup New)
               = Cardinality(CallsOfClients) + Cardinality(New)
                   - Cardinality(CallsOfClients \cap New)
      BY <1>9, <2>2, FS_Union
    <2> QED
      BY <1>7, <1>9, <1>10, <2>1, <2>2, <2>3
  <1>15. Cardinality(Owed) =< Cardinality(CallsOfClients)
    BY DEF OwedOK
  <1>16. Cardinality(Owed') =< Cardinality(CallsOfClients')
    BY <1>7, <1>8, <1>12, <1>13, <1>14, <1>15
  <1> QED
    BY <1>13, <1>14, <1>16 DEF OwedOK

\* A replica has at most one other.
LEMMA OneOther ==
  ASSUME Cardinality(Replica) =< 2, NEW r \in Replica,
         NEW m \in Replica \ {r}, NEW n \in Replica \ {r}
  PROVE  m = n
  <1>1. IsFiniteSet(Replica) /\ Cardinality(Replica) \in Nat
    BY Places, FS_CardinalityType
  <1>2. IsFiniteSet(Replica \ {r}) /\ Cardinality(Replica \ {r}) = Cardinality(Replica) - 1
    BY <1>1, FS_RemoveElement
  <1>3. /\ IsFiniteSet((Replica \ {r}) \ {m})
        /\ Cardinality((Replica \ {r}) \ {m}) = Cardinality(Replica) - 2
    <2> DEFINE S == Replica \ {r}
    <2>1. IsFiniteSet(S) /\ Cardinality(S) = Cardinality(Replica) - 1 /\ m \in S
      BY <1>2
    <2> HIDE DEF S
    <2>2. IsFiniteSet(S \ {m}) /\ Cardinality(S \ {m}) = Cardinality(S) - 1
      BY <2>1, FS_RemoveElement
    <2>3. Cardinality(S \ {m}) = Cardinality(Replica) - 2
      BY <1>1, <2>1, <2>2
    <2> QED
      BY <2>2, <2>3 DEF S
  <1>4. Cardinality((Replica \ {r}) \ {m}) \in Nat
    BY <1>3, FS_CardinalityType
  <1>5. Cardinality((Replica \ {r}) \ {m}) = 0
    BY <1>1, <1>3, <1>4
  <1>6. (Replica \ {r}) \ {m} = {}
    BY <1>3, <1>5, FS_EmptySet
  <1> QED
    BY <1>6

\* The request that is read pays for the one that its handler may send.
LEMMA ServeOwed ==
  ASSUME Structure, OwedOK, Cardinality(Replica) =< 2, NEW k \in Link, Serve(k)
  PROVE  OwedOK'
  <1> DEFINE len == Len(requests[k])
             a == <<"stream", k, len>>
             n == CHOOSE m \in Replica \ {NodeOf(k)} : TRUE
  <1>1. k \in Task /\ NodeOf(k) \in Replica /\ job[k] = "none" /\ made' = made
    BY Places DEF Serve
  <1>2. PICK op \in Op \cup {"replicate"} : Handle(k, op)
    BY DEF Serve, Structure, TypeOK
  <1>3. PICK g \in {"send", "try"} : \A o \in Owed' :
          \/ o[1] = "stream"
          \/ o \in Owed
          \/ \E m \in Replica \ {NodeOf(k)} : o = <<g, k, m>>
    BY <1>1, <1>2, HandleOwed
  <1> DEFINE b == <<g, k, n>>
  <1>4. /\ len \in Nat /\ len >= 1 /\ Len(requests'[k]) = len - 1
        /\ \A l \in Link \ {k} : requests'[l] = requests[l]
    BY DEF Serve, Structure, TypeOK
  <1>5. a \in Owed
    BY <1>1, <1>4 DEF Owed, OwedBy
  <1>6. ASSUME NEW o \in Owed', o[1] = "stream"
        PROVE  o \in Owed \ {a}
    <2>1. /\ o \in {"stream", "send", "try"} \X Task \X (Nat \cup Replica)
          /\ o[2] \in Link /\ o[3] \in 1 .. Len(requests'[o[2]])
      BY <1>6 DEF Owed, OwedBy
    <2>2. o[3] \in 1 .. Len(requests[o[2]]) /\ o # a
      BY <1>4, <2>1
    <2> QED
      BY <1>6, <2>1, <2>2 DEF Owed, OwedBy
  <1>7. ASSUME NEW o \in Owed', NEW m \in Replica \ {NodeOf(k)}, o = <<g, k, m>>
        PROVE  o = b
    <2>1. n \in Replica \ {NodeOf(k)}
      BY <1>7
    <2>2. m = n
      BY <1>1, <2>1, OneOther
    <2> QED
      BY <1>7, <2>2
  <1>8. Owed' \subseteq (Owed \ {a}) \cup {b}
    BY <1>3, <1>6, <1>7
  <1> QED
    BY <1>1, <1>5, <1>8, OwedReplaced

LEMMA TryNextOwed ==
  ASSUME Structure, OwedOK, NEW t \in Task, TryNext(t)
  PROVE  OwedOK'
  <1> DEFINE r == Head(todo[t])
             a == <<"try", t, r>>
             b == <<"send", t, r>>
  <1>1. /\ \A u \in Task \ {t} : Same(u)
        /\ sent'[t] = sent[t] /\ asks'[t] = IF r = NodeOf(t) THEN {} ELSE {r}
        /\ r \in Replica
        /\ ToSet(todo'[t]) = ToSet(todo[t]) \ {r} /\ r \in ToSet(todo[t])
    BY TryNextJob
  <1>2. requests' = requests /\ made' = made
    BY DEF TryNext, clients
  <1> HIDE DEF r
  <1>3. ASSUME NEW o \in Owed', o # b
        PROVE  o \in Owed /\ o # a
    <2>1. /\ o \in {"stream", "send", "try"} \X Task \X (Nat \cup Replica)
          /\ o = <<o[1], o[2], o[3]>>
          /\ \/ o[1] = "stream" /\ o[2] \in Link /\ o[3] \in 1 .. Len(requests'[o[2]])
             \/ o[1] = "send" /\ o[3] \in asks'[o[2]] \ sent'[o[2]]
             \/ o[1] = "try" /\ o[3] \in ToSet(todo'[o[2]]) \ {NodeOf(o[2])}
      BY DEF Owed, OwedBy
    <2>2. OwedBy(o[1], o[2], o[3]) /\ o # a
      <3>1. CASE o[2] = t
        BY <1>1, <1>2, <1>3, <2>1, <3>1 DEF OwedBy
      <3>2. CASE o[2] # t
        BY <1>1, <1>2, <2>1, <3>2 DEF OwedBy, Same
      <3> QED
        BY <3>1, <3>2
    <2> QED
      BY <2>1, <2>2 DEF Owed
  <1>4. CASE r = NodeOf(t)
    <2>1. b \notin Owed'
      BY <1>1, <1>4 DEF Owed, OwedBy
    <2> QED
      BY <1>2, <1>3, <2>1, OwedSettled
  <1>5. CASE r # NodeOf(t)
    <2>1. a \in Owed
      BY <1>1, <1>5 DEF Owed, OwedBy
    <2>2. Owed' \subseteq (Owed \ {a}) \cup {b}
      BY <1>3
    <2> QED
      BY <1>2, <2>1, <2>2, OwedReplaced
  <1> QED
    BY <1>4, <1>5

LEMMA SendOwed ==
  ASSUME Structure, OwedOK, NEW t \in Task, NEW n \in Node, Send(t, n)
  PROVE  OwedOK'
  <1>1. n \in asks[t] \ sent[t] /\ n \in Replica \ {NodeOf(t)}
    BY DEF Send, Structure, TypeOK, JobOK
  <1>2. PICK k \in Link : k = To(t, n)
    BY <1>1, Places
  <1> DEFINE a == <<"send", t, n>>
             b == <<"stream", k, Len(requests[k]) + 1>>
  <1>3. /\ Len(requests[k]) \in Nat /\ Len(requests'[k]) = Len(requests[k]) + 1
        /\ \A l \in Link \ {k} : requests'[l] = requests[l]
    <2>1. /\ requests \in [Link -> Seq(Op \cup {"replicate"})]
          /\ requests' = [requests EXCEPT ![k] = Append(@, Wire(job[t]))]
      BY <1>2 DEF Send, Structure, TypeOK
    <2>2. /\ requests'[k] = Append(requests[k], Wire(job[t]))
          /\ \A l \in Link \ {k} : requests'[l] = requests[l]
      BY <2>1
    <2>3. requests[k] \in Seq(Op \cup {"replicate"})
      BY <2>1
    <2> QED
      BY <2>2, <2>3
  <1>4. /\ sent'[t] = sent[t] \cup {n} /\ \A u \in Task \ {t} : sent'[u] = sent[u]
        /\ asks' = asks /\ todo' = todo /\ made' = made
    BY DEF Send, clients, Structure, TypeOK
  <1>5. a \in Owed
    BY <1>1 DEF Owed, OwedBy
  <1>6. ASSUME NEW o \in Owed'
        PROVE  o \in (Owed \ {a}) \cup {b}
    <2>1. /\ o \in {"stream", "send", "try"} \X Task \X (Nat \cup Replica)
          /\ o = <<o[1], o[2], o[3]>>
          /\ \/ o[1] = "stream" /\ o[2] \in Link /\ o[3] \in 1 .. Len(requests'[o[2]])
             \/ o[1] = "send" /\ o[3] \in asks'[o[2]] \ sent'[o[2]]
             \/ o[1] = "try" /\ o[3] \in ToSet(todo'[o[2]]) \ {NodeOf(o[2])}
      BY DEF Owed, OwedBy
    <2>2. CASE o[1] = "stream"
      BY <1>3, <2>1, <2>2 DEF Owed, OwedBy
    <2>3. CASE o[1] = "send"
      BY <1>4, <2>1, <2>3 DEF Owed, OwedBy
    <2>4. CASE o[1] = "try"
      BY <1>4, <2>1, <2>4 DEF Owed, OwedBy
    <2> QED
      BY <2>1, <2>2, <2>3, <2>4
  <1> HIDE DEF a, b
  <1> QED
    BY <1>4, <1>5, <1>6, OwedReplaced

\* A call that is over may have been owed; no job owes more.
LEMMA HangUpOwed ==
  ASSUME Structure, OwedOK, NEW t \in Task, NEW n \in asks[t], HangUp(t, n),
         requests' = requests, todo' = todo, made' = made
  PROVE  OwedOK'
  <1>1. \A u \in Task : asks'[u] \ sent'[u] \subseteq asks[u] \ sent[u]
    BY HangUpJob
  <1>2. Owed' \subseteq Owed
    BY <1>1 DEF Owed, OwedBy
  <1> QED
    BY <1>2, OwedSettled

LEMMA ConcludeOwed ==
  ASSUME Structure, OwedOK, NEW t \in Task, Conclude(t)
  PROVE  OwedOK'
  <1>1. requests' = requests /\ asks' = asks /\ sent' = sent /\ made' = made
    BY DEF Conclude, calls
  <1>2. \A u \in Task : ToSet(todo'[u]) \subseteq ToSet(todo[u])
    <2>1. todo'[t] = <<>> /\ \A u \in Task \ {t} : todo'[u] = todo[u]
      BY ConcludeJob DEF Same
    <2> QED
      BY <2>1 DEF ToSet
  <1>3. Owed' \subseteq Owed
    BY <1>1, <1>2 DEF Owed, OwedBy
  <1> QED
    BY <1>1, <1>3, OwedSettled

LEMMA NextOwed ==
  ASSUME Cardinality(Replica) =< 2, Structure, OwedOK, [Next]_vars
  PROVE  OwedOK'
  <1>1. ASSUME NEW t \in Task, NEW n \in Node, Receive(t, n)
        PROVE  OwedOK'
    <2>1. n \in asks[t]
      BY <1>1 DEF Receive, Structure, TypeOK
    <2> QED
      BY <1>1, <2>1, HangUpOwed DEF Receive, clients
  <1>2. ASSUME NEW t \in Task, NEW n \in Node, TimeOut(t, n)
        PROVE  OwedOK'
    BY <1>2, HangUpOwed DEF TimeOut, clients
  <1>3. CASE Tick \/ UNCHANGED vars
    <2>1. UNCHANGED <<requests, asks, sent, todo, made>>
      BY <1>3 DEF Tick, vars, streams, calls, clients
    <2>2. Owed' \subseteq Owed
      BY <2>1 DEF Owed, OwedBy
    <2> QED
      BY <2>1, <2>2, OwedSettled
  <1> QED
    BY <1>1, <1>2, <1>3, Steps, ClientCallsOwed, ServeOwed, TryNextOwed,
       SendOwed, ConcludeOwed

\* Whatever the clients request and however often calls time out: with two
\* replicas, the requests that travel between the nodes never outnumber the calls
\* that the clients' own requests made (replication.rs:248: a delete received
\* from a peer runs delete_replicated again and asks the other replica back).
THEOREM RequestsNeverMultiply == Spec => []RequestsDoNotMultiply
  <1> DEFINE Paid == Structure /\ (Cardinality(Replica) =< 2 => OwedOK)
  <1>1. Init => Paid
    BY InitStructure, InitOwed
  <1>2. Paid /\ [Next]_vars => Paid'
    BY NextStructure, NextOwed
  <1>3. Paid => RequestsDoNotMultiply
    <2> SUFFICES ASSUME OwedOK
                 PROVE  Cardinality(RequestsInStreams) =< Cardinality(CallsOfClients)
      BY DEF RequestsDoNotMultiply
    <2> DEFINE f == [p \in RequestsInStreams |-> <<"stream", p[1], p[2]>>]
    <2>1. \A p \in RequestsInStreams :
            /\ p = <<p[1], p[2]>>
            /\ p[1] \in Link /\ p[2] \in 1 .. Len(requests[p[1]])
      BY DEF RequestsInStreams
    <2>2. \A p \in RequestsInStreams : <<"stream", p[1], p[2]>> \in Owed
      BY <2>1 DEF Owed, OwedBy, Task
    <2>3. f \in Injection(RequestsInStreams, Owed)
      BY <2>1, <2>2 DEF Injection, IsInjective
    <2> HIDE DEF f
    <2>4. /\ IsFiniteSet(RequestsInStreams)
          /\ Cardinality(RequestsInStreams) =< Cardinality(Owed)
      BY <2>3, FS_Injection DEF OwedOK
    <2>5. /\ Cardinality(RequestsInStreams) \in Nat /\ Cardinality(Owed) \in Nat
          /\ Cardinality(CallsOfClients) \in Nat
      BY <2>4, FS_CardinalityType DEF OwedOK
    <2> QED
      BY <2>4, <2>5 DEF OwedOK
  <1> HIDE DEF Paid
  <1> QED
    BY <1>1, <1>2, <1>3, PTL DEF Spec

=============================================================================
