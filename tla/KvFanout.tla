------------------------------ MODULE KvFanout ------------------------------
(***************************************************************************)
(* Put, Get and Delete of one key across the nodes that hold it:           *)
(* put_replicated, get_replicated and delete_replicated (replication.rs)   *)
(* over one connection per ordered pair of nodes (client.rs), served by    *)
(* one task per connection (server.rs).                                    *)
(*                                                                         *)
(* handle_request answers the Get or Delete of a peer as it answers that   *)
(* of a client: by running the replicated operation again.  So a job is    *)
(* one run of a replicated operation, by the task of a client or by the    *)
(* connection task of a link, and jobs of two nodes wait for each other.   *)
(*                                                                         *)
(* Streams are FIFO and lose nothing; frames left half transferred, broken *)
(* connections and the 2 s timeout of call(), longer than op_timeout, are  *)
(* in KvRpc.  A put enters at a replica: KvReplication has the others.     *)
(***************************************************************************)
EXTENDS Naturals, Sequences, FiniteSets, SequencesExt, DistinctSeq

CONSTANTS
  Node,
  Replicas,     \* the replicas of the key, primary first
  Client,       \* connections of clients
  At,           \* At[c]: the node that client c is connected to
  OpsOf,        \* OpsOf[c]: what client c requests
  MaxCalls,     \* bound on the requests of each client
  OpTimeout,    \* op_timeout, in ticks
  WriteQuorum,
  Prompt,       \* time passes only when every task waits for a timer
  Stored,       \* the sets of nodes that may store the key at first
  MaxServed     \* bound on the requests that the nodes serve; then they hang

Op == {"put", "get", "delete"}
Replica == ToSet(Replicas)
Link == {l \in Node \X Replica : l[1] # l[2]}
Task == Client \cup Link

ASSUME ReplicaAssumption ==
  /\ IsFiniteSet(Node) /\ Replicas \in Seq(Node) /\ Replicas # <<>>
  /\ IsInjective(Replicas) /\ Stored \subseteq SUBSET Replica
ASSUME ClientAssumption ==
  /\ IsFiniteSet(Client) /\ Client \cap Link = {}
  /\ At \in [Client -> Node] /\ OpsOf \in [Client -> SUBSET Op]
  /\ \A c \in Client : "put" \in OpsOf[c] => At[c] \in Replica
ASSUME ParameterAssumption ==
  /\ OpTimeout \in Nat \ {0} /\ WriteQuorum \in Nat /\ MaxCalls \in Nat
  /\ Prompt \in BOOLEAN /\ MaxServed \in Nat

\* A link's requests are handled by a task of the node it leads to.
NodeOf(t) == IF t \in Client THEN At[t] ELSE t[2]
To(t, n) == <<NodeOf(t), n>>

VARIABLES
  has,        \* has[n]: node n stores the key
  queue,      \* queue[l]: the jobs that hold (the first) or await its mutex
  requests,   \* requests[l]: the requests written to l that are not yet read
  responses,  \* responses[l]: the responses written back, not yet read
  job,        \* job[t]: the operation that task t runs, "none" if it is idle
  todo,       \* todo[t]: the replicas that a get has still to try
  good,       \* good[t]: the acks of a put, the hits of a get or delete
  asks,       \* asks[t]: the nodes that the job has a call to
  sent,       \* sent[t]: those of them it wrote its request to
  age,        \* age[t]: the age of these calls
  elapsed,    \* elapsed[c]: the age of the request of client c
  made,       \* made[c]: how many requests client c has made
  served,     \* how many requests the nodes have read from one another
  result,     \* result[c]: its last answer, as a response
  timedOut,   \* some call has timed out (history)
  stored      \* stored[c]: since then every replica stores the key and no
              \* call timed out (history)

streams == <<queue, requests, responses>>
calls == <<asks, sent, age>>
clients == <<made, result, served>>
vars == <<has, streams, job, todo, good, calls, elapsed, clients, timedOut,
          stored>>

NoAnswer == [op |-> "none", ok |-> FALSE]

\* A restart leaves a replica empty, a put that failed leaves it alone.
Init ==
  /\ \E S \in Stored : has = [n \in Node |-> n \in S]
  /\ queue = [l \in Link |-> <<>>]
  /\ requests = [l \in Link |-> <<>>]
  /\ responses = [l \in Link |-> <<>>]
  /\ job = [t \in Task |-> "none"]
  /\ todo = [t \in Task |-> <<>>]
  /\ good = [t \in Task |-> 0]
  /\ asks = [t \in Task |-> {}]
  /\ sent = [t \in Task |-> {}]
  /\ age = [t \in Task |-> 0]
  /\ elapsed = [c \in Client |-> 0]
  /\ made = [c \in Client |-> 0]
  /\ result = [c \in Client |-> NoAnswer]
  /\ served = 0
  /\ timedOut = FALSE
  /\ stored = [c \in Client |-> FALSE]

-----------------------------------------------------------------------------
(* A job. *)

\* Call each node of S: queue for the connection to it.
Ask(t, S) ==
  /\ asks' = [asks EXCEPT ![t] = S]
  /\ age' = [age EXCEPT ![t] = 0]
  /\ queue' = [l \in Link |->
                 IF l[1] = NodeOf(t) /\ l[2] \in S THEN Append(queue[l], t)
                                                   ELSE queue[l]]

Store(n, present) ==
  /\ has' = [has EXCEPT ![n] = present]
  /\ stored' = IF present THEN stored ELSE [c \in Client |-> FALSE]

\* Write here, then to all the other replicas at once.
Spread(t, present, local) ==
  LET n == NodeOf(t) IN
  /\ IF n \in Replica THEN Store(n, present) ELSE UNCHANGED <<has, stored>>
  /\ good' = [good EXCEPT ![t] = local]
  /\ todo' = [todo EXCEPT ![t] = <<>>]
  /\ Ask(t, Replica \ {n})

\* The handler of one request, up to its first wait.
Handle(t, op) ==
  LET n == NodeOf(t) IN
  /\ job' = [job EXCEPT ![t] = op]
  /\ UNCHANGED sent
  /\ CASE op = "put" -> Spread(t, TRUE, 1)
       [] op = "delete" -> Spread(t, FALSE, IF has[n] THEN 1 ELSE 0)
       [] op = "replicate" ->
            /\ Store(n, TRUE)
            /\ good' = [good EXCEPT ![t] = 1]
            /\ todo' = [todo EXCEPT ![t] = <<>>]
            /\ Ask(t, {})
       [] op = "get" ->
            /\ todo' = [todo EXCEPT ![t] = Replicas]
            /\ good' = [good EXCEPT ![t] = 0]
            /\ stored' = [c \in Client |->
                 IF c = t THEN ~ timedOut /\ \A r \in Replica : has[r]
                          ELSE stored[c]]
            /\ Ask(t, {})
            /\ UNCHANGED has

\* A get tries the next replica: its own store, or a call.
TryNext(t) ==
  LET r == Head(todo[t]) IN
  /\ todo[t] # <<>> /\ asks[t] = {} /\ good[t] = 0
  /\ todo' = [todo EXCEPT ![t] = Tail(@)]
  /\ IF r = NodeOf(t)
       THEN /\ good' = [good EXCEPT ![t] = IF has[r] THEN 1 ELSE 0]
            /\ UNCHANGED <<queue, asks, age>>
       ELSE Ask(t, {r}) /\ UNCHANGED good
  /\ UNCHANGED <<has, requests, responses, job, sent, elapsed, clients,
                 timedOut, stored>>

Wire(op) == IF op = "put" THEN "replicate" ELSE op

\* Mutant: the mutex of the connection is ignored.
SendUnlocked(t, n) ==
  LET l == To(t, n) IN
  /\ n \in asks[t] \ sent[t]
  /\ requests' = [requests EXCEPT ![l] = Append(@, Wire(job[t]))]
  /\ sent' = [sent EXCEPT ![t] = @ \cup {n}]
  /\ UNCHANGED <<has, queue, responses, job, todo, good, asks, age, elapsed,
                 clients, timedOut, stored>>

Send(t, n) ==
  LET l == To(t, n) IN
  /\ n \in asks[t] \ sent[t]
  /\ Head(queue[l]) = t
  /\ requests' = [requests EXCEPT ![l] = Append(@, Wire(job[t]))]
  /\ sent' = [sent EXCEPT ![t] = @ \cup {n}]
  /\ UNCHANGED <<has, queue, responses, job, todo, good, asks, age, elapsed,
                 clients, timedOut, stored>>

\* Mutant: a call that times out keeps its place in the queue.
HangUpKeepsPlace(t, n) ==
  /\ asks' = [asks EXCEPT ![t] = @ \ {n}]
  /\ sent' = [sent EXCEPT ![t] = @ \ {n}]
  /\ queue' = IF n \in sent[t]
                THEN [queue EXCEPT ![To(t, n)] = Leave(@, t)]
                ELSE queue
  /\ age' = IF asks[t] = {n} THEN [age EXCEPT ![t] = 0] ELSE age

\* The call is over, its future dropped or returned.
HangUp(t, n) ==
  /\ asks' = [asks EXCEPT ![t] = @ \ {n}]
  /\ sent' = [sent EXCEPT ![t] = @ \ {n}]
  /\ age' = IF asks[t] = {n} THEN [age EXCEPT ![t] = 0] ELSE age
  /\ queue' = [queue EXCEPT ![To(t, n)] = Leave(@, t)]

\* The next response of the stream is taken for the answer; one of another
\* kind is an error.
Receive(t, n) ==
  LET l == To(t, n)
      r == Head(responses[l])
  IN
  /\ n \in sent[t]
  /\ responses[l] # <<>>
  /\ responses' = [responses EXCEPT ![l] = Tail(@)]
  /\ good' = IF r.op = Wire(job[t]) /\ r.ok
               THEN [good EXCEPT ![t] = @ + 1] ELSE good
  /\ HangUp(t, n)
  /\ UNCHANGED <<has, requests, job, todo, elapsed, clients, timedOut, stored>>

\* Mutant: the timeout starts once the mutex is held.
AgingOnceSent(t) == sent[t] # {}

\* Mutant: nothing bounds a call.
NeverAging(t) == FALSE

\* timeout(op_timeout, client.call(..)) covers the wait for the mutex.
Aging(t) == asks[t] # {}

Due(t) == asks[t] # {} /\ age[t] >= OpTimeout

\* Mutant: a request that timed out is sent again.
TimeOutRetries(t, n) ==
  /\ Due(t)
  /\ n \in asks[t]
  /\ timedOut' = TRUE
  /\ stored' = [c \in Client |-> FALSE]
  /\ HangUp(t, n)
  /\ requests' = [requests EXCEPT ![To(t, n)] = Append(@, Wire(job[t]))]
  /\ UNCHANGED <<has, responses, job, todo, good, elapsed, clients>>

TimeOut(t, n) ==
  /\ Due(t)
  /\ n \in asks[t]
  /\ timedOut' = TRUE
  /\ stored' = [c \in Client |-> FALSE]
  /\ HangUp(t, n)
  /\ UNCHANGED <<has, requests, responses, job, todo, good, elapsed, clients>>

Over(t) ==
  /\ job[t] # "none"
  /\ asks[t] = {}
  /\ todo[t] = <<>> \/ good[t] > 0

Answer(t) ==
  [op |-> job[t],
   ok |-> good[t] >= IF job[t] = "put" THEN WriteQuorum ELSE 1]

\* A client or a peer gets its answer.
Conclude(t) ==
  /\ Over(t)
  /\ job' = [job EXCEPT ![t] = "none"]
  /\ todo' = [todo EXCEPT ![t] = <<>>]
  /\ good' = [good EXCEPT ![t] = 0]
  /\ IF t \in Client
       THEN /\ result' = [result EXCEPT ![t] = Answer(t)]
            /\ elapsed' = [elapsed EXCEPT ![t] = 0]
            /\ UNCHANGED responses
       ELSE /\ responses' = [responses EXCEPT ![t] = Append(@, Answer(t))]
            /\ UNCHANGED <<result, elapsed>>
  /\ UNCHANGED <<has, queue, requests, calls, made, served, timedOut, stored>>

-----------------------------------------------------------------------------
(* Clients, connection tasks, time. *)

ClientCalls(c) ==
  /\ job[c] = "none"
  /\ made[c] < MaxCalls
  /\ made' = [made EXCEPT ![c] = @ + 1]
  /\ result' = [result EXCEPT ![c] = NoAnswer]
  /\ \E op \in OpsOf[c] : Handle(c, op)
  /\ UNCHANGED <<requests, responses, elapsed, served, timedOut>>

\* The connection task of l reads its next request once it answered the last.
Serve(l) ==
  /\ job[l] = "none"
  /\ requests[l] # <<>>
  /\ served < MaxServed
  /\ served' = served + 1
  /\ requests' = [requests EXCEPT ![l] = Tail(@)]
  /\ Handle(l, Head(requests[l]))
  /\ UNCHANGED <<responses, elapsed, made, result, timedOut>>

Work(t) ==
  \/ TryNext(t)
  \/ \E n \in Node : Send(t, n) \/ Receive(t, n) \/ TimeOut(t, n)
  \/ Conclude(t)

\* Some task has something to do other than wait.
Busy ==
  \E t \in Task :
    \/ todo[t] # <<>> /\ asks[t] = {} /\ good[t] = 0
    \/ Over(t)
    \/ \E n \in asks[t] \ sent[t] : Head(queue[To(t, n)]) = t
    \/ \E n \in sent[t] : responses[To(t, n)] # <<>>
    \/ t \in Link /\ job[t] = "none" /\ requests[t] # <<>> /\ served < MaxServed

\* Bound on elapsed, above what any request should take.
MaxElapsed == OpTimeout * Len(Replicas) + 1

Tick ==
  /\ \E t \in Task : asks[t] # {}
  /\ \A t \in Task : ~ Due(t)
  /\ Prompt => ~ Busy
  /\ age' = [t \in Task |-> IF Aging(t) THEN age[t] + 1 ELSE age[t]]
  /\ elapsed' = [c \in Client |-> IF asks[c] # {} /\ elapsed[c] < MaxElapsed
                                  THEN elapsed[c] + 1 ELSE elapsed[c]]
  /\ UNCHANGED <<has, streams, job, todo, good, asks, sent, clients, timedOut,
                 stored>>

Next ==
  \/ \E c \in Client : ClientCalls(c)
  \/ \E l \in Link : Serve(l)
  \/ \E t \in Task : Work(t)
  \/ Tick

Spec == Init /\ [][Next]_vars

\* The tasks run and time passes.
FairSpec ==
  /\ Spec
  /\ WF_vars(Tick)
  /\ \A t \in Task : WF_vars(Work(t))

-----------------------------------------------------------------------------
(* Properties. *)

Response == [op : Op \cup {"none", "replicate"}, ok : BOOLEAN]

\* The queue of a connection names exactly the jobs that have a call on it.
QueueOK(l) ==
  /\ IsInjective(queue[l])
  /\ ToSet(queue[l]) = {t \in Task : NodeOf(t) = l[1] /\ l[2] \in asks[t]}

\* The types, and that each call has one place in the queue of its connection:
\* a dropped call leaves none behind (client.rs:44).
TypeOK ==
  /\ has \in [Node -> BOOLEAN]
  /\ requests \in [Link -> Seq(Op \cup {"replicate"})]
  /\ responses \in [Link -> Seq(Response)]
  /\ job \in [Task -> Op \cup {"none", "replicate"}]
  /\ todo \in [Task -> Seq(Replica)]
  /\ good \in [Task -> Nat]
  /\ age \in [Task -> Nat] /\ elapsed \in [Client -> Nat]
  /\ made \in [Client -> Nat] /\ result \in [Client -> Response]
  /\ queue \in [Link -> Seq(Task)] /\ served \in Nat
  /\ asks \in [Task -> SUBSET Replica] /\ sent \in [Task -> SUBSET Replica]
  /\ timedOut \in BOOLEAN /\ stored \in [Client -> BOOLEAN]
  /\ \A t \in Task : sent[t] \subseteq asks[t]
  /\ \A l \in Link : QueueOK(l)

\* A delete takes at most one op_timeout, however many replicas are silent; a
\* get takes one for each replica it asks (replication.rs:223 "parallélisés
\* pour ne pas sommer les timeouts").
AnsweredInTime ==
  \A c \in Client :
    elapsed[c] =< OpTimeout * IF job[c] = "get"
                                THEN Cardinality(Replica \ {At[c]}) ELSE 1

\* The requests in the streams, by link and place; the calls to other nodes that
\* the requests of the clients take at most.
RequestsInStreams == UNION {{l} \X (1 .. Len(requests[l])) : l \in Link}
CallsOfClients ==
  UNION {({c} \X (1 .. made[c])) \X (Replica \ {At[c]}) : c \in Client}

\* With two replicas a handler asks at most one other node, so the requests in
\* the streams are never more than the calls the clients made to other nodes:
\* a request may be echoed, it is not multiplied (replication.rs:248).
RequestsDoNotMultiply ==
  Cardinality(Replica) =< 2 =>
    Cardinality(RequestsInStreams) =< Cardinality(CallsOfClients)

\* As long as no call timed out, a put at a replica is acknowledged by the
\* quorum, and a get finds a key that every replica stored all along
\* (replication.rs:170, 199-213).
RightUntilTimeout ==
  \A c \in Client :
    ~ timedOut =>
      /\ result[c].op = "put" /\ WriteQuorum =< Len(Replicas) => result[c].ok
      /\ result[c].op = "get" /\ stored[c] => result[c].ok

\* Every request of a client is answered, although its handlers may wait for
\* one another's connection: op_timeout breaks the cycle (replication.rs:205).
ClientsAnswered == \A c \in Client : job[c] # "none" ~> job[c] = "none"

\* The nodes are up and the network takes no time: every put is acknowledged
\* (tp-kv-distributed/README.md:182 "un cluster 3 noeuds répond à un PUT avec
\* ack quorum").
PutsAcked == \A c \in Client : result[c].op = "put" => result[c].ok
=============================================================================
