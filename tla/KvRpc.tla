-------------------------------- MODULE KvRpc --------------------------------
(***************************************************************************)
(* The channel between two nodes: KvClient (client.rs), shared by clones,  *)
(* the connection task of the peer (server.rs, handle_connection), and the *)
(* heartbeat loop that replaces a client (main.rs, step 8).                *)
(*                                                                         *)
(* A KvClient is one TCP stream behind a tokio mutex.  The peer reads a    *)
(* request, handles it, writes its response, and only then reads again.    *)
(* The streams are FIFO, so response number i of a connection answers its  *)
(* request number i: requests are kept in log, the rest are positions in   *)
(* it.  Nothing in a response says which request it answers.               *)
(* A timeout drops the future of the call wherever it is: also with half   *)
(* a frame written (cut) or half a frame read (garbled), after which what  *)
(* follows on the stream is decoded from the wrong byte.  Such bytes are   *)
(* taken to be an error or to leave the reader waiting, never a message.   *)
(*                                                                         *)
(* Time passes in ticks.  A timer that is due fires before the next tick.  *)
(***************************************************************************)
EXTENDS Naturals, Sequences, FiniteSets, DistinctSeq

CONSTANTS
  Caller,      \* tasks that share the pool: replications, forwards, heartbeats
  KindOf,      \* KindOf[t]: the request that task sends
  CallDur,     \* CallDur[k]: the timeout that call() is given, in ticks
  OuterDur,    \* op_timeout of the Replicator, in ticks
  Guarded,     \* the kinds that the Replicator wraps in op_timeout
  MaxCalls,    \* bound on the calls of each task
  MaxConn,     \* bound on the connections made
  MaxCloses,   \* bound on the connections the peer closes
  NoCaller     \* the mutex is free

Kind == {"put", "get", "delete", "replicate", "heartbeat"}
Conn == 1 .. MaxConn

KvRpcAssumption ==
  /\ IsFiniteSet(Caller) /\ NoCaller \notin Caller
  /\ KindOf \in [Caller -> Kind] /\ Guarded \subseteq Kind
  /\ CallDur \in [Kind -> Nat \ {0}] /\ OuterDur \in Nat \ {0}
  /\ MaxConn \in Nat \ {0} /\ MaxCalls \in Nat /\ MaxCloses \in Nat

VARIABLES
  pool,      \* the connection that the pool of peers holds
  next,      \* the number of connections made
  open,      \* open[c]: the peer has not closed connection c
  holder,    \* holder[c]: the task that holds the mutex of c
  queue,     \* queue[c]: the tasks that wait for it; the mutex is fair
  log,       \* log[c]: the kinds of the requests written to c
  cut,       \* cut[c]: a request was left half written
  garbled,   \* garbled[c]: a response was left half read
  received,  \* received[c]: how many of them the peer has read
  served,    \* served[c]: how many it has answered
  read,      \* read[c]: how many answers have been read from c
  pc,        \* the step of each task
  via,       \* the connection its call uses
  mine,      \* the position of its request, 0 before it is written
  age,       \* the age of its call, up to OuterDur
  held,      \* for how long it has held the mutex
  calls,     \* how many calls it has made
  outcome,   \* outcome[t]: "none", "ok" or "error", of the last call
  answer,    \* answer[t]: the position of the response it took, 0 for none
  abandoned  \* abandoned[c]: requests written whose answer was never read

conns == <<open, log, cut, garbled, received, served, read, abandoned>>
vars == <<pool, next, open, holder, queue, log, cut, garbled, received, served,
          read, pc, via, mine, age, held, calls, outcome, answer, abandoned>>

Init ==
  /\ pool = 1 /\ next = 1
  /\ open = [c \in Conn |-> TRUE]
  /\ holder = [c \in Conn |-> NoCaller]
  /\ queue = [c \in Conn |-> <<>>]
  /\ log = [c \in Conn |-> <<>>]
  /\ cut = [c \in Conn |-> FALSE]
  /\ garbled = [c \in Conn |-> FALSE]
  /\ received = [c \in Conn |-> 0]
  /\ served = [c \in Conn |-> 0]
  /\ read = [c \in Conn |-> 0]
  /\ pc = [t \in Caller |-> "idle"]
  /\ via = [t \in Caller |-> 1]
  /\ mine = [t \in Caller |-> 0]
  /\ age = [t \in Caller |-> 0]
  /\ held = [t \in Caller |-> 0]
  /\ calls = [t \in Caller |-> 0]
  /\ outcome = [t \in Caller |-> "none"]
  /\ answer = [t \in Caller |-> 0]
  /\ abandoned = [c \in Conn |-> 0]

-----------------------------------------------------------------------------
(* A task. *)

\* Take connection c and queue for its mutex.
Enqueue(t, c) ==
  /\ via' = [via EXCEPT ![t] = c]
  /\ queue' = [queue EXCEPT ![c] = Append(@, t)]
  /\ pc' = [pc EXCEPT ![t] = "lock"]
  /\ mine' = [mine EXCEPT ![t] = 0]
  /\ answer' = [answer EXCEPT ![t] = 0]
  /\ outcome' = [outcome EXCEPT ![t] = "none"]
  /\ UNCHANGED <<age, held>>

Begin(t) ==
  /\ pc[t] = "idle"
  /\ calls[t] < MaxCalls
  /\ calls' = [calls EXCEPT ![t] = @ + 1]
  /\ Enqueue(t, pool)
  /\ UNCHANGED <<pool, next, holder, conns>>

Acquire(t) ==
  LET c == via[t] IN
  /\ pc[t] = "lock"
  /\ holder[c] = NoCaller
  /\ Head(queue[c]) = t
  /\ holder' = [holder EXCEPT ![c] = t]
  /\ queue' = [queue EXCEPT ![c] = Tail(@)]
  /\ pc' = [pc EXCEPT ![t] = "write"]
  /\ UNCHANGED <<pool, next, via, mine, age, held, calls, outcome, answer,
                 conns>>

\* What the peer makes of the request.
Frame(t) == IF cut[via[t]] THEN "garbage" ELSE KindOf[t]

\* Mutant: the mutex is released between the request and its response.
WriteRequestUnlocked(t) ==
  LET c == via[t] IN
  /\ pc[t] = "write"
  /\ open[c]
  /\ log' = [log EXCEPT ![c] = Append(@, Frame(t))]
  /\ mine' = [mine EXCEPT ![t] = Len(log[c]) + 1]
  /\ pc' = [pc EXCEPT ![t] = "read"]
  /\ holder' = [holder EXCEPT ![c] = NoCaller]
  /\ UNCHANGED <<pool, next, queue, open, cut, garbled, received, served, read,
                 via, age, held, calls, outcome, answer, abandoned>>

WriteRequest(t) ==
  LET c == via[t] IN
  /\ pc[t] = "write"
  /\ open[c]
  /\ log' = [log EXCEPT ![c] = Append(@, Frame(t))]
  /\ mine' = [mine EXCEPT ![t] = Len(log[c]) + 1]
  /\ pc' = [pc EXCEPT ![t] = "read"]
  /\ UNCHANGED <<pool, next, holder, queue, open, cut, garbled, received, served,
                 read, via, age, held, calls, outcome, answer, abandoned>>

\* Mutant: a call that ends keeps the mutex.
ReleaseKeepsHolder(t) ==
  /\ age' = [age EXCEPT ![t] = 0]
  /\ held' = [held EXCEPT ![t] = 0]
  /\ holder' = holder
  /\ queue' = [c \in Conn |-> Leave(queue[c], t)]

\* The call is over, its future dropped or returned: the mutex is released.
Release(t) ==
  /\ age' = [age EXCEPT ![t] = 0]
  /\ held' = [held EXCEPT ![t] = 0]
  /\ holder' = [c \in Conn |-> IF holder[c] = t THEN NoCaller ELSE holder[c]]
  /\ queue' = [c \in Conn |-> Leave(queue[c], t)]

\* The variant of the response to a request, Error apart, which the peer sends
\* when its Replicator fails.
Variant == [put |-> "Ack", replicate |-> "Ack", get |-> "Value",
            delete |-> "Deleted", heartbeat |-> "Pong"]

MayFail == {"get", "put"}

\* The next response on the stream is taken for the answer.  heartbeat takes
\* any; the others take the variant of their request, anything else is an error.
ReadResponse(t) ==
  LET c == via[t]
      i == read[c] + 1
      k == log[c][i]
  IN
  /\ pc[t] = "read"
  /\ ~ garbled[c]
  /\ read[c] < served[c]
  /\ read' = [read EXCEPT ![c] = i]
  /\ answer' = [answer EXCEPT ![t] = i]
  /\ \E isError \in IF k \in MayFail THEN BOOLEAN ELSE {FALSE} :
       LET ok == \/ KindOf[t] = "heartbeat"
                 \/ Variant[KindOf[t]] = Variant[k] /\ ~ isError
       IN outcome' = [outcome EXCEPT ![t] = IF ok THEN "ok" ELSE "error"]
  /\ pool' = IF KindOf[t] = "heartbeat" THEN c ELSE pool
  /\ pc' = [pc EXCEPT ![t] = "idle"]
  /\ Release(t)
  /\ UNCHANGED <<next, open, log, cut, garbled, received, served, via, mine,
                 calls, abandoned>>

\* Every way a call ends without a response.
GiveUp(t) ==
  /\ pc' = [pc EXCEPT ![t] = IF KindOf[t] = "heartbeat" /\ via[t] = pool
                               THEN "reconnect" ELSE "idle"]
  /\ outcome' = [outcome EXCEPT ![t] = "error"]
  /\ abandoned' = IF pc[t] = "read"
                    THEN [abandoned EXCEPT ![via[t]] = @ + 1] ELSE abandoned
  /\ Release(t)
  /\ UNCHANGED <<pool, next, open, log, received, served, read, via, mine,
                 calls, answer>>

ConnectionBroken(t) ==
  /\ pc[t] \in {"write", "read"}
  /\ ~ open[via[t]]
  /\ GiveUp(t)
  /\ UNCHANGED <<cut, garbled>>

\* What follows a half-read response: a frame too long or one that does not
\* decode.
GarbledResponse(t) ==
  /\ pc[t] = "read"
  /\ garbled[via[t]]
  /\ GiveUp(t)
  /\ UNCHANGED <<cut, garbled>>

\* The future is dropped at any await of write_message or read_message.
CutShort(t) ==
  LET c == via[t] IN
  \/ UNCHANGED <<cut, garbled>>
  \/ pc[t] = "write" /\ cut' = [cut EXCEPT ![c] = TRUE] /\ UNCHANGED garbled
  \/ /\ pc[t] = "read" /\ read[c] < received[c]
     /\ garbled' = [garbled EXCEPT ![c] = TRUE] /\ UNCHANGED cut

\* timeout(dur, ..) starts once the mutex is held.
CallTimeout(t) ==
  /\ pc[t] \in {"write", "read"}
  /\ held[t] >= CallDur[KindOf[t]]
  /\ GiveUp(t)
  /\ CutShort(t)

\* timeout(op_timeout, client.call(..)) covers the wait for the mutex too.
OuterTimeout(t) ==
  /\ KindOf[t] \in Guarded
  /\ pc[t] \in {"lock", "write", "read"}
  /\ age[t] >= OuterDur
  /\ GiveUp(t)
  /\ CutShort(t)

\* The heartbeat loop connects again when a heartbeat failed, and keeps the
\* new client only if a heartbeat on it succeeds (ReadResponse).
Reconnect(t) ==
  /\ pc[t] = "reconnect"
  /\ next < MaxConn
  /\ next' = next + 1
  /\ Enqueue(t, next + 1)
  /\ UNCHANGED <<pool, holder, calls, conns>>

ConnectFails(t) ==
  /\ pc[t] = "reconnect"
  /\ pc' = [pc EXCEPT ![t] = "idle"]
  /\ UNCHANGED <<pool, next, holder, queue, via, mine, age, held, calls,
                 outcome, answer, conns>>

-----------------------------------------------------------------------------
(* The peer's connection task. *)

\* Mutant: the next request is read before the last one is answered.
ServerReceivesPipelined(c) ==
  /\ open[c]
  /\ received[c] < Len(log[c])
  /\ log[c][received[c] + 1] # "garbage"
  /\ received' = [received EXCEPT ![c] = @ + 1]
  /\ UNCHANGED <<pool, next, open, holder, queue, log, cut, garbled, served, read,
                 pc, via, mine, age, held, calls, outcome, answer, abandoned>>

ServerReceives(c) ==
  /\ open[c]
  /\ received[c] = served[c]
  /\ received[c] < Len(log[c])
  /\ log[c][received[c] + 1] # "garbage"
  /\ received' = [received EXCEPT ![c] = @ + 1]
  /\ UNCHANGED <<pool, next, open, holder, queue, log, cut, garbled, served, read,
                 pc, via, mine, age, held, calls, outcome, answer, abandoned>>

ServerResponds(c) ==
  /\ open[c]
  /\ served[c] < received[c]
  /\ served' = [served EXCEPT ![c] = @ + 1]
  /\ UNCHANGED <<pool, next, open, holder, queue, log, cut, garbled, received,
                 read, pc, via, mine, age, held, calls, outcome, answer, abandoned>>

\* read_message fails on what follows a half-written request, and the
\* connection task ends.
ServerRejects(c) ==
  /\ open[c]
  /\ received[c] = served[c]
  /\ received[c] < Len(log[c])
  /\ log[c][received[c] + 1] = "garbage"
  /\ open' = [open EXCEPT ![c] = FALSE]
  /\ UNCHANGED <<pool, next, holder, queue, log, cut, garbled, received, served,
                 read, pc, via, mine, age, held, calls, outcome, answer,
                 abandoned>>

\* The peer stops, or its connection task ends with an error.
ServerCloses(c) ==
  /\ c =< next
  /\ open[c]
  /\ Cardinality({d \in Conn : ~ open[d]}) < MaxCloses
  /\ open' = [open EXCEPT ![c] = FALSE]
  /\ UNCHANGED <<pool, next, holder, queue, log, cut, garbled, received, served,
                 read, pc, via, mine, age, held, calls, outcome, answer, abandoned>>

-----------------------------------------------------------------------------
Holding(t) == pc[t] \in {"write", "read"}

Due(t) ==
  \/ Holding(t) /\ held[t] >= CallDur[KindOf[t]]
  \/ KindOf[t] \in Guarded /\ pc[t] = "lock" /\ age[t] >= OuterDur
  \/ KindOf[t] \in Guarded /\ Holding(t) /\ age[t] >= OuterDur

Running(t) == pc[t] \in {"lock", "write", "read"}

Tick ==
  /\ \E t \in Caller : Running(t)
  /\ \A t \in Caller : ~ Due(t)
  /\ age' = [t \in Caller |->
               IF Running(t) /\ age[t] < OuterDur THEN age[t] + 1 ELSE age[t]]
  /\ held' = [t \in Caller |->
               IF Holding(t) THEN held[t] + 1 ELSE held[t]]
  /\ UNCHANGED <<pool, next, holder, queue, pc, via, mine, calls, outcome,
                 answer, conns>>

Progress(t) ==
  \/ Acquire(t) \/ WriteRequest(t) \/ ReadResponse(t) \/ ConnectionBroken(t)
  \/ GarbledResponse(t) \/ CallTimeout(t) \/ OuterTimeout(t)
  \/ Reconnect(t) \/ ConnectFails(t)

Serve(c) == ServerReceives(c) \/ ServerResponds(c) \/ ServerRejects(c)

Next ==
  \/ \E t \in Caller : Begin(t) \/ Progress(t)
  \/ \E c \in Conn : Serve(c) \/ ServerCloses(c)
  \/ Tick

Spec == Init /\ [][Next]_vars

\* The tasks run and time passes; the peer may hang for ever.
FairSpec ==
  /\ Spec
  /\ WF_vars(Tick)
  /\ \A t \in Caller : WF_vars(Progress(t))

-----------------------------------------------------------------------------
(* Properties. *)

\* The queue of a mutex names exactly the tasks that wait for it.
QueueOK(c) ==
  /\ IsInjective(queue[c])
  /\ ToSet(queue[c]) = {t \in Caller : pc[t] = "lock" /\ via[t] = c}

\* The types, that the positions of a stream are in order: the peer reads no
\* request before it is written and answers none before it is read; and that a
\* call that was dropped leaves no place in a queue (client.rs:44-50,
\* server.rs:86-102).
TypeOK ==
  /\ pool \in Conn /\ next \in Conn
  /\ open \in [Conn -> BOOLEAN]
  /\ holder \in [Conn -> Caller \cup {NoCaller}]
  /\ queue \in [Conn -> Seq(Caller)] /\ \A c \in Conn : QueueOK(c)
  /\ log \in [Conn -> Seq(Kind \cup {"garbage"})]
  /\ cut \in [Conn -> BOOLEAN]
  /\ garbled \in [Conn -> BOOLEAN]
  /\ read \in [Conn -> Nat] /\ served \in [Conn -> Nat]
  /\ received \in [Conn -> Nat]
  /\ \A c \in Conn :
       /\ read[c] =< served[c] /\ served[c] =< received[c]
       /\ received[c] =< served[c] + 1 /\ received[c] =< Len(log[c])
  /\ pc \in [Caller -> {"idle", "lock", "write", "read", "reconnect"}]
  /\ via \in [Caller -> Conn]
  /\ mine \in [Caller -> Nat]
  /\ age \in [Caller -> Nat]
  /\ held \in [Caller -> Nat]
  /\ calls \in [Caller -> Nat]
  /\ outcome \in [Caller -> {"none", "ok", "error"}]
  /\ answer \in [Caller -> Nat]
  /\ abandoned \in [Conn -> Nat]

\* The answer a task reads next lags behind its own by the number of calls that
\* gave up on this connection after writing: the skew of a connection never
\* heals, and nothing but a timeout creates it (client.rs:43-51).
SkewIsAbandoned ==
  /\ \A t \in Caller :
       pc[t] = "read" => mine[t] - (read[via[t]] + 1) = abandoned[via[t]]
  /\ \A c \in Conn : holder[c] = NoCaller
       => Len(log[c]) - read[c] = abandoned[c]

\* As long as no call on it gave up after writing, every call on a connection
\* gets the answer to its own request (client.rs:42).
OwnResponseUntilTimeout ==
  \A t \in Caller :
    (answer[t] # 0 /\ abandoned[via[t]] = 0) => answer[t] = mine[t]

\* A call that succeeds returns the answer to its own request (client.rs:42
\* "Envoie une requête et lit la réponse"); heartbeat looks at no answer.
OwnResponse ==
  \A t \in Caller :
    (outcome[t] = "ok" /\ KindOf[t] # "heartbeat") => answer[t] = mine[t]

\* Every call ends, even when the peer hangs for ever: the mutex is released by
\* the timeout of its holder and passed on in order (client.rs:44-50).
CallsEnd == \A t \in Caller : []<>(pc[t] = "idle")
=============================================================================
