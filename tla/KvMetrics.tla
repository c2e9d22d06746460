------------------------------ MODULE KvMetrics ------------------------------
(***************************************************************************)
(* The counters of a node (metrics.rs) as its connection tasks move them   *)
(* (server.rs): every access is one atomic step.  A request is of one of   *)
(* the kinds of handle_request; of what it does besides only two things    *)
(* are kept, whether it fails and how long it took.                        *)
(***************************************************************************)
EXTENDS Naturals, Sequences, FiniteSets, FiniteSetsExt

CONSTANTS
  Conn,          \* the connections
  Requests,      \* how many requests each of them sends
  Latencies,     \* how many milliseconds a put may take
  Kinds          \* the kinds of request they send: "get", "put", "delete", "other"

KvMetricsAssumption ==
  /\ IsFiniteSet(Conn) /\ Requests \in Nat /\ Latencies \subseteq Nat
  /\ Kinds \subseteq {"get", "put", "delete", "other"}

Counter == {"ops", "errors"} \cup (Kinds \ {"other"})

VARIABLES
  count,    \* count[x]: the counters
  active_connections,
  lag,      \* replication_lag_us
  pc,       \* pc[c]: "none", "read", "kind", "work", "load", "store", "gone"
  kind,     \* kind[c]: of the request in work
  latency,  \* latency[c]: how long its put took
  prev,     \* prev[c]: the average it has loaded
  done,     \* done[c]: how many requests c has sent
  samples   \* the latencies measured so far (history)

vars == <<count, active_connections, lag, pc, kind, latency, prev, done, samples>>

Init ==
  /\ count = [x \in Counter |-> 0]
  /\ active_connections = 0
  /\ lag = 0
  /\ pc = [c \in Conn |-> "none"]
  /\ kind = [c \in Conn |-> "other"]
  /\ latency = [c \in Conn |-> 0] /\ prev = [c \in Conn |-> 0]
  /\ done = [c \in Conn |-> 0]
  /\ samples = {}

Goto(c, l) == pc' = [pc EXCEPT ![c] = l]
Bump(x) == count' = [count EXCEPT ![x] = @ + 1]

-----------------------------------------------------------------------------
(* The accept loop and the task of a connection. *)

Accept(c) ==
  /\ pc[c] = "none"
  /\ active_connections' = active_connections + 1
  /\ Goto(c, "read")
  /\ UNCHANGED <<count, lag, kind, latency, prev, done, samples>>

Receive(c) ==
  /\ pc[c] = "read" /\ done[c] < Requests
  /\ done' = [done EXCEPT ![c] = @ + 1]
  /\ \E k \in Kinds : kind' = [kind EXCEPT ![c] = k]
  /\ Bump("ops")
  /\ Goto(c, "kind")
  /\ UNCHANGED <<active_connections, lag, latency, prev, samples>>

Classify(c) ==
  /\ pc[c] = "kind"
  /\ IF kind[c] = "other"
       THEN UNCHANGED count /\ Goto(c, "read")
       ELSE Bump(kind[c]) /\ Goto(c, "work")
  /\ UNCHANGED <<active_connections, lag, kind, latency, prev, done, samples>>

\* A put measures its latency whether it succeeds or not.
Work(c) ==
  /\ pc[c] = "work"
  /\ IF kind[c] = "put"
       THEN \E l \in Latencies :
              /\ latency' = [latency EXCEPT ![c] = 1000 * l]
              /\ samples' = samples \cup {1000 * l}
              /\ Goto(c, "load")
       ELSE UNCHANGED <<latency, samples>> /\ Goto(c, "answer")
  /\ UNCHANGED <<count, active_connections, lag, kind, prev, done>>

LoadLag(c) ==
  /\ pc[c] = "load"
  /\ prev' = [prev EXCEPT ![c] = lag]
  /\ Goto(c, "store")
  /\ UNCHANGED <<count, active_connections, lag, kind, latency, done, samples>>

\* 0 stands for an average that has not begun.
ewma(p, l) == IF p = 0 THEN l ELSE (7 * p + l) \div 8

\* Another task may have stored since.
StoreLag(c) ==
  /\ pc[c] = "store"
  /\ lag' = ewma(prev[c], latency[c])
  /\ Goto(c, "answer")
  /\ UNCHANGED <<count, active_connections, kind, latency, prev, done, samples>>

Answer(c) ==
  /\ pc[c] = "answer"
  /\ Bump("errors") \/ UNCHANGED count
  /\ Goto(c, "read")
  /\ UNCHANGED <<active_connections, lag, kind, latency, prev, done, samples>>

\* The end of the stream, or an error of it.
Close(c) ==
  /\ pc[c] = "read"
  /\ active_connections' = active_connections - 1
  /\ Goto(c, "gone")
  /\ UNCHANGED <<count, lag, kind, latency, prev, done, samples>>

-----------------------------------------------------------------------------
Task(c) ==
  \/ Receive(c) \/ Classify(c) \/ Work(c) \/ LoadLag(c) \/ StoreLag(c) \/ Answer(c)

Next == \E c \in Conn : Accept(c) \/ Task(c) \/ Close(c)

Spec == Init /\ [][Next]_vars

-----------------------------------------------------------------------------
(* Properties. *)

Open == {c \in Conn : pc[c] \notin {"none", "gone"}}

TypeOK ==
  /\ \A c \in Conn :
       pc[c] \in {"none", "read", "kind", "work", "load", "store", "answer", "gone"}
  /\ \A x \in Counter : count[x] \in 0 .. Requests * Cardinality(Conn)

\* The gauge counts the tasks that run, whichever way they end (server.rs:59-66).
ConnectionsCounted == active_connections = Cardinality(Open)

\* However updates of the average overwrite each other, it lies between the smallest
\* and the largest latency measured (metrics.rs:66-77; the test :262-271 asks it of
\* one task).
LagWithinSamples ==
  lag # 0 => Min(samples) =< lag /\ lag =< Max(samples)

\* Every request counted under its kind is counted in ops_total, which is ahead by
\* those of no kind and those still to be classified.
OpsCoverKinds ==
  LET kinds == FoldSet(LAMBDA k, n : count[k] + n, 0, Kinds \ {"other"})
  IN /\ kinds + Cardinality({c \in Conn : pc[c] = "kind"}) =< count["ops"]
     /\ count["errors"] =< kinds
=============================================================================
