-------------------------------- MODULE KvNode --------------------------------
(***************************************************************************)
(* The nodes of kv-distributed as processes (main.rs): what a node makes   *)
(* of its --peers list, the pool of connections it fills at start-up and   *)
(* from its heartbeat loop.                                                *)
(*                                                                         *)
(* Node i is the process started with --node-id=i.  An entry of its list   *)
(* is the node it reaches, or Hostname, which parsed_peers drops: only     *)
(* numeric socket addresses parse.                                         *)
(***************************************************************************)
EXTENDS Naturals, Sequences, FiniteSets, SequencesExt

CONSTANTS
  Nodes,        \* the nodes are 1 .. Nodes
  Lists,        \* a set of functions from nodes to --peers lists
  MaxCrashes    \* bound: how often a process is killed

Node == 1 .. Nodes
Hostname == 0

VARIABLES
  lists,     \* which of them the nodes are started with; never changes
  stage,     \* stage[n]: "down", "connect" (step 4 of main) or "up"
  step,      \* step[n]: the peer that n connects to, or visits in its loop
  pool,      \* pool[n]: the names for which peers holds a client
  live,      \* live[n]: those of them whose connection still stands
  counting,  \* counting[n]: the peers the heartbeat loop has found in this turn
  alive,     \* alive[n]: peers_alive
  total,     \* total[n]: peers_total
  crashes    \* how many processes were killed (bound)

vars == <<lists, stage, step, pool, live, counting, alive, total, crashes>>

Init ==
  /\ lists \in Lists
  /\ stage = [n \in Node |-> "down"]
  /\ step = [n \in Node |-> 1]
  /\ pool = [n \in Node |-> {}] /\ live = [n \in Node |-> {}]
  /\ counting = [n \in Node |-> 0]
  /\ alive = [n \in Node |-> 0] /\ total = [n \in Node |-> 0]
  /\ crashes = 0

-----------------------------------------------------------------------------
(* The names of the nodes. *)

parsed(list) == SelectSeq(list, LAMBDA a : a # Hostname)
parsed_peers(n) == parsed(lists[n])

\* A list has one address for each of the other nodes at most; those that parse are
\* again a list, of nodes.
KvNodeAssumption ==
  /\ Nodes \in Nat \ {0}
  /\ \A l \in Lists, n \in Node :
       parsed(l[n]) \in Seq(Node) /\ Len(parsed(l[n])) < Nodes

\* Mutant: the place is shifted from the own number on, not before.
name_of_shifted(n, i) == IF i > n THEN i + 1 ELSE i

\* The name n gives to the i-th address of its list.
name_of(n, i) == IF i >= n THEN i + 1 ELSE i

\* The members of the ring of n.
ring(n) == {n} \cup {name_of(n, i) : i \in DOMAIN parsed_peers(n)}

\* The process that n reaches under a name.
reached(n, m) ==
  parsed_peers(n)[CHOOSE i \in DOMAIN parsed_peers(n) : name_of(n, i) = m]

-----------------------------------------------------------------------------
(* Start-up: the pool is filled, best effort, before the node listens. *)

Start(n) ==
  /\ stage[n] = "down"
  /\ stage' = [stage EXCEPT ![n] = "connect"]
  /\ step' = [step EXCEPT ![n] = 1]
  /\ UNCHANGED <<lists, pool, live, counting, alive, total, crashes>>

Through(n) == step[n] > Len(parsed_peers(n))
Listens(m) == stage[m] = "up"

Forward(n) == step' = [step EXCEPT ![n] = @ + 1]

Connect(n) ==
  LET m == name_of(n, step[n]) IN
  /\ stage[n] = "connect" /\ ~ Through(n)
  /\ Forward(n)
  /\ IF Listens(reached(n, m))
       THEN /\ pool' = [pool EXCEPT ![n] = @ \cup {m}]
            /\ live' = [live EXCEPT ![n] = @ \cup {m}]
       ELSE UNCHANGED <<pool, live>>
  /\ UNCHANGED <<lists, stage, counting, alive, total, crashes>>

Listen(n) ==
  /\ stage[n] = "connect" /\ Through(n)
  /\ stage' = [stage EXCEPT ![n] = "up"]
  /\ step' = [step EXCEPT ![n] = 1]
  /\ total' = [total EXCEPT ![n] = Len(parsed_peers(n))]
  /\ alive' = [alive EXCEPT ![n] = Cardinality(pool[n])]
  /\ counting' = [counting EXCEPT ![n] = 0]
  /\ UNCHANGED <<lists, pool, live, crashes>>

-----------------------------------------------------------------------------
(* The heartbeat loop: one step per peer. *)

\* Mutant: a client that is in the pool is not replaced.
BeatKeepsDead(n) ==
  LET m == name_of(n, step[n])
      found == m \in live[n] \/ (m \notin pool[n] /\ Listens(reached(n, m)))
  IN
  /\ Listens(n) /\ ~ Through(n)
  /\ Forward(n)
  /\ pool' = [pool EXCEPT ![n] = IF found THEN @ \cup {m} ELSE @]
  /\ live' = [live EXCEPT ![n] = IF found THEN @ \cup {m} ELSE @]
  /\ counting' = [counting EXCEPT ![n] = IF found THEN @ + 1 ELSE @]
  /\ UNCHANGED <<lists, stage, alive, total, crashes>>

\* A client that does not answer is replaced, if a new connection can be made.
Beat(n) ==
  LET m == name_of(n, step[n])
      found == m \in live[n] \/ Listens(reached(n, m))
  IN
  /\ Listens(n) /\ ~ Through(n)
  /\ Forward(n)
  /\ pool' = [pool EXCEPT ![n] = IF found THEN @ \cup {m} ELSE @]
  /\ live' = [live EXCEPT ![n] = IF found THEN @ \cup {m} ELSE @]
  /\ counting' = [counting EXCEPT ![n] = IF found THEN @ + 1 ELSE @]
  /\ UNCHANGED <<lists, stage, alive, total, crashes>>

\* Mutant: the count goes on from one turn to the next.
StoreAliveAdds(n) ==
  /\ Listens(n) /\ Through(n)
  /\ alive' = [alive EXCEPT ![n] = counting[n]]
  /\ step' = [step EXCEPT ![n] = 1]
  /\ UNCHANGED <<lists, stage, pool, live, total, crashes, counting>>

StoreAlive(n) ==
  /\ Listens(n) /\ Through(n)
  /\ alive' = [alive EXCEPT ![n] = counting[n]]
  /\ counting' = [counting EXCEPT ![n] = 0]
  /\ step' = [step EXCEPT ![n] = 1]
  /\ UNCHANGED <<lists, stage, pool, live, total, crashes>>

\* The process is killed: what it held is gone, and so are the connections to it.
Crash(n) ==
  /\ stage[n] # "down" /\ crashes < MaxCrashes
  /\ crashes' = crashes + 1
  /\ stage' = [stage EXCEPT ![n] = "down"]
  /\ pool' = [pool EXCEPT ![n] = {}]
  /\ live' = [o \in Node |->
       IF o = n THEN {} ELSE {m \in live[o] : reached(o, m) # n}]
  /\ alive' = [alive EXCEPT ![n] = 0]
  /\ total' = [total EXCEPT ![n] = 0]
  /\ counting' = [counting EXCEPT ![n] = 0]
  /\ step' = [step EXCEPT ![n] = 1]
  /\ UNCHANGED lists

Run(n) == Start(n) \/ Connect(n) \/ Listen(n) \/ Beat(n) \/ StoreAlive(n)

Next == \E n \in Node : Run(n) \/ Crash(n)

Spec == Init /\ [][Next]_vars

\* A process that is down is started again, and its tasks run.
FairSpec == Spec /\ \A n \in Node : WF_vars(Run(n))

-----------------------------------------------------------------------------
(* Properties. *)

TypeOK ==
  /\ stage \in [Node -> {"down", "connect", "up"}]
  /\ \A n \in Node :
       /\ live[n] \subseteq pool[n] /\ pool[n] \subseteq ring(n) \ {n}
       /\ alive[n] =< total[n] /\ total[n] =< Nodes - 1
       /\ counting[n] < step[n]

InOrder ==
  \A n \in Node :
    LET peers == parsed_peers(n) IN
    /\ ToSet(peers) = Node \ {n}
    /\ \A i, j \in DOMAIN peers : i < j => peers[i] < peers[j]

\* When every list has all the other nodes in the order of their numbers, every node
\* makes the same ring and a name leads to the process of that number; any other
\* list of addresses breaks that (main.rs:148-155).
NamesAgree ==
  LET agree == \A n \in Node : ring(n) = Node /\ \A m \in Node \ {n} : reached(n, m) = m
  IN InOrder <=> agree

\* Once the kills are over, every node counts and holds a standing connection to all
\* its peers, and keeps it: a node that was down at start-up or came back is found
\* again (main.rs:230-231).
Settled ==
  \A n \in Node : /\ alive[n] = Len(parsed_peers(n))
                  /\ live[n] = ring(n) \ {n}
PeersFoundAgain == <>[](crashes = MaxCrashes => Settled)
=============================================================================
