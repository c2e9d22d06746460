-------------------------------- MODULE KvRing --------------------------------
(***************************************************************************)
(* ConsistentHashRing (consistent_hash.rs), and ConsistentHash of          *)
(* demo_3_3a_consistent_hashing.rs, which keeps no list of nodes.  A ring  *)
(* is a map from positions to nodes; adding a node inserts its virtual     *)
(* nodes and takes over a position that another node held, removing it     *)
(* takes its positions out and gives none back.                            *)
(***************************************************************************)
EXTENDS Naturals, Sequences, FiniteSets, FiniteSetsExt, SequencesExt, DistinctSeq

CONSTANTS
  Node,
  Positions,   \* the hashes are 0 .. Positions - 1
  Layouts      \* a set of functions: where a layout puts the virtual nodes of a node

Position == 0 .. Positions - 1

KvRingAssumption ==
  /\ IsFiniteSet(Node) /\ Positions \in Nat
  /\ Layouts \subseteq [Node -> SUBSET Position]

VARIABLES
  layout,   \* which of them; never changes
  ring,     \* a function from some positions to nodes
  nodes,    \* the physical nodes, in the order they were added
  removed   \* a node was removed (history)

vars == <<layout, ring, nodes, removed>>

Init ==
  /\ layout \in Layouts
  /\ ring = <<>>
  /\ nodes = <<>>
  /\ removed = FALSE

Inserted(r, P, n) == [p \in DOMAIN r \cup P |-> IF p \in P THEN n ELSE r[p]]

add_node(n) ==
  /\ IF n \in ToSet(nodes)
       THEN UNCHANGED <<ring, nodes>>
       ELSE /\ nodes' = Append(nodes, n)
            /\ ring' = Inserted(ring, layout[n], n)
  /\ UNCHANGED <<layout, removed>>

\* The positions that stay when n leaves.
Kept(r, n) == {p \in DOMAIN r : r[p] # n}

remove_node(n) ==
  /\ nodes' = Leave(nodes, n)
  /\ ring' = [p \in Kept(ring, n) |-> ring[p]]
  /\ removed' = TRUE
  /\ UNCHANGED layout

Next == \E n \in Node : add_node(n) \/ remove_node(n)

Spec == Init /\ [][Next]_vars

-----------------------------------------------------------------------------
(* Lookups; a key is its hash. *)

\* range(h..), or the first of the ring.
FirstFrom(r, h) ==
  LET after == {p \in DOMAIN r : p >= h}
  IN IF after # {} THEN Min(after) ELSE Min(DOMAIN r)

get_node(r, h) == r[FirstFrom(r, h)]

\* The positions of P in order: the i-th has i - 1 below it.
Ascending(P) ==
  [i \in 1 .. Cardinality(P) |->
     CHOOSE p \in P : Cardinality({q \in P : q < p}) = i - 1]

\* range(h..).chain(iter())
Walk(h) ==
  Ascending({p \in DOMAIN ring : p >= h}) \o Ascending(DOMAIN ring)

\* Mutant: a node is taken again when the walk meets it again.
TakeAgain(acc, n, count) == IF Len(acc) >= count THEN acc ELSE Append(acc, n)

\* One turn of the loop of get_nodes: nothing is added once it would have broken off.
Take(acc, n, count) ==
  IF Len(acc) >= count \/ Len(acc) = Len(nodes) \/ n \in ToSet(acc)
    THEN acc ELSE Append(acc, n)

get_nodes(h, count) ==
  FoldLeft(LAMBDA acc, p : Take(acc, ring[p], count), <<>>, Walk(h))

-----------------------------------------------------------------------------
(* Properties. *)

TypeOK ==
  /\ layout \in Layouts /\ removed \in BOOLEAN
  /\ nodes \in Seq(Node) /\ IsInjective(nodes)
  /\ DOMAIN ring \subseteq Position /\ ring \in [DOMAIN ring -> ToSet(nodes)]
  /\ \A p \in DOMAIN ring : p \in layout[ring[p]]

\* How far clockwise the nearest virtual node of n is from h.
Distance(h, n) ==
  Min({(p + Positions - h) % Positions : p \in {q \in DOMAIN ring : ring[q] = n}})

\* get_nodes returns distinct nodes, as many as asked or as there are on the ring,
\* the nearest first, and the first is the one get_node returns
\* (consistent_hash.rs:74-76, replication.rs:84).
ReplicasAreNearest ==
  \A h \in Position, count \in 0 .. Cardinality(Node) :
    LET placed == {ring[p] : p \in DOMAIN ring}
        result == get_nodes(h, count)
    IN /\ Len(result) = Min({count, Cardinality(placed)})
       /\ \A i \in DOMAIN result : \A n \in placed \ {result[j] : j \in 1 .. i} :
            Distance(h, result[i]) < Distance(h, n)
       /\ result # <<>> => get_node(ring, h) = result[1]

\* A step that adds a node moves keys to it alone, one that removes a node moves its
\* keys alone (consistent_hash.rs:6-7, demo_3_3a_consistent_hashing.rs:200-201).
MovesAreMinimal ==
  ring # <<>> /\ ring' # <<>> =>
    \A h \in Position :
      LET from == get_node(ring, h)
          to == get_node(ring', h)
      IN from # to => to \notin ToSet(nodes) \/ from \notin ToSet(nodes')

CollisionFree ==
  \A m, n \in Node : m # n => layout[m] \cap layout[n] = {}

\* Without collisions the ring is a matter of who is on it, not of the order in which
\* they came.  A position that several nodes share is held by the last one to come,
\* until a node is removed: it gives back nothing (consistent_hash.rs:51, 58).
RingOfMembers ==
  LET members == ToSet(nodes)
      all == UNION {layout[n] : n \in members}
  IN IF CollisionFree
       THEN ring = [p \in all |-> CHOOSE n \in members : p \in layout[n]]
       ELSE ~ removed =>
              ring = [p \in all |-> nodes[Max({i \in DOMAIN nodes : p \in layout[nodes[i]]})]]
=============================================================================
