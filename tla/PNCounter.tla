------------------------------ MODULE PNCounter ------------------------------
(***************************************************************************)
(* The replicated counters of demo_3_3b_crdt.rs.  A G-Counter has one      *)
(* count per replica, raised by that replica alone, and merges by the      *)
(* maximum of each; a PN-Counter is a pair of them, its value P - N.  A    *)
(* count that is missing from the map reads as 0: merge and increment      *)
(* never insert a 0.                                                       *)
(***************************************************************************)
EXTENDS Integers, FiniteSets, FiniteSetsExt, SequencesExt

CONSTANTS
  Node,
  MaxUpdates   \* bound: how many increments and decrements there are

PNCounterAssumption == IsFiniteSet(Node) /\ MaxUpdates \in Nat

VARIABLES
  p, n,     \* p[r][m], n[r][m]: the counts of m that replica r knows
  ups, downs   \* how often each replica was incremented, decremented (history)

vars == <<p, n, ups, downs>>

GNew == [m \in Node |-> 0]
GSum(g) == FoldSet(LAMBDA m, acc : g[m] + acc, 0, Node)
GIncrement(g, r) == [g EXCEPT ![r] = @ + 1]

\* Mutant: what the other counted is added.
GMergeAdds(g, h) == [m \in Node |-> g[m] + h[m]]

GMerge(g, h) == [m \in Node |-> Max({g[m], h[m]})]

Value(r) == GSum(p[r]) - GSum(n[r])

Init ==
  /\ p = [r \in Node |-> GNew] /\ n = [r \in Node |-> GNew]
  /\ ups = GNew /\ downs = GNew

MayUpdate == GSum(ups) + GSum(downs) < MaxUpdates

Increment(r) ==
  /\ MayUpdate
  /\ p' = [p EXCEPT ![r] = GIncrement(@, r)]
  /\ ups' = GIncrement(ups, r)
  /\ UNCHANGED <<n, downs>>

Decrement(r) ==
  /\ MayUpdate
  /\ n' = [n EXCEPT ![r] = GIncrement(@, r)]
  /\ downs' = GIncrement(downs, r)
  /\ UNCHANGED <<p, ups>>

\* r merges the state of s, or a copy of its own.
Merge(r, s) ==
  /\ p' = [p EXCEPT ![r] = GMerge(@, p[s])]
  /\ n' = [n EXCEPT ![r] = GMerge(@, n[s])]
  /\ UNCHANGED <<ups, downs>>

Next ==
  \/ \E r \in Node : Increment(r) \/ Decrement(r)
  \/ \E r, s \in Node : Merge(r, s)

Spec == Init /\ [][Next]_vars

\* Replicas exchange their states now and then.
FairSpec == Spec /\ \A r, s \in Node : WF_vars(Merge(r, s))

-----------------------------------------------------------------------------
(* Properties. *)

TypeOK ==
  /\ \A r, m \in Node : p[r][m] \in 0 .. MaxUpdates /\ n[r][m] \in 0 .. MaxUpdates

\* A replica never counts an update twice, however often states are exchanged,
\* and always counts its own (demo_3_3b_crdt.rs:38-40).
NeverOvercounts ==
  \A r \in Node :
    /\ p[r][r] = ups[r] /\ n[r][r] = downs[r]
    /\ \A m \in Node : p[r][m] =< ups[m] /\ n[r][m] =< downs[m]

\* Merging every replica, in any order and with repetitions, gives the number of
\* updates (demo_3_3b_crdt.rs:7-17, 215).
Synced(g, order) == FoldLeft(LAMBDA acc, r : GMerge(acc, g[r]), g[order[1]], order)
SyncCountsAll ==
  \A order \in TupleOf(Node, Cardinality(Node) + 1) :
    ToSet(order) = Node => Synced(p, order) = ups /\ Synced(n, order) = downs

\* Once the updates are over the replicas agree on the exact value and keep it.
ReplicasConverge ==
  <>[](~ MayUpdate => \A r \in Node : Value(r) = GSum(ups) - GSum(downs))
=============================================================================
