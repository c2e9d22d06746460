-------------------------------- MODULE OrSet --------------------------------
(***************************************************************************)
(* The replicated set of demo_3_3b_crdt.rs.  Every add has a tag of its    *)
(* own; a remove clears the tags the replica knows and leaves no trace;    *)
(* merge takes the union.                                                  *)
(***************************************************************************)
EXTENDS Naturals, FiniteSets, FiniteSetsExt

CONSTANTS
  Node, Item,
  MaxUpdates   \* bound: how many adds and removes there are

OrSetAssumption == IsFiniteSet(Node) /\ MaxUpdates \in Nat

VARIABLES
  counter,   \* counter[r]: how many tags r has made
  elements,  \* elements[r][i]: the tags of i that r knows
  removes,   \* how many removes there were (bound)
  wanted     \* wanted[r]: the items whose last update at r was an add (history)

vars == <<counter, elements, removes, wanted>>

Tag == Node \X (1 .. MaxUpdates)

Init ==
  /\ counter = [r \in Node |-> 0]
  /\ elements = [r \in Node |-> [i \in Item |-> {}]]
  /\ removes = 0
  /\ wanted = [r \in Node |-> {}]

MayUpdate == removes + FoldSet(LAMBDA r, x : counter[r] + x, 0, Node) < MaxUpdates

contains(r, i) == elements[r][i] # {}
values(r) == {i \in Item : contains(r, i)}

Add(r, i) ==
  /\ MayUpdate
  /\ counter' = [counter EXCEPT ![r] = @ + 1]
  /\ elements' = [elements EXCEPT ![r][i] = @ \cup {<<r, counter'[r]>>}]
  /\ wanted' = [wanted EXCEPT ![r] = @ \cup {i}]
  /\ UNCHANGED removes

Remove(r, i) ==
  /\ MayUpdate
  /\ elements' = [elements EXCEPT ![r][i] = {}]
  /\ removes' = removes + 1
  /\ wanted' = [wanted EXCEPT ![r] = @ \ {i}]
  /\ UNCHANGED counter

\* Mutant: the tags of the other replace the own ones.
UnionTakesTheirs(x, y) == [i \in Item |-> IF y[i] # {} THEN y[i] ELSE x[i]]

Union(x, y) == [i \in Item |-> x[i] \cup y[i]]

Merge(r, s) ==
  /\ elements' = [elements EXCEPT ![r] = Union(@, elements[s])]
  /\ UNCHANGED <<counter, removes, wanted>>

Next ==
  \/ \E r \in Node, i \in Item : Add(r, i) \/ Remove(r, i)
  \/ \E r, s \in Node : Merge(r, s)

Spec == Init /\ [][Next]_vars
FairSpec == Spec /\ \A r, s \in Node : WF_vars(Merge(r, s))

-----------------------------------------------------------------------------
(* Properties. *)

\* A tag names one add: no other replica has made it, nobody knows it before.
TypeOK ==
  \A r \in Node, i \in Item : elements[r][i] \subseteq {t \in Tag : t[2] =< counter[t[1]]}

\* An add survives the removes of the others, whatever is merged after it: "add
\* wins" (demo_3_3b_crdt.rs:120-121, 296).
AddWins == \A r \in Node : wanted[r] \subseteq values(r)

\* Once the updates are over the replicas come to hold the same elements and tags
\* for good (demo_3_3b_crdt.rs:297-299).
ReplicasConverge ==
  <>[](~ MayUpdate => \A r, s \in Node : elements[r] = elements[s])
=============================================================================
