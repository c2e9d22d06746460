--------------------------- MODULE MCKvReplication ---------------------------
(* Small instances of KvReplication: three nodes, of which a and b are the   *)
(* replicas of the key and c is not.                                         *)
EXTENDS KvReplication, TLC

CONSTANTS a, b, c, w1, w2, w3

TwoReplicas == <<a, b>>

\* Clients talk to any node.
Anywhere == [w \in Write |-> Node]

\* The writes enter at the same nodes and nothing else tells them apart.
AnyOrder == Permutations(Write)
=============================================================================
