------------------------------- MODULE MCKvRpc -------------------------------
(* Small instances of KvRpc: a replication, a read and a heartbeat share the *)
(* client of one peer.  One tick stands for 500 ms; 2 s is shortened to 2.   *)
EXTENDS KvRpc

CONSTANTS r, g, h, p

Kinds ==
  [t \in Caller |-> CASE t = r -> "replicate" [] t = g -> "get"
                      [] t = h -> "heartbeat" [] OTHER -> "put"]
Durations ==
  [k \in Kind |-> IF k \in {"replicate", "heartbeat"} THEN 1 ELSE 2]
GuardedKinds == {"replicate", "get", "delete"}
=============================================================================
