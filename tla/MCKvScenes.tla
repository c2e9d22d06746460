----------------------------- MODULE MCKvScenes -----------------------------
(***************************************************************************)
(* A small instance of KvScenes: two threads and one key, two calls each   *)
(* in "shared" and three in "owned", with a ttl of 0 or none; in "channel" *)
(* a replication, a forwarded put and a heartbeat.  One tick stands for    *)
(* 500 ms, and 2 s is shortened to two ticks.                              *)
(***************************************************************************)
EXTENDS KvScenes, MCKvStorage

Callers == {"replicate", "put", "heartbeat"}
KindOfCaller == [t \in Callers |-> t]
Durations ==
  [k \in Callers \cup {"get", "delete"} |-> IF k \in {"replicate", "heartbeat"} THEN 1 ELSE 2]
GuardedKinds == {"replicate", "get", "delete"}
=============================================================================
