----------------------------- MODULE Publication -----------------------------
(***************************************************************************)
(* demo_release_acquire (demo06_atomics_cas.rs): a producer stores a value *)
(* with Relaxed and raises a flag with Release; a consumer spins on the    *)
(* flag with Acquire and then reads the value with Relaxed.                *)
(*                                                                         *)
(* The memory is that of Rust's model: an atomic keeps all its writes, in  *)
(* order, and a load returns any of them that is not older than what its   *)
(* thread already knows.  A Release store carries what its thread knows,   *)
(* an Acquire load learns it.                                              *)
(***************************************************************************)
EXTENDS Naturals, Sequences

CONSTANT Values   \* what the producer stores, one after the other

PublicationAssumption == Values \in Seq(Nat) /\ Values # <<>>

Atomic == {"data", "ready"}
Side == {"producer", "consumer"}

VARIABLES
  writes,   \* writes[a]: the writes to a, oldest first
  knows,    \* knows[s][a]: the oldest write to a that s may still read
  todo,     \* the steps of the producer
  stage,    \* of the consumer
  got       \* what the consumer read

vars == <<writes, knows, todo, stage, got>>

Nothing == [a \in Atomic |-> 1]

Init ==
  /\ writes = [a \in Atomic |-> <<[val |-> 0, carries |-> Nothing]>>]
  /\ knows = [s \in Side |-> Nothing]
  /\ todo = Values
  /\ stage = "spin"
  /\ got = 0

Newer(k, l) == [a \in Atomic |-> IF k[a] >= l[a] THEN k[a] ELSE l[a]]

Store(a, v, k) ==
  /\ writes' = [writes EXCEPT ![a] = Append(@, [val |-> v, carries |-> k])]
  /\ knows' = [knows EXCEPT !["producer"][a] = Len(writes[a]) + 1]

StoreData ==
  /\ todo # <<>>
  /\ Store("data", Head(todo), Nothing)
  /\ todo' = Tail(todo)
  /\ UNCHANGED <<stage, got>>

StoreReady ==
  /\ todo = <<>> /\ Len(writes["ready"]) = 1
  /\ Store("ready", 1, knows["producer"])
  /\ UNCHANGED <<todo, stage, got>>

Learned(a, i) ==
  [Newer(knows["consumer"], writes[a][i].carries) EXCEPT ![a] = i]

LoadReady ==
  /\ stage = "spin"
  /\ \E i \in knows["consumer"]["ready"] .. Len(writes["ready"]) :
       /\ stage' = IF writes["ready"][i].val = 1 THEN "read" ELSE "spin"
       /\ knows' = [knows EXCEPT !["consumer"] = Learned("ready", i)]
  /\ UNCHANGED <<writes, todo, got>>

LoadData ==
  /\ stage = "read"
  /\ \E i \in knows["consumer"]["data"] .. Len(writes["data"]) :
       got' = writes["data"][i].val
  /\ stage' = "done"
  /\ UNCHANGED <<writes, knows, todo>>

Next == StoreData \/ StoreReady \/ LoadReady \/ LoadData

Spec == Init /\ [][Next]_vars

\* Once the flag is seen, the value read is the last one stored before it
\* (demo06_atomics_cas.rs:61-63, 86-87).
PublishedIsRead == stage = "done" => got = Values[Len(Values)]
=============================================================================
