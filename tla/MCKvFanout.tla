----------------------------- MODULE MCKvFanout -----------------------------
(* Two replicas, a and b, and a third node; the instances TLC checks. *)
EXTENDS KvFanout, TLC

CONSTANTS a, b, c, x, y

MCReplicas == <<a, b>>
MCAt == x :> a @@ y :> c
MCOpsOf == x :> {"delete", "put"} @@ y :> {"get"}
MCStored == {{a, b}, {b}}
=============================================================================
