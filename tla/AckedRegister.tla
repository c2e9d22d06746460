--------------------------- MODULE AckedRegister ---------------------------
(***************************************************************************)
(* What a replicated key promises to its clients, with a quorum of all the *)
(* replicas and while no node crashes: whichever replica is read, it holds *)
(* a write once one was acknowledged, and never one that was acknowledged  *)
(* before another acknowledged write was sent.                             *)
(*                                                                         *)
(* There are no versions, messages or coordinators.  Writes sent at the    *)
(* same time may land in any order, in another one at each replica, and    *)
(* come back, as copies do that are late; a superseded write does not.     *)
(* KvReplication implements it.                                            *)
(***************************************************************************)
EXTENDS Naturals

CONSTANTS Replica, Write

VARIABLES
  held,     \* held[n]: the write that replica n holds, in a set, or {}
  sent,     \* the writes that were sent
  acked,    \* the writes acknowledged to their client
  before    \* before[w]: the writes acknowledged when w was sent

vars == <<held, sent, acked, before>>

Init ==
  /\ held = [n \in Replica |-> {}]
  /\ sent = {}
  /\ acked = {}
  /\ before = [w \in Write |-> {}]

\* A write sent after v was acknowledged is acknowledged.
Superseded(v) == \E w \in acked : v \in before[w]

Send(w) ==
  /\ w \notin sent
  /\ sent' = sent \cup {w}
  /\ before' = [before EXCEPT ![w] = acked]
  /\ UNCHANGED <<held, acked>>

Copy(n, w) ==
  /\ w \in sent
  /\ ~ Superseded(w)
  /\ held' = [held EXCEPT ![n] = {w}]
  /\ UNCHANGED <<sent, acked, before>>

Ack(w) ==
  /\ w \in sent \ acked
  /\ \A n \in Replica : held[n] # {} /\ held[n] \cap before[w] = {}
  /\ acked' = acked \cup {w}
  /\ UNCHANGED <<held, sent, before>>

Next == \E w \in Write : Send(w) \/ Ack(w) \/ \E n \in Replica : Copy(n, w)

Spec == Init /\ [][Next]_vars

-----------------------------------------------------------------------------
\* A read that starts once w is acknowledged finds a write at any replica, and none
\* that was acknowledged before w was sent (replication.rs:14-15 and 177-212).
ReadsAreFresh ==
  \A w \in acked, n \in Replica : held[n] # {} /\ held[n] \cap before[w] = {}
=============================================================================
