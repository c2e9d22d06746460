----------------------------- MODULE MCKvStorage -----------------------------
(* Small instances of KvStorage. *)
EXTENDS KvStorage

CONSTANTS t1, t2, k1, k2

\* Every operation by every thread.
AllOps == [t \in Thread |-> Op]
AllKeys == [t \in Thread |-> Key]

OnlyReplicate == [t \in Thread |-> {"replicate"}]
PutAndGet == [t \in Thread |-> IF t = t1 THEN {"put"} ELSE {"get"}]

ShortTtls == {None, 0}
NoTtls == {None}
TwoVersions == {1, 2}
=============================================================================
