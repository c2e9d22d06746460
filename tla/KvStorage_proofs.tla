-------------------------- MODULE KvStorage_proofs --------------------------
(***************************************************************************)
(* Theorems about the storage engine, for every set of threads and keys,   *)
(* every assignment of operations to threads and every bound.              *)
(***************************************************************************)
EXTENDS KvStorage, FiniteSetTheorems, TLAPS

\* The steps of calls that name a key.
KeyLabel == Label \ {"idle", "collect", "purge"}

\* The key of a call is a key.
KeyedCalls == \A t \in Thread : pc[t] \in KeyLabel => arg[t].key \in KeysOf[t]

\* The type invariant is inductive with KeyedCalls.
TypeInv == TypeOK /\ KeyedCalls

LEMMA InitType == Init => TypeInv
BY NoneAssumption, KeysAssumption
   DEF Init, TypeInv, TypeOK, KeyedCalls, KeyLabel, Label, NoArg, Counter

Arg == [key : Key \cup {None}, ttl : Nat \cup {None}, ver : Nat]

\* Assigning the version changes no other argument of the call.
LEMMA SetVersion ==
  ASSUME NEW a \in Arg, NEW v \in Nat
  PROVE  /\ [a EXCEPT !.ver = v] \in Arg
         /\ [a EXCEPT !.ver = v].key = a.key
         /\ [a EXCEPT !.ver = v].ver = v
BY DEF Arg

\* A call is well-typed and names one of its thread's keys.
LEMMA BeginType ==
  ASSUME TypeInv, NEW t \in Thread, NEW op, NEW a \in Arg, Begin(t, op, a)
  PROVE  /\ arg' \in [Thread -> Arg]
         /\ arg'[t] = a
         /\ \A u \in Thread : u # t => arg'[u] = arg[u]
         /\ calls' \in [Thread -> Nat]
         /\ floor' \in [Thread -> Nat]
BY DEF TypeInv, TypeOK, Begin, Arg

\* Counting keeps the counters natural numbers.
LEMMA CountType ==
  ASSUME TypeInv, NEW c \in Counter, Count(c)
  PROVE  stats' \in [Counter -> Nat]
BY DEF TypeInv, TypeOK, Count

\* An insert keeps the store well-typed.
LEMMA InsertType ==
  ASSUME TypeInv, NEW t \in Thread, pc[t] \in KeyLabel, Insert(t)
  PROVE  /\ store' \in [Key -> Entry \cup {None}]
         /\ rewritten' \in [Thread -> SUBSET Key]
<1>1. PICK stamp \in since[t] .. now :
        store' = [store EXCEPT ![arg[t].key] =
                    [version |-> arg[t].ver, created_at |-> stamp,
                     ttl |-> arg[t].ttl]]
  BY DEF Insert
<1>2. stamp \in Nat
  BY DEF TypeInv, TypeOK
<1>3. [version |-> arg[t].ver, created_at |-> stamp, ttl |-> arg[t].ttl]
        \in Entry
  BY <1>2 DEF TypeInv, TypeOK, Entry
<1>4. arg[t].key \in Key
  BY KeysAssumption DEF TypeInv, KeyedCalls
<1>5. rewritten' \in [Thread -> SUBSET Key]
  BY <1>4 DEF Insert, TypeInv, TypeOK
<1>6. QED BY <1>1, <1>3, <1>5 DEF TypeInv, TypeOK

LEMMA PutType ==
  ASSUME TypeInv, NEW t \in Thread, Write(t)
  PROVE  TypeInv'
<1>1. CASE BeginPut(t)
  <2>1. PICK k \in KeysOf[t], l \in Ttls :
          Begin(t, "put", [key |-> k, ttl |-> l, ver |-> 0])
    BY <1>1 DEF BeginPut
  <2>2. [key |-> k, ttl |-> l, ver |-> 0] \in Arg
    BY KeysAssumption, TtlsAssumption DEF Arg
  <2>3. /\ arg' \in [Thread -> Arg]
        /\ arg'[t].key \in KeysOf[t]
        /\ \A u \in Thread : u # t => arg'[u] = arg[u]
        /\ calls' \in [Thread -> Nat] /\ floor' \in [Thread -> Nat]
    BY <2>1, <2>2, BeginType
  <2>4. stats' \in [Counter -> Nat]
    BY <1>1, CountType DEF BeginPut, Counter
  <2>5. TypeOK'
    BY <1>1, <2>3, <2>4 DEF BeginPut, TypeInv, TypeOK, Arg, Goto, Label
  <2>6. KeyedCalls'
    BY <1>1, <2>3 DEF BeginPut, TypeInv, TypeOK, KeyedCalls, Goto
  <2>7. QED BY <2>5, <2>6 DEF TypeInv
<1>2. CASE TakeVersion(t)
  <2>1. version_counter' = version_counter + 1 /\ version_counter' \in Nat
    BY <1>2 DEF TakeVersion, TypeInv, TypeOK
  <2>2. arg' = [arg EXCEPT ![t] = [arg[t] EXCEPT !.ver = version_counter + 1]]
    BY <1>2 DEF TakeVersion
  <2>3. [arg[t] EXCEPT !.ver = version_counter + 1] \in Arg
    BY <2>1, SetVersion DEF TypeInv, TypeOK, Arg
  <2>4. arg' \in [Thread -> Arg]
    BY <2>2, <2>3 DEF TypeInv, TypeOK, Arg
  <2>5. \A u \in Thread : arg'[u].key = arg[u].key
    BY <2>1, <2>2, SetVersion DEF TypeInv, TypeOK, Arg
  <2>6. TypeOK'
    BY <1>2, <2>1, <2>4 DEF TakeVersion, TypeInv, TypeOK, Arg, Goto, Label
  <2>7. KeyedCalls'
    BY <1>2, <2>5 DEF TakeVersion, TypeInv, TypeOK, KeyedCalls, KeyLabel, Label,
                      Goto
  <2>8. QED BY <2>6, <2>7 DEF TypeInv
<1>3. CASE PutInsert(t)
  <2>1. store' \in [Key -> Entry \cup {None}] /\ rewritten' \in [Thread -> SUBSET Key]
    BY <1>3, InsertType DEF PutInsert, KeyLabel, Label
  <2>2. QED BY <1>3, <2>1 DEF PutInsert, TypeInv, TypeOK, KeyedCalls, KeyLabel,
                              Label, Goto, Larger
<1>4. QED BY <1>1, <1>2, <1>3 DEF Write

LEMMA ReplicateType ==
  ASSUME TypeInv, NEW t \in Thread, Replicate(t)
  PROVE  TypeInv'
<1>1. CASE BeginReplicate(t)
  <2>1. PICK k \in KeysOf[t], l \in Ttls, v \in RemoteVersions :
          /\ Begin(t, "replicate", [key |-> k, ttl |-> l, ver |-> v])
          /\ Observe(t, v)
          /\ UNCHANGED <<store, version_counter, stats, now, since, entry,
                         todo, expired_keys, issued, rewritten>>
    BY <1>1 DEF BeginReplicate
  <2>2. [key |-> k, ttl |-> l, ver |-> v] \in Arg /\ v \in Nat
    BY KeysAssumption, TtlsAssumption, RemoteVersionsAssumption DEF Arg
  <2>3. /\ arg' \in [Thread -> Arg]
        /\ arg'[t].key \in KeysOf[t]
        /\ \A u \in Thread : u # t => arg'[u] = arg[u]
        /\ calls' \in [Thread -> Nat] /\ floor' \in [Thread -> Nat]
    BY <2>1, <2>2, BeginType
  <2>4. TypeOK'
    BY <2>1, <2>2, <2>3
       DEF TypeInv, TypeOK, Arg, Observe, Goto, Label, Larger
  <2>5. KeyedCalls'
    BY <2>1, <2>3 DEF TypeInv, TypeOK, KeyedCalls, Observe, Goto
  <2>6. QED BY <2>4, <2>5 DEF TypeInv
<1>2. CASE CompareExchange(t)
  <2>1. arg[t].ver \in Nat /\ UNCHANGED arg
    BY <1>2 DEF CompareExchange, TypeInv, TypeOK
  <2>2. CASE CasSucceeds(t)
    BY <1>2, <2>1, <2>2
       DEF CompareExchange, CasSucceeds, TypeInv, TypeOK, KeyedCalls,
           KeyLabel, Label, Goto, Larger
  <2>3. CASE CasFails(t)
    BY <1>2, <2>1, <2>3
       DEF CompareExchange, CasFails, Observe, TypeInv, TypeOK, KeyedCalls,
           KeyLabel, Label, Goto, Larger
  <2>4. QED BY <1>2, <2>2, <2>3 DEF CompareExchange
<1>3. CASE CheckExisting(t)
  BY <1>3 DEF CheckExisting, TypeInv, TypeOK, KeyedCalls, KeyLabel, Label, Goto
<1>4. CASE Replace(t)
  <2>1. store' \in [Key -> Entry \cup {None}] /\ rewritten' \in [Thread -> SUBSET Key]
    BY <1>4, InsertType DEF Replace, KeyLabel, Label
  <2>2. QED BY <1>4, <2>1 DEF Replace, TypeInv, TypeOK, KeyedCalls, KeyLabel,
                              Label, Goto
<1>5. CASE CountReplica(t)
  <2>1. stats' \in [Counter -> Nat]
    BY <1>5, CountType DEF CountReplica, Counter
  <2>2. QED BY <1>5, <2>1 DEF CountReplica, TypeInv, TypeOK, KeyedCalls,
                              KeyLabel, Label, Goto
<1>6. QED BY <1>1, <1>2, <1>3, <1>4, <1>5 DEF Replicate

LEMMA GetType ==
  ASSUME TypeInv, NEW t \in Thread, Get(t)
  PROVE  TypeInv'
<1>1. CASE BeginGet(t)
  <2>1. PICK k \in KeysOf[t] : Begin(t, "get", [NoArg EXCEPT !.key = k])
    BY <1>1 DEF BeginGet
  <2>2. [NoArg EXCEPT !.key = k] \in Arg /\ [NoArg EXCEPT !.key = k].key = k
    BY KeysAssumption DEF Arg, NoArg
  <2>3. /\ arg' \in [Thread -> Arg]
        /\ arg'[t].key \in KeysOf[t]
        /\ \A u \in Thread : u # t => arg'[u] = arg[u]
        /\ calls' \in [Thread -> Nat] /\ floor' \in [Thread -> Nat]
    BY <2>1, <2>2, BeginType
  <2>4. stats' \in [Counter -> Nat]
    BY <1>1, CountType DEF BeginGet, Counter
  <2>5. TypeOK'
    BY <1>1, <2>3, <2>4 DEF BeginGet, TypeInv, TypeOK, Arg, Goto, Label
  <2>6. KeyedCalls'
    BY <1>1, <2>3 DEF BeginGet, TypeInv, TypeOK, KeyedCalls, Goto
  <2>7. QED BY <2>5, <2>6 DEF TypeInv
<1>2. CASE Clone(t)
  <2>1. arg[t].key \in Key
    BY <1>2, KeysAssumption
       DEF Clone, TypeInv, TypeOK, KeyedCalls, KeyLabel, Label
  <2>2. QED BY <1>2, <2>1 DEF Clone, TypeInv, TypeOK, KeyedCalls, KeyLabel,
                              Label, Goto
<1>3. CASE Judge(t)
  <2>1. CASE FoundExpired(t)
    BY <1>3, <2>1 DEF Judge, FoundExpired, TypeInv, TypeOK, KeyedCalls,
                      KeyLabel, Label, Goto
  <2>2. CASE Hit(t)
    <3>1. stats' \in [Counter -> Nat]
      BY <2>2, CountType DEF Hit, Counter
    <3>2. QED BY <1>3, <2>2, <3>1 DEF Judge, Hit, TypeInv, TypeOK, KeyedCalls,
                                      KeyLabel, Label, Goto
  <2>3. CASE Miss(t)
    <3>1. stats' \in [Counter -> Nat]
      BY <2>3, CountType DEF Miss, Counter
    <3>2. QED BY <1>3, <2>3, <3>1 DEF Judge, Miss, TypeInv, TypeOK, KeyedCalls,
                                      KeyLabel, Label, Goto
  <2>4. QED BY <1>3, <2>1, <2>2, <2>3 DEF Judge
<1>4. CASE Evict(t)
  BY <1>4 DEF Evict, TypeInv, TypeOK, KeyedCalls, KeyLabel, Label, Goto
<1>5. CASE CountExpired(t)
  <2>1. stats' \in [Counter -> Nat]
    BY <1>5, CountType DEF CountExpired, Counter
  <2>2. QED BY <1>5, <2>1 DEF CountExpired, TypeInv, TypeOK, KeyedCalls,
                              KeyLabel, Label, Goto
<1>6. CASE CountMiss(t)
  <2>1. stats' \in [Counter -> Nat]
    BY <1>6, CountType DEF CountMiss, Counter
  <2>2. QED BY <1>6, <2>1 DEF CountMiss, TypeInv, TypeOK, KeyedCalls,
                              KeyLabel, Label, Goto
<1>7. QED BY <1>1, <1>2, <1>3, <1>4, <1>5, <1>6 DEF Get

LEMMA DeleteType ==
  ASSUME TypeInv, NEW t \in Thread, Delete(t)
  PROVE  TypeInv'
<1>1. CASE BeginDelete(t)
  <2>1. PICK k \in KeysOf[t] : Begin(t, "delete", [NoArg EXCEPT !.key = k])
    BY <1>1 DEF BeginDelete
  <2>2. [NoArg EXCEPT !.key = k] \in Arg /\ [NoArg EXCEPT !.key = k].key = k
    BY KeysAssumption DEF Arg, NoArg
  <2>3. /\ arg' \in [Thread -> Arg]
        /\ arg'[t].key \in KeysOf[t]
        /\ \A u \in Thread : u # t => arg'[u] = arg[u]
        /\ calls' \in [Thread -> Nat] /\ floor' \in [Thread -> Nat]
    BY <2>1, <2>2, BeginType
  <2>4. stats' \in [Counter -> Nat]
    BY <1>1, CountType DEF BeginDelete, Counter
  <2>5. TypeOK'
    BY <1>1, <2>3, <2>4 DEF BeginDelete, TypeInv, TypeOK, Arg, Goto, Label
  <2>6. KeyedCalls'
    BY <1>1, <2>3 DEF BeginDelete, TypeInv, TypeOK, KeyedCalls, Goto
  <2>7. QED BY <2>5, <2>6 DEF TypeInv
<1>2. CASE RemoveKey(t)
  BY <1>2 DEF RemoveKey, TypeInv, TypeOK, KeyedCalls, KeyLabel, Label, Goto
<1>3. QED BY <1>1, <1>2 DEF Delete

\* The keys a purge collected are finitely many as the key space is.
LEMMA PurgeType ==
  ASSUME TypeInv, NEW t \in Thread, Purge(t)
  PROVE  TypeInv'
<1>1. CASE BeginPurge(t)
  <2>1. NoArg \in Arg
    BY DEF NoArg, Arg
  <2>2. /\ arg' \in [Thread -> Arg]
        /\ \A u \in Thread : u # t => arg'[u] = arg[u]
        /\ calls' \in [Thread -> Nat] /\ floor' \in [Thread -> Nat]
    BY <1>1, <2>1, BeginType DEF BeginPurge
  <2>3. TypeOK'
    BY <1>1, <2>2 DEF BeginPurge, TypeInv, TypeOK, Arg, Goto, Label
  <2>4. KeyedCalls'
    BY <1>1, <2>2 DEF BeginPurge, TypeInv, TypeOK, KeyedCalls, KeyLabel, Goto
  <2>5. QED BY <2>3, <2>4 DEF TypeInv
<1>2. CASE Collect(t)
  BY <1>2 DEF Collect, TypeInv, TypeOK, KeyedCalls, KeyLabel, Label, Goto
<1>3. CASE PurgeRemove(t)
  <2>1. PICK k \in todo[t] :
          /\ store' = [store EXCEPT ![k] = None]
          /\ todo' = [todo EXCEPT ![t] = @ \ {k}]
    BY <1>3 DEF PurgeRemove
  <2>2. QED BY <1>3, <2>1 DEF PurgeRemove, TypeInv, TypeOK, KeyedCalls
<1>4. CASE PurgeCount(t)
  <2>1. Cardinality(expired_keys[t]) \in Nat
    BY FiniteAssumption, FS_Subset, FS_CardinalityType DEF TypeInv, TypeOK
  <2>2. stats' \in [Counter -> Nat]
    BY <1>4, <2>1 DEF PurgeCount, TypeInv, TypeOK, Counter
  <2>3. QED BY <1>4, <2>2 DEF PurgeCount, TypeInv, TypeOK, KeyedCalls,
                              KeyLabel, Label, Goto
<1>5. QED BY <1>1, <1>2, <1>3, <1>4 DEF Purge

LEMMA NextType == TypeInv /\ [Next]_vars => TypeInv'
<1> SUFFICES ASSUME TypeInv, [Next]_vars PROVE TypeInv'
  OBVIOUS
<1>1. CASE Tick
  BY <1>1 DEF Tick, TypeInv, TypeOK, KeyedCalls
<1>2. ASSUME NEW t \in Thread, Step(t) PROVE TypeInv'
  BY <1>2, PutType, ReplicateType, GetType, DeleteType, PurgeType DEF Step
<1>3. CASE UNCHANGED vars
  BY <1>3 DEF vars, TypeInv, TypeOK, KeyedCalls
<1>4. QED BY <1>1, <1>2, <1>3 DEF Next

\* The engine's state is always well-typed: every step of every operation,
\* interleaved in any order, leaves entries, counters and locals in range.
THEOREM TypeCorrect == Spec => []TypeOK
<1>1. TypeInv => TypeOK
  BY DEF TypeInv
<1>2. QED BY InitType, NextType, <1>1, PTL DEF Spec

-----------------------------------------------------------------------------
(***************************************************************************)
(* Versions.  VersionsBounded is not inductive alone: a compare-exchange   *)
(* must not lower the counter (CasRaises), and the histories that state    *)
(* what a put must exceed are themselves bounded by the counter.           *)
(***************************************************************************)

CasRaises == \A t \in Thread : pc[t] = "cas" => arg[t].ver > cur[t]

HistoryBounded ==
  /\ seen =< version_counter
  /\ \A t \in Thread :
       /\ floor[t] =< version_counter
       /\ \A v \in issued[t] : v =< version_counter

VersionInv ==
  VersionsBounded /\ CasRaises /\ HistoryBounded /\ PutAboveSeen /\ IssuedOnce

\* The steps after which the version of a call matters.
Versioned == {"insert", "cas", "check", "replace", "count"}

\* What thread t does outside those steps: no version is taken, raised or
\* stored, entries only disappear.
Quiet(t) ==
  /\ UNCHANGED <<version_counter, seen, issued, cur>>
  /\ \A k \in Key : store'[k] \in {None, store[k]}
  /\ pc'[t] \notin Versioned
  /\ floor'[t] \in {floor[t], seen}
  /\ \A u \in Thread :
       u # t => arg'[u] = arg[u] /\ floor'[u] = floor[u] /\ pc'[u] = pc[u]

LEMMA QuietVersions ==
  ASSUME TypeInv, VersionInv, NEW t \in Thread, Quiet(t)
  PROVE  VersionInv'
<1>1. VersionsBounded'
  BY DEF TypeInv, TypeOK, VersionInv, VersionsBounded, Quiet, Versioned, Present
<1>2. CasRaises'
  BY DEF VersionInv, CasRaises, Quiet, Versioned
<1>3. HistoryBounded'
  BY DEF VersionInv, HistoryBounded, Quiet
<1>4. PutAboveSeen'
  BY DEF VersionInv, PutAboveSeen, Quiet, Versioned
<1>5. IssuedOnce'
  BY DEF VersionInv, IssuedOnce, Quiet
<1>6. QED BY <1>1, <1>2, <1>3, <1>4, <1>5 DEF VersionInv

\* A call begins with the floor at the versions seen so far.
LEMMA BeginQuiet ==
  ASSUME TypeInv, NEW t \in Thread, NEW op, NEW a, Begin(t, op, a),
         UNCHANGED <<store, version_counter, seen, issued, cur>>,
         NEW l \in Label \ Versioned, Goto(t, l)
  PROVE  Quiet(t)
BY DEF TypeInv, TypeOK, Begin, Goto, Quiet, Label

\* A step in the middle of a call.
LEMMA StepQuiet ==
  ASSUME TypeInv, NEW t \in Thread, NEW l \in Label \ Versioned, Goto(t, l),
         UNCHANGED <<version_counter, seen, issued, cur, arg, floor>>,
         \A k \in Key : store'[k] \in {None, store[k]}
  PROVE  Quiet(t)
BY DEF TypeInv, TypeOK, Goto, Quiet, Label

LEMMA GetQuiet ==
  ASSUME TypeInv, NEW t \in Thread, Get(t)
  PROVE  Quiet(t)
<1> USE DEF Label, Versioned
<1>1. CASE BeginGet(t)
  BY <1>1, BeginQuiet DEF BeginGet
<1>2. CASE Clone(t)
  BY <1>2, StepQuiet DEF Clone
<1>3. CASE Judge(t)
  BY <1>3, StepQuiet DEF Judge, FoundExpired, Hit, Miss
<1>4. CASE Evict(t)
  BY <1>4, StepQuiet DEF Evict, TypeInv, TypeOK
<1>5. CASE CountExpired(t)
  BY <1>5, StepQuiet DEF CountExpired
<1>6. CASE CountMiss(t)
  BY <1>6, StepQuiet DEF CountMiss
<1>7. QED BY <1>1, <1>2, <1>3, <1>4, <1>5, <1>6 DEF Get

LEMMA DeleteQuiet ==
  ASSUME TypeInv, NEW t \in Thread, Delete(t)
  PROVE  Quiet(t)
<1> USE DEF Label, Versioned
<1>1. CASE BeginDelete(t)
  BY <1>1, BeginQuiet DEF BeginDelete
<1>2. CASE RemoveKey(t)
  BY <1>2, StepQuiet DEF RemoveKey, TypeInv, TypeOK
<1>3. QED BY <1>1, <1>2 DEF Delete

LEMMA PurgeQuiet ==
  ASSUME TypeInv, NEW t \in Thread, Purge(t)
  PROVE  Quiet(t)
<1> USE DEF Label, Versioned
<1>1. CASE BeginPurge(t)
  BY <1>1, BeginQuiet DEF BeginPurge
<1>2. CASE Collect(t)
  BY <1>2, StepQuiet DEF Collect
<1>3. CASE PurgeRemove(t)
  BY <1>3 DEF PurgeRemove, TypeInv, TypeOK, Quiet
<1>4. CASE PurgeCount(t)
  BY <1>4, StepQuiet DEF PurgeCount
<1>5. QED BY <1>1, <1>2, <1>3, <1>4 DEF Purge

\* The entry that an insert writes carries the version of the call.
LEMMA InsertEntry ==
  ASSUME TypeInv, NEW t \in Thread, pc[t] \in KeyLabel, Insert(t)
  PROVE  /\ store'[arg[t].key].version = arg[t].ver
         /\ store'[arg[t].key] # None
         /\ \A k \in Key : k # arg[t].key => store'[k] = store[k]
<1>1. PICK stamp \in since[t] .. now :
        store' = [store EXCEPT ![arg[t].key] =
                    [version |-> arg[t].ver, created_at |-> stamp,
                     ttl |-> arg[t].ttl]]
  BY DEF Insert
<1>2. [version |-> arg[t].ver, created_at |-> stamp, ttl |-> arg[t].ttl]
        \in Entry
  BY DEF TypeInv, TypeOK, Entry
<1>3. arg[t].key \in Key
  BY KeysAssumption DEF TypeInv, TypeOK, KeyedCalls
<1>4. QED BY <1>1, <1>2, <1>3, NoneAssumption DEF TypeInv, TypeOK

LEMMA PutVersions ==
  ASSUME TypeInv, VersionInv, NEW t \in Thread, Write(t)
  PROVE  VersionInv'
<1>1. CASE BeginPut(t)
  BY <1>1, BeginQuiet, QuietVersions DEF BeginPut, Label, Versioned
<1>2. CASE TakeVersion(t)
  <2>1. /\ version_counter' = version_counter + 1
        /\ version_counter \in Nat
        /\ UNCHANGED <<store, cur, seen, floor>>
    BY <1>2 DEF TakeVersion, TypeInv, TypeOK
  <2>2. /\ arg'[t].ver = version_counter + 1
        /\ \A u \in Thread : u # t => arg'[u] = arg[u]
    BY <1>2, <2>1, SetVersion DEF TakeVersion, TypeInv, TypeOK, Arg
  <2>3. /\ pc'[t] = "insert"
        /\ \A u \in Thread : u # t => pc'[u] = pc[u]
    BY <1>2 DEF TakeVersion, Goto, TypeInv, TypeOK
  <2>4. /\ issued'[t] = issued[t] \cup {version_counter + 1}
        /\ \A u \in Thread : u # t => issued'[u] = issued[u]
    BY <1>2 DEF TakeVersion, TypeInv, TypeOK
  <2>5. VersionsBounded'
    BY <2>1, <2>2, <2>3
       DEF TypeInv, TypeOK, Entry, VersionInv, VersionsBounded, Present
  <2>6. CasRaises'
    BY <2>1, <2>2, <2>3 DEF VersionInv, CasRaises
  <2>7. HistoryBounded'
    <3>1. /\ version_counter \in Nat /\ seen \in Nat
          /\ floor \in [Thread -> Nat] /\ issued \in [Thread -> SUBSET Nat]
      BY DEF TypeInv, TypeOK
    <3>2. /\ seen' =< version_counter'
          /\ \A u \in Thread : floor'[u] =< version_counter'
      BY <2>1, <3>1 DEF VersionInv, HistoryBounded
    <3>3. ASSUME NEW u \in Thread, NEW v \in issued'[u]
          PROVE  v =< version_counter'
      <4>1. v = version_counter + 1 \/ v \in issued[u]
        BY <2>4, <3>3
      <4>2. v \in issued[u] => v \in Nat /\ v =< version_counter
        BY <3>1, <3>3 DEF VersionInv, HistoryBounded
      <4>3. QED BY <2>1, <4>1, <4>2
    <3>4. QED BY <3>2, <3>3 DEF HistoryBounded
  <2>8. PutAboveSeen'
    BY <2>1, <2>2, <2>3
       DEF TypeInv, TypeOK, VersionInv, PutAboveSeen, HistoryBounded
  <2>9. IssuedOnce'
    BY <2>1, <2>4 DEF TypeInv, TypeOK, VersionInv, IssuedOnce, HistoryBounded
  <2>10. QED BY <2>5, <2>6, <2>7, <2>8, <2>9 DEF VersionInv
<1>3. CASE PutInsert(t)
  <2>1. pc[t] \in KeyLabel /\ Insert(t) /\ pc[t] = "insert"
    BY <1>3 DEF PutInsert, KeyLabel, Label
  <2>2. /\ UNCHANGED <<version_counter, arg, cur, floor, issued>>
        /\ pc'[t] = "idle"
        /\ \A u \in Thread : u # t => pc'[u] = pc[u]
        /\ seen' \in {seen, arg[t].ver}
    BY <1>3 DEF PutInsert, Goto, Larger, TypeInv, TypeOK
  <2>3. VersionsBounded'
    BY <2>1, <2>2, InsertEntry DEF VersionInv, VersionsBounded, Present
  <2>4. CasRaises' /\ PutAboveSeen' /\ IssuedOnce'
    BY <2>2 DEF VersionInv, CasRaises, PutAboveSeen, IssuedOnce
  <2>5. HistoryBounded'
    BY <2>1, <2>2 DEF VersionInv, HistoryBounded, VersionsBounded
  <2>6. QED BY <2>3, <2>4, <2>5 DEF VersionInv
<1>4. QED BY <1>1, <1>2, <1>3 DEF Write

\* After looking at the counter a thread goes for the exchange only with a
\* greater version, and is done with the loop only with a lower one.
LEMMA ObserveVersions ==
  ASSUME TypeInv, VersionInv, NEW t \in Thread, NEW v \in Nat, Observe(t, v),
         arg'[t].ver = v, floor'[t] \in {floor[t], seen},
         \A u \in Thread : u # t => arg'[u] = arg[u] /\ floor'[u] = floor[u],
         UNCHANGED <<store, version_counter, issued>>
  PROVE  VersionInv'
<1>1. /\ cur'[t] = version_counter
      /\ \A u \in Thread : u # t => cur'[u] = cur[u] /\ pc'[u] = pc[u]
      /\ pc'[t] = IF v > version_counter THEN "cas" ELSE "check"
  BY DEF Observe, Goto, TypeInv, TypeOK
<1>2. seen' =< version_counter
  BY DEF Observe, Larger, VersionInv, HistoryBounded, TypeInv, TypeOK
<1>3. VersionsBounded'
  BY <1>1 DEF VersionInv, VersionsBounded, Present, TypeInv, TypeOK
<1>4. CasRaises'
  BY <1>1 DEF VersionInv, CasRaises
<1>5. HistoryBounded'
  BY <1>2 DEF VersionInv, HistoryBounded
<1>6. PutAboveSeen' /\ IssuedOnce'
  BY <1>1 DEF VersionInv, PutAboveSeen, IssuedOnce
<1>7. QED BY <1>3, <1>4, <1>5, <1>6 DEF VersionInv

LEMMA ReplicateVersions ==
  ASSUME TypeInv, VersionInv, NEW t \in Thread, Replicate(t)
  PROVE  VersionInv'
<1>1. CASE BeginReplicate(t)
  <2>1. PICK k \in KeysOf[t], l \in Ttls, v \in RemoteVersions :
          /\ Begin(t, "replicate", [key |-> k, ttl |-> l, ver |-> v])
          /\ Observe(t, v)
          /\ UNCHANGED <<store, version_counter, stats, now, since, entry,
                         todo, expired_keys, issued, rewritten>>
    BY <1>1 DEF BeginReplicate
  <2>2. [key |-> k, ttl |-> l, ver |-> v] \in Arg /\ v \in Nat
    BY KeysAssumption, TtlsAssumption, RemoteVersionsAssumption DEF Arg
  <2>3. arg'[t].ver = v /\ \A u \in Thread : u # t => arg'[u] = arg[u]
    BY <2>1, <2>2, BeginType
  <2>4. /\ floor'[t] \in {floor[t], seen}
        /\ \A u \in Thread : u # t => floor'[u] = floor[u]
    BY <2>1 DEF Begin, TypeInv, TypeOK
  <2>5. QED BY <2>1, <2>2, <2>3, <2>4, ObserveVersions
<1>2. CASE CompareExchange(t)
  <2>1. /\ arg[t].ver \in Nat /\ version_counter \in Nat
        /\ pc[t] = "cas"
        /\ UNCHANGED <<arg, floor, store, issued>>
    BY <1>2 DEF CompareExchange, TypeInv, TypeOK
  <2>2. CASE CasSucceeds(t)
    <3>1. /\ version_counter' = arg[t].ver
          /\ arg[t].ver > version_counter
          /\ seen' \in {seen, arg[t].ver}
          /\ pc'[t] = "check"
          /\ \A u \in Thread : u # t => pc'[u] = pc[u]
          /\ UNCHANGED cur
      BY <2>1, <2>2 DEF CasSucceeds, Goto, Larger, VersionInv, CasRaises,
                        TypeInv, TypeOK
    <3>2. VersionsBounded'
      BY <2>1, <3>1
         DEF VersionInv, VersionsBounded, Present, TypeInv, TypeOK, Entry
    <3>3. CasRaises' /\ PutAboveSeen' /\ IssuedOnce'
      BY <2>1, <3>1 DEF VersionInv, CasRaises, PutAboveSeen, IssuedOnce
    <3>4. HistoryBounded'
      BY <2>1, <3>1 DEF VersionInv, HistoryBounded, TypeInv, TypeOK
    <3>5. QED BY <3>2, <3>3, <3>4 DEF VersionInv
  <2>3. CASE CasFails(t)
    BY <2>1, <2>3, ObserveVersions DEF CasFails
  <2>4. QED BY <1>2, <2>2, <2>3 DEF CompareExchange
<1>3. CASE CheckExisting(t)
  <2>1. /\ UNCHANGED <<store, version_counter, arg, cur, seen, floor, issued>>
        /\ pc[t] = "check" /\ pc'[t] \in {"idle", "replace"}
        /\ \A u \in Thread : u # t => pc'[u] = pc[u]
    BY <1>3 DEF CheckExisting, Goto, TypeInv, TypeOK
  <2>2. QED BY <2>1 DEF VersionInv, VersionsBounded, CasRaises, HistoryBounded,
                        PutAboveSeen, IssuedOnce, Present
<1>4. CASE Replace(t)
  <2>1. /\ UNCHANGED <<version_counter, arg, cur, seen, floor, issued>>
        /\ pc[t] = "replace" /\ pc'[t] = "count" /\ Insert(t)
        /\ pc[t] \in KeyLabel
        /\ \A u \in Thread : u # t => pc'[u] = pc[u]
    BY <1>4 DEF Replace, Goto, TypeInv, TypeOK, KeyLabel, Label
  <2>2. VersionsBounded'
    BY <2>1, InsertEntry DEF VersionInv, VersionsBounded, Present
  <2>3. QED BY <2>1, <2>2 DEF VersionInv, CasRaises, HistoryBounded,
                              PutAboveSeen, IssuedOnce
<1>5. CASE CountReplica(t)
  BY <1>5, StepQuiet, QuietVersions DEF CountReplica, Label, Versioned
<1>6. QED BY <1>1, <1>2, <1>3, <1>4, <1>5 DEF Replicate

LEMMA InitVersions == Init => VersionInv
BY DEF Init, VersionInv, VersionsBounded, CasRaises, HistoryBounded,
       PutAboveSeen, IssuedOnce, Present

LEMMA NextVersions == TypeInv /\ VersionInv /\ [Next]_vars => VersionInv'
<1> SUFFICES ASSUME TypeInv, VersionInv, [Next]_vars PROVE VersionInv'
  OBVIOUS
<1>1. CASE Tick \/ UNCHANGED vars
  BY <1>1 DEF Tick, vars, VersionInv, VersionsBounded, CasRaises,
              HistoryBounded, PutAboveSeen, IssuedOnce, Present
<1>2. ASSUME NEW t \in Thread, Step(t) PROVE VersionInv'
  BY <1>2, PutVersions, ReplicateVersions, GetQuiet, DeleteQuiet, PurgeQuiet,
     QuietVersions DEF Step
<1>3. QED BY <1>1, <1>2 DEF Next

LEMMA VersionInvariant == Spec => [](TypeInv /\ VersionInv)
BY InitType, InitVersions, NextType, NextVersions, PTL DEF Spec

\* The counter is never behind a version that is stored or about to be
\* stored, however the compare-exchange loops of replicated writes race.
THEOREM CounterCoversStore == Spec => []VersionsBounded
<1>1. VersionInv => VersionsBounded
  BY DEF VersionInv
<1>2. QED BY VersionInvariant, <1>1, PTL

\* A put gets a version above every write that was over, and every replicated
\* version that was received, when it began.
THEOREM PutVersionExceedsSeen == Spec => []PutAboveSeen
<1>1. VersionInv => PutAboveSeen
  BY DEF VersionInv
<1>2. QED BY VersionInvariant, <1>1, PTL

\* No version is issued to the puts of two threads.
THEOREM VersionsIssuedOnce == Spec => []IssuedOnce
<1>1. VersionInv => IssuedOnce
  BY DEF VersionInv
<1>2. QED BY VersionInvariant, <1>1, PTL

-----------------------------------------------------------------------------
(***************************************************************************)
(* Keys kept.  When one thread at most writes a key, what the writer       *)
(* is about to insert is above what is stored: nobody else can raise it    *)
(* between the version and the insert, others can only remove the entry.   *)
(***************************************************************************)

Writing == {"version", "insert", "cas", "check", "replace", "count"}

Inserting == {"insert", "replace"}

Reading == {"clone", "judge", "evict"}

Purging == {"collect", "purge"}

IsWriter(Ops, t) == Ops[t] \cap {"put", "replicate"} # {}

\* The threads are within calls of Ops: of OpsOf, or of what some use of the engine
\* leaves of it.
Within(Ops) ==
  \A t \in Thread :
    /\ pc[t] \in Writing => IsWriter(Ops, t)
    /\ pc[t] \in Reading => "get" \in Ops[t]
    /\ pc[t] \in Purging => "purge" \in Ops[t]

WriterInv ==
  \A t \in Thread :
    pc[t] \in Inserting /\ Present(arg[t].key)
      => store[arg[t].key].version =< arg[t].ver

\* What thread t does that stores nothing and is not followed by an insert.
StoresNothing(t) ==
  /\ \A k \in Key : store'[k] \in {None, store[k]}
  /\ pc'[t] \notin Inserting
  /\ \A u \in Thread : u # t => arg'[u] = arg[u] /\ pc'[u] = pc[u]

LEMMA StoresNothingWriter ==
  ASSUME TypeInv, WriterInv, NEW t \in Thread, StoresNothing(t)
  PROVE  WriterInv' /\ VersionsKept
<1>1. \A u \in Thread : pc[u] \in Inserting => arg[u].key \in Key
  BY KeysAssumption
     DEF TypeInv, TypeOK, KeyedCalls, KeyLabel, Label, Inserting
<1>2. WriterInv'
  BY <1>1 DEF WriterInv, StoresNothing, Present
<1>3. VersionsKept
  BY DEF StoresNothing, VersionsKept, Present, TypeInv, TypeOK, Entry
<1>4. QED BY <1>2, <1>3

LEMMA QuietWriter ==
  ASSUME TypeInv, NEW t \in Thread, Quiet(t), pc'[t] \notin Writing
  PROVE  StoresNothing(t)
BY DEF Quiet, StoresNothing, Writing, Inserting

\* The operations that are not writes never reach a step of one.
LEMMA ReadersNeverWrite ==
  ASSUME TypeInv, NEW t \in Thread, Get(t) \/ Delete(t) \/ Purge(t)
  PROVE  StoresNothing(t)
<1>1. pc'[t] \notin Writing
  BY DEF TypeInv, TypeOK, Goto, Writing, Get, BeginGet, Clone, Judge,
         FoundExpired, Hit, Miss, Evict, CountExpired, CountMiss, Delete,
         BeginDelete, RemoveKey, Purge, BeginPurge, Collect, PurgeRemove,
         PurgeCount
<1>2. QED BY <1>1, GetQuiet, DeleteQuiet, PurgeQuiet, QuietWriter

\* An insert by the only writer of a key does not lower the key's version,
\* and does not touch the keys of the inserts under way.
LEMMA InsertWriter ==
  ASSUME NEW Ops, OneWriterPerKey(Ops), Within(Ops), TypeInv, WriterInv, NEW t \in Thread,
         pc[t] \in Inserting, Insert(t), UNCHANGED arg,
         pc'[t] \in {"idle", "count"},
         \A u \in Thread : u # t => pc'[u] = pc[u]
  PROVE  WriterInv' /\ VersionsKept
<1>1. pc[t] \in KeyLabel /\ pc[t] \in Writing
  BY DEF Inserting, KeyLabel, Label, Writing
<1>2. /\ store'[arg[t].key].version = arg[t].ver
      /\ store'[arg[t].key] # None
      /\ \A k \in Key : k # arg[t].key => store'[k] = store[k]
  BY <1>1, InsertEntry
<1>3. VersionsKept
  <2> SUFFICES ASSUME NEW k \in Key, Present(k), store'[k] # None
               PROVE  store'[k].version >= store[k].version
    BY DEF VersionsKept
  <2>1. CASE k = arg[t].key
    BY <2>1, <1>2 DEF WriterInv, TypeInv, TypeOK, Entry, Present
  <2>2. CASE k # arg[t].key
    BY <2>2, <1>2 DEF TypeInv, TypeOK, Entry, Present
  <2>3. QED BY <2>1, <2>2
<1>4. ASSUME NEW u \in Thread, u # t, pc[u] \in Inserting
      PROVE  arg[u].key \in Key /\ arg[u].key # arg[t].key
  <2>1. pc[u] \in KeyLabel /\ pc[u] \in Writing
    BY <1>4 DEF Inserting, KeyLabel, Label, Writing
  <2>2. arg[u].key \in KeysOf[u] /\ arg[t].key \in KeysOf[t]
    BY <1>1, <2>1 DEF TypeInv, KeyedCalls
  <2>3. IsWriter(Ops, u) /\ IsWriter(Ops, t)
    BY <1>1, <2>1 DEF Within
  <2>4. QED BY <1>4, <2>2, <2>3, KeysAssumption DEF OneWriterPerKey, IsWriter
<1>5. WriterInv'
  BY <1>1, <1>2, <1>4 DEF WriterInv, Inserting, Present, Writing
<1>6. QED BY <1>3, <1>5

LEMMA PutWriter ==
  ASSUME NEW Ops, OneWriterPerKey(Ops), Within(Ops), TypeInv, VersionInv, WriterInv,
         NEW t \in Thread, Write(t)
  PROVE  WriterInv' /\ VersionsKept
<1>1. CASE BeginPut(t)
  <2>1. Quiet(t)
    BY <1>1, BeginQuiet DEF BeginPut, Label, Versioned
  <2>2. pc'[t] = "version"
    BY <1>1 DEF BeginPut, Begin, Goto, TypeInv, TypeOK
  <2>3. StoresNothing(t)
    BY <2>1, <2>2 DEF Quiet, StoresNothing, Inserting
  <2>4. QED BY <2>3, StoresNothingWriter
<1>2. CASE TakeVersion(t)
  <2>1. /\ arg'[t].ver = version_counter + 1
        /\ arg'[t].key = arg[t].key
        /\ \A u \in Thread : u # t => arg'[u] = arg[u]
    BY <1>2, SetVersion DEF TakeVersion, TypeInv, TypeOK, Arg
  <2>2. /\ UNCHANGED store
        /\ pc[t] = "version" /\ pc'[t] = "insert"
        /\ \A u \in Thread : u # t => pc'[u] = pc[u]
    BY <1>2 DEF TakeVersion, Goto, TypeInv, TypeOK
  <2>3. arg[t].key \in Key
    BY <2>2, KeysAssumption
       DEF TypeInv, TypeOK, KeyedCalls, KeyLabel, Label
  <2>4. Present(arg[t].key) => store[arg[t].key].version =< version_counter + 1
    BY <2>3 DEF VersionInv, VersionsBounded, TypeInv, TypeOK, Present, Entry
  <2>5. WriterInv'
    BY <2>1, <2>2, <2>4 DEF WriterInv, Writing, Inserting, Present
  <2>6. VersionsKept
    BY <2>2 DEF VersionsKept, TypeInv, TypeOK, Present, Entry
  <2>7. QED BY <2>5, <2>6
<1>3. CASE PutInsert(t)
  BY <1>3, InsertWriter DEF PutInsert, Goto, TypeInv, TypeOK, Inserting
<1>4. QED BY <1>1, <1>2, <1>3 DEF Write

LEMMA ReplicateWriter ==
  ASSUME NEW Ops, OneWriterPerKey(Ops), Within(Ops), TypeInv, VersionInv, WriterInv,
         NEW t \in Thread, Replicate(t)
  PROVE  WriterInv' /\ VersionsKept
<1>1. CASE BeginReplicate(t)
  <2>1. PICK k \in KeysOf[t], l \in Ttls, v \in RemoteVersions :
          /\ Begin(t, "replicate", [key |-> k, ttl |-> l, ver |-> v])
          /\ Observe(t, v)
          /\ UNCHANGED <<store, version_counter, stats, now, since, entry,
                         todo, expired_keys, issued, rewritten>>
    BY <1>1 DEF BeginReplicate
  <2>2. \A u \in Thread : u # t => arg'[u] = arg[u]
    BY <2>1 DEF Begin, TypeInv, TypeOK
  <2>3. /\ pc'[t] \in {"cas", "check"}
        /\ \A u \in Thread : u # t => pc'[u] = pc[u]
    BY <2>1 DEF Observe, Goto, TypeInv, TypeOK
  <2>4. StoresNothing(t)
    BY <2>1, <2>2, <2>3 DEF StoresNothing, Inserting
  <2>5. QED BY <2>4, StoresNothingWriter
<1>2. CASE CompareExchange(t)
  <2>1. /\ pc[t] = "cas" /\ UNCHANGED <<store, arg>>
        /\ pc'[t] \in {"cas", "check"}
        /\ \A u \in Thread : u # t => pc'[u] = pc[u]
    BY <1>2 DEF CompareExchange, CasSucceeds, CasFails, Observe, Goto, TypeInv,
                TypeOK
  <2>2. StoresNothing(t)
    BY <2>1 DEF StoresNothing, WriterInv, Inserting, Writing
  <2>3. QED BY <2>2, StoresNothingWriter
<1>3. CASE CheckExisting(t)
  <2>1. /\ pc[t] = "check" /\ UNCHANGED <<store, arg>>
        /\ pc'[t] \in {"idle", "replace"}
        /\ (pc'[t] = "replace" /\ Present(arg[t].key))
             => ~ (store[arg[t].key].version >= arg[t].ver)
        /\ \A u \in Thread : u # t => pc'[u] = pc[u]
    BY <1>3 DEF CheckExisting, Goto, TypeInv, TypeOK, Present
  <2>2. arg[t].key \in Key
    BY <2>1, KeysAssumption
       DEF TypeInv, TypeOK, KeyedCalls, KeyLabel, Label
  <2>3. arg[t].ver \in Nat /\ (Present(arg[t].key)
          => store[arg[t].key].version \in Nat)
    BY <2>2 DEF TypeInv, TypeOK, Present, Entry
  <2>4. WriterInv'
    BY <2>1, <2>3 DEF WriterInv, Writing, Inserting, Present
  <2>5. VersionsKept
    BY <2>1 DEF VersionsKept, TypeInv, TypeOK, Present, Entry
  <2>6. QED BY <2>4, <2>5
<1>4. CASE Replace(t)
  BY <1>4, InsertWriter DEF Replace, Goto, TypeInv, TypeOK, Inserting
<1>5. CASE CountReplica(t)
  <2>1. StoresNothing(t)
    BY <1>5 DEF CountReplica, Goto, TypeInv, TypeOK, StoresNothing, Inserting,
                Writing
  <2>2. QED BY <2>1, StoresNothingWriter
<1>6. QED BY <1>1, <1>2, <1>3, <1>4, <1>5 DEF Replicate

LEMMA CallsWithinOps == Spec => []Within(OpsOf)
<1> USE DEF Writing, Reading, Purging
<1>1. Init => Within(OpsOf)
  BY DEF Init, Within
<1>2. TypeInv /\ Within(OpsOf) /\ [Next]_vars => Within(OpsOf)'
  <2> SUFFICES ASSUME TypeInv, Within(OpsOf), [Next]_vars PROVE Within(OpsOf)'
    OBVIOUS
  <2>1. CASE Tick \/ UNCHANGED vars
    BY <2>1 DEF Tick, vars, Within
  <2>2. ASSUME NEW t \in Thread, Step(t) PROVE Within(OpsOf)'
    <3>1. pc \in [Thread -> Label]
      BY DEF TypeInv, TypeOK
    <3>2. \A u \in Thread : u # t => pc'[u] = pc[u]
      <4>1. CASE Write(t) \/ Delete(t)
        BY <3>1, <4>1 DEF Write, BeginPut, TakeVersion, PutInsert, Delete,
                          BeginDelete, RemoveKey, Goto
      <4>2. CASE Replicate(t)
        BY <3>1, <4>2 DEF Replicate, BeginReplicate, CompareExchange,
                          CasSucceeds, CasFails, Observe, CheckExisting,
                          Replace, CountReplica, Goto
      <4>3. CASE Get(t)
        BY <3>1, <4>3 DEF Get, BeginGet, Clone, Judge, FoundExpired, Hit, Miss,
                          Evict, CountExpired, CountMiss, Goto
      <4>4. CASE Purge(t)
        BY <3>1, <4>4 DEF Purge, BeginPurge, Collect, PurgeRemove, PurgeCount,
                          Goto
      <4>5. QED BY <2>2, <4>1, <4>2, <4>3, <4>4 DEF Step
    <3>3. /\ pc'[t] \in Writing => IsWriter(OpsOf, t)
          /\ pc'[t] \in Reading => "get" \in OpsOf[t]
          /\ pc'[t] \in Purging => "purge" \in OpsOf[t]
      <4>1. /\ pc[t] \in Writing => IsWriter(OpsOf, t)
            /\ pc[t] \in Reading => "get" \in OpsOf[t]
            /\ pc[t] \in Purging => "purge" \in OpsOf[t]
        BY DEF Within
      <4>2. CASE Write(t)
        BY <3>1, <4>1, <4>2 DEF Write, BeginPut, TakeVersion, PutInsert, Begin,
                                Goto, IsWriter
      <4>3. CASE Replicate(t)
        BY <3>1, <4>1, <4>3 DEF Replicate, BeginReplicate, CompareExchange,
                                CasSucceeds, CasFails, Observe, CheckExisting,
                                Replace, CountReplica, Begin, Goto, IsWriter
      <4>4. CASE Get(t)
        BY <3>1, <4>1, <4>4 DEF Get, BeginGet, Clone, Judge, FoundExpired, Hit,
                                Miss, Evict, CountExpired, CountMiss, Begin,
                                Goto
      <4>5. CASE Delete(t)
        BY <3>1, <4>1, <4>5 DEF Delete, BeginDelete, RemoveKey, Begin, Goto
      <4>6. CASE Purge(t)
        BY <3>1, <4>1, <4>6 DEF Purge, BeginPurge, Collect, PurgeRemove,
                                PurgeCount, Begin, Goto
      <4>7. QED BY <2>2, <4>2, <4>3, <4>4, <4>5, <4>6 DEF Step
    <3>4. QED BY <3>2, <3>3 DEF Within, IsWriter
  <2>3. QED BY <2>1, <2>2 DEF Next
<1>3. QED BY VersionInvariant, <1>1, <1>2, PTL DEF Spec

LEMMA NextWriter ==
  ASSUME NEW Ops, OneWriterPerKey(Ops), Within(Ops), TypeInv, VersionInv,
         WriterInv, [Next]_vars
  PROVE  WriterInv' /\ VersionsKept
<1>1. CASE Tick \/ UNCHANGED vars
  BY <1>1 DEF Tick, vars, WriterInv, Present, VersionsKept, TypeInv, TypeOK, Entry
<1>2. ASSUME NEW t \in Thread, Step(t) PROVE WriterInv' /\ VersionsKept
  BY <1>2, PutWriter, ReplicateWriter, ReadersNeverWrite, StoresNothingWriter
     DEF Step
<1>3. QED BY <1>1, <1>2 DEF Next

\* With one writer per key, and any readers, deleters and purges beside it,
\* the version of a key that stays present never goes down.  The run
\* KvStorageCopyRace shows that two writers break it.
THEOREM OneWriterMonotone ==
  OneWriterPerKey(OpsOf) => (Spec => KeyVersionsNeverRegress)
<1> SUFFICES ASSUME OneWriterPerKey(OpsOf) PROVE Spec => KeyVersionsNeverRegress
  OBVIOUS
<1>1. Init => WriterInv
  BY DEF Init, WriterInv, Inserting
<1>2. Within(OpsOf) /\ TypeInv /\ VersionInv /\ WriterInv /\ [Next]_vars
      => WriterInv' /\ [VersionsKept]_vars
  BY NextWriter
<1>3. QED BY VersionInvariant, CallsWithinOps, <1>1, <1>2, PTL
             DEF Spec, KeyVersionsNeverRegress, VersionsKept

-----------------------------------------------------------------------------
(* Accounting of gets. *)

Running == {t \in Thread : pc[t] \in InGet}

\* Entering, leaving or staying in the uncounted part of a get.
LEMMA RunningChanges ==
  ASSUME TypeInv, NEW t \in Thread, NEW l \in Label, Goto(t, l)
  PROVE  /\ Cardinality(Running) \in Nat
         /\ pc[t] \in InGet /\ l \in InGet
              => Cardinality(Running') = Cardinality(Running)
         /\ pc[t] \notin InGet /\ l \notin InGet
              => Cardinality(Running') = Cardinality(Running)
         /\ pc[t] \notin InGet /\ l \in InGet
              => Cardinality(Running') = Cardinality(Running) + 1
         /\ pc[t] \in InGet /\ l \notin InGet
              => Cardinality(Running') = Cardinality(Running) - 1
<1>1. IsFiniteSet(Running)
  BY FiniteAssumption, FS_Subset DEF Running
<1>2. pc'[t] = l /\ \A u \in Thread : u # t => pc'[u] = pc[u]
  BY DEF Goto, TypeInv, TypeOK
<1>3. (pc[t] \in InGet <=> l \in InGet) => Running' = Running
  BY <1>2 DEF Running
<1>4. (pc[t] \notin InGet /\ l \in InGet)
        => t \notin Running /\ Running' = Running \cup {t}
  BY <1>2 DEF Running
<1>5. (pc[t] \in InGet /\ l \notin InGet)
        => t \in Running /\ Running' = Running \ {t}
  BY <1>2 DEF Running
<1>6. QED BY <1>1, <1>3, <1>4, <1>5, FS_CardinalityType, FS_AddElement,
             FS_RemoveElement

\* A step that counts no get, hit or miss and does not cross the boundary.
LEMMA NeutralAccounts ==
  ASSUME TypeInv, GetsAccounted, NEW t \in Thread, NEW l \in Label, Goto(t, l),
         pc[t] \in InGet <=> l \in InGet,
         \A c \in {"gets", "hits", "misses"} : stats'[c] = stats[c]
  PROVE  GetsAccounted'
BY RunningChanges DEF GetsAccounted, Running

LEMMA WriteAccounts ==
  ASSUME TypeInv, GetsAccounted, NEW t \in Thread, Write(t) \/ Replicate(t)
  PROVE  GetsAccounted'
<1>1. \A c \in {"gets", "hits", "misses"} : stats'[c] = stats[c]
  BY DEF Write, BeginPut, TakeVersion, PutInsert, Replicate, BeginReplicate,
         CompareExchange, CheckExisting, Replace, CountReplica, Count, TypeInv,
         TypeOK, Counter
<1>2. /\ pc[t] \notin InGet
      /\ \E l \in Label : l \notin InGet /\ Goto(t, l)
  BY DEF Write, BeginPut, Begin, TakeVersion, PutInsert, Replicate,
         BeginReplicate, CompareExchange, CasSucceeds, CasFails, Observe,
         CheckExisting, Replace, CountReplica, InGet, Label
<1>3. QED BY <1>1, <1>2, NeutralAccounts

LEMMA RemovalAccounts ==
  ASSUME TypeInv, GetsAccounted, NEW t \in Thread, Delete(t) \/ Purge(t)
  PROVE  GetsAccounted'
<1>1. \A c \in {"gets", "hits", "misses"} : stats'[c] = stats[c]
  BY DEF Delete, BeginDelete, RemoveKey, Purge, BeginPurge, Collect, PurgeRemove,
         PurgeCount, Count, TypeInv, TypeOK, Counter
<1>2. CASE PurgeRemove(t)
  BY <1>1, <1>2 DEF PurgeRemove, GetsAccounted
<1>3. CASE ~ PurgeRemove(t)
  <2>1. /\ pc[t] \notin InGet
        /\ \E l \in Label : l \notin InGet /\ Goto(t, l)
    BY <1>3 DEF Delete, BeginDelete, Begin, RemoveKey, Purge, BeginPurge, Collect,
                PurgeCount, InGet, Label
  <2>2. QED BY <1>1, <2>1, NeutralAccounts
<1>4. QED BY <1>2, <1>3

LEMMA GetAccounts ==
  ASSUME TypeInv, GetsAccounted, NEW t \in Thread, Get(t)
  PROVE  GetsAccounted'
<1> USE DEF InGet, Label
<1>1. CASE BeginGet(t)
  <2>1. /\ stats'["gets"] = stats["gets"] + 1
        /\ stats'["hits"] = stats["hits"] /\ stats'["misses"] = stats["misses"]
    BY <1>1 DEF BeginGet, Count, TypeInv, TypeOK, Counter
  <2>2. pc[t] = "idle" /\ Goto(t, "clone")
    BY <1>1 DEF BeginGet, Begin
  <2>3. QED BY <2>1, <2>2, RunningChanges
            DEF GetsAccounted, Running, TypeInv, TypeOK, Counter
<1>2. CASE Clone(t) \/ Evict(t) \/ CountExpired(t)
  <2>1. \A c \in {"gets", "hits", "misses"} : stats'[c] = stats[c]
    BY <1>2 DEF Clone, Evict, CountExpired, Count, TypeInv, TypeOK, Counter
  <2>2. pc[t] \in InGet /\ \E l \in InGet : Goto(t, l)
    BY <1>2 DEF Clone, Evict, CountExpired
  <2>3. QED BY <2>1, <2>2, NeutralAccounts
<1>3. CASE Judge(t) /\ FoundExpired(t)
  BY <1>3, NeutralAccounts DEF Judge, FoundExpired
<1>4. CASE Judge(t) /\ Hit(t)
  <2>1. /\ stats'["hits"] = stats["hits"] + 1
        /\ stats'["gets"] = stats["gets"] /\ stats'["misses"] = stats["misses"]
    BY <1>4 DEF Hit, Count, TypeInv, TypeOK, Counter
  <2>2. pc[t] = "judge" /\ Goto(t, "idle")
    BY <1>4 DEF Judge, Hit
  <2>3. QED BY <2>1, <2>2, RunningChanges
            DEF GetsAccounted, Running, TypeInv, TypeOK, Counter
<1>5. CASE CountMiss(t) \/ (Judge(t) /\ Miss(t))
  <2>1. /\ stats'["misses"] = stats["misses"] + 1
        /\ stats'["gets"] = stats["gets"] /\ stats'["hits"] = stats["hits"]
    BY <1>5 DEF CountMiss, Miss, Count, TypeInv, TypeOK, Counter
  <2>2. pc[t] \in {"judge", "miss"} /\ Goto(t, "idle")
    BY <1>5 DEF Judge, CountMiss, Miss
  <2>3. QED BY <2>1, <2>2, RunningChanges
            DEF GetsAccounted, Running, TypeInv, TypeOK, Counter
<1>6. QED BY <1>1, <1>2, <1>3, <1>4, <1>5 DEF Get, Judge

\* At every instant the gets counted are the hits, the misses and the gets
\* still running: once the calls have returned, hits + misses = gets.
THEOREM EveryGetAccounted == Spec => []GetsAccounted
<1>1. Init => GetsAccounted
  <2>1. ASSUME Init PROVE Running = {}
    BY <2>1 DEF Init, Running, InGet
  <2>2. QED BY <2>1, FS_EmptySet DEF Init, GetsAccounted, Running, Counter
<1>2. TypeInv /\ GetsAccounted /\ [Next]_vars => GetsAccounted'
  <2> SUFFICES ASSUME TypeInv, GetsAccounted, [Next]_vars PROVE GetsAccounted'
    OBVIOUS
  <2>1. CASE Tick \/ UNCHANGED vars
    BY <2>1 DEF Tick, vars, GetsAccounted
  <2>2. ASSUME NEW t \in Thread, Step(t) PROVE GetsAccounted'
    BY <2>2, WriteAccounts, GetAccounts, RemovalAccounts DEF Step
  <2>3. QED BY <2>1, <2>2 DEF Next
<1>3. QED BY VersionInvariant, <1>1, <1>2, PTL DEF Spec

-----------------------------------------------------------------------------
(***************************************************************************)
(* Expiration.  Between the step that judges an entry and the one that     *)
(* removes it by its key others may store, and the history variable        *)
(* rewritten says what they stored.  Of a key that is not in it the thread *)
(* removes what it judged, or finds it gone.                               *)
(***************************************************************************)

NothingLive(k) == Present(k) => IsExpired(store[k])

ExpirerOK(t) ==
  /\ pc[t] \in {"judge", "evict"} /\ arg[t].key \notin rewritten[t]
       => store[arg[t].key] \in {None, entry[t]}
  /\ pc[t] = "evict" => entry[t] # None /\ IsExpired(entry[t])
  /\ pc[t] = "collect" => /\ \A k \in expired_keys[t] \ rewritten[t] : NothingLive(k)
                         /\ todo[t] \cap expired_keys[t] = {}
  /\ pc[t] = "purge" => \A k \in todo[t] \ rewritten[t] : NothingLive(k)

ExpirerInv == \A t \in Thread : ExpirerOK(t)

\* A step of t: what the other threads hold stays.
Alone(t) ==
  \A u \in Thread : u # t =>
    /\ pc'[u] = pc[u] /\ arg'[u] = arg[u] /\ entry'[u] = entry[u]
    /\ expired_keys'[u] = expired_keys[u] /\ todo'[u] = todo[u]
    /\ rewritten'[u] = rewritten[u]

\* Entries only disappear.
Shrinks == \A k \in Key : store'[k] \in {None, store[k]}

\* Time goes on: what has expired stays so.
LEMMA ExpiredStays ==
  ASSUME TypeInv, now' \in {now, now + 1}
  PROVE  /\ \A e \in Entry : IsExpired(e) => IsExpired(e)'
         /\ Shrinks => \A k \in Key : NothingLive(k) => NothingLive(k)'
<1>1. ASSUME NEW e \in Entry, IsExpired(e) PROVE IsExpired(e)'
  <2>1. e.created_at \in Nat /\ e.ttl \in Nat /\ now \in Nat
    BY <1>1 DEF IsExpired, Entry, TypeInv, TypeOK
  <2>2. QED BY <1>1, <2>1 DEF IsExpired
<1>2. ASSUME Shrinks, NEW k \in Key, NothingLive(k) PROVE NothingLive(k)'
  <2>1. CASE store'[k] = None
    BY <2>1 DEF NothingLive, Present
  <2>2. CASE store'[k] = store[k] /\ store[k] # None
    <3>1. store[k] \in Entry /\ IsExpired(store[k])
      BY <1>2, <2>2 DEF NothingLive, Present, TypeInv, TypeOK
    <3>2. PICK e \in Entry : e = store[k] /\ e = store'[k]
      BY <2>2, <3>1
    <3>3. now' - e.created_at > e.ttl /\ e.ttl # None
      BY <1>1, <3>1, <3>2 DEF IsExpired
    <3>4. QED BY <3>2, <3>3 DEF NothingLive, IsExpired
  <2>3. QED BY <1>2, <2>1, <2>2 DEF Shrinks
<1>3. QED BY <1>1, <1>2

\* A thread that stays where it is while entries disappear and time goes on.
LEMMA StaysExpirer ==
  ASSUME TypeInv, now' \in {now, now + 1}, Shrinks, NEW u \in Thread, ExpirerOK(u),
         pc'[u] = pc[u], arg'[u] = arg[u], entry'[u] = entry[u],
         expired_keys'[u] = expired_keys[u], todo'[u] = todo[u],
         rewritten'[u] = rewritten[u]
  PROVE  ExpirerOK(u)'
<1>1. pc[u] \in {"judge", "evict"} => arg[u].key \in Key
  BY KeysAssumption DEF TypeInv, TypeOK, KeyedCalls, KeyLabel, Label
<1>2. pc[u] \in {"judge", "evict"} /\ arg[u].key \notin rewritten[u]
        => store'[arg[u].key] \in {None, entry[u]}
  BY <1>1 DEF ExpirerOK, Shrinks
<1>3. pc[u] = "evict" => entry[u] # None /\ IsExpired(entry[u])'
  <2> SUFFICES ASSUME pc[u] = "evict"
               PROVE  entry[u] # None /\ IsExpired(entry[u])'
    OBVIOUS
  <2>1. PICK e \in Entry : e = entry[u] /\ e = entry'[u] /\ IsExpired(e)
    BY DEF ExpirerOK, TypeInv, TypeOK
  <2>2. now' - e.created_at > e.ttl /\ e.ttl # None
    BY <2>1, ExpiredStays DEF IsExpired
  <2>3. QED BY <2>1, <2>2 DEF ExpirerOK, IsExpired
<1>4. expired_keys[u] \subseteq Key /\ todo[u] \subseteq Key
  BY DEF TypeInv, TypeOK
<1>5. /\ pc[u] = "collect"
           => /\ \A k \in expired_keys[u] \ rewritten[u] : NothingLive(k)'
              /\ todo[u] \cap expired_keys[u] = {}
      /\ pc[u] = "purge" => \A k \in todo[u] \ rewritten[u] : NothingLive(k)'
  BY <1>4, ExpiredStays DEF ExpirerOK
<1>6. QED BY <1>2, <1>3, <1>5 DEF ExpirerOK

\* A step of t that stores nothing: what t holds afterwards is left to show.
LEMMA ShrinksExpirer ==
  ASSUME TypeInv, ExpirerInv, now' = now, Shrinks, NEW t \in Thread, Alone(t),
         ExpirerOK(t)'
  PROVE  ExpirerInv'
<1>1. ASSUME NEW u \in Thread, u # t PROVE ExpirerOK(u)'
  BY <1>1, StaysExpirer DEF Alone, ExpirerInv
<1>2. QED BY <1>1 DEF ExpirerInv

\* An insert writes its key anew for all the others, and removes nothing.
LEMMA InsertExpirer ==
  ASSUME TypeInv, ExpirerInv, NEW t \in Thread,
         pc[t] \in Inserting, Insert(t), now' = now,
         pc' = [pc EXCEPT ![t] = pc'[t]], pc'[t] \in {"idle", "count"},
         UNCHANGED <<arg, entry, expired_keys, todo>>
  PROVE  ExpirerInv' /\ LiveKeptUnlessRewritten
<1>1. pc[t] \in KeyLabel /\ pc[t] \in Writing
  BY DEF Inserting, KeyLabel, Label, Writing
<1>2. /\ store'[arg[t].key] # None
      /\ \A k \in Key : k # arg[t].key => store'[k] = store[k]
  BY <1>1, InsertEntry
<1>3. ASSUME NEW u \in Thread, u # t PROVE ExpirerOK(u)'
  <2>1. /\ pc'[u] = pc[u] /\ ExpirerOK(u)
        /\ rewritten'[u] = rewritten[u] \cup {arg[t].key}
        /\ UNCHANGED <<arg[u], entry[u], expired_keys[u], todo[u]>>
    BY <1>3 DEF ExpirerInv, Insert, TypeInv, TypeOK
  <2>2. /\ pc[u] \in {"judge", "evict"} => arg[u].key \in Key
        /\ expired_keys[u] \subseteq Key /\ todo[u] \subseteq Key
    BY KeysAssumption DEF TypeInv, TypeOK, KeyedCalls, KeyLabel, Label
  <2>3. pc'[u] \in {"judge", "evict"} /\ arg'[u].key \notin rewritten'[u]
          => store'[arg'[u].key] \in {None, entry'[u]}
    BY <1>2, <2>1, <2>2 DEF ExpirerOK
  <2>4. pc'[u] = "evict" => entry'[u] # None /\ IsExpired(entry[u])'
    <3> SUFFICES ASSUME pc[u] = "evict"
                 PROVE  entry[u] # None /\ IsExpired(entry[u])'
      BY <2>1
    <3>1. PICK e \in Entry : e = entry[u] /\ e = entry'[u] /\ IsExpired(e)
      BY <2>1 DEF ExpirerOK, TypeInv, TypeOK
    <3>2. now' - e.created_at > e.ttl /\ e.ttl # None
      BY <3>1 DEF IsExpired
    <3>3. QED BY <2>1, <3>1, <3>2 DEF ExpirerOK, IsExpired
  <2>5. \A k \in Key : NothingLive(k) /\ k # arg[t].key => NothingLive(k)'
    BY <1>2 DEF NothingLive, Present, IsExpired
  <2>6. /\ pc'[u] = "collect"
             => /\ \A k \in expired_keys'[u] \ rewritten'[u] : NothingLive(k)'
                /\ todo'[u] \cap expired_keys'[u] = {}
        /\ pc'[u] = "purge" => \A k \in todo'[u] \ rewritten'[u] : NothingLive(k)'
    BY <2>1, <2>2, <2>5 DEF ExpirerOK
  <2>7. QED BY <2>3, <2>4, <2>6 DEF ExpirerOK
<1>4. ExpirerOK(t)'
  BY <1>1 DEF ExpirerOK, Writing, Reading, Purging
<1>5. LiveKeptUnlessRewritten
  BY <1>2 DEF LiveKeptUnlessRewritten, Present
<1>6. QED BY <1>3, <1>4, <1>5 DEF ExpirerInv

\* A step that leaves the store as it is.
LEMMA StoreUnchanged ==
  ASSUME TypeInv, store' = store
  PROVE  Shrinks /\ LiveKeptUnlessRewritten
BY DEF Shrinks, LiveKeptUnlessRewritten, Present

\* A step of t to a place where nothing is asked of t.
LEMMA PlainExpirer ==
  ASSUME TypeInv, ExpirerInv, store' = store, now' = now, NEW t \in Thread, Alone(t),
         pc'[t] \notin Reading \cup Purging
  PROVE  ExpirerInv' /\ LiveKeptUnlessRewritten
<1>1. ExpirerOK(t)'
  BY DEF ExpirerOK, Reading, Purging
<1>2. QED BY <1>1, StoreUnchanged, ShrinksExpirer

LEMMA WriteExpirer ==
  ASSUME TypeInv, ExpirerInv, NEW t \in Thread, Write(t) \/ Replicate(t)
  PROVE  ExpirerInv' /\ LiveKeptUnlessRewritten
<1> USE DEF Writing, Reading, Purging, Inserting
<1>1. /\ pc \in [Thread -> Label] /\ DOMAIN arg = Thread /\ arg \in [Thread -> Arg]
  BY DEF TypeInv, TypeOK, Arg
<1>2. CASE PutInsert(t)
  BY <1>1, <1>2, InsertExpirer DEF PutInsert, Goto
<1>3. CASE Replace(t)
  BY <1>1, <1>3, InsertExpirer DEF Replace, Goto
<1>4. CASE BeginPut(t) \/ BeginReplicate(t)
  <2>1. /\ pc'[t] \in {"version", "cas", "check"} /\ Alone(t)
        /\ store' = store /\ now' = now
    BY <1>1, <1>4 DEF BeginPut, BeginReplicate, Begin, Observe, Goto, Alone
  <2>2. QED BY <1>1, <2>1, PlainExpirer
<1>5. CASE TakeVersion(t)
  <2>1. pc'[t] = "insert" /\ Alone(t) /\ store' = store /\ now' = now
    BY <1>1, <1>5 DEF TakeVersion, Goto, Alone
  <2>2. QED BY <1>1, <2>1, PlainExpirer
<1>6. CASE CompareExchange(t) \/ CheckExisting(t) \/ CountReplica(t)
  <2>1. /\ pc'[t] \in {"idle", "cas", "check", "replace"} /\ Alone(t)
        /\ store' = store /\ now' = now
    BY <1>1, <1>6 DEF CompareExchange, CasSucceeds, CasFails, Observe, CheckExisting,
       CountReplica, Goto, Alone
  <2>2. QED BY <1>1, <2>1, PlainExpirer
<1>7. QED BY <1>2, <1>3, <1>4, <1>5, <1>6 DEF Write, Replicate

LEMMA GetExpirer ==
  ASSUME TypeInv, ExpirerInv, NEW t \in Thread, Get(t)
  PROVE  ExpirerInv' /\ LiveKeptUnlessRewritten
<1> USE DEF Writing, Reading, Purging
<1>1. /\ pc \in [Thread -> Label] /\ DOMAIN arg = Thread /\ DOMAIN entry = Thread
      /\ DOMAIN store = Key /\ DOMAIN rewritten = Thread /\ ExpirerOK(t)
      /\ pc[t] = "evict" => arg[t].key \in Key
  BY KeysAssumption DEF TypeInv, TypeOK, ExpirerInv, KeyedCalls, KeyLabel, Label
<1>2. CASE BeginGet(t)
  <2>1. /\ pc'[t] = "clone" /\ Alone(t)
        /\ store' = store /\ now' = now
    BY <1>1, <1>2 DEF BeginGet, Begin, Goto, Alone
  <2>2. ExpirerOK(t)'
    BY <2>1 DEF ExpirerOK
  <2>3. QED BY <2>1, <2>2, StoreUnchanged, ShrinksExpirer
<1>3. CASE Clone(t)
  <2>1. /\ pc[t] = "clone" /\ pc'[t] = "judge" /\ Alone(t)
        /\ entry'[t] = store[arg[t].key] /\ arg' = arg /\ store' = store /\ now' = now
    BY <1>1, <1>3 DEF Clone, Goto, Alone
  <2>2. ExpirerOK(t)'
    BY <1>1, <2>1 DEF ExpirerOK
  <2>3. QED BY <2>1, <2>2, StoreUnchanged, ShrinksExpirer
<1>4. CASE Judge(t) /\ FoundExpired(t)
  <2>1. /\ pc[t] = "judge" /\ pc'[t] = "evict" /\ Alone(t)
        /\ entry[t] # None /\ IsExpired(entry[t])
        /\ UNCHANGED <<entry, arg, store, now, rewritten>>
    BY <1>1, <1>4 DEF Judge, FoundExpired, Goto, Alone
  <2>2. ExpirerOK(t)'
    BY <1>1, <2>1 DEF ExpirerOK, IsExpired
  <2>3. QED BY <2>1, <2>2, StoreUnchanged, ShrinksExpirer
<1>5. CASE Judge(t) /\ (Hit(t) \/ Miss(t))
  <2>1. pc'[t] = "idle" /\ Alone(t) /\ store' = store /\ now' = now
    BY <1>1, <1>5 DEF Judge, Hit, Miss, Goto, Alone
  <2>2. QED BY <2>1, PlainExpirer
<1>6. CASE Evict(t)
  <2>1. /\ pc[t] = "evict" /\ pc'[t] = "expired" /\ Alone(t) /\ now' = now
        /\ store' = [store EXCEPT ![arg[t].key] = None]
    BY <1>1, <1>6 DEF Evict, Goto, Alone
  <2>2. ExpirerOK(t)' /\ Shrinks
    BY <1>1, <2>1 DEF ExpirerOK, Shrinks
  <2>3. ASSUME NEW k \in Key, Present(k), ~ IsExpired(store[k]), store'[k] = None
        PROVE  Removes(t, k) /\ k \in rewritten[t]
    <3>1. k = arg[t].key
      BY <1>1, <2>1, <2>3 DEF Present
    <3>2. Removes(t, k)
      BY <2>1, <3>1 DEF Removes
    <3>3. CASE k \notin rewritten[t]
      <4>1. store[k] = entry[t] /\ IsExpired(entry[t])
        BY <1>1, <2>1, <2>3, <3>1, <3>3 DEF ExpirerOK, Present
      <4>2. QED BY <2>3, <4>1
    <3>4. QED BY <3>2, <3>3
  <2>4. QED BY <2>1, <2>2, <2>3, ShrinksExpirer DEF LiveKeptUnlessRewritten
<1>7. CASE CountExpired(t) \/ CountMiss(t)
  <2>1. pc'[t] \in {"miss", "idle"} /\ Alone(t) /\ store' = store /\ now' = now
    BY <1>1, <1>7 DEF CountExpired, CountMiss, Goto, Alone
  <2>2. QED BY <2>1, PlainExpirer
<1>8. QED BY <1>2, <1>3, <1>4, <1>5, <1>6, <1>7 DEF Get, Judge

LEMMA DeleteExpirer ==
  ASSUME TypeInv, ExpirerInv, NEW t \in Thread, Delete(t)
  PROVE  ExpirerInv' /\ LiveKeptUnlessRewritten
<1> USE DEF Writing, Reading, Purging
<1>1. pc \in [Thread -> Label] /\ DOMAIN arg = Thread /\ DOMAIN store = Key
  BY DEF TypeInv, TypeOK
<1>2. CASE BeginDelete(t)
  <2>1. pc'[t] = "remove" /\ Alone(t) /\ store' = store /\ now' = now
    BY <1>1, <1>2 DEF BeginDelete, Begin, Goto, Alone
  <2>2. QED BY <2>1, PlainExpirer
<1>3. CASE RemoveKey(t)
  <2>1. /\ pc[t] = "remove" /\ pc'[t] = "idle" /\ Alone(t) /\ now' = now
        /\ store' = [store EXCEPT ![arg[t].key] = None]
    BY <1>1, <1>3 DEF RemoveKey, Goto, Alone
  <2>2. ExpirerOK(t)' /\ Shrinks
    BY <1>1, <2>1 DEF ExpirerOK, Shrinks
  <2>3. LiveKeptUnlessRewritten
    BY <1>1, <2>1 DEF LiveKeptUnlessRewritten, Removes, Present
  <2>4. QED BY <2>1, <2>2, <2>3, ShrinksExpirer
<1>4. QED BY <1>2, <1>3 DEF Delete

LEMMA PurgeExpirer ==
  ASSUME TypeInv, ExpirerInv, NEW t \in Thread, Purge(t)
  PROVE  ExpirerInv' /\ LiveKeptUnlessRewritten
<1> USE DEF Writing, Reading, Purging
<1>1. /\ pc \in [Thread -> Label] /\ DOMAIN arg = Thread /\ DOMAIN store = Key
      /\ todo \in [Thread -> SUBSET Key] /\ expired_keys \in [Thread -> SUBSET Key]
      /\ rewritten \in [Thread -> SUBSET Key] /\ ExpirerOK(t)
  BY DEF TypeInv, TypeOK, ExpirerInv
<1>2. CASE BeginPurge(t)
  <2>1. /\ pc'[t] = "collect" /\ expired_keys'[t] = {}
        /\ Alone(t) /\ store' = store /\ now' = now
    BY <1>1, <1>2 DEF BeginPurge, Begin, Goto, Alone
  <2>2. ExpirerOK(t)'
    BY <2>1 DEF ExpirerOK
  <2>3. QED BY <2>1, <2>2, StoreUnchanged, ShrinksExpirer
<1>3. CASE Collect(t)
  <2> DEFINE Found(k) == IF Present(k) /\ IsExpired(store[k])
                           THEN expired_keys[t] \cup {k} ELSE expired_keys[t]
  <2>1. PICK k \in todo[t] :
          /\ expired_keys' = [expired_keys EXCEPT ![t] = Found(k)]
          /\ todo' = [todo EXCEPT ![t] = IF todo[t] = {k} THEN Found(k) ELSE @ \ {k}]
          /\ rewritten' = [rewritten EXCEPT ![t] = @ \ {k}]
          /\ Goto(t, IF todo[t] = {k} THEN "purge" ELSE "collect")
    BY <1>3 DEF Collect
  <2>2. /\ pc[t] = "collect" /\ k \notin expired_keys[t]
        /\ UNCHANGED <<store, now, arg, entry>>
    BY <1>1, <1>3 DEF Collect, ExpirerOK
  <2>3. \A j \in Found(k) \ rewritten'[t] : NothingLive(j)
    BY <1>1, <2>1, <2>2 DEF ExpirerOK, NothingLive
  <2>4. /\ pc'[t] = "purge" => todo'[t] = Found(k)
        /\ pc'[t] = "collect" => /\ expired_keys'[t] = Found(k)
                                 /\ todo'[t] \cap expired_keys'[t] = {}
        /\ pc'[t] \in Purging
    BY <1>1, <2>1, <2>2 DEF Goto, ExpirerOK
  <2>5. \A j \in Found(k) \ rewritten'[t] : NothingLive(j)'
    BY <2>2, <2>3 DEF NothingLive, Present, IsExpired
  <2> HIDE DEF Found
  <2>6. ExpirerOK(t)'
    BY <2>2, <2>4, <2>5 DEF ExpirerOK
  <2>7. Alone(t)
    BY <1>1, <2>1, <2>2 DEF Alone, Goto
  <2>8. QED BY <2>2, <2>6, <2>7, StoreUnchanged, ShrinksExpirer
<1>4. CASE PurgeRemove(t)
  <2>1. PICK k \in todo[t] :
          /\ store' = [store EXCEPT ![k] = None]
          /\ todo' = [todo EXCEPT ![t] = @ \ {k}]
    BY <1>4 DEF PurgeRemove
  <2>2. /\ pc[t] = "purge"
        /\ UNCHANGED <<pc, now, arg, entry, expired_keys, rewritten>>
    BY <1>1, <1>4 DEF PurgeRemove, ExpirerOK
  <2>3. Shrinks /\ Alone(t) /\ todo'[t] = todo[t] \ {k}
    BY <1>1, <2>1, <2>2 DEF Shrinks, Alone
  <2>4. \A j \in todo[t] \ rewritten[t] : NothingLive(j)
    BY <1>1, <2>2 DEF ExpirerOK
  <2>5. \A j \in todo[t] \ rewritten[t] : NothingLive(j)'
    BY <1>1, <2>2, <2>3, <2>4, ExpiredStays
  <2>6. ExpirerOK(t)'
    BY <2>2, <2>3, <2>5 DEF ExpirerOK
  <2>7. LiveKeptUnlessRewritten
    <3> SUFFICES ASSUME NEW j \in Key, Present(j), ~ IsExpired(store[j]),
                        store'[j] = None
                 PROVE  Removes(t, j) /\ j \in rewritten[t]
      BY DEF LiveKeptUnlessRewritten
    <3>1. j = k
      BY <1>1, <2>1 DEF Present
    <3>2. QED BY <2>2, <2>3, <2>4, <3>1 DEF Removes, NothingLive
  <2>8. QED BY <2>2, <2>3, <2>6, <2>7, ShrinksExpirer
<1>5. CASE PurgeCount(t)
  <2>1. pc'[t] = "idle" /\ Alone(t) /\ store' = store /\ now' = now
    BY <1>1, <1>5 DEF PurgeCount, Goto, Alone
  <2>2. QED BY <2>1, PlainExpirer
<1>6. QED BY <1>2, <1>3, <1>4, <1>5 DEF Purge

LEMMA NextExpirer ==
  ASSUME TypeInv, ExpirerInv, [Next]_vars
  PROVE  ExpirerInv' /\ LiveKeptUnlessRewritten
<1>1. CASE Tick \/ UNCHANGED vars
  <2>1. /\ now' \in {now, now + 1}
        /\ UNCHANGED <<store, pc, arg, entry, expired_keys, todo, rewritten>>
    BY <1>1 DEF Tick, vars
  <2>2. Shrinks /\ LiveKeptUnlessRewritten
    BY <2>1, StoreUnchanged
  <2>3. QED BY <2>1, <2>2, StaysExpirer DEF ExpirerInv
<1>2. ASSUME NEW t \in Thread, Step(t) PROVE ExpirerInv' /\ LiveKeptUnlessRewritten
  BY <1>2, WriteExpirer, GetExpirer, DeleteExpirer, PurgeExpirer DEF Step
<1>3. QED BY <1>1, <1>2 DEF Next

\* Whoever calls what, an entry that has not expired disappears by a delete of its
\* key, or by an expiration whose thread looked at the key before it was written
\* again (storage.rs:131-136, 253-267).  The run KvStorageLazyRace shows that the
\* latter happens.
THEOREM JudgedIsRemoved == Spec => LiveRemovedOnlyIfRewritten
<1>1. Init => ExpirerInv
  BY DEF Init, ExpirerInv, ExpirerOK
<1>2. TypeInv /\ ExpirerInv /\ [Next]_vars
      => ExpirerInv' /\ [LiveKeptUnlessRewritten]_vars
  BY NextExpirer
<1>3. QED BY VersionInvariant, <1>1, <1>2, PTL DEF Spec, LiveRemovedOnlyIfRewritten

=============================================================================
