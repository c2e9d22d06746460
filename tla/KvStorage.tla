------------------------------ MODULE KvStorage ------------------------------
(***************************************************************************)
(* The storage engine of one node: tp-kv-distributed/src/storage.rs.       *)
(*                                                                         *)
(* A StorageEngine is shared by every connection task of the server, by    *)
(* the purge task and by the replicator, with no outer mutex.  A DashMap   *)
(* call (get, insert, remove) holds the shard's lock for that call only,   *)
(* and every counter is an atomic, so the steps of this module are the     *)
(* single DashMap calls and the single atomic accesses; everything between *)
(* two of them is local to the thread.  Thread t is at pc[t].              *)
(*                                                                         *)
(* Values carry no data: a write is known by its version.  The clock `now` *)
(* advances on its own; an entry is expired when its age exceeds its ttl.  *)
(***************************************************************************)
EXTENDS Integers, FiniteSets

CONSTANTS
  Thread,         \* callers of the engine: connection tasks, the purge task
  Key,
  OpsOf,          \* OpsOf[t]: the operations thread t calls
  KeysOf,         \* KeysOf[t]: the keys it names in them
  RemoteVersions, \* the versions that Replicate requests carry
  Ttls,           \* the ttls of writes, None for a write without one
  None,           \* no entry, no ttl
  MaxCalls,       \* bound on the calls of each thread
  MaxTime         \* bound on the clock

Op == {"put", "replicate", "get", "delete", "purge"}
Counter == {"gets", "puts", "deletes", "hits", "misses", "expired"}
Entry == [version : Nat, created_at : Nat, ttl : Nat \cup {None}]

ASSUME FiniteAssumption == IsFiniteSet(Thread) /\ IsFiniteSet(Key)
ASSUME OpsAssumption == OpsOf \in [Thread -> SUBSET Op]
ASSUME KeysAssumption == KeysOf \in [Thread -> SUBSET Key]
ASSUME RemoteVersionsAssumption == RemoteVersions \subseteq Nat
ASSUME TtlsAssumption == Ttls \subseteq Nat \cup {None}
ASSUME NoneAssumption == None \notin Nat /\ None \notin Entry /\ None \notin Key
ASSUME BoundsAssumption == MaxCalls \in Nat /\ MaxTime \in Nat

VARIABLES
  store,           \* the DashMap
  version_counter, \* the AtomicU64 that numbers writes
  stats,           \* the atomic counters of StorageStats
  now,             \* the clock that Instant::now() reads
  pc,              \* the next step of each thread
  arg,             \* the arguments of its call; ver is the write's version
  cur,             \* the counter value put_with_version last observed
  since,           \* the earliest time at which its entry may be stamped
  entry,           \* the clone that get works on
  todo,            \* the keys purge_expired has still to visit or remove
  expired_keys,    \* the keys purge_expired collected
  calls,           \* the number of calls each thread has made
  (* History, read by properties only. *)
  seen,            \* the highest version of a finished write or received copy
  floor,           \* seen, when the thread's call began
  issued,          \* the versions each thread's puts were given
  rewritten        \* the keys stored since the thread cloned or visited them

vars == <<store, version_counter, stats, now, pc, arg, cur, since, entry,
          todo, expired_keys, calls, seen, floor, issued, rewritten>>

Label == {"idle", "version", "insert", "cas", "check", "replace", "count",
          "clone", "judge", "evict", "expired", "miss", "remove",
          "collect", "purge"}

NoArg == [key |-> None, ttl |-> None, ver |-> 0]

Init ==
  /\ store = [k \in Key |-> None]
  /\ version_counter = 0
  /\ stats = [c \in Counter |-> 0]
  /\ now = 0
  /\ pc = [t \in Thread |-> "idle"]
  /\ arg = [t \in Thread |-> NoArg]
  /\ cur = [t \in Thread |-> 0]
  /\ since = [t \in Thread |-> 0]
  /\ entry = [t \in Thread |-> None]
  /\ todo = [t \in Thread |-> {}]
  /\ expired_keys = [t \in Thread |-> {}]
  /\ calls = [t \in Thread |-> 0]
  /\ seen = 0
  /\ floor = [t \in Thread |-> 0]
  /\ issued = [t \in Thread |-> {}]
  /\ rewritten = [t \in Thread |-> {}]

Larger(a, b) == IF a > b THEN a ELSE b

IsExpired(e) == e.ttl # None /\ now - e.created_at > e.ttl

Present(k) == store[k] # None

Goto(t, label) == pc' = [pc EXCEPT ![t] = label]

Count(c) == stats' = [stats EXCEPT ![c] = @ + 1]

\* Call and return.  A call is made together with its first access.
Begin(t, op, a) ==
  /\ pc[t] = "idle"
  /\ op \in OpsOf[t]
  /\ calls[t] < MaxCalls
  /\ calls' = [calls EXCEPT ![t] = @ + 1]
  /\ arg' = [arg EXCEPT ![t] = a]
  /\ floor' = [floor EXCEPT ![t] = seen]

Tick ==
  /\ now < MaxTime
  /\ now' = now + 1
  /\ UNCHANGED <<store, version_counter, stats, pc, arg, cur, since, entry,
                 todo, expired_keys, calls, seen, floor, issued, rewritten>>

-----------------------------------------------------------------------------
(* put: count, take a version, stamp and insert. *)

BeginPut(t) ==
  /\ \E k \in KeysOf[t], l \in Ttls :
       Begin(t, "put", [key |-> k, ttl |-> l, ver |-> 0])
  /\ Count("puts")
  /\ Goto(t, "version")
  /\ UNCHANGED <<store, version_counter, now, cur, since, entry, todo,
                 expired_keys, seen, issued, rewritten>>

\* Mutant: a load where fetch_add is needed.
TakeVersionByLoad(t) ==
  /\ pc[t] = "version"
  /\ arg' = [arg EXCEPT ![t].ver = version_counter + 1]
  /\ since' = [since EXCEPT ![t] = now]
  /\ issued' = [issued EXCEPT ![t] = @ \cup {version_counter + 1}]
  /\ Goto(t, "insert")
  /\ UNCHANGED <<store, version_counter, stats, now, cur, entry, todo,
                 expired_keys, calls, seen, floor, rewritten>>

TakeVersion(t) ==
  /\ pc[t] = "version"
  /\ version_counter' = version_counter + 1
  /\ arg' = [arg EXCEPT ![t].ver = version_counter + 1]
  /\ since' = [since EXCEPT ![t] = now]
  /\ issued' = [issued EXCEPT ![t] = @ \cup {version_counter + 1}]
  /\ Goto(t, "insert")
  /\ UNCHANGED <<store, stats, now, cur, entry, todo, expired_keys, calls,
                 seen, floor, rewritten>>

\* The entry is stamped at some instant between the step before and this one.
Insert(t) ==
  /\ \E stamp \in since[t] .. now :
       store' = [store EXCEPT ![arg[t].key] =
                   [version |-> arg[t].ver, created_at |-> stamp,
                    ttl |-> arg[t].ttl]]
  /\ rewritten' = [u \in Thread |-> rewritten[u] \cup {arg[t].key}]

PutInsert(t) ==
  /\ pc[t] = "insert"
  /\ Insert(t)
  /\ seen' = Larger(seen, arg[t].ver)
  /\ Goto(t, "idle")
  /\ UNCHANGED <<version_counter, stats, now, arg, cur, since, entry, todo,
                 expired_keys, calls, floor, issued>>

-----------------------------------------------------------------------------
(* put_with_version: raise the counter to the received version with a      *)
(* compare-exchange loop, look at the entry in place, insert, count.       *)

\* Mutant: the loop is skipped when the received version is the next one.
ObserveOffByOne(t, v) ==
  /\ cur' = [cur EXCEPT ![t] = version_counter]
  /\ Goto(t, IF v > version_counter + 1 THEN "cas" ELSE "check")
  /\ seen' = IF v > version_counter + 1 THEN seen ELSE Larger(seen, v)

Observe(t, v) ==
  /\ cur' = [cur EXCEPT ![t] = version_counter]
  /\ Goto(t, IF v > version_counter THEN "cas" ELSE "check")
  /\ seen' = IF v > version_counter THEN seen ELSE Larger(seen, v)

BeginReplicate(t) ==
  \E k \in KeysOf[t], l \in Ttls, v \in RemoteVersions :
    /\ Begin(t, "replicate", [key |-> k, ttl |-> l, ver |-> v])
    /\ Observe(t, v)
    /\ UNCHANGED <<store, version_counter, stats, now, since, entry, todo,
                   expired_keys, issued, rewritten>>

CasSucceeds(t) ==
  /\ version_counter = cur[t]
  /\ version_counter' = arg[t].ver
  /\ seen' = Larger(seen, arg[t].ver)
  /\ Goto(t, "check")
  /\ UNCHANGED cur

\* Mutant: `if` where `while` is needed, a failed exchange is not retried.
CasFailsGivesUp(t) ==
  /\ version_counter # cur[t]
  /\ Goto(t, "check")
  /\ UNCHANGED <<version_counter, cur, seen>>

\* Mutant: the observed value is not taken over, the loop retries for ever.
CasFailsKeepsCur(t) ==
  /\ version_counter # cur[t]
  /\ UNCHANGED <<version_counter, cur, seen, pc>>

CasFails(t) ==
  /\ version_counter # cur[t]
  /\ Observe(t, arg[t].ver)
  /\ UNCHANGED version_counter

CompareExchange(t) ==
  /\ pc[t] = "cas"
  /\ CasSucceeds(t) \/ CasFails(t)
  /\ UNCHANGED <<store, stats, now, arg, since, entry, todo, expired_keys,
                 calls, floor, issued, rewritten>>

\* Mutant: the version of the entry in place is not looked at.
CheckExistingAlwaysApplies(t) ==
  /\ pc[t] = "check"
  /\ Goto(t, "replace")
  /\ since' = [since EXCEPT ![t] = now]
  /\ UNCHANGED <<store, version_counter, stats, now, arg, cur, entry, todo,
                 expired_keys, calls, seen, floor, issued, rewritten>>

\* The guard on the entry in place is dropped before the insert.
CheckExisting(t) ==
  LET existing == store[arg[t].key] IN
  /\ pc[t] = "check"
  /\ IF existing # None /\ existing.version >= arg[t].ver
       THEN Goto(t, "idle")
       ELSE Goto(t, "replace")
  /\ since' = [since EXCEPT ![t] = now]
  /\ UNCHANGED <<store, version_counter, stats, now, arg, cur, entry, todo,
                 expired_keys, calls, seen, floor, issued, rewritten>>

Replace(t) ==
  /\ pc[t] = "replace"
  /\ Insert(t)
  /\ Goto(t, "count")
  /\ UNCHANGED <<version_counter, stats, now, arg, cur, since, entry, todo,
                 expired_keys, calls, seen, floor, issued>>

CountReplica(t) ==
  /\ pc[t] = "count"
  /\ Count("puts")
  /\ Goto(t, "idle")
  /\ UNCHANGED <<store, version_counter, now, arg, cur, since, entry, todo,
                 expired_keys, calls, seen, floor, issued, rewritten>>

-----------------------------------------------------------------------------
(* get: clone the entry, release the shard, then judge the clone. *)

BeginGet(t) ==
  /\ \E k \in KeysOf[t] : Begin(t, "get", [NoArg EXCEPT !.key = k])
  /\ Count("gets")
  /\ Goto(t, "clone")
  /\ UNCHANGED <<store, version_counter, now, cur, since, entry, todo,
                 expired_keys, seen, issued, rewritten>>

Clone(t) ==
  /\ pc[t] = "clone"
  /\ entry' = [entry EXCEPT ![t] = store[arg[t].key]]
  /\ rewritten' = [rewritten EXCEPT ![t] = @ \ {arg[t].key}]
  /\ Goto(t, "judge")
  /\ UNCHANGED <<store, version_counter, stats, now, arg, cur, since, todo,
                 expired_keys, calls, seen, floor, issued>>

\* Mutant: any entry with a ttl is taken for expired.
FoundWithTtl(t) ==
  /\ entry[t] # None
  /\ entry[t].ttl # None
  /\ Goto(t, "evict")
  /\ UNCHANGED <<stats, entry>>

FoundExpired(t) ==
  /\ entry[t] # None
  /\ IsExpired(entry[t])
  /\ Goto(t, "evict")
  /\ UNCHANGED <<stats, entry>>

Hit(t) ==
  /\ entry[t] # None
  /\ ~ IsExpired(entry[t])
  /\ Count("hits")
  /\ entry' = [entry EXCEPT ![t] = None]
  /\ Goto(t, "idle")

Miss(t) ==
  /\ entry[t] = None
  /\ Count("misses")
  /\ Goto(t, "idle")
  /\ UNCHANGED entry

Judge(t) ==
  /\ pc[t] = "judge"
  /\ FoundExpired(t) \/ Hit(t) \/ Miss(t)
  /\ UNCHANGED <<store, version_counter, now, arg, cur, since, todo,
                 expired_keys, calls, seen, floor, issued, rewritten>>

\* remove(key) names the key, not the entry that was cloned.
Evict(t) ==
  /\ pc[t] = "evict"
  /\ store' = [store EXCEPT ![arg[t].key] = None]
  /\ Goto(t, "expired")
  /\ UNCHANGED <<version_counter, stats, now, arg, cur, since, entry, todo,
                 expired_keys, calls, seen, floor, issued, rewritten>>

\* Mutant: an expired entry is not counted as a miss as well.
CountExpiredOnly(t) ==
  /\ pc[t] = "expired"
  /\ Count("expired")
  /\ Goto(t, "idle")
  /\ UNCHANGED <<store, version_counter, now, arg, cur, since, entry, todo,
                 expired_keys, calls, seen, floor, issued, rewritten>>

CountExpired(t) ==
  /\ pc[t] = "expired"
  /\ Count("expired")
  /\ Goto(t, "miss")
  /\ UNCHANGED <<store, version_counter, now, arg, cur, since, entry, todo,
                 expired_keys, calls, seen, floor, issued, rewritten>>

CountMiss(t) ==
  /\ pc[t] = "miss"
  /\ Count("misses")
  /\ entry' = [entry EXCEPT ![t] = None]
  /\ Goto(t, "idle")
  /\ UNCHANGED <<store, version_counter, now, arg, cur, since, todo,
                 expired_keys, calls, seen, floor, issued, rewritten>>

-----------------------------------------------------------------------------
(* delete *)

BeginDelete(t) ==
  /\ \E k \in KeysOf[t] : Begin(t, "delete", [NoArg EXCEPT !.key = k])
  /\ Count("deletes")
  /\ Goto(t, "remove")
  /\ UNCHANGED <<store, version_counter, now, cur, since, entry, todo,
                 expired_keys, seen, issued, rewritten>>

RemoveKey(t) ==
  /\ pc[t] = "remove"
  /\ store' = [store EXCEPT ![arg[t].key] = None]
  /\ Goto(t, "idle")
  /\ UNCHANGED <<version_counter, stats, now, arg, cur, since, entry, todo,
                 expired_keys, calls, seen, floor, issued, rewritten>>

-----------------------------------------------------------------------------
(* purge_expired: visit every key shard by shard, then remove by key. *)

BeginPurge(t) ==
  /\ Begin(t, "purge", NoArg)
  /\ todo' = [todo EXCEPT ![t] = Key]
  /\ expired_keys' = [expired_keys EXCEPT ![t] = {}]
  /\ Goto(t, "collect")
  /\ UNCHANGED <<store, version_counter, stats, now, cur, since, entry, seen,
                 issued, rewritten>>

Collect(t) ==
  /\ pc[t] = "collect"
  /\ \E k \in todo[t] :
       LET found == IF Present(k) /\ IsExpired(store[k])
                      THEN expired_keys[t] \cup {k} ELSE expired_keys[t]
           last == todo[t] = {k}
       IN /\ expired_keys' = [expired_keys EXCEPT ![t] = found]
          /\ todo' = [todo EXCEPT ![t] = IF last THEN found ELSE @ \ {k}]
          /\ rewritten' = [rewritten EXCEPT ![t] = @ \ {k}]
          /\ Goto(t, IF last THEN "purge" ELSE "collect")
  /\ UNCHANGED <<store, version_counter, stats, now, arg, cur, since, entry,
                 calls, seen, floor, issued>>

PurgeRemove(t) ==
  /\ pc[t] = "purge"
  /\ \E k \in todo[t] :
       /\ store' = [store EXCEPT ![k] = None]
       /\ todo' = [todo EXCEPT ![t] = @ \ {k}]
  /\ UNCHANGED <<version_counter, stats, now, pc, arg, cur, since, entry,
                 expired_keys, calls, seen, floor, issued, rewritten>>

\* Mutant: the number of entries, less one that is thought to stay.
PurgeCountLessOne(t) ==
  /\ pc[t] = "purge"
  /\ todo[t] = {}
  /\ stats' = [stats EXCEPT !["expired"] =
                 @ + Cardinality(expired_keys[t]) - 1]
  /\ Goto(t, "idle")
  /\ UNCHANGED <<store, version_counter, now, arg, cur, since, entry, todo,
                 expired_keys, calls, seen, floor, issued, rewritten>>

\* expired is raised by the number of keys collected, the value returned.
PurgeCount(t) ==
  /\ pc[t] = "purge"
  /\ todo[t] = {}
  /\ stats' = [stats EXCEPT !["expired"] = @ + Cardinality(expired_keys[t])]
  /\ Goto(t, "idle")
  /\ UNCHANGED <<store, version_counter, now, arg, cur, since, entry, todo,
                 expired_keys, calls, seen, floor, issued, rewritten>>

-----------------------------------------------------------------------------
Write(t) == BeginPut(t) \/ TakeVersion(t) \/ PutInsert(t)

Replicate(t) ==
  \/ BeginReplicate(t) \/ CompareExchange(t) \/ CheckExisting(t)
  \/ Replace(t) \/ CountReplica(t)

Get(t) ==
  \/ BeginGet(t) \/ Clone(t) \/ Judge(t)
  \/ Evict(t) \/ CountExpired(t) \/ CountMiss(t)

Delete(t) == BeginDelete(t) \/ RemoveKey(t)

Purge(t) == BeginPurge(t) \/ Collect(t) \/ PurgeRemove(t) \/ PurgeCount(t)

Step(t) == Write(t) \/ Replicate(t) \/ Get(t) \/ Delete(t) \/ Purge(t)

Next == Tick \/ \E t \in Thread : Step(t)

Spec == Init /\ [][Next]_vars

\* A thread in a call is scheduled again until it returns; nobody has to
\* call, and the clock need not move.
Finish(t) == pc[t] # "idle" /\ Step(t)

FairSpec == Spec /\ \A t \in Thread : WF_vars(Finish(t))

-----------------------------------------------------------------------------
(* Properties. *)

TypeOK ==
  /\ store \in [Key -> Entry \cup {None}]
  /\ version_counter \in Nat
  /\ stats \in [Counter -> Nat]
  /\ now \in Nat
  /\ pc \in [Thread -> Label]
  /\ arg \in [Thread -> [key : Key \cup {None}, ttl : Nat \cup {None},
                         ver : Nat]]
  /\ cur \in [Thread -> Nat]
  /\ since \in [Thread -> Nat]
  /\ entry \in [Thread -> Entry \cup {None}]
  /\ todo \in [Thread -> SUBSET Key]
  /\ expired_keys \in [Thread -> SUBSET Key]
  /\ calls \in [Thread -> Nat]
  /\ seen \in Nat
  /\ floor \in [Thread -> Nat]
  /\ issued \in [Thread -> SUBSET Nat]
  /\ rewritten \in [Thread -> SUBSET Key]

\* The counter is never behind a version that is stored or on its way into the
\* store (storage.rs:180-193: the loop that raises it must survive a race).
VersionsBounded ==
  /\ \A k \in Key : Present(k) => store[k].version =< version_counter
  /\ \A t \in Thread :
       pc[t] \in {"insert", "check", "replace", "count"}
         => arg[t].ver =< version_counter

\* A put that begins after a write finished, or after a replicated version was
\* received, gets a greater version (storage.rs:155 and 180-181).
PutAboveSeen ==
  \A t \in Thread : pc[t] = "insert" => arg[t].ver > floor[t]

\* No two threads' puts are ever given the same version (storage.rs:105).
IssuedOnce ==
  \A t, u \in Thread : t # u => issued[t] \cap issued[u] = {}

\* The steps of a get that is not counted yet as a hit or a miss.
InGet == {"clone", "judge", "evict", "expired", "miss"}

\* Every get is counted once as a hit or as a miss, except those still running
\* (storage.rs:128-148), so the hit ratio of /metrics is that of the calls.
GetsAccounted ==
  stats["gets"] = stats["hits"] + stats["misses"]
    + Cardinality({t \in Thread : pc[t] \in InGet})

\* No key is written, locally or by replication, by two threads that call Ops.
OneWriterPerKey(Ops) ==
  \A t, u \in Thread :
    \/ t = u
    \/ KeysOf[t] \cap KeysOf[u] = {}
    \/ Ops[t] \cap {"put", "replicate"} = {}
    \/ Ops[u] \cap {"put", "replicate"} = {}

VersionsKept ==
  \A k \in Key : (Present(k) /\ store'[k] # None)
    => store'[k].version >= store[k].version

\* The version held under a key never goes down while the key stays present
\* (storage.rs:9 and 169-172).
KeyVersionsNeverRegress == [][VersionsKept]_vars

LiveKeptUnlessDeleted ==
  \A k \in Key :
    (Present(k) /\ ~ IsExpired(store[k]) /\ store'[k] = None)
      => \E t \in Thread : pc[t] = "remove" /\ arg[t].key = k

\* An entry that has not expired disappears by a delete of its key only: an
\* expiration removes expired entries (storage.rs:126, 253-267).
OnlyDeleteRemovesLive == [][LiveKeptUnlessDeleted]_vars

\* The step takes key k out of the store for thread t.
Removes(t, k) ==
  \/ pc[t] \in {"remove", "evict"} /\ pc'[t] # pc[t] /\ arg[t].key = k
  \/ pc[t] = "purge" /\ k \in todo[t] \ todo'[t]

LiveKeptUnlessRewritten ==
  \A k \in Key :
    (Present(k) /\ ~ IsExpired(store[k]) /\ store'[k] = None)
      => \E t \in Thread : Removes(t, k) /\ (pc[t] = "remove" \/ k \in rewritten[t])

\* Whoever calls what, an entry that has not expired disappears by a delete of its
\* key, or by an expiration whose thread looked at the key before it was written
\* again: what a get or a purge has judged itself it removes rightly, however long
\* it takes to come to it (storage.rs:131-136, 253-267).
LiveRemovedOnlyIfRewritten == [][LiveKeptUnlessRewritten]_vars

\* Every call returns: the compare-exchange loop cannot spin for ever.
CallsReturn == \A t \in Thread : []<>(pc[t] = "idle")
=============================================================================
