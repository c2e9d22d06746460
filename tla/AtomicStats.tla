----------------------------- MODULE AtomicStats -----------------------------
(***************************************************************************)
(* Service statistics kept in separate atomics (exo06_stats.rs and         *)
(* demo06_atomics_cas.rs): record() adds to the counters one by one and    *)
(* moves the extremes with a compare-exchange loop, while other threads do *)
(* the same.  The variant of exercise 6 that holds a mutex is the          *)
(* reference: it takes each record as a whole, when its call here ends.    *)
(*                                                                         *)
(* Every step is one atomic access.  All the accesses to one atomic are    *)
(* totally ordered even when they are Relaxed, and the snapshot of the     *)
(* programs is taken after join(), so interleaving them is enough.         *)
(***************************************************************************)
EXTENDS Naturals, Sequences, FiniteSets

CONSTANTS
  Thread,
  Records,   \* Records[t]: what t records, a sequence of [ok, latency]
  MaxU64,    \* u64::MAX, above every latency
  MaxSpurious   \* bound: how many exchanges fail for no reason

AtomicStatsAssumption ==
  /\ IsFiniteSet(Thread) /\ MaxU64 \in Nat
  /\ Records \in [Thread -> Seq([ok : BOOLEAN, latency : 0 .. MaxU64])]

Programs == {"exo06", "demo06"}
Field == {"total", "success", "failed", "sum", "min", "max"}

VARIABLES
  program,   \* which of the two programs runs; never changes
  value,     \* value[f]: the atomic f
  at,        \* at[t]: which record t is at, and which step of it
  seen,      \* seen[t]: the extreme t last read
  read,      \* read[t]: it has read the extreme it is to move
  spurious,  \* how many exchanges failed for no reason (bound)
  guarded    \* what ServiceStatsMutex holds: the reference

vars == <<program, value, at, seen, read, spurious, guarded>>

\* The accesses of record(), in the order of the code.
Exo06Steps == <<"total", "outcome", "sum", "min", "max">>
Demo06Steps == <<"total", "outcome", "max", "min">>
Steps == IF program = "exo06" THEN Exo06Steps ELSE Demo06Steps

NewStats == [f \in Field |-> IF f = "min" THEN MaxU64 ELSE 0]

Init ==
  /\ program \in Programs
  /\ value = NewStats
  /\ at = [t \in Thread |-> [record |-> 1, step |-> 1]]
  /\ seen = [t \in Thread |-> 0]
  /\ read = [t \in Thread |-> FALSE]
  /\ spurious = 0
  /\ guarded = NewStats

Done(t) == at[t].record > Len(Records[t])
Joined == \A t \in Thread : Done(t)

Step(t) == IF Done(t) THEN "none" ELSE Steps[at[t].step]
Sample(t) == Records[t][at[t].record]

Outcome(r) == IF r.ok THEN "success" ELSE "failed"

\* ServiceStatsMutex::record
RecordUnderLock(g, r) ==
  [g EXCEPT !.total = @ + 1,
            ![Outcome(r)] = @ + 1,
            !.sum = @ + r.latency,
            !.min = IF r.latency < @ THEN r.latency ELSE @,
            !.max = IF r.latency > @ THEN r.latency ELSE @]

\* The next step of the record, or the next record.
Advance(t) ==
  IF at[t].step < Len(Steps)
    THEN /\ at' = [at EXCEPT ![t].step = @ + 1]
         /\ UNCHANGED guarded
    ELSE /\ at' = [at EXCEPT ![t] = [record |-> @.record + 1, step |-> 1]]
         /\ guarded' = RecordUnderLock(guarded, Sample(t))

-----------------------------------------------------------------------------
Add(t, f, n) ==
  /\ value' = [value EXCEPT ![f] = @ + n]
  /\ Advance(t)
  /\ UNCHANGED <<program, seen, read, spurious>>

FetchAdd(t) ==
  \/ Step(t) = "total" /\ Add(t, "total", 1)
  \/ Step(t) = "outcome" /\ Add(t, Outcome(Sample(t)), 1)
  \/ Step(t) = "sum" /\ Add(t, "sum", Sample(t).latency)

\* Is x a new extreme where y is the old one?
Improves(f, x, y) == IF f = "max" THEN x > y ELSE x < y

Loaded(t) == Step(t) \in {"min", "max"} /\ read[t]

\* atomic_max and atomic_min: load, then compare and exchange while it would help.
Load(t) ==
  /\ Step(t) \in {"min", "max"} /\ ~ read[t]
  /\ seen' = [seen EXCEPT ![t] = value[Step(t)]]
  /\ read' = [read EXCEPT ![t] = TRUE]
  /\ UNCHANGED <<program, value, at, spurious, guarded>>

Leave(t) ==
  /\ Advance(t)
  /\ read' = [read EXCEPT ![t] = FALSE]
  /\ UNCHANGED <<program, seen, spurious>>

GiveUp(t) ==
  /\ Loaded(t) /\ ~ Improves(Step(t), Sample(t).latency, seen[t])
  /\ Leave(t)
  /\ UNCHANGED value

\* Mutant: the extreme is stored without comparing what was read.
ExchangeBlindly(t) ==
  /\ Loaded(t) /\ Improves(Step(t), Sample(t).latency, seen[t])
  /\ value' = [value EXCEPT ![Step(t)] = Sample(t).latency]
  /\ Leave(t)

Exchange(t) ==
  /\ Loaded(t) /\ Improves(Step(t), Sample(t).latency, seen[t])
  /\ value[Step(t)] = seen[t]
  /\ value' = [value EXCEPT ![Step(t)] = Sample(t).latency]
  /\ Leave(t)

\* Another thread was faster, or compare_exchange_weak fails although the value is
\* the expected one.
ExchangeFails(t) ==
  /\ Loaded(t) /\ Improves(Step(t), Sample(t).latency, seen[t])
  /\ IF value[Step(t)] # seen[t]
       THEN UNCHANGED spurious
       ELSE spurious < MaxSpurious /\ spurious' = spurious + 1
  /\ seen' = [seen EXCEPT ![t] = value[Step(t)]]
  /\ UNCHANGED <<program, value, at, read, guarded>>

Run(t) == FetchAdd(t) \/ Load(t) \/ GiveUp(t) \/ Exchange(t) \/ ExchangeFails(t)

Next == \E t \in Thread : Run(t)

Spec == Init /\ [][Next]_vars

\* Threads run.
FairSpec == Spec /\ \A t \in Thread : WF_vars(Run(t))

-----------------------------------------------------------------------------
(* Properties. *)

\* The records that have gone through the steps before step f.
Past(t, f) ==
  {i \in 1 .. Len(Records[t]) :
     \/ i < at[t].record
     \/ i = at[t].record /\ \E k \in 1 .. at[t].step - 1 : Steps[k] = f}

TypeOK ==
  /\ value \in [Field -> Nat] /\ guarded \in [Field -> Nat]
  /\ \A t \in Thread : at[t].record \in 1 .. Len(Records[t]) + 1 /\ at[t].step \in 1 .. Len(Steps)
  /\ \A t \in Thread : read[t] => Step(t) \in {"min", "max"}

\* Once the threads are joined the atomics hold what the mutex holds, the sum left out
\* by demo 6 (exo06_stats.rs:215-218, demo06_atomics_cas.rs:266-301).
JoinedAsUnderLock ==
  Joined => \A f \in Field \ (IF program = "demo06" THEN {"sum"} ELSE {}) :
              value[f] = guarded[f]

\* At any time the extremes cover the latencies that went through: no update is lost
\* to a slower thread (exo06_stats.rs:67-95).
ExtremesCover ==
  \A t \in Thread :
    /\ \A i \in Past(t, "max") : value["max"] >= Records[t][i].latency
    /\ \A i \in Past(t, "min") : value["min"] =< Records[t][i].latency

\* Each extreme is a latency that went through, or the one it started with: none is
\* there that nobody recorded (exo06_stats.rs:67-95).
ExtremesTaken ==
  \A f \in {"min", "max"} :
    \/ value[f] = NewStats[f]
    \/ \E t \in Thread : \E i \in Past(t, f) : value[f] = Records[t][i].latency

\* Every record() returns: an exchange that fails for a reason fails because another
\* one succeeded (exo06_stats.rs:67-95).
RecordsEnd == []<>(\/ Joined
                  \/ \A t \in Thread : at[t] = [record |-> 1, step |-> 1])
=============================================================================
