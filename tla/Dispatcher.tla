------------------------------ MODULE Dispatcher ------------------------------
(***************************************************************************)
(* Workers that take tasks from a shared queue until they find it empty    *)
(* and the stop flag set: the dispatcher of exercise 7                     *)
(* (exo07_dispatcher.rs), lock-free or under a mutex, and the bounded      *)
(* ArrayQueue of the lock-free demo (demo07_lockfree_crossbeam.rs), which  *)
(* drops what it has no room for.  The queues are linearizable: one step   *)
(* per push and per pop, the same for the update of a counter by           *)
(* DashMap::entry or under the mutex.                                      *)
(*                                                                         *)
(* The worker looks at the flag in a step of its own, after it found the   *)
(* queue empty.  A Relaxed load that returns an old value is a load that   *)
(* happens earlier: no behaviour is added by it.                           *)
(***************************************************************************)
EXTENDS Naturals, Sequences, FiniteSets, FiniteSetsExt

CONSTANTS
  Producer,     \* 0 .. n - 1
  Worker,
  PerProducer,  \* how many tasks each producer submits
  Capacities    \* the capacities of the queue;
                \* Unbounded for the dispatcher and SegQueue

DispatcherAssumption ==
  /\ IsFiniteSet(Producer) /\ Producer = 0 .. Cardinality(Producer) - 1
  /\ IsFiniteSet(Worker) /\ Worker # {}
  /\ PerProducer \in Nat /\ Capacities \subseteq Nat

Unbounded == 0
Kind == {"parse", "metrique", "alerte"}
Total == Cardinality(Producer) * PerProducer

VARIABLES
  capacity,  \* of the queue; never changes
  queue,     \* the tasks submitted and not yet taken
  running,   \* the flag
  stats,     \* stats[k]: how many tasks of kind k were counted as done
  dropped,   \* how many did not fit
  sent,      \* sent[p]: how many tasks p has submitted
  pc,        \* pc[w]: "pop", "work", "flag", "gone"
  task,      \* task[w]: the task w works on, as a sequence
  looked     \* looked[w]: how many tasks had been submitted when w last found
             \* the queue empty (history)

vars == <<capacity, queue, running, stats, dropped, sent, pc, task, looked>>

SumOver(f) == FoldSet(LAMBDA x, y : f[x] + y, 0, DOMAIN f)
Submitted == SumOver(sent)

Init ==
  /\ capacity \in Capacities
  /\ queue = <<>>
  /\ running = TRUE
  /\ stats = [k \in Kind |-> 0]
  /\ dropped = 0
  /\ sent = [p \in Producer |-> 0]
  /\ pc = [w \in Worker |-> "pop"]
  /\ task = [w \in Worker |-> <<>>]
  /\ looked = [w \in Worker |-> 0]

\* The producers number the tasks, and the number gives the kind.
Id(p, i) == p * PerProducer + i
KindOf(id) ==
  CASE id % 3 = 0 -> "parse" [] id % 3 = 1 -> "metrique" [] OTHER -> "alerte"

-----------------------------------------------------------------------------
Full == capacity # Unbounded /\ Len(queue) = capacity

\* A full queue gives the task back and the producer counts it as lost.
Submit(p) ==
  /\ sent[p] < PerProducer
  /\ sent' = [sent EXCEPT ![p] = @ + 1]
  /\ IF Full
       THEN dropped' = dropped + 1 /\ UNCHANGED queue
       ELSE queue' = Append(queue, Id(p, sent[p])) /\ UNCHANGED dropped
  /\ UNCHANGED <<capacity, running, stats, pc, task, looked>>

\* main joins the producers, then tells the workers to stop.
Stop ==
  /\ running /\ Submitted = Total
  /\ running' = FALSE
  /\ UNCHANGED <<capacity, queue, stats, dropped, sent, pc, task, looked>>

Take(w) ==
  /\ pc[w] = "pop" /\ queue # <<>>
  /\ queue' = Tail(queue)
  /\ task' = [task EXCEPT ![w] = <<Head(queue)>>]
  /\ pc' = [pc EXCEPT ![w] = "work"]
  /\ UNCHANGED <<capacity, running, stats, dropped, sent, looked>>

\* Mutant: the flag is looked at first, whatever the queue holds.
FindEmptyFirst(w) ==
  /\ pc[w] = "pop"
  /\ pc' = [pc EXCEPT ![w] = "flag"]
  /\ looked' = [looked EXCEPT ![w] = Submitted]
  /\ UNCHANGED <<capacity, queue, running, stats, dropped, sent, task>>

FindEmpty(w) ==
  /\ pc[w] = "pop" /\ queue = <<>>
  /\ pc' = [pc EXCEPT ![w] = "flag"]
  /\ looked' = [looked EXCEPT ![w] = Submitted]
  /\ UNCHANGED <<capacity, queue, running, stats, dropped, sent, task>>

Count(w) ==
  /\ pc[w] = "work"
  /\ stats' = [stats EXCEPT ![KindOf(task[w][1])] = @ + 1]
  /\ task' = [task EXCEPT ![w] = <<>>]
  /\ pc' = [pc EXCEPT ![w] = "pop"]
  /\ UNCHANGED <<capacity, queue, running, dropped, sent, looked>>

LookAtFlag(w) ==
  /\ pc[w] = "flag"
  /\ pc' = [pc EXCEPT ![w] = IF running THEN "pop" ELSE "gone"]
  /\ UNCHANGED <<capacity, queue, running, stats, dropped, sent, task, looked>>

Work(w) == Take(w) \/ FindEmpty(w) \/ Count(w) \/ LookAtFlag(w)

Next == (\E p \in Producer : Submit(p)) \/ Stop \/ \E w \in Worker : Work(w)

Spec == Init /\ [][Next]_vars
FairSpec == Spec /\ \A w \in Worker : WF_vars(Work(w))
-----------------------------------------------------------------------------
(* Properties. *)

TypeOK ==
  /\ queue \in Seq(0 .. Total - 1)
  /\ capacity # Unbounded => Len(queue) =< capacity
  /\ stats \in [Kind -> 0 .. Total] /\ dropped \in 0 .. Total
  /\ \A w \in Worker :
       /\ pc[w] \in {"pop", "work", "flag", "gone"}
       /\ pc[w] = "work" <=> task[w] # <<>>
  /\ running \/ Submitted = Total

\* Each task is waiting, in work, counted under its kind or reported as dropped,
\* once (exo07_dispatcher.rs:223-230, demo07_lockfree_crossbeam.rs:84-89).
CountedOnce ==
  Submitted = SumOver(stats) + dropped + Len(queue)
                + Cardinality({w \in Worker : pc[w] = "work"})

AllGone == \A w \in Worker : pc[w] = "gone"

\* The tasks left behind were all submitted after the last look of every worker
\* at the queue; none is if one worker looked after stop() (test
\* stop_avant_drain_pas_de_perte, exo07_dispatcher.rs:318).
LeftBehindUnseen ==
  AllGone => Len(queue) =< Total - Max({looked[w] : w \in Worker})

\* No task is lost: once the workers are joined, all the tasks are counted (the
\* assertions exo07_dispatcher.rs:230 and 314, mpmc_no_loss).
NothingLost == AllGone => SumOver(stats) = Total

\* Once told to stop, every worker leaves.
StoppedLeave == []<>(running \/ AllGone)
=============================================================================
