---------------------------- MODULE WorkStealing ----------------------------
(***************************************************************************)
(* demo_work_stealing (demo07_lockfree_crossbeam.rs): each worker empties  *)
(* its own deque, then tries the deques of the others in order, and leaves *)
(* after a round that found nothing.  The deques are FIFO on both ends:    *)
(* owner and thieves take the oldest task.  A thief looks at the oldest    *)
(* task and takes it only if it still is the oldest (Steal::Retry if not). *)
(***************************************************************************)
EXTENDS Naturals, Sequences

CONSTANTS
  Workers,   \* 1 .. Workers
  Tasks      \* how many tasks worker 1 is given

WorkStealingAssumption == Workers \in Nat \ {0} /\ Tasks \in Nat

Worker == 1 .. Workers

VARIABLES
  deque,      \* deque[w]: the tasks in w's own deque
  processed,  \* processed[w]: how many tasks w has counted
  pc,         \* pc[w]: "own", "steal", "take", "work" or "gone"
  stealer,    \* stealer[w]: the next deque w tries in this round
  oldest      \* oldest[w]: the task w saw at the front of that deque

vars == <<deque, processed, pc, stealer, oldest>>

Init ==
  /\ deque = [w \in Worker |-> IF w = 1 THEN [i \in 1 .. Tasks |-> i] ELSE <<>>]
  /\ processed = [w \in Worker |-> 0]
  /\ pc = [w \in Worker |-> "own"]
  /\ stealer = [w \in Worker |-> 1]
  /\ oldest = [w \in Worker |-> 0]

Goto(w, l) == pc' = [pc EXCEPT ![w] = l]
Take(v) == deque' = [deque EXCEPT ![v] = Tail(@)]

-----------------------------------------------------------------------------
PopOwn(w) ==
  /\ pc[w] = "own" /\ deque[w] # <<>>
  /\ Take(w)
  /\ Goto(w, "work")
  /\ UNCHANGED <<processed, stealer, oldest>>

OwnEmpty(w) ==
  /\ pc[w] = "own" /\ deque[w] = <<>>
  /\ Goto(w, "steal")
  /\ stealer' = [stealer EXCEPT ![w] = 1]
  /\ UNCHANGED <<deque, processed, oldest>>

\* The next deque of the round; its own is skipped.
Victim(w) == IF stealer[w] = w THEN w + 1 ELSE stealer[w]

StealEmpty(w) ==
  /\ pc[w] = "steal" /\ Victim(w) \in Worker /\ deque[Victim(w)] = <<>>
  /\ stealer' = [stealer EXCEPT ![w] = Victim(w) + 1]
  /\ UNCHANGED <<deque, processed, pc, oldest>>

StealLooks(w) ==
  /\ pc[w] = "steal" /\ Victim(w) \in Worker /\ deque[Victim(w)] # <<>>
  /\ oldest' = [oldest EXCEPT ![w] = Head(deque[Victim(w)])]
  /\ Goto(w, "take")
  /\ UNCHANGED <<deque, processed, stealer>>

StillOldest(w) ==
  deque[Victim(w)] # <<>> /\ Head(deque[Victim(w)]) = oldest[w]

StealTakes(w) ==
  /\ pc[w] = "take" /\ StillOldest(w)
  /\ Take(Victim(w))
  /\ Goto(w, "work")
  /\ UNCHANGED <<processed, stealer, oldest>>

\* Mutant: Steal::Retry is handled as Steal::Empty.
StealRetryGoesOn(w) ==
  /\ pc[w] = "take" /\ ~ StillOldest(w)
  /\ stealer' = [stealer EXCEPT ![w] = Victim(w) + 1]
  /\ Goto(w, "steal")
  /\ UNCHANGED <<deque, processed, oldest>>

\* Somebody else took it: back to the own deque.
StealRetry(w) ==
  /\ pc[w] = "take" /\ ~ StillOldest(w)
  /\ Goto(w, "own")
  /\ UNCHANGED <<deque, processed, stealer, oldest>>

Process(w) ==
  /\ pc[w] = "work"
  /\ processed' = [processed EXCEPT ![w] = @ + 1]
  /\ Goto(w, "own")
  /\ UNCHANGED <<deque, stealer, oldest>>

Leave(w) ==
  /\ pc[w] = "steal" /\ Victim(w) \notin Worker
  /\ Goto(w, "gone")
  /\ UNCHANGED <<deque, processed, stealer, oldest>>

Run(w) ==
  \/ PopOwn(w) \/ OwnEmpty(w) \/ StealEmpty(w) \/ StealLooks(w)
  \/ StealTakes(w) \/ StealRetry(w) \/ Process(w) \/ Leave(w)

Next == \E w \in Worker : Run(w)

Spec == Init /\ [][Next]_vars

\* Threads run.
FairSpec == Spec /\ \A w \in Worker : WF_vars(Run(w))

-----------------------------------------------------------------------------
TypeOK ==
  /\ \A w \in Worker : deque[w] \in Seq(1 .. Tasks)
  /\ stealer \in [Worker -> 1 .. Workers + 1]
  /\ pc \in [Worker -> {"own", "steal", "take", "work", "gone"}]

Sum[n \in 0 .. Workers] == IF n = 0 THEN 0 ELSE Sum[n - 1] + processed[n]

\* Once every worker has left, each task was processed once
\* (demo07_lockfree_crossbeam.rs:236).
AllProcessed == (\A w \in Worker : pc[w] = "gone") => Sum[Workers] = Tasks

\* A worker leaves only when no task is waiting any more: a steal lost to another
\* thread does not end its round.
LeavesWhenDry ==
  \A w \in Worker : pc[w] = "gone" => \A u \in Worker : deque[u] = <<>>

\* Every worker leaves, however the steals collide.
WorkersLeave == []<>(\/ \A w \in Worker : pc[w] = "gone"
                    \/ \A w \in Worker : pc[w] = "own")
=============================================================================
