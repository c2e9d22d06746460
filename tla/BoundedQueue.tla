----------------------------- MODULE BoundedQueue -----------------------------
(***************************************************************************)
(* The bounded queue of the locks demo (demo05_mutex_rwlock.rs) and the    *)
(* threads of its main: producers, consumers that pop a fixed number of    *)
(* values each, and a thread that pops once if it finds something left.    *)
(*                                                                         *)
(* Both operations notify before they release the mutex, so a call is one  *)
(* step from lock() to its return or to wait().                            *)
(***************************************************************************)
EXTENDS Naturals, Sequences, FiniteSets

CONSTANTS
  Producer, Consumer,
  Drain,      \* the thread that pops what is left
  Pushes,     \* how many values each producer pushes
  Pops,       \* how many values each consumer pops
  Capacity

BoundedQueueAssumption ==
  /\ Producer \cap Consumer = {} /\ Drain \notin Producer \cup Consumer
  /\ Pushes \in Nat /\ Pops \in Nat /\ Capacity \in Nat \ {0}

\* The consumers leave at most one value for the last thread: 2 producers of 5 values
\* and 3 consumers of 3 in main.
LeavesOne ==
  /\ IsFiniteSet(Producer) /\ IsFiniteSet(Consumer)
  /\ Cardinality(Producer) * Pushes =< Cardinality(Consumer) * Pops + 1

Popper == Consumer \cup {Drain}
Thread == Producer \cup Popper
Value == Producer \X (1 .. Pushes)

VARIABLES
  queue,
  call,       \* call[t]: the operation t is in
  last,       \* last[t]: what its last one returned
  not_full, not_empty,   \* the threads that wait on each condition
  left        \* left[t]: how many calls t has still to begin

vars == <<queue, call, last, not_full, not_empty, left>>

NoCall == [op |-> "none"]

Init ==
  /\ queue = <<>>
  /\ call = [t \in Thread |-> NoCall]
  /\ last = [t \in Thread |-> <<>>]
  /\ not_full = {} /\ not_empty = {}
  /\ left = [t \in Thread |-> IF t \in Producer THEN Pushes
                                ELSE IF t = Drain THEN 1 ELSE Pops]

Ended(t) == left[t] = 0 /\ call[t] = NoCall
Joined(S) == \A t \in S : Ended(t)
AllEnded == Joined(Thread)

-----------------------------------------------------------------------------
Call(t, c) ==
  /\ left[t] > 0 /\ call[t] = NoCall
  /\ call' = [call EXCEPT ![t] = c]
  /\ left' = [left EXCEPT ![t] = @ - 1]
  /\ UNCHANGED <<queue, last, not_full, not_empty>>

Produce(p) == Call(p, [op |-> "push", val |-> <<p, left[p]>>])
Consume(c) == Call(c, [op |-> "pop"])

\* Once the producers are joined: pop if the length read just before is not 0.
Vidange ==
  /\ Joined(Producer)
  /\ IF queue # <<>>
       THEN Call(Drain, [op |-> "pop"])
       ELSE /\ left[Drain] > 0
            /\ left' = [left EXCEPT ![Drain] = 0]
            /\ UNCHANGED <<queue, call, last, not_full, not_empty>>

-----------------------------------------------------------------------------
Full == Len(queue) >= Capacity

\* notify_one() on the condition whose waiting threads are W leaves R waiting.
NotifyOne(W, R) == IF W = {} THEN R = {} ELSE \E t \in W : R = W \ {t}

Return(t, result) ==
  /\ call' = [call EXCEPT ![t] = NoCall]
  /\ last' = [last EXCEPT ![t] = result]

Awake(t) == t \notin not_full \cup not_empty

Push(t) ==
  /\ call[t].op = "push" /\ Awake(t)
  /\ IF Full
       THEN /\ not_full' = not_full \cup {t}
            /\ UNCHANGED <<queue, call, last, not_empty>>
       ELSE /\ queue' = Append(queue, call[t].val)
            /\ Return(t, <<"Ok">>)
            /\ NotifyOne(not_empty, not_empty')
            /\ UNCHANGED not_full
  /\ UNCHANGED left

Pop(t) ==
  /\ call[t].op = "pop" /\ Awake(t)
  /\ IF queue = <<>>
       THEN /\ not_empty' = not_empty \cup {t}
            /\ UNCHANGED <<queue, call, last, not_full>>
       ELSE /\ queue' = Tail(queue)
            /\ Return(t, <<"Ok", Head(queue)>>)
            /\ NotifyOne(not_full, not_full')
            /\ UNCHANGED not_empty
  /\ UNCHANGED left

SpuriousWakeup(t) ==
  /\ ~ Awake(t)
  /\ not_full' = not_full \ {t}
  /\ not_empty' = not_empty \ {t}
  /\ UNCHANGED <<queue, call, last, left>>

Begin ==
  \/ \E p \in Producer : Produce(p)
  \/ \E c \in Consumer : Consume(c)
  \/ Vidange

Next == Begin \/ \E t \in Thread : Push(t) \/ Pop(t) \/ SpuriousWakeup(t)

Fairness == WF_vars(Begin) /\ \A t \in Thread : WF_vars(Push(t) \/ Pop(t))

Spec == Init /\ [][Next]_vars
FairSpec == Spec /\ Fairness

-----------------------------------------------------------------------------
(* Properties. *)

TypeOK ==
  /\ queue \in Seq(Value)
  /\ not_full \subseteq {t \in Thread : call[t].op = "push"}
  /\ not_empty \subseteq {t \in Thread : call[t].op = "pop"}

\* The thread that looks before it pops never waits for a value that another
\* consumer took in between, and leaves nothing: every thread of the demo ends
\* with an empty queue (demo05_mutex_rwlock.rs:286-300).
EndsEmpty == AllEnded => queue = <<>>
AllThreadsEnd == []<>(AllEnded \/ \A p \in Producer : left[p] = Pushes)

\* The queue is a bounded first-in first-out queue that loses no wake-up
\* (demo05_mutex_rwlock.rs:123-128).
Fifo == INSTANCE BoundedFifo WITH closed <- FALSE
ImplementsFifo == Fifo!FairSpec
=============================================================================
