----------------------------- MODULE BoundedFifo -----------------------------
(***************************************************************************)
(* What a bounded blocking queue promises to the threads that call it: a   *)
(* call takes effect in one step, values leave in the order they entered,  *)
(* never more than Capacity are inside, and as long as a call can take     *)
(* effect some call does.  The ring buffer of exercise 5 and the queue of  *)
(* demo 5 implement it; the latter is never closed.                        *)
(***************************************************************************)
EXTENDS Naturals, Sequences

CONSTANTS Thread, Value, Capacity

VARIABLES
  queue,
  closed,
  call,     \* call[t]: the operation that t waits for
  last      \* last[t]: what its last operation returned

vars == <<queue, closed, call, last>>

NoCall == [op |-> "none"]
Closed == <<"Closed">>
Call == [op : {"push", "try_push"}, val : Value] \cup [op : {"pop", "try_pop"}]

Init ==
  /\ queue = <<>>
  /\ closed = FALSE
  /\ call = [t \in Thread |-> NoCall]
  /\ last = [t \in Thread |-> <<>>]

Full == Len(queue) = Capacity

Begin(t, c) ==
  /\ call[t] = NoCall
  /\ call' = [call EXCEPT ![t] = c]
  /\ UNCHANGED <<queue, closed, last>>

Return(t, result) ==
  /\ call' = [call EXCEPT ![t] = NoCall]
  /\ last' = [last EXCEPT ![t] = result]
  /\ UNCHANGED closed

Push(t) ==
  /\ call[t].op \in {"push", "try_push"}
  /\ ~ closed /\ ~ Full
  /\ queue' = Append(queue, call[t].val)
  /\ Return(t, <<"Ok">>)

Pop(t) ==
  /\ call[t].op \in {"pop", "try_pop"}
  /\ queue # <<>>
  /\ queue' = Tail(queue)
  /\ Return(t, <<"Ok", Head(queue)>>)

\* A closed queue takes nothing more and is emptied before it says so; the
\* operations that do not wait give up on a full or an empty queue.
Refuse(t) ==
  /\ \/ call[t].op = "push" /\ closed
     \/ call[t].op = "try_push" /\ (closed \/ Full)
     \/ call[t].op \in {"pop", "try_pop"} /\ closed /\ queue = <<>>
  /\ Return(t, Closed)
  /\ UNCHANGED queue

FindEmpty(t) ==
  /\ call[t].op = "try_pop" /\ queue = <<>> /\ ~ closed
  /\ Return(t, <<"Empty">>)
  /\ UNCHANGED queue

Serve(t) == Push(t) \/ Pop(t) \/ Refuse(t) \/ FindEmpty(t)

Close ==
  /\ closed' = TRUE
  /\ UNCHANGED <<queue, call, last>>

Next ==
  \/ \E t \in Thread : (\E c \in Call : Begin(t, c)) \/ Serve(t)
  \/ Close

Spec == Init /\ [][Next]_vars

FairSpec == Spec /\ WF_vars(\E t \in Thread : Serve(t))
=============================================================================
