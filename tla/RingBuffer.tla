------------------------------ MODULE RingBuffer ------------------------------
(***************************************************************************)
(* The ring buffer of exercise 5 (exo05_ringbuffer.rs): a queue under a    *)
(* mutex with the condition variables not_full and not_empty, and close.   *)
(*                                                                         *)
(* What a call does while it holds the mutex is one step.  wait() gives    *)
(* the mutex back and joins the waiting threads in that step; a thread     *)
(* that is woken looks again.  notify_one() is called once the mutex is    *)
(* released: a step of its own.  A thread may wake up for no reason.       *)
(***************************************************************************)
EXTENDS Naturals, Sequences

CONSTANTS
  Producer, Consumer,
  Messages,   \* how many values each producer pushes
  Capacity

RingBufferAssumption ==
  /\ Producer \cap Consumer = {}
  /\ Messages \in Nat /\ Capacity \in Nat \ {0}

Thread == Producer \cup Consumer
Value == Producer \X (1 .. Messages)
Condvar == {"not_full", "not_empty"}

VARIABLES
  queue, closed,
  call,      \* call[t]: the operation t is in, up to its effect
  last,      \* last[t]: what its last one returned
  pc,        \* pc[t]: "idle", "lock", "wait" or "notify"
  waiting,   \* waiting[c]: the threads that wait on c
  sent,      \* sent[p]: how many values p has pushed or tried to
  closing    \* the steps that close() has still to take

vars == <<queue, closed, call, last, pc, waiting, sent, closing>>

NoCall == [op |-> "none"]
Closed == <<"Closed">>

Init ==
  /\ queue = <<>>
  /\ closed = FALSE
  /\ call = [t \in Thread |-> NoCall]
  /\ last = [t \in Thread |-> <<>>]
  /\ pc = [t \in Thread |-> "idle"]
  /\ waiting = [c \in Condvar |-> {}]
  /\ sent = [p \in Producer |-> 0]
  /\ closing = <<"close", "not_full", "not_empty">>

Full == Len(queue) = Capacity
Goto(t, l) == pc' = [pc EXCEPT ![t] = l]

Ended(t) ==
  /\ pc[t] = "idle"
  /\ IF t \in Producer THEN sent[t] = Messages ELSE last[t] = Closed

AllEnded == \A t \in Thread : Ended(t)

-----------------------------------------------------------------------------
(* The threads of the demo and of the bench; try_push and try_pop stand in   *)
(* wherever push and pop may.                                                *)

Call(t, c) ==
  /\ pc[t] = "idle" /\ ~ Ended(t)
  /\ call' = [call EXCEPT ![t] = c]
  /\ Goto(t, "lock")
  /\ UNCHANGED <<queue, closed, last, waiting, closing>>

Produce(p) ==
  /\ \E op \in {"push", "try_push"} :
       Call(p, [op |-> op, val |-> <<p, sent[p] + 1>>])
  /\ sent' = [sent EXCEPT ![p] = @ + 1]

Consume(c) ==
  /\ \E op \in {"pop", "try_pop"} : Call(c, [op |-> op])
  /\ UNCHANGED sent

-----------------------------------------------------------------------------
(* The buffer. *)

Wait(t, c) ==
  /\ waiting' = [waiting EXCEPT ![c] = @ \cup {t}]
  /\ Goto(t, "wait")
  /\ UNCHANGED <<queue, closed, call, last, sent, closing>>

Return(t, result, l) ==
  /\ call' = [call EXCEPT ![t] = NoCall]
  /\ last' = [last EXCEPT ![t] = result]
  /\ Goto(t, l)
  /\ UNCHANGED <<closed, waiting, sent, closing>>

Push(t) ==
  /\ call[t].op = "push"
  /\ IF Full /\ ~ closed
       THEN Wait(t, "not_full")
       ELSE IF closed
         THEN Return(t, Closed, "idle") /\ UNCHANGED queue
         ELSE /\ queue' = Append(queue, call[t].val)
              /\ Return(t, <<"Ok">>, "notify")

\* A full buffer is reported as a closed one.
TryPush(t) ==
  /\ call[t].op = "try_push"
  /\ IF closed \/ Full
       THEN Return(t, Closed, "idle") /\ UNCHANGED queue
       ELSE /\ queue' = Append(queue, call[t].val)
            /\ Return(t, <<"Ok">>, "notify")

\* Mutant: the newest value leaves.
PopBack(t) ==
  /\ queue' = SubSeq(queue, 1, Len(queue) - 1)
  /\ Return(t, <<"Ok", queue[Len(queue)]>>, "notify")

PopFront(t) ==
  /\ queue' = Tail(queue)
  /\ Return(t, <<"Ok", Head(queue)>>, "notify")

Pop(t) ==
  /\ call[t].op = "pop"
  /\ CASE queue = <<>> /\ ~ closed -> Wait(t, "not_empty")
       [] queue # <<>> -> PopFront(t)
       [] OTHER -> Return(t, Closed, "idle") /\ UNCHANGED queue

TryPop(t) ==
  /\ call[t].op = "try_pop"
  /\ IF queue # <<>>
       THEN PopFront(t)
       ELSE /\ Return(t, IF closed THEN Closed ELSE <<"Empty">>, "idle")
            /\ UNCHANGED queue

Notifies(t) == IF t \in Producer THEN "not_empty" ELSE "not_full"

\* Wake S, all of which wait on c; they look again.
Wake(c, S) == waiting' = [waiting EXCEPT ![c] = @ \ S]

NotifyOne(t) ==
  LET c == Notifies(t) IN
  /\ pc[t] = "notify"
  /\ \E S \in SUBSET waiting[c] :
       /\ S = {} <=> waiting[c] = {}
       /\ \A u, v \in S : u = v
       /\ Wake(c, S)
       /\ pc' = [u \in Thread |-> CASE u = t -> "idle" [] u \in S -> "lock"
                                    [] OTHER -> pc[u]]
  /\ UNCHANGED <<queue, closed, call, last, sent, closing>>

SpuriousWakeup(t) ==
  /\ pc[t] = "wait"
  /\ \E c \in Condvar : t \in waiting[c] /\ Wake(c, {t})
  /\ Goto(t, "lock")
  /\ UNCHANGED <<queue, closed, call, last, sent, closing>>

Close ==
  /\ closing # <<>> /\ Head(closing) = "close"
  /\ closed' = TRUE
  /\ closing' = Tail(closing)
  /\ UNCHANGED <<queue, call, last, pc, waiting, sent>>

\* Mutant: notify_one() for notify_all().
WokenByCloseOne(c) == IF waiting[c] = {} THEN {} ELSE {CHOOSE t \in waiting[c] : TRUE}

WokenByClose(c) == waiting[c]

CloseNotifies ==
  /\ closing # <<>> /\ Head(closing) \in Condvar
  /\ LET c == Head(closing) IN
       /\ Wake(c, WokenByClose(c))
       /\ pc' = [t \in Thread |->
                   IF t \in WokenByClose(c) THEN "lock" ELSE pc[t]]
  /\ closing' = Tail(closing)
  /\ UNCHANGED <<queue, closed, call, last, sent>>

-----------------------------------------------------------------------------
Locked(t) == pc[t] = "lock" /\ (Push(t) \/ TryPush(t) \/ Pop(t) \/ TryPop(t))

Work(t) == Locked(t) \/ NotifyOne(t)

Next ==
  \/ \E p \in Producer : Produce(p)
  \/ \E c \in Consumer : Consume(c)
  \/ \E t \in Thread : Work(t) \/ SpuriousWakeup(t)
  \/ Close \/ CloseNotifies

\* Calls run, consumers call pop until they see Closed, close() is finished.
Fairness ==
  /\ \A t \in Thread : WF_vars(Work(t))
  /\ \A p \in Producer : WF_vars(Produce(p))
  /\ \A c \in Consumer : WF_vars(Consume(c))
  /\ WF_vars(CloseNotifies)

Spec == Init /\ [][Next]_vars
FairSpec == Spec /\ Fairness

-----------------------------------------------------------------------------
(* Properties. *)

TypeOK ==
  /\ queue \in Seq(Value) /\ Len(queue) =< Capacity
  /\ closed \in BOOLEAN
  /\ \A t \in Thread :
       /\ pc[t] \in {"idle", "lock", "wait", "notify"}
       /\ pc[t] = "wait" <=> t \in UNION {waiting[c] : c \in Condvar}
       /\ call[t] # NoCall <=> pc[t] \in {"lock", "wait"}
  /\ sent \in [Producer -> 0 .. Messages]
  /\ closing = <<"close", "not_full", "not_empty">> <=> ~ closed

\* Nothing that push accepted is left behind once all the threads have ended,
\* whenever close() came (exo05_ringbuffer.rs:149-163, the sum of the demo).
Drained == AllEnded => queue = <<>>

\* Every call takes effect as a call of a bounded queue would, in order, and no
\* wake-up is lost: a call that can take effect does.
Fifo == INSTANCE BoundedFifo
ImplementsFifo == Fifo!FairSpec

\* close() frees every thread (exo05_ringbuffer.rs:98).
ClosedEnds == []<>(closed => AllEnded)
=============================================================================
