----------------------------- MODULE Queues_proofs -----------------------------
(***************************************************************************)
(* Theorems about the queues, for any producers and consumers, any number  *)
(* of values and any capacity: the ring buffer of exercise 5, the queue of *)
(* the locks demo (BQ) and the task dispatcher (DI).  The instances use    *)
(* the variables of the ring buffer under the same names.                  *)
(***************************************************************************)
EXTENDS Parts, Data_proofs

(***************************************************************************)
(* The inductive invariant.                                                *)
(***************************************************************************)

Result == {<<>>, <<"Ok">>, <<"Empty">>, RB!Closed} \cup ({"Ok"} \X RB!Value)

\* A producer pushes its values, a consumer pops.
CallOf(t) ==
  IF t \in RbProducer THEN [op : {"push", "try_push"}, val : RB!Value]
                    ELSE [op : {"pop", "try_pop"}]

\* Those who wait on a condition are in a call that may, so nobody waits on both.
WaitingOK ==
  /\ rbWaiting \in [RB!Condvar -> SUBSET RB!Thread]
  /\ \A t \in rbWaiting["not_full"] : t \in RbProducer /\ rbPc[t] = "wait"
  /\ \A t \in rbWaiting["not_empty"] : t \in RbConsumer /\ rbPc[t] = "wait"

ClosingOK ==
  /\ rbClosing \in Seq({"close"} \cup RB!Condvar)
  /\ rbClosed <=> Len(rbClosing) < 3
  /\ \A i \in 1 .. Len(rbClosing) : rbClosing[i] = "close" <=> i = 1 /\ ~ rbClosed

CallsOK ==
  /\ rbCall \in [RB!Thread -> RB!Fifo!Call \cup {RB!NoCall}]
  /\ \A t \in RB!Thread : rbCall[t] \in CallOf(t) \cup {RB!NoCall}

BufferInv ==
  /\ RB!TypeOK
  /\ rbPc \in [RB!Thread -> {"idle", "lock", "wait", "notify"}]
  /\ CallsOK
  /\ rbLast \in [RB!Thread -> Result]
  /\ WaitingOK
  /\ ClosingOK
  (* Nobody is told that the buffer is rbClosed before it is empty for good. *)
  /\ \A c \in RbConsumer : rbLast[c] = RB!Closed => rbClosed /\ rbQueue = <<>>

LEMMA BufferInit == ASSUME RB!RingBufferAssumption, RB!Init PROVE BufferInv
  <1>1. RB!TypeOK
    <2>1. rbQueue \in Seq(RB!Value) /\ Len(rbQueue) =< RbCapacity /\ rbClosed = FALSE
      BY DEF RB!Init, RB!RingBufferAssumption
    <2>2. \A t \in RB!Thread : /\ rbPc[t] = "idle" /\ rbCall[t] = RB!NoCall
                               /\ t \notin UNION {rbWaiting[c] : c \in RB!Condvar}
      BY DEF RB!Init
    <2>3. rbSent \in [RbProducer -> 0 .. RbMessages]
      BY DEF RB!Init, RB!RingBufferAssumption
    <2>4. rbClosing = <<"close", "not_full", "not_empty">>
      BY DEF RB!Init
    <2> QED
      BY <2>1, <2>2, <2>3, <2>4 DEF RB!TypeOK
  <1>2. rbPc \in [RB!Thread -> {"idle", "lock", "wait", "notify"}] /\ rbLast \in [RB!Thread -> Result]
    BY DEF RB!Init, Result
  <1>3. CallsOK
    BY DEF RB!Init, CallsOK
  <1>4. WaitingOK
    BY DEF RB!Init, WaitingOK, RB!Condvar
  <1>5. ClosingOK
    <2>1. rbClosing = <<"close", "not_full", "not_empty">> /\ rbClosed = FALSE
      BY DEF RB!Init
    <2>2. rbClosing \in Seq({"close"} \cup RB!Condvar) /\ Len(rbClosing) = 3
      BY <2>1 DEF RB!Condvar
    <2>3. rbClosing[1] = "close" /\ rbClosing[2] # "close" /\ rbClosing[3] # "close"
      BY <2>1
    <2>4. \A i \in 1 .. 3 : i = 1 \/ i = 2 \/ i = 3
      OBVIOUS
    <2> QED
      BY <2>1, <2>2, <2>3, <2>4 DEF ClosingOK
  <1>6. \A c \in RbConsumer : rbLast[c] # RB!Closed
    BY DEF RB!Init, RB!Thread, RB!Closed
  <1> QED
    BY <1>1, <1>2, <1>3, <1>4, <1>5, <1>6 DEF BufferInv

(***************************************************************************)
(* The calls.                                                              *)
(***************************************************************************)

\* Produce and Consume: thread t, which is idle, begins the call c.
LEMMA CallInv ==
  ASSUME RB!RingBufferAssumption, BufferInv, NEW t \in RB!Thread, NEW c \in CallOf(t), RB!Call(t, c),
         rbSent' \in [RbProducer -> 0 .. RbMessages]
  PROVE  BufferInv'
  <1>1. /\ rbPc[t] = "idle" /\ rbPc' = [rbPc EXCEPT ![t] = "lock"]
        /\ rbCall' = [rbCall EXCEPT ![t] = c]
        /\ UNCHANGED <<rbQueue, rbClosed, rbLast, rbWaiting, rbClosing>>
    BY DEF RB!Call, RB!Goto
  <1>2. /\ rbPc \in [RB!Thread -> {"idle", "lock", "wait", "notify"}]
        /\ rbCall \in [RB!Thread -> RB!Fifo!Call \cup {RB!NoCall}]
        /\ \A u \in RB!Thread : rbCall[u] \in CallOf(u) \cup {RB!NoCall}
    BY DEF BufferInv, CallsOK
  <1>3. c \in RB!Fifo!Call /\ c # RB!NoCall
    BY DEF CallOf, RB!NoCall, RB!Fifo!Call
  <1>4. rbPc' \in [RB!Thread -> {"idle", "lock", "wait", "notify"}] /\ CallsOK'
    BY <1>1, <1>2, <1>3 DEF CallsOK
  <1>5. WaitingOK'
    BY <1>1, <1>2 DEF BufferInv, WaitingOK
  <1>6. \A u \in RB!Thread :
          /\ rbPc'[u] = "wait" <=> u \in UNION {rbWaiting'[d] : d \in RB!Condvar}
          /\ rbCall'[u] # RB!NoCall <=> rbPc'[u] \in {"lock", "wait"}
    <2> TAKE u \in RB!Thread
    <2>1. /\ rbPc[u] = "wait" <=> u \in UNION {rbWaiting[d] : d \in RB!Condvar}
          /\ rbCall[u] # RB!NoCall <=> rbPc[u] \in {"lock", "wait"}
      BY DEF BufferInv, RB!TypeOK
    <2>2. CASE u = t
      BY <1>1, <1>2, <1>3, <2>1, <2>2
    <2>3. CASE u # t
      BY <1>1, <1>2, <2>1, <2>3
    <2> QED
      BY <2>2, <2>3
  <1>7. RB!TypeOK'
    BY <1>1, <1>4, <1>6 DEF BufferInv, RB!TypeOK
  <1>8. ClosingOK' /\ rbLast' \in [RB!Thread -> Result]
        /\ \A d \in RbConsumer : rbLast'[d] = RB!Closed => rbClosed' /\ rbQueue' = <<>>
    BY <1>1 DEF BufferInv, ClosingOK
  <1> QED
    BY <1>4, <1>5, <1>7, <1>8 DEF BufferInv

\* A call that finds it cannot go on waits.
LEMMA WaitInv ==
  ASSUME RB!RingBufferAssumption, BufferInv, NEW t \in RB!Thread, NEW c \in RB!Condvar,
         rbPc[t] = "lock", RB!Wait(t, c),
         c = "not_full" => t \in RbProducer, c = "not_empty" => t \in RbConsumer
  PROVE  BufferInv'
  <1>1. /\ rbPc' = [rbPc EXCEPT ![t] = "wait"]
        /\ rbWaiting' = [rbWaiting EXCEPT ![c] = rbWaiting[c] \cup {t}]
        /\ UNCHANGED <<rbQueue, rbClosed, rbCall, rbLast, rbSent, rbClosing>>
    BY DEF RB!Wait, RB!Goto
  <1>2. /\ rbPc \in [RB!Thread -> {"idle", "lock", "wait", "notify"}]
        /\ rbWaiting \in [RB!Condvar -> SUBSET RB!Thread]
    BY DEF BufferInv, WaitingOK
  <1>3. rbPc' \in [RB!Thread -> {"idle", "lock", "wait", "notify"}] /\ CallsOK'
    BY <1>1, <1>2 DEF BufferInv, CallsOK
  <1>4. rbWaiting' \in [RB!Condvar -> SUBSET RB!Thread]
    BY <1>1, <1>2
  <1>5. WaitingOK'
    BY <1>1, <1>2, <1>4 DEF BufferInv, WaitingOK, RB!Condvar
  <1>6. \A u \in RB!Thread :
          /\ rbPc'[u] = "wait" <=> u \in UNION {rbWaiting'[d] : d \in RB!Condvar}
          /\ rbCall'[u] # RB!NoCall <=> rbPc'[u] \in {"lock", "wait"}
    <2> TAKE u \in RB!Thread
    <2>1. /\ rbPc[u] = "wait" <=> u \in UNION {rbWaiting[d] : d \in RB!Condvar}
          /\ rbCall[u] # RB!NoCall <=> rbPc[u] \in {"lock", "wait"}
      BY DEF BufferInv, RB!TypeOK
    <2>2. CASE u = t
      BY <1>1, <1>2, <2>1, <2>2
    <2>3. CASE u # t
      BY <1>1, <1>2, <2>1, <2>3
    <2> QED
      BY <2>2, <2>3
  <1>7. RB!TypeOK'
    BY <1>1, <1>6 DEF BufferInv, RB!TypeOK
  <1>8. ClosingOK' /\ rbLast' \in [RB!Thread -> Result]
        /\ \A d \in RbConsumer : rbLast'[d] = RB!Closed => rbClosed' /\ rbQueue' = <<>>
    BY <1>1 DEF BufferInv, ClosingOK
  <1> QED
    BY <1>3, <1>5, <1>7, <1>8 DEF BufferInv

\* A call takes effect and returns.
LEMMA ReturnInv ==
  ASSUME RB!RingBufferAssumption, BufferInv, NEW t \in RB!Thread, NEW r \in Result,
         NEW l \in {"idle", "notify"}, rbPc[t] = "lock", RB!Return(t, r, l),
         rbQueue' \in Seq(RB!Value), Len(rbQueue') =< RbCapacity,
         rbClosed /\ rbQueue = <<>> => rbQueue' = <<>>,
         t \in RbConsumer /\ r = RB!Closed => rbClosed /\ rbQueue' = <<>>
  PROVE  BufferInv'
  <1>1. /\ rbPc' = [rbPc EXCEPT ![t] = l] /\ rbCall' = [rbCall EXCEPT ![t] = RB!NoCall]
        /\ rbLast' = [rbLast EXCEPT ![t] = r]
        /\ UNCHANGED <<rbClosed, rbWaiting, rbSent, rbClosing>>
    BY DEF RB!Return, RB!Goto
  <1>2. /\ rbPc \in [RB!Thread -> {"idle", "lock", "wait", "notify"}]
        /\ rbCall \in [RB!Thread -> RB!Fifo!Call \cup {RB!NoCall}]
        /\ \A u \in RB!Thread : rbCall[u] \in CallOf(u) \cup {RB!NoCall}
        /\ rbLast \in [RB!Thread -> Result]
    BY DEF BufferInv, CallsOK
  <1>3. rbPc' \in [RB!Thread -> {"idle", "lock", "wait", "notify"}] /\ CallsOK'
        /\ rbLast' \in [RB!Thread -> Result]
    BY <1>1, <1>2 DEF CallsOK
  <1>4. WaitingOK'
    BY <1>1, <1>2 DEF BufferInv, WaitingOK
  <1>5. \A u \in RB!Thread :
          /\ rbPc'[u] = "wait" <=> u \in UNION {rbWaiting'[d] : d \in RB!Condvar}
          /\ rbCall'[u] # RB!NoCall <=> rbPc'[u] \in {"lock", "wait"}
    <2> TAKE u \in RB!Thread
    <2>1. /\ rbPc[u] = "wait" <=> u \in UNION {rbWaiting[d] : d \in RB!Condvar}
          /\ rbCall[u] # RB!NoCall <=> rbPc[u] \in {"lock", "wait"}
      BY DEF BufferInv, RB!TypeOK
    <2>2. CASE u = t
      BY <1>1, <1>2, <2>1, <2>2
    <2>3. CASE u # t
      BY <1>1, <1>2, <2>1, <2>3
    <2> QED
      BY <2>2, <2>3
  <1>6. RB!TypeOK'
    BY <1>1, <1>5 DEF BufferInv, RB!TypeOK
  <1>7. ClosingOK'
    BY <1>1 DEF BufferInv, ClosingOK
  <1>8. ASSUME NEW d \in RbConsumer, rbLast'[d] = RB!Closed
        PROVE  rbClosed' /\ rbQueue' = <<>>
    <2>1. d \in RB!Thread
      BY DEF RB!Thread
    <2>2. CASE d = t
      BY <1>1, <1>2, <1>8, <2>2
    <2>3. CASE d # t
      BY <1>1, <1>2, <1>8, <2>1, <2>3 DEF BufferInv
    <2> QED
      BY <2>2, <2>3
  <1> QED
    BY <1>3, <1>4, <1>6, <1>7, <1>8 DEF BufferInv

LEMMA LockedInv ==
  ASSUME RB!RingBufferAssumption, BufferInv, NEW t \in RB!Thread, RB!Locked(t)
  PROVE  BufferInv'
  <1>1. /\ rbPc[t] = "lock" /\ rbQueue \in Seq(RB!Value) /\ Len(rbQueue) =< RbCapacity
        /\ Len(rbQueue) \in Nat /\ RbCapacity \in Nat \ {0}
        /\ rbCall[t] \in CallOf(t) \cup {RB!NoCall}
        /\ RbProducer \cap RbConsumer = {} /\ RB!Thread = RbProducer \cup RbConsumer
    BY DEF RB!Locked, BufferInv, RB!TypeOK, CallsOK, RB!RingBufferAssumption, RB!Thread
  <1>2. rbCall[t] # RB!NoCall
    BY <1>1 DEF BufferInv, RB!TypeOK
  <1>3. /\ rbCall[t].op \in {"push", "try_push"} => t \in RbProducer /\ rbCall[t].val \in RB!Value
        /\ rbCall[t].op \in {"pop", "try_pop"} => t \in RbConsumer
    BY <1>1, <1>2 DEF CallOf
  <1>4. RB!Closed \in Result /\ <<"Ok">> \in Result /\ <<"Empty">> \in Result
    BY DEF Result
  <1>5. ASSUME NEW v \in RB!Value
        PROVE  <<"Ok", v>> \in Result /\ <<"Ok", v>> # RB!Closed
    BY DEF Result, RB!Closed
  <1>6. ASSUME t \in RbProducer, ~ rbClosed, ~ RB!Full, rbQueue' = Append(rbQueue, rbCall[t].val),
               rbCall[t].val \in RB!Value, RB!Return(t, <<"Ok">>, "notify")
        PROVE  BufferInv'
    <2>1. rbQueue' \in Seq(RB!Value) /\ Len(rbQueue') = Len(rbQueue) + 1
      BY <1>1, <1>6
    <2>2. Len(rbQueue') =< RbCapacity
      BY <1>1, <1>6, <2>1 DEF RB!Full
    <2> QED
      BY <1>1, <1>4, <1>6, <2>1, <2>2, ReturnInv
  <1>7. ASSUME t \in RbConsumer, rbQueue # <<>>, RB!PopFront(t)
        PROVE  BufferInv'
    <2>1. Head(rbQueue) \in RB!Value /\ Tail(rbQueue) \in Seq(RB!Value)
          /\ Len(Tail(rbQueue)) =< RbCapacity
      BY <1>1, <1>7
    <2> QED
      BY <1>1, <1>5, <1>7, <2>1, ReturnInv DEF RB!PopFront
  <1>8. ASSUME RB!Return(t, RB!Closed, "idle"), rbQueue' = rbQueue,
               t \in RbConsumer => rbClosed /\ rbQueue = <<>>
        PROVE  BufferInv'
    BY <1>1, <1>4, <1>8, ReturnInv
  <1>9. CASE RB!Push(t)
    <2>1. t \in RbProducer /\ rbCall[t].val \in RB!Value
      BY <1>3, <1>9 DEF RB!Push
    <2>2. CASE RB!Full /\ ~ rbClosed
      BY <1>1, <1>9, <2>1, <2>2, WaitInv DEF RB!Push, RB!Condvar
    <2>3. CASE rbClosed
      <3>1. RB!Return(t, RB!Closed, "idle") /\ rbQueue' = rbQueue
        BY <1>9, <2>3 DEF RB!Push
      <3> QED
        BY <1>1, <1>8, <2>1, <3>1
    <2>4. CASE ~ RB!Full /\ ~ rbClosed
      BY <1>6, <1>9, <2>1, <2>4 DEF RB!Push
    <2> QED
      BY <2>2, <2>3, <2>4
  <1>10. CASE RB!TryPush(t)
    <2>1. t \in RbProducer /\ rbCall[t].val \in RB!Value
      BY <1>3, <1>10 DEF RB!TryPush
    <2>2. CASE rbClosed \/ RB!Full
      <3>1. RB!Return(t, RB!Closed, "idle") /\ rbQueue' = rbQueue
        BY <1>10, <2>2 DEF RB!TryPush
      <3> QED
        BY <1>1, <1>8, <2>1, <3>1
    <2>3. CASE ~ (rbClosed \/ RB!Full)
      BY <1>6, <1>10, <2>1, <2>3 DEF RB!TryPush
    <2> QED
      BY <2>2, <2>3
  <1>11. CASE RB!Pop(t)
    <2>1. t \in RbConsumer
      BY <1>3, <1>11 DEF RB!Pop
    <2>2. CASE rbQueue = <<>> /\ ~ rbClosed
      BY <1>1, <1>11, <2>1, <2>2, WaitInv DEF RB!Pop, RB!Condvar
    <2>3. CASE rbQueue # <<>>
      BY <1>7, <1>11, <2>1, <2>3 DEF RB!Pop
    <2>4. CASE rbQueue = <<>> /\ rbClosed
      BY <1>8, <1>11, <2>4 DEF RB!Pop
    <2> QED
      BY <2>2, <2>3, <2>4
  <1>12. CASE RB!TryPop(t)
    <2>1. t \in RbConsumer
      BY <1>3, <1>12 DEF RB!TryPop
    <2>2. CASE rbQueue # <<>>
      BY <1>7, <1>12, <2>1, <2>2 DEF RB!TryPop
    <2>3. CASE rbQueue = <<>> /\ rbClosed
      BY <1>8, <1>12, <2>3 DEF RB!TryPop
    <2>4. CASE rbQueue = <<>> /\ ~ rbClosed
      <3>1. RB!Return(t, <<"Empty">>, "idle") /\ rbQueue' = rbQueue
        BY <1>12, <2>4 DEF RB!TryPop
      <3>2. <<"Empty">> # RB!Closed
        BY DEF RB!Closed
      <3> QED
        BY <1>1, <1>4, <3>1, <3>2, ReturnInv
    <2> QED
      BY <2>2, <2>3, <2>4
  <1> QED
    BY <1>9, <1>10, <1>11, <1>12 DEF RB!Locked

(***************************************************************************)
(* Waking up, and close().                                                 *)
(***************************************************************************)

\* Those of S, all of which wait on c, look again; the others stay where they are,
\* but for a thread that has notified.
LEMMA WakeInv ==
  ASSUME RB!RingBufferAssumption, BufferInv, NEW c \in RB!Condvar, NEW S \in SUBSET rbWaiting[c],
         rbWaiting' = [rbWaiting EXCEPT ![c] = rbWaiting[c] \ S],
         rbPc' \in [RB!Thread -> {"idle", "lock", "wait", "notify"}],
         \A u \in RB!Thread : IF u \in S THEN rbPc'[u] = "lock"
                             ELSE rbPc'[u] = rbPc[u] \/ (rbPc[u] = "notify" /\ rbPc'[u] = "idle"),
         UNCHANGED <<rbQueue, rbClosed, rbCall, rbLast, rbSent>>, ClosingOK',
         rbClosing' = <<"close", "not_full", "not_empty">> <=> ~ rbClosed'
  PROVE  BufferInv'
  <1>1. rbWaiting \in [RB!Condvar -> SUBSET RB!Thread]
    BY DEF BufferInv, WaitingOK
  <1>2. rbWaiting' \in [RB!Condvar -> SUBSET RB!Thread] /\ S \subseteq RB!Thread
    BY <1>1
  <1>3. \A d \in RB!Condvar \ {c} : rbWaiting'[d] \cap S = {} /\ rbWaiting'[d] = rbWaiting[d]
    BY <1>1, RbProducer \cap RbConsumer = {} DEF BufferInv, WaitingOK, RB!Condvar, RB!RingBufferAssumption
  <1>4. rbWaiting'[c] = rbWaiting[c] \ S
    BY <1>1
  <1>5. WaitingOK'
    <2>1. \A u \in RB!Thread : rbPc[u] = "wait" /\ u \notin S => rbPc'[u] = "wait"
      OBVIOUS
    <2>2. \A d \in RB!Condvar : rbWaiting'[d] \cap S = {} /\ rbWaiting'[d] \subseteq rbWaiting[d]
      BY <1>3, <1>4
    <2>3. "not_full" \in RB!Condvar /\ "not_empty" \in RB!Condvar
      BY DEF RB!Condvar
    <2> QED
      BY <1>1, <1>2, <2>1, <2>2, <2>3 DEF BufferInv, WaitingOK
  <1>6. \A u \in RB!Thread :
          /\ rbPc'[u] = "wait" <=> u \in UNION {rbWaiting'[d] : d \in RB!Condvar}
          /\ rbCall'[u] # RB!NoCall <=> rbPc'[u] \in {"lock", "wait"}
    <2> TAKE u \in RB!Thread
    <2>1. /\ rbPc[u] = "wait" <=> u \in UNION {rbWaiting[d] : d \in RB!Condvar}
          /\ rbCall[u] # RB!NoCall <=> rbPc[u] \in {"lock", "wait"}
      BY DEF BufferInv, RB!TypeOK
    <2>2. CASE u \in S
      <3>1. rbPc[u] = "wait" /\ rbPc'[u] = "lock"
        BY <2>1, <2>2
      <3>2. \A d \in RB!Condvar : u \notin rbWaiting'[d]
        BY <1>3, <1>4, <2>2
      <3> QED
        BY <2>1, <3>1, <3>2
    <2>3. CASE u \notin S
      <3>1. \A d \in RB!Condvar : u \in rbWaiting'[d] <=> u \in rbWaiting[d]
        BY <1>3, <1>4, <2>3
      <3>2. rbPc'[u] = rbPc[u] \/ (rbPc[u] = "notify" /\ rbPc'[u] = "idle")
        BY <2>3
      <3> QED
        BY <2>1, <3>1, <3>2
    <2> QED
      BY <2>2, <2>3
  <1>7. RB!TypeOK'
    <2>1. \A u \in RB!Thread : rbPc'[u] \in {"idle", "lock", "wait", "notify"}
      OBVIOUS
    <2> QED
      BY <1>6, <2>1 DEF BufferInv, RB!TypeOK
  <1>8. CallsOK' /\ rbLast' \in [RB!Thread -> Result]
        /\ \A d \in RbConsumer : rbLast'[d] = RB!Closed => rbClosed' /\ rbQueue' = <<>>
    BY DEF BufferInv, CallsOK
  <1> QED
    BY <1>5, <1>7, <1>8 DEF BufferInv

LEMMA NotifyOneInv ==
  ASSUME RB!RingBufferAssumption, BufferInv, NEW t \in RB!Thread, RB!NotifyOne(t)
  PROVE  BufferInv'
  <1>1. PICK c \in RB!Condvar : c = RB!Notifies(t)
    BY DEF RB!Notifies, RB!Condvar
  <1>2. PICK S \in SUBSET rbWaiting[c] :
          /\ rbWaiting' = [rbWaiting EXCEPT ![c] = rbWaiting[c] \ S]
          /\ rbPc' = [u \in RB!Thread |-> CASE u = t -> "idle" [] u \in S -> "lock"
                                       [] OTHER -> rbPc[u]]
    BY <1>1 DEF RB!NotifyOne, RB!Wake
  <1>3. rbPc[t] = "notify" /\ UNCHANGED <<rbQueue, rbClosed, rbCall, rbLast, rbSent, rbClosing>>
    BY DEF RB!NotifyOne
  <1>4. rbPc \in [RB!Thread -> {"idle", "lock", "wait", "notify"}]
    BY DEF BufferInv
  <1>5. t \notin S
    BY <1>3, <1>2 DEF BufferInv, WaitingOK, RB!Condvar
  <1>6. rbPc' \in [RB!Thread -> {"idle", "lock", "wait", "notify"}]
    BY <1>2, <1>4
  <1>7. \A u \in RB!Thread : IF u \in S THEN rbPc'[u] = "lock"
                            ELSE rbPc'[u] = rbPc[u] \/ (rbPc[u] = "notify" /\ rbPc'[u] = "idle")
    BY <1>2, <1>3, <1>5
  <1>8. ClosingOK' /\ (rbClosing' = <<"close", "not_full", "not_empty">> <=> ~ rbClosed')
    BY <1>3 DEF BufferInv, RB!TypeOK, ClosingOK
  <1> QED
    BY <1>2, <1>3, <1>6, <1>7, <1>8, WakeInv

LEMMA SpuriousInv ==
  ASSUME RB!RingBufferAssumption, BufferInv, NEW t \in RB!Thread, RB!SpuriousWakeup(t)
  PROVE  BufferInv'
  <1>1. PICK c \in RB!Condvar : t \in rbWaiting[c] /\ RB!Wake(c, {t})
    BY DEF RB!SpuriousWakeup
  <1>2. /\ rbPc' = [rbPc EXCEPT ![t] = "lock"]
        /\ UNCHANGED <<rbQueue, rbClosed, rbCall, rbLast, rbSent, rbClosing>>
    BY DEF RB!SpuriousWakeup, RB!Goto
  <1>3. rbPc \in [RB!Thread -> {"idle", "lock", "wait", "notify"}]
    BY DEF BufferInv
  <1>4. rbPc' \in [RB!Thread -> {"idle", "lock", "wait", "notify"}]
    BY <1>2, <1>3
  <1>5. \A u \in RB!Thread : IF u \in {t} THEN rbPc'[u] = "lock"
                            ELSE rbPc'[u] = rbPc[u] \/ (rbPc[u] = "notify" /\ rbPc'[u] = "idle")
    BY <1>2, <1>3
  <1>6. ClosingOK' /\ (rbClosing' = <<"close", "not_full", "not_empty">> <=> ~ rbClosed')
    BY <1>2 DEF BufferInv, RB!TypeOK, ClosingOK
  <1>7. {t} \in SUBSET rbWaiting[c] /\ rbWaiting' = [rbWaiting EXCEPT ![c] = rbWaiting[c] \ {t}]
    BY <1>1 DEF RB!Wake
  <1> QED
    BY <1>2, <1>4, <1>5, <1>6, <1>7, WakeInv

\* close() has taken its next step.
LEMMA ClosingShrinks ==
  ASSUME BufferInv, rbClosing # <<>>, rbClosing' = Tail(rbClosing), rbClosed' = TRUE
  PROVE  ClosingOK' /\ rbClosing' # <<"close", "not_full", "not_empty">>
  <1>1. /\ rbClosing \in Seq({"close"} \cup RB!Condvar) /\ Len(rbClosing) \in Nat \ {0}
        /\ Len(rbClosing) =< 3
        /\ rbClosed <=> Len(rbClosing) < 3
        /\ \A i \in 1 .. Len(rbClosing) : rbClosing[i] = "close" <=> i = 1 /\ ~ rbClosed
    <2>1. ~ rbClosed => Len(rbClosing) = 3
      BY DEF BufferInv, RB!TypeOK
    <2> QED
      BY <2>1 DEF BufferInv, ClosingOK
  <1>2. /\ rbClosing' \in Seq({"close"} \cup RB!Condvar) /\ Len(rbClosing') = Len(rbClosing) - 1
        /\ \A i \in 1 .. Len(rbClosing) - 1 : rbClosing'[i] = rbClosing[i + 1]
    BY <1>1
  <1>3. \A i \in 1 .. Len(rbClosing') : rbClosing'[i] # "close"
    BY <1>1, <1>2
  <1>4. Len(rbClosing') < 3
    <2>1. Len(rbClosing) \in Nat /\ Len(rbClosing) =< 3
      BY <1>1
    <2>2. Len(rbClosing') = Len(rbClosing) - 1
      BY <1>2
    <2> QED
      BY <2>1, <2>2
  <1>5. rbClosing' # <<"close", "not_full", "not_empty">>
    <2> SUFFICES ASSUME rbClosing' = <<"close", "not_full", "not_empty">> PROVE FALSE
      OBVIOUS
    <2>1. rbClosing'[1] = "close" /\ 1 \in 1 .. Len(rbClosing')
      OBVIOUS
    <2> QED
      BY <1>3, <2>1
  <1>6. ClosingOK'
    BY <1>2, <1>3, <1>4 DEF ClosingOK
  <1> QED
    BY <1>5, <1>6

LEMMA CloseNotifiesInv ==
  ASSUME RB!RingBufferAssumption, BufferInv, RB!CloseNotifies
  PROVE  BufferInv'
  <1>1. PICK c \in RB!Condvar : c = Head(rbClosing)
    BY DEF RB!CloseNotifies
  <1>2. /\ rbClosing # <<>> /\ rbClosing' = Tail(rbClosing)
        /\ rbWaiting' = [rbWaiting EXCEPT ![c] = rbWaiting[c] \ rbWaiting[c]]
        /\ rbPc' = [t \in RB!Thread |-> IF t \in rbWaiting[c] THEN "lock" ELSE rbPc[t]]
        /\ UNCHANGED <<rbQueue, rbClosed, rbCall, rbLast, rbSent>>
    BY <1>1 DEF RB!CloseNotifies, RB!Wake, RB!WokenByClose
  <1>3. rbPc \in [RB!Thread -> {"idle", "lock", "wait", "notify"}]
    BY DEF BufferInv
  <1>4. rbPc' \in [RB!Thread -> {"idle", "lock", "wait", "notify"}]
    BY <1>2, <1>3
  <1>5. rbClosed
    <2>1. c # "close" /\ 1 \in 1 .. Len(rbClosing) /\ c = rbClosing[1]
      BY <1>1, <1>2 DEF RB!Condvar, BufferInv, ClosingOK
    <2> QED
      BY <2>1 DEF BufferInv, ClosingOK
  <1>6. ClosingOK' /\ (rbClosing' = <<"close", "not_full", "not_empty">> <=> ~ rbClosed')
    <2>1. rbClosed = TRUE /\ rbClosed' = TRUE
      BY <1>2, <1>5 DEF BufferInv, RB!TypeOK
    <2> QED
      BY <1>2, <2>1, ClosingShrinks
  <1>7. \A u \in RB!Thread : IF u \in rbWaiting[c] THEN rbPc'[u] = "lock"
                            ELSE rbPc'[u] = rbPc[u] \/ (rbPc[u] = "notify" /\ rbPc'[u] = "idle")
    BY <1>2
  <1> QED
    BY <1>2, <1>4, <1>6, <1>7, WakeInv

LEMMA CloseInv == ASSUME RB!RingBufferAssumption, BufferInv, RB!Close PROVE BufferInv'
  <1>1. /\ rbClosing # <<>> /\ rbClosing' = Tail(rbClosing) /\ rbClosed' = TRUE
        /\ UNCHANGED <<rbQueue, rbCall, rbLast, rbPc, rbWaiting, rbSent>>
    BY DEF RB!Close
  <1>2. ClosingOK' /\ rbClosing' # <<"close", "not_full", "not_empty">>
    BY <1>1, ClosingShrinks
  <1>3. RB!TypeOK'
    BY <1>1, <1>2 DEF BufferInv, RB!TypeOK
  <1>4. CallsOK' /\ WaitingOK' /\ rbLast' \in [RB!Thread -> Result]
        /\ rbPc' \in [RB!Thread -> {"idle", "lock", "wait", "notify"}]
    BY <1>1 DEF BufferInv, CallsOK, WaitingOK
  <1>5. \A d \in RbConsumer : rbLast'[d] = RB!Closed => rbClosed' /\ rbQueue' = <<>>
    BY <1>1 DEF BufferInv
  <1> QED
    BY <1>2, <1>3, <1>4, <1>5 DEF BufferInv

LEMMA StutterInv == ASSUME BufferInv, UNCHANGED RB!vars PROVE BufferInv'
  BY DEF RB!vars, BufferInv, RB!TypeOK, CallsOK, WaitingOK, ClosingOK

LEMMA BeginsCall ==
  ASSUME RB!RingBufferAssumption, BufferInv,
         \/ \E p \in RbProducer : RB!Produce(p)
         \/ \E c \in RbConsumer : RB!Consume(c)
  PROVE  \E t \in RB!Thread, c \in RB!Fifo!Call :
           /\ c \in CallOf(t) /\ RB!Call(t, c) /\ rbSent' \in [RbProducer -> 0 .. RbMessages]
  <1>1. rbSent \in [RbProducer -> 0 .. RbMessages] /\ RbMessages \in Nat
    BY DEF BufferInv, RB!TypeOK, RB!RingBufferAssumption
  <1>2. ASSUME NEW p \in RbProducer, RB!Produce(p)
        PROVE  \E t \in RB!Thread, c \in RB!Fifo!Call :
                 /\ c \in CallOf(t) /\ RB!Call(t, c) /\ rbSent' \in [RbProducer -> 0 .. RbMessages]
    <2>1. PICK op \in {"push", "try_push"} :
            RB!Call(p, [op |-> op, val |-> <<p, rbSent[p] + 1>>])
      BY <1>2 DEF RB!Produce
    <2>2. rbSent[p] # RbMessages
      BY <1>2 DEF RB!Produce, RB!Call, RB!Ended
    <2>3. rbSent[p] + 1 \in 1 .. RbMessages /\ rbSent' = [rbSent EXCEPT ![p] = rbSent[p] + 1]
      BY <1>1, <1>2, <2>2 DEF RB!Produce
    <2>4. rbSent' \in [RbProducer -> 0 .. RbMessages] /\ <<p, rbSent[p] + 1>> \in RB!Value
      BY <1>1, <2>3 DEF RB!Value
    <2>5. [op |-> op, val |-> <<p, rbSent[p] + 1>>] \in CallOf(p)
      BY <2>4 DEF CallOf
    <2>6. [op |-> op, val |-> <<p, rbSent[p] + 1>>] \in RB!Fifo!Call
      BY <2>4 DEF RB!Fifo!Call
    <2> QED
      BY <2>1, <2>4, <2>5, <2>6 DEF RB!Thread
  <1>3. ASSUME NEW p \in RbConsumer, RB!Consume(p)
        PROVE  \E t \in RB!Thread, c \in RB!Fifo!Call :
                 /\ c \in CallOf(t) /\ RB!Call(t, c) /\ rbSent' \in [RbProducer -> 0 .. RbMessages]
    <2>1. PICK op \in {"pop", "try_pop"} : RB!Call(p, [op |-> op])
      BY <1>3 DEF RB!Consume
    <2>2. [op |-> op] \in CallOf(p) /\ [op |-> op] \in RB!Fifo!Call
      BY DEF CallOf, RB!Fifo!Call, RB!RingBufferAssumption
    <2>3. rbSent' \in [RbProducer -> 0 .. RbMessages]
      BY <1>1, <1>3 DEF RB!Consume
    <2> QED
      BY <2>1, <2>2, <2>3 DEF RB!Thread
  <1> QED
    BY <1>2, <1>3

LEMMA NextInv == ASSUME RB!RingBufferAssumption, BufferInv, [RB!Next]_(RB!vars) PROVE BufferInv'
  <1>1. CASE (\E p \in RbProducer : RB!Produce(p)) \/ (\E c \in RbConsumer : RB!Consume(c))
    BY <1>1, BeginsCall, CallInv
  <1>2. ASSUME NEW t \in RB!Thread, RB!Work(t) \/ RB!SpuriousWakeup(t) PROVE BufferInv'
    BY <1>2, LockedInv, NotifyOneInv, SpuriousInv DEF RB!Work
  <1>3. CASE RB!Close
    BY <1>3, CloseInv
  <1>4. CASE RB!CloseNotifies
    BY <1>4, CloseNotifiesInv
  <1>5. CASE UNCHANGED RB!vars
    BY <1>5, StutterInv
  <1> QED
    BY <1>1, <1>2, <1>3, <1>4, <1>5 DEF RB!Next

LEMMA BufferInvariant == ASSUME RB!RingBufferAssumption PROVE RB!Spec => []BufferInv
  <1>1. RB!Init => BufferInv
    BY BufferInit
  <1>2. BufferInv /\ [RB!Next]_(RB!vars) => BufferInv'
    BY NextInv
  <1> QED
    BY <1>1, <1>2, PTL DEF RB!Spec

(***************************************************************************)
(* The theorems.                                                           *)
(***************************************************************************)

\* The variables are of their types, the buffer never exceeds its capacity, and a
\* thread waits exactly when a condition variable holds it (exo05_ringbuffer.rs:39-101).
THEOREM BufferTypes == ASSUME RB!RingBufferAssumption PROVE RB!Spec => []RB!TypeOK
  <1>1. BufferInv => RB!TypeOK
    BY DEF BufferInv
  <1> QED
    BY <1>1, BufferInvariant, PTL

\* Nothing that push accepted is left behind once all the threads have ended,
\* whenever close() came, if anybody pops (exo05_ringbuffer.rs:149-163).
THEOREM AlwaysDrained ==
  ASSUME RB!RingBufferAssumption, RbConsumer # {} PROVE RB!Spec => []RB!Drained
  <1>1. ASSUME BufferInv, RB!AllEnded PROVE rbQueue = <<>>
    <2>1. PICK c \in RbConsumer : TRUE
      OBVIOUS
    <2>2. rbLast[c] = RB!Closed
      BY <1>1 DEF RB!AllEnded, RB!Ended, RB!Thread, RB!RingBufferAssumption
    <2> QED
      BY <1>1, <2>2 DEF BufferInv
  <1>2. BufferInv => RB!Drained
    BY <1>1 DEF RB!Drained
  <1> QED
    BY <1>2, BufferInvariant, PTL

(***************************************************************************)
(* The refinement.                                                         *)
(***************************************************************************)

LEMMA LockedRefines ==
  ASSUME BufferInv, NEW t \in RB!Thread, RB!Locked(t)
  PROVE  RB!Fifo!Serve(t) \/ UNCHANGED RB!Fifo!vars
  <1>1. ASSUME NEW r, NEW l, RB!Return(t, r, l)
        PROVE  RB!Fifo!Return(t, r)
    BY <1>1 DEF RB!Return, RB!Fifo!Return, RB!NoCall, RB!Fifo!NoCall
  <1>2. ASSUME NEW c, RB!Wait(t, c)
        PROVE  UNCHANGED RB!Fifo!vars
    BY <1>2 DEF RB!Wait, RB!Fifo!vars
  <1>3. CASE RB!Push(t)
    BY <1>1, <1>2, <1>3
    DEF RB!Push, RB!Full, RB!Closed, RB!Fifo!Serve, RB!Fifo!Push, RB!Fifo!Refuse, RB!Fifo!Full, RB!Fifo!Closed
  <1>4. CASE RB!TryPush(t)
    BY <1>1, <1>4
    DEF RB!TryPush, RB!Full, RB!Closed, RB!Fifo!Serve, RB!Fifo!Push, RB!Fifo!Refuse, RB!Fifo!Full, RB!Fifo!Closed
  <1>5. CASE RB!Pop(t)
    BY <1>1, <1>2, <1>5
    DEF RB!Pop, RB!PopFront, RB!Closed, RB!Fifo!Serve, RB!Fifo!Pop, RB!Fifo!Refuse, RB!Fifo!Closed
  <1>6. CASE RB!TryPop(t)
    BY <1>1, <1>6
    DEF RB!TryPop, RB!PopFront, RB!Closed, RB!Fifo!Serve, RB!Fifo!Pop, RB!Fifo!Refuse, RB!Fifo!FindEmpty,
        RB!Fifo!Closed
  <1> QED
    BY <1>3, <1>4, <1>5, <1>6 DEF RB!Locked

LEMMA StepRefines ==
  ASSUME RB!RingBufferAssumption, BufferInv, [RB!Next]_(RB!vars)
  PROVE  [RB!Fifo!Next]_(RB!Fifo!vars)
  <1>1. CASE (\E p \in RbProducer : RB!Produce(p)) \/ (\E c \in RbConsumer : RB!Consume(c))
    <2>1. PICK t \in RB!Thread, c \in RB!Fifo!Call : RB!Call(t, c)
      BY <1>1, BeginsCall
    <2>2. rbCall[t] = RB!NoCall
      BY <2>1 DEF RB!Call, BufferInv, RB!TypeOK
    <2>3. RB!Fifo!Begin(t, c)
      BY <2>1, <2>2 DEF RB!Call, RB!Fifo!Begin, RB!NoCall, RB!Fifo!NoCall
    <2> QED
      BY <2>3 DEF RB!Fifo!Next
  <1>2. ASSUME NEW t \in RB!Thread, RB!Locked(t) PROVE [RB!Fifo!Next]_(RB!Fifo!vars)
    BY <1>2, LockedRefines DEF RB!Fifo!Next
  <1>3. ASSUME NEW t \in RB!Thread, RB!NotifyOne(t) \/ RB!SpuriousWakeup(t)
        PROVE  UNCHANGED RB!Fifo!vars
    BY <1>3 DEF RB!NotifyOne, RB!SpuriousWakeup, RB!Fifo!vars
  <1>4. CASE RB!Close
    BY <1>4 DEF RB!Close, RB!Fifo!Close, RB!Fifo!Next
  <1>5. CASE RB!CloseNotifies
    BY <1>5 DEF RB!CloseNotifies, RB!Fifo!vars
  <1>6. CASE UNCHANGED RB!vars
    BY <1>6 DEF RB!vars, RB!Fifo!vars
  <1> QED
    BY <1>1, <1>2, <1>3, <1>4, <1>5, <1>6 DEF RB!Next, RB!Work

\* The buffer, whose calls wait, are woken, also for no reason, and look again, does
\* what a bounded first-in first-out queue does whose calls take effect in one step:
\* the safety part of ImplementsFifo (exo05_ringbuffer.rs:39-101).
THEOREM ImplementsFifoSteps == ASSUME RB!RingBufferAssumption PROVE RB!Spec => RB!Fifo!Spec
  <1>1. RB!Init => RB!Fifo!Init
    BY DEF RB!Init, RB!Fifo!Init, RB!NoCall, RB!Fifo!NoCall
  <1>2. BufferInv /\ [RB!Next]_(RB!vars) => [RB!Fifo!Next]_(RB!Fifo!vars)
    BY StepRefines
  <1> QED
    BY <1>1, <1>2, BufferInvariant, PTL DEF RB!Spec, RB!Fifo!Spec

(***************************************************************************)
(* The bounded queue of the locks demo.                                    *)
(***************************************************************************)

\* The calls a thread of the demo makes.
QueueCall(t) ==
  IF t \in BqProducer THEN [op : {"push"}, val : BQ!Value] ELSE [op : {"pop"}]

QueueInv ==
  /\ bqQueue \in Seq(BQ!Value) /\ Len(bqQueue) =< BqCapacity
  /\ bqLeft \in [BQ!Thread -> Nat] /\ \A p \in BqProducer : bqLeft[p] =< BqPushes
  /\ DOMAIN bqCall = BQ!Thread
  /\ \A t \in BQ!Thread : bqCall[t] \in QueueCall(t) \cup {BQ!NoCall}
  /\ DOMAIN bqLast = BQ!Thread
  /\ \A t \in bqNotFull : t \in BqProducer /\ bqCall[t] # BQ!NoCall
  /\ \A t \in bqNotEmpty : t \in BQ!Popper /\ bqCall[t] # BQ!NoCall

\* A thread begins a call, and waits for nothing yet.
LEMMA QueueCallBegins ==
  ASSUME BQ!BoundedQueueAssumption, QueueInv, NEW t \in BQ!Thread,
         NEW c \in QueueCall(t), BQ!Call(t, c)
  PROVE  QueueInv'
  <1>1. /\ bqLeft[t] \in Nat /\ bqLeft[t] > 0 /\ bqLeft' = [bqLeft EXCEPT ![t] = bqLeft[t] - 1]
        /\ bqCall[t] = BQ!NoCall /\ bqCall' = [bqCall EXCEPT ![t] = c]
        /\ UNCHANGED <<bqQueue, bqLast, bqNotFull, bqNotEmpty>>
    BY DEF BQ!Call, QueueInv
  <1>2. bqLeft' \in [BQ!Thread -> Nat] /\ \A p \in BqProducer : bqLeft'[p] =< BqPushes
    <2>1. bqLeft[t] - 1 \in Nat /\ bqLeft[t] - 1 < bqLeft[t]
      BY <1>1
    <2>2. \A p \in BqProducer : p \in BQ!Thread /\ bqLeft[p] \in Nat /\ bqLeft[p] =< BqPushes
      BY DEF QueueInv, BQ!Thread
    <2>3. \A p \in BqProducer : bqLeft'[p] = IF p = t THEN bqLeft[t] - 1 ELSE bqLeft[p]
      BY <1>1, <2>2 DEF QueueInv
    <2> QED
      BY <1>1, <2>1, <2>2, <2>3 DEF QueueInv, BQ!BoundedQueueAssumption
  <1>3. \A u \in BQ!Thread : bqCall'[u] \in QueueCall(u) \cup {BQ!NoCall}
    BY <1>1 DEF QueueInv
  <1>4. t \notin bqNotFull \cup bqNotEmpty
    BY <1>1 DEF QueueInv
  <1> QED
    BY <1>1, <1>2, <1>3, <1>4 DEF QueueInv

\* A call returns, and those of R stay waiting.
LEMMA QueueCallReturns ==
  ASSUME QueueInv, NEW t \in BQ!Thread, NEW r, BQ!Return(t, r),
         bqQueue' \in Seq(BQ!Value), Len(bqQueue') =< BqCapacity, bqLeft' = bqLeft,
         bqNotFull' \subseteq bqNotFull, bqNotEmpty' \subseteq bqNotEmpty, BQ!Awake(t)
  PROVE  QueueInv'
  <1>1. bqCall' = [bqCall EXCEPT ![t] = BQ!NoCall] /\ bqLast' = [bqLast EXCEPT ![t] = r]
    BY DEF BQ!Return
  <1>2. \A u \in BQ!Thread : bqCall'[u] \in QueueCall(u) \cup {BQ!NoCall}
    BY <1>1 DEF QueueInv
  <1>3. \A u \in bqNotFull' \cup bqNotEmpty' : u # t /\ bqCall'[u] = bqCall[u]
    BY <1>1 DEF BQ!Awake, QueueInv
  <1> QED
    BY <1>1, <1>2, <1>3 DEF QueueInv

LEMMA QueueStep ==
  ASSUME BQ!BoundedQueueAssumption, QueueInv, [BQ!Next]_(BQ!vars)
  PROVE  QueueInv' /\ [BQ!Fifo!Next]_(BQ!Fifo!vars)
  <1>1. ASSUME NEW t \in BQ!Thread, NEW c \in QueueCall(t), BQ!Call(t, c)
        PROVE  QueueInv' /\ BQ!Fifo!Next
    <2>1. c \in BQ!Fifo!Call
      BY DEF QueueCall, BQ!Fifo!Call
    <2>2. BQ!Fifo!Begin(t, c)
      BY <1>1 DEF BQ!Call, BQ!Fifo!Begin, BQ!NoCall, BQ!Fifo!NoCall
    <2> QED
      BY <1>1, <2>1, <2>2, QueueCallBegins DEF BQ!Fifo!Next
  <1>2. CASE BQ!Begin
    <2>1. ASSUME NEW p \in BqProducer, BQ!Produce(p)
          PROVE  QueueInv' /\ BQ!Fifo!Next
      <3> DEFINE c == [op |-> "push", val |-> <<p, bqLeft[p]>>]
      <3>1. p \in BQ!Thread /\ BQ!Call(p, c)
        BY <2>1 DEF BQ!Produce, BQ!Thread
      <3>2. bqLeft[p] \in 1 .. BqPushes
        BY <3>1 DEF BQ!Call, QueueInv, BQ!BoundedQueueAssumption
      <3>3. c \in QueueCall(p)
        BY <3>2 DEF QueueCall, BQ!Value
      <3> QED
        BY <1>1, <3>1, <3>3
    <2>2. ASSUME NEW t \in BQ!Popper, BQ!Call(t, [op |-> "pop"])
          PROVE  QueueInv' /\ BQ!Fifo!Next
      <3>1. t \in BQ!Thread /\ [op |-> "pop"] \in QueueCall(t)
        BY DEF BQ!Thread, BQ!Popper, QueueCall, BQ!BoundedQueueAssumption
      <3> QED
        BY <1>1, <2>2, <3>1
    <2>3. CASE \E c \in BqConsumer : BQ!Consume(c)
      BY <2>2, <2>3 DEF BQ!Consume, BQ!Popper
    <2>4. CASE BQ!Vidange /\ bqQueue # <<>>
      BY <2>2, <2>4 DEF BQ!Vidange, BQ!Popper
    <2>5. CASE BQ!Vidange /\ bqQueue = <<>>
      <3>1. bqLeft' = [bqLeft EXCEPT ![BqDrain] = 0]
            /\ UNCHANGED <<bqQueue, bqCall, bqLast, bqNotFull, bqNotEmpty>>
        BY <2>5 DEF BQ!Vidange
      <3>2. BqDrain \in BQ!Thread /\ BqDrain \notin BqProducer
        BY DEF BQ!Thread, BQ!Popper, BQ!BoundedQueueAssumption
      <3>3. bqLeft' \in [BQ!Thread -> Nat] /\ \A p \in BqProducer : bqLeft'[p] = bqLeft[p]
        BY <3>1, <3>2 DEF QueueInv, BQ!Thread
      <3> QED
        BY <3>1, <3>3 DEF QueueInv, BQ!Fifo!vars
    <2> QED
      BY <1>2, <2>1, <2>3, <2>4, <2>5 DEF BQ!Begin
  <1>3. ASSUME NEW t \in BQ!Thread, BQ!Push(t)
        PROVE  QueueInv' /\ [BQ!Fifo!Next]_(BQ!Fifo!vars)
    <2>1. /\ t \in BqProducer /\ bqCall[t].op = "push" /\ bqCall[t].val \in BQ!Value
          /\ bqCall[t] # BQ!NoCall /\ BQ!Awake(t) /\ bqLeft' = bqLeft
      BY <1>3 DEF BQ!Push, QueueInv, QueueCall, BQ!NoCall
    <2>2. Len(bqQueue) \in Nat /\ Len(bqQueue) =< BqCapacity /\ BqCapacity \in Nat
      BY DEF QueueInv, BQ!BoundedQueueAssumption
    <2>3. CASE BQ!Full
      <3>1. bqNotFull' = bqNotFull \cup {t} /\ UNCHANGED <<bqQueue, bqCall, bqLast, bqNotEmpty>>
        BY <1>3, <2>3 DEF BQ!Push
      <3> QED
        BY <2>1, <3>1 DEF QueueInv, BQ!Fifo!vars
    <2>4. CASE ~ BQ!Full
      <3>1. /\ bqQueue' = Append(bqQueue, bqCall[t].val) /\ BQ!Return(t, <<"Ok">>)
            /\ bqNotFull' = bqNotFull /\ bqNotEmpty' \subseteq bqNotEmpty
        BY <1>3, <2>4 DEF BQ!Push, BQ!NotifyOne
      <3>2. bqQueue' \in Seq(BQ!Value) /\ Len(bqQueue') = Len(bqQueue) + 1
        BY <2>1, <3>1 DEF QueueInv
      <3>3. Len(bqQueue) < BqCapacity
        BY <2>2, <2>4 DEF BQ!Full
      <3>4. QueueInv'
        BY <2>1, <2>2, <3>1, <3>2, <3>3, QueueCallReturns
      <3>5. BQ!Fifo!Push(t)
        BY <2>1, <2>2, <3>1, <3>3
        DEF BQ!Fifo!Push, BQ!Fifo!Full, BQ!Return, BQ!Fifo!Return, BQ!NoCall, BQ!Fifo!NoCall
      <3> QED
        BY <3>4, <3>5 DEF BQ!Fifo!Next, BQ!Fifo!Serve
    <2> QED
      BY <2>3, <2>4
  <1>4. ASSUME NEW t \in BQ!Thread, BQ!Pop(t)
        PROVE  QueueInv' /\ [BQ!Fifo!Next]_(BQ!Fifo!vars)
    <2>1. /\ t \in BQ!Popper /\ bqCall[t].op = "pop"
          /\ bqCall[t] # BQ!NoCall /\ BQ!Awake(t) /\ bqLeft' = bqLeft
      BY <1>4 DEF BQ!Pop, BQ!Thread, QueueInv, QueueCall, BQ!NoCall
    <2>2. CASE bqQueue = <<>>
      <3>1. bqNotEmpty' = bqNotEmpty \cup {t} /\ UNCHANGED <<bqQueue, bqCall, bqLast, bqNotFull>>
        BY <1>4, <2>2 DEF BQ!Pop
      <3> QED
        BY <2>1, <3>1 DEF QueueInv, BQ!Fifo!vars
    <2>3. CASE bqQueue # <<>>
      <3>1. /\ bqQueue' = Tail(bqQueue) /\ BQ!Return(t, <<"Ok", Head(bqQueue)>>)
            /\ bqNotEmpty' = bqNotEmpty /\ bqNotFull' \subseteq bqNotFull
        BY <1>4, <2>3 DEF BQ!Pop, BQ!NotifyOne
      <3>2. bqQueue' \in Seq(BQ!Value) /\ Len(bqQueue') =< BqCapacity
        BY <2>3, <3>1 DEF QueueInv, BQ!BoundedQueueAssumption
      <3>3. QueueInv'
        BY <2>1, <3>1, <3>2, QueueCallReturns
      <3>4. BQ!Fifo!Pop(t)
        BY <2>1, <2>3, <3>1
        DEF BQ!Fifo!Pop, BQ!Return, BQ!Fifo!Return, BQ!NoCall, BQ!Fifo!NoCall
      <3> QED
        BY <3>3, <3>4 DEF BQ!Fifo!Next, BQ!Fifo!Serve
    <2> QED
      BY <2>2, <2>3
  <1>5. ASSUME NEW t \in BQ!Thread, BQ!SpuriousWakeup(t)
        PROVE  QueueInv' /\ UNCHANGED BQ!Fifo!vars
    BY <1>5 DEF BQ!SpuriousWakeup, QueueInv, BQ!Fifo!vars
  <1>6. CASE UNCHANGED BQ!vars
    BY <1>6 DEF BQ!vars, QueueInv, BQ!Fifo!vars
  <1> QED
    BY <1>2, <1>3, <1>4, <1>5, <1>6 DEF BQ!Next

\* A queue without close, whose calls wait for their condition and are woken also
\* for no reason, does what a bounded first-in first-out queue does, never holds more
\* than its capacity, and has waiting only those whose call may
\* (demo05_mutex_rwlock.rs:123-179): the safety part of its ImplementsFifo.
THEOREM LockedQueueIsFifo ==
  ASSUME BQ!BoundedQueueAssumption
  PROVE  BQ!Spec => []BQ!TypeOK /\ BQ!Fifo!Spec
  <1>1. BQ!Init => QueueInv /\ BQ!Fifo!Init
    BY DEF BQ!Init, QueueInv, BQ!Fifo!Init, BQ!NoCall, BQ!Fifo!NoCall,
           BQ!BoundedQueueAssumption, BQ!Thread
  <1>2. QueueInv /\ [BQ!Next]_(BQ!vars) => QueueInv' /\ [BQ!Fifo!Next]_(BQ!Fifo!vars)
    BY QueueStep
  <1>3. QueueInv => BQ!TypeOK
    BY DEF QueueInv, QueueCall, BQ!TypeOK, BQ!Thread, BQ!Popper, BQ!BoundedQueueAssumption
  <1> QED
    BY <1>1, <1>2, <1>3, PTL DEF BQ!Spec, BQ!Fifo!Spec

(***************************************************************************)
(* What is pushed and popped in the locks demo.                            *)
(***************************************************************************)

LEMMA CountsAsInLibrary ==
  ASSUME NEW S
  PROVE  BQ!Cardinality(S) = Cardinality(S) /\ (BQ!IsFiniteSet(S) <=> IsFiniteSet(S))
  BY DEF BQ!Cardinality, Cardinality, BQ!IsFiniteSet, IsFiniteSet

\* The calls that each thread has not ended.
Still == [t \in BQ!Thread |-> bqLeft[t] + (IF bqCall[t] = BQ!NoCall THEN 0 ELSE 1)]
Taken == IF bqLast[BqDrain] = <<>> THEN 0 ELSE 1

\* What has been pushed is in the queue or was popped; the last thread has not popped
\* until it has, and gives up once nothing can come.
DrainInv ==
  /\ Len(bqQueue) + SumOf(Still, BqProducer) + (Cardinality(BqConsumer) * BqPops + Taken)
       = Cardinality(BqProducer) * BqPushes + SumOf(Still, BqConsumer)
  /\ bqLeft[BqDrain] \in {0, 1}
  /\ bqLeft[BqDrain] = 1 => bqCall[BqDrain] = BQ!NoCall
  /\ bqLeft[BqDrain] = 1 \/ bqCall[BqDrain] # BQ!NoCall => bqLast[BqDrain] = <<>>
  /\ BQ!Ended(BqDrain) /\ bqLast[BqDrain] = <<>> => bqQueue = <<>> /\ BQ!Joined(BqProducer)

LEMMA StillNumbers ==
  ASSUME BQ!BoundedQueueAssumption, BQ!LeavesOne, QueueInv
  PROVE  /\ IsFiniteSet(BqProducer) /\ IsFiniteSet(BqConsumer)
         /\ \A t \in BQ!Thread : Still[t] \in Nat
         /\ SumOf(Still, BqProducer) \in Nat /\ SumOf(Still, BqConsumer) \in Nat
         /\ Cardinality(BqConsumer) * BqPops \in Nat
         /\ Cardinality(BqProducer) * BqPushes \in Nat
         /\ Len(bqQueue) \in Nat /\ Taken \in Nat
  <1>1. IsFiniteSet(BqProducer) /\ IsFiniteSet(BqConsumer)
    BY CountsAsInLibrary DEF BQ!LeavesOne
  <1>2. \A t \in BQ!Thread : Still[t] \in Nat
    BY DEF Still, QueueInv
  <1>3. BqProducer \subseteq BQ!Thread /\ BqConsumer \subseteq BQ!Thread
    BY DEF BQ!Thread, BQ!Popper
  <1>4. SumOf(Still, BqProducer) \in Nat /\ SumOf(Still, BqConsumer) \in Nat
    BY <1>1, <1>2, <1>3, SumOfNumbers
  <1>5. Cardinality(BqConsumer) \in Nat /\ Cardinality(BqProducer) \in Nat
    BY <1>1, FS_CardinalityType
  <1>6. Len(bqQueue) \in Nat /\ Taken \in Nat
    BY DEF QueueInv, Taken
  <1> QED
    BY <1>1, <1>2, <1>4, <1>5, <1>6 DEF BQ!BoundedQueueAssumption

\* A call begins: nothing ends.
LEMMA DrainCallBegins ==
  ASSUME BQ!BoundedQueueAssumption, QueueInv, DrainInv, NEW t \in BQ!Thread,
         NEW c \in QueueCall(t), BQ!Call(t, c)
  PROVE  DrainInv'
  <1>1. /\ bqLeft[t] \in Nat /\ bqLeft[t] > 0 /\ bqLeft' = [bqLeft EXCEPT ![t] = bqLeft[t] - 1]
        /\ bqCall[t] = BQ!NoCall /\ bqCall' = [bqCall EXCEPT ![t] = c]
        /\ UNCHANGED <<bqQueue, bqLast>>
    BY DEF BQ!Call, QueueInv
  <1>2. c # BQ!NoCall
    BY DEF QueueCall, BQ!NoCall
  <1>3. \A u \in BQ!Thread : /\ bqLeft'[u] = IF u = t THEN bqLeft[t] - 1 ELSE bqLeft[u]
                             /\ bqCall'[u] = IF u = t THEN c ELSE bqCall[u]
    BY <1>1 DEF QueueInv
  <1>4. ASSUME NEW u \in BQ!Thread PROVE Still'[u] = Still[u]
    <2>1. bqLeft[u] \in Nat
      BY DEF QueueInv
    <2> QED
      BY <1>1, <1>2, <1>3, <2>1 DEF Still
  <1>5. SumOf(Still, BqProducer)' = SumOf(Still, BqProducer)
        /\ SumOf(Still, BqConsumer)' = SumOf(Still, BqConsumer)
    <2>1. BqProducer \subseteq BQ!Thread /\ BqConsumer \subseteq BQ!Thread
      BY DEF BQ!Thread, BQ!Popper
    <2>2. (\A u \in BqProducer : Still'[u] = Still[u]) /\ \A u \in BqConsumer : Still'[u] = Still[u]
      BY <1>4, <2>1
    <2> QED
      BY <2>2, SumSame
  <1>6. BqDrain \in BQ!Thread /\ BqProducer \subseteq BQ!Thread
    BY DEF BQ!Thread, BQ!Popper
  <1>7. /\ bqLeft'[BqDrain] \in {0, 1}
        /\ bqLeft'[BqDrain] = 1 => bqCall'[BqDrain] = BQ!NoCall
        /\ bqLeft'[BqDrain] = 1 \/ bqCall'[BqDrain] # BQ!NoCall => bqLast'[BqDrain] = <<>>
    <2>1. CASE t = BqDrain
      BY <1>1, <1>3, <1>6, <2>1 DEF DrainInv
    <2>2. CASE t # BqDrain
      BY <1>1, <1>3, <1>6, <2>2 DEF DrainInv
    <2> QED
      BY <2>1, <2>2
  <1>8. ASSUME bqLeft'[BqDrain] = 0, bqCall'[BqDrain] = BQ!NoCall, bqLast'[BqDrain] = <<>>
        PROVE  bqQueue' = <<>> /\ BQ!Joined(BqProducer)'
    <2>1. t # BqDrain
      BY <1>2, <1>3, <1>6, <1>8
    <2>2. bqQueue = <<>> /\ \A p \in BqProducer : bqLeft[p] = 0 /\ bqCall[p] = BQ!NoCall
      BY <1>1, <1>3, <1>6, <1>8, <2>1 DEF DrainInv, BQ!Ended, BQ!Joined
    <2>3. t \notin BqProducer
      BY <1>1, <2>2
    <2> QED
      BY <1>1, <1>3, <1>6, <2>2, <2>3 DEF BQ!Ended, BQ!Joined
  <1> QED
    BY <1>1, <1>5, <1>7, <1>8 DEF DrainInv, Taken, BQ!Ended

\* A call of t ends: what is still to do of t and of nobody else is one less.
LEMMA StillReturns ==
  ASSUME QueueInv, NEW t \in BQ!Thread, bqCall[t] # BQ!NoCall,
         bqCall' = [bqCall EXCEPT ![t] = BQ!NoCall], bqLeft' = bqLeft,
         NEW D \in SUBSET BQ!Thread, IsFiniteSet(D)
  PROVE  SumOf(Still, D) = SumOf(Still, D)' + (IF t \in D THEN 1 ELSE 0)
  <1>1. \A u \in BQ!Thread : bqLeft[u] \in Nat /\ bqCall'[u] = IF u = t THEN BQ!NoCall ELSE bqCall[u]
    BY DEF QueueInv
  <1>2. /\ \A u \in BQ!Thread : Still'[u] \in Nat
        /\ Still[t] = Still'[t] + 1 /\ \A u \in BQ!Thread \ {t} : Still[u] = Still'[u]
    BY <1>1 DEF Still
  <1>3. SumOf(Still', D) \in Nat
    BY <1>2, SumOfNumbers
  <1>4. CASE t \in D
    <2>1. SumOf(Still, D) = SumOf(Still', D) + 1
      BY <1>2, <1>4, SumCounts
    <2> QED
      BY <1>4, <2>1
  <1>5. CASE t \notin D
    <2>1. SumOf(Still, D) = SumOf(Still', D)
      BY <1>2, <1>5, SumSame
    <2> QED
      BY <1>3, <1>5, <2>1
  <1> QED
    BY <1>4, <1>5

LEMMA DrainStep ==
  ASSUME BQ!BoundedQueueAssumption, BQ!LeavesOne, QueueInv, QueueInv', DrainInv,
         [BQ!Next]_(BQ!vars)
  PROVE  DrainInv'
  <1> DEFINE topush == SumOf(Still, BqProducer)
             topop == SumOf(Still, BqConsumer)
             supply == Cardinality(BqProducer) * BqPushes
             demand == Cardinality(BqConsumer) * BqPops
             len == Len(bqQueue)
             taken == Taken
  <1>1. /\ IsFiniteSet(BqProducer) /\ IsFiniteSet(BqConsumer)
        /\ BqProducer \in SUBSET BQ!Thread /\ BqConsumer \in SUBSET BQ!Thread
        /\ BqDrain \in BQ!Thread /\ BqDrain \notin BqProducer /\ BqDrain \notin BqConsumer
        /\ BqProducer \cap BqConsumer = {}
    BY StillNumbers DEF BQ!Thread, BQ!Popper, BQ!BoundedQueueAssumption
  <1>2. /\ topush \in Nat /\ topop \in Nat /\ supply \in Nat /\ demand \in Nat
        /\ len \in Nat /\ taken \in Nat /\ topush' \in Nat /\ topop' \in Nat
        /\ len' \in Nat /\ taken' \in Nat
    <2>1. topush' \in Nat /\ topop' \in Nat /\ len' \in Nat /\ taken' \in Nat
      <3>1. \A t \in BQ!Thread : Still'[t] \in Nat
        BY DEF Still, QueueInv
      <3>2. SumOf(Still', BqProducer) \in Nat /\ SumOf(Still', BqConsumer) \in Nat
        BY <1>1, <3>1, SumOfNumbers
      <3> QED
        BY <3>2 DEF QueueInv, Taken
    <2> QED
      BY <2>1, StillNumbers
  <1>3. len + topush + (demand + taken) = supply + topop
    BY DEF DrainInv
  <1> HIDE DEF topush, topop, supply, demand, len, taken
  <1>4. ASSUME NEW t \in BQ!Thread, BQ!Push(t)
        PROVE  DrainInv'
    <2>1. /\ t \in BqProducer /\ bqCall[t] # BQ!NoCall /\ bqLeft' = bqLeft
      BY <1>4 DEF BQ!Push, QueueInv, QueueCall, BQ!NoCall
    <2>2. CASE BQ!Full
      <3>1. UNCHANGED <<bqQueue, bqCall, bqLast, bqLeft>>
        BY <1>4, <2>2 DEF BQ!Push
      <3> QED
        BY <3>1 DEF DrainInv, Still, Taken, BQ!Ended, BQ!Joined
    <2>3. CASE ~ BQ!Full
      <3>1. /\ bqQueue' = Append(bqQueue, bqCall[t].val)
            /\ bqCall' = [bqCall EXCEPT ![t] = BQ!NoCall]
            /\ bqLast' = [bqLast EXCEPT ![t] = <<"Ok">>]
        BY <1>4, <2>3 DEF BQ!Push, BQ!Return
      <3>2. topush = topush' + 1 /\ topop = topop'
        <4>1. SumOf(Still, BqProducer) = SumOf(Still, BqProducer)' + (IF t \in BqProducer THEN 1 ELSE 0)
          BY <1>1, <2>1, <3>1, StillReturns, Zenon
        <4>2. SumOf(Still, BqConsumer) = SumOf(Still, BqConsumer)' + (IF t \in BqConsumer THEN 1 ELSE 0)
          BY <1>1, <2>1, <3>1, StillReturns, Zenon
        <4>3. t \in BqProducer /\ t \notin BqConsumer
          BY <1>1, <2>1
        <4> QED
          BY <1>2, <4>1, <4>2, <4>3 DEF topush, topop
      <3>3. len' = len + 1 /\ taken' = taken
        BY <1>1, <2>1, <3>1 DEF len, taken, Taken, QueueInv
      <3>4. len' + topush' + (demand + taken') = supply + topop'
        BY <1>2, <1>3, <3>2, <3>3
      <3>5. bqLast'[BqDrain] = bqLast[BqDrain] /\ bqCall'[BqDrain] = bqCall[BqDrain]
        BY <1>1, <2>1, <3>1 DEF QueueInv
      <3>6. ~ (BQ!Ended(BqDrain) /\ bqLast[BqDrain] = <<>>)
        BY <2>1 DEF DrainInv, BQ!Joined, BQ!Ended
      <3> QED
        BY <2>1, <3>4, <3>5, <3>6
        DEF DrainInv, BQ!Ended, topush, topop, supply, demand, len, taken
    <2> QED
      BY <2>2, <2>3
  <1>5. ASSUME NEW t \in BQ!Thread, BQ!Pop(t)
        PROVE  DrainInv'
    <2>1. /\ t \in BqConsumer \cup {BqDrain} /\ bqCall[t] # BQ!NoCall /\ bqLeft' = bqLeft
      BY <1>5 DEF BQ!Pop, BQ!Thread, BQ!Popper, QueueInv, QueueCall, BQ!NoCall
    <2>2. CASE bqQueue = <<>>
      <3>1. UNCHANGED <<bqQueue, bqCall, bqLast, bqLeft>>
        BY <1>5, <2>2 DEF BQ!Pop
      <3> QED
        BY <3>1 DEF DrainInv, Still, Taken, BQ!Ended, BQ!Joined
    <2>3. CASE bqQueue # <<>>
      <3>1. /\ bqQueue' = Tail(bqQueue)
            /\ bqCall' = [bqCall EXCEPT ![t] = BQ!NoCall]
            /\ bqLast' = [bqLast EXCEPT ![t] = <<"Ok", Head(bqQueue)>>]
        BY <1>5, <2>3 DEF BQ!Pop, BQ!Return
      <3>2. topush = topush' /\ topop = topop' + (IF t \in BqConsumer THEN 1 ELSE 0)
        <4>1. SumOf(Still, BqProducer) = SumOf(Still, BqProducer)' + (IF t \in BqProducer THEN 1 ELSE 0)
          BY <1>1, <2>1, <3>1, StillReturns, Zenon
        <4>2. SumOf(Still, BqConsumer) = SumOf(Still, BqConsumer)' + (IF t \in BqConsumer THEN 1 ELSE 0)
          BY <1>1, <2>1, <3>1, StillReturns, Zenon
        <4>3. t \notin BqProducer
          BY <1>1, <2>1
        <4> QED
          BY <1>2, <4>1, <4>2, <4>3 DEF topush, topop
      <3>3. len = len' + 1
        BY <2>3, <3>1 DEF len, QueueInv
      <3>4. ~ (BQ!Ended(BqDrain) /\ bqLast[BqDrain] = <<>>)
        BY <2>3 DEF DrainInv
      <3>5. CASE t \in BqConsumer
        <4>1. bqLast'[BqDrain] = bqLast[BqDrain] /\ bqCall'[BqDrain] = bqCall[BqDrain]
          BY <1>1, <3>1, <3>5 DEF QueueInv
        <4>2. taken' = taken
          BY <4>1 DEF taken, Taken
        <4>3. len' + topush' + (demand + taken') = supply + topop'
          BY <1>2, <1>3, <3>2, <3>3, <3>5, <4>2
        <4> QED
          BY <2>1, <3>4, <4>1, <4>3
          DEF DrainInv, BQ!Ended, topush, topop, supply, demand, len, taken
      <3>6. CASE t = BqDrain
        <4>1. bqLast'[BqDrain] # <<>> /\ bqCall'[BqDrain] = BQ!NoCall /\ bqLast[BqDrain] = <<>>
          BY <1>1, <2>1, <3>1, <3>6 DEF QueueInv, DrainInv
        <4>2. taken' = 1 /\ taken = 0
          BY <4>1 DEF taken, Taken
        <4>3. len' + topush' + (demand + taken') = supply + topop'
          BY <1>1, <1>2, <1>3, <3>2, <3>3, <3>6, <4>2
        <4>4. bqLeft[BqDrain] # 1
          BY <2>1, <3>6 DEF DrainInv
        <4> QED
          BY <2>1, <4>1, <4>3, <4>4
          DEF DrainInv, BQ!Ended, topush, topop, supply, demand, len, taken
      <3> QED
        BY <2>1, <3>5, <3>6
    <2> QED
      BY <2>2, <2>3
  <1>6. CASE BQ!Begin
    <2>1. ASSUME NEW p \in BqProducer, BQ!Produce(p)
          PROVE  DrainInv'
      <3> DEFINE c == [op |-> "push", val |-> <<p, bqLeft[p]>>]
      <3>1. p \in BQ!Thread /\ BQ!Call(p, c)
        BY <2>1 DEF BQ!Produce, BQ!Thread
      <3>2. bqLeft[p] \in 1 .. BqPushes
        BY <3>1 DEF BQ!Call, QueueInv, BQ!BoundedQueueAssumption
      <3>3. c \in QueueCall(p)
        BY <3>2 DEF QueueCall, BQ!Value
      <3> QED
        BY <3>1, <3>3, DrainCallBegins
    <2>2. ASSUME NEW t \in BQ!Popper, BQ!Call(t, [op |-> "pop"])
          PROVE  DrainInv'
      <3>1. t \in BQ!Thread /\ [op |-> "pop"] \in QueueCall(t)
        BY DEF BQ!Thread, BQ!Popper, QueueCall, BQ!BoundedQueueAssumption
      <3> QED
        BY <2>2, <3>1, DrainCallBegins
    <2>3. CASE \E c \in BqConsumer : BQ!Consume(c)
      BY <2>2, <2>3 DEF BQ!Consume, BQ!Popper
    <2>4. CASE BQ!Vidange /\ bqQueue # <<>>
      BY <2>2, <2>4 DEF BQ!Vidange, BQ!Popper
    <2>5. CASE BQ!Vidange /\ bqQueue = <<>>
      <3>1. /\ bqLeft[BqDrain] > 0 /\ bqLeft' = [bqLeft EXCEPT ![BqDrain] = 0]
            /\ UNCHANGED <<bqQueue, bqCall, bqLast>> /\ BQ!Joined(BqProducer)
        BY <2>5 DEF BQ!Vidange
      <3>2. \A u \in BqProducer \cup BqConsumer : bqLeft'[u] = bqLeft[u] /\ Still'[u] = Still[u]
        BY <1>1, <3>1 DEF Still, QueueInv
      <3>3. topush' = topush /\ topop' = topop /\ len' = len /\ taken' = taken
        BY <3>1, <3>2, SumSame DEF topush, topop, len, taken, Taken
      <3>4. bqLeft[BqDrain] = 1 /\ bqLeft'[BqDrain] = 0
        BY <1>1, <3>1 DEF DrainInv, QueueInv
      <3>5. BQ!Joined(BqProducer)'
        BY <1>1, <3>1, <3>2 DEF BQ!Joined, BQ!Ended
      <3>6. len' + topush' + (demand + taken') = supply + topop'
        BY <1>3, <3>3
      <3> QED
        BY <2>5, <3>1, <3>4, <3>5, <3>6
        DEF DrainInv, topush, topop, supply, demand, len, taken
    <2> QED
      BY <1>6, <2>1, <2>3, <2>4, <2>5 DEF BQ!Begin
  <1>7. CASE (\E t \in BQ!Thread : BQ!SpuriousWakeup(t)) \/ UNCHANGED BQ!vars
    <2>1. UNCHANGED <<bqQueue, bqCall, bqLast, bqLeft>>
      BY <1>7 DEF BQ!SpuriousWakeup, BQ!vars
    <2> QED
      BY <2>1 DEF DrainInv, Still, Taken, BQ!Ended, BQ!Joined
  <1> QED
    BY <1>4, <1>5, <1>6, <1>7 DEF BQ!Next

\* If the consumers leave at most one value, the thread that looks before it pops takes
\* it: all the threads of the demo end with an empty queue
\* (demo05_mutex_rwlock.rs:250-301).
THEOREM QueueEndsEmpty ==
  ASSUME BQ!BoundedQueueAssumption, BQ!LeavesOne
  PROVE  BQ!Spec => []BQ!EndsEmpty
  <1>1. BQ!Init => QueueInv /\ DrainInv
    <2> SUFFICES ASSUME BQ!Init
                 PROVE  QueueInv /\ DrainInv
      OBVIOUS
    <2>1. QueueInv
      BY DEF BQ!Init, QueueInv, BQ!NoCall, BQ!BoundedQueueAssumption, BQ!Thread
    <2>2. /\ BqDrain \in BQ!Thread /\ BqDrain \notin BqProducer /\ BqDrain \notin BqConsumer
          /\ BqProducer \subseteq BQ!Thread /\ BqConsumer \subseteq BQ!Thread
          /\ BqProducer \cap BqConsumer = {} /\ BqPushes \in Nat /\ BqPops \in Nat
      BY DEF BQ!Thread, BQ!Popper, BQ!BoundedQueueAssumption
    <2>3. (\A p \in BqProducer : Still[p] = [x \in BqProducer |-> BqPushes][p])
          /\ \A c \in BqConsumer : Still[c] = [x \in BqConsumer |-> BqPops][c]
      BY <2>2 DEF BQ!Init, Still
    <2>4. /\ SumOf(Still, BqProducer) = Cardinality(BqProducer) * BqPushes
          /\ SumOf(Still, BqConsumer) = Cardinality(BqConsumer) * BqPops
      BY <2>1, <2>2, <2>3, SumSame, SumOfEqual, StillNumbers
    <2>5. Taken = 0 /\ Len(bqQueue) = 0 /\ bqLeft[BqDrain] = 1 /\ bqCall[BqDrain] = BQ!NoCall
          /\ bqLast[BqDrain] = <<>>
      BY <2>2 DEF BQ!Init, Taken
    <2>6. DrainInv
      BY <2>1, <2>4, <2>5, StillNumbers DEF DrainInv, BQ!Ended
    <2> QED
      BY <2>1, <2>6
  <1>2. QueueInv /\ DrainInv /\ [BQ!Next]_(BQ!vars) => QueueInv' /\ DrainInv'
    BY QueueStep, DrainStep
  <1>3. QueueInv /\ DrainInv => BQ!EndsEmpty
    <2> SUFFICES ASSUME QueueInv, DrainInv, BQ!AllEnded
                 PROVE  bqQueue = <<>>
      BY DEF BQ!EndsEmpty
    <2> DEFINE supply == Cardinality(BqProducer) * BqPushes
               demand == Cardinality(BqConsumer) * BqPops
    <2>1. \A t \in BQ!Thread : bqLeft[t] = 0 /\ bqCall[t] = BQ!NoCall
      BY DEF BQ!AllEnded, BQ!Joined, BQ!Ended
    <2>2. BqDrain \in BQ!Thread /\ BqProducer \subseteq BQ!Thread /\ BqConsumer \subseteq BQ!Thread
      BY DEF BQ!Thread, BQ!Popper
    <2>3. CASE bqLast[BqDrain] = <<>>
      BY <2>1, <2>2, <2>3 DEF DrainInv, BQ!Ended
    <2>4. CASE bqLast[BqDrain] # <<>>
      <3>1. (\A p \in BqProducer : Still[p] = [x \in BqProducer |-> 0][p])
            /\ \A c \in BqConsumer : Still[c] = [x \in BqConsumer |-> 0][c]
        BY <2>1, <2>2 DEF Still
      <3>2. SumOf(Still, BqProducer) = 0 /\ SumOf(Still, BqConsumer) = 0
        BY <3>1, SumSame, SumOfZeros, StillNumbers
      <3>3. Len(bqQueue) + (demand + 1) = supply
        BY <2>4, <3>2, StillNumbers DEF DrainInv, Taken
      <3>4. demand \in Nat /\ supply \in Nat /\ Len(bqQueue) \in Nat /\ supply =< demand + 1
        BY StillNumbers, CountsAsInLibrary DEF BQ!LeavesOne
      <3> HIDE DEF supply, demand
      <3>5. Len(bqQueue) = 0
        BY <3>3, <3>4
      <3> QED
        BY <3>5 DEF QueueInv
    <2> QED
      BY <2>3, <2>4
  <1> QED
    BY <1>1, <1>2, <1>3, PTL DEF BQ!Spec

(***************************************************************************)
(* The task dispatcher.                                                    *)
(***************************************************************************)

Ids == 0 .. DI!Total - 1
Working == {w \in DiWorker : diPc[w] = "work"}

DispatchInv ==
  /\ diCapacity \in Nat /\ diQueue \in Seq(Ids)
  /\ diCapacity # DI!Unbounded => Len(diQueue) =< diCapacity
  /\ diStats \in [DI!Kind -> Nat] /\ diDropped \in Nat
  /\ diSent \in [DiProducer -> 0 .. DiPerProducer]
  /\ diPc \in [DiWorker -> {"pop", "work", "flag", "gone"}]
  /\ DOMAIN diTask = DiWorker /\ \A w \in DiWorker : diPc[w] = "work" <=> diTask[w] # <<>>
  /\ diRunning \/ DI!Submitted = DI!Total
  /\ DI!CountedOnce
  /\ diLooked \in [DiWorker -> Nat]
  /\ \A w \in DiWorker : diLooked[w] + Len(diQueue) =< DI!Submitted

LEMMA SumOverIs ==
  ASSUME NEW f, NEW D, DOMAIN f = D
  PROVE  DI!SumOver(f) = SumOf(f, D)
  BY DEF DI!SumOver, DI!FoldSet, DI!MapThenFoldSet, SumOf, FoldSet, MapThenFoldSet

LEMMA SetsAsInLibrary ==
  ASSUME NEW S
  PROVE  /\ DI!Cardinality(S) = Cardinality(S) /\ (DI!IsFiniteSet(S) <=> IsFiniteSet(S))
         /\ DI!Max(S) = Max(S)
  BY DEF DI!Cardinality, Cardinality, DI!IsFiniteSet, IsFiniteSet, DI!Max, Max

LEMMA FiniteKinds ==
  ASSUME DI!DispatcherAssumption
  PROVE  /\ IsFiniteSet(DiProducer) /\ IsFiniteSet(DiWorker) /\ IsFiniteSet(DI!Kind)
         /\ DiPerProducer \in Nat /\ DI!Total \in Nat
         /\ DI!Total = Cardinality(DiProducer) * DiPerProducer
         /\ \E n \in Nat : DiProducer = 0 .. n - 1 /\ Cardinality(DiProducer) = n
  <1>1. PICK n \in Nat : DiProducer = 0 .. n - 1
    <2>1. IsFiniteSet(DiProducer) /\ DiProducer = 0 .. Cardinality(DiProducer) - 1
      BY SetsAsInLibrary DEF DI!DispatcherAssumption
    <2> QED
      BY <2>1, FS_CardinalityType
  <1>2. IsFiniteSet(DiProducer) /\ Cardinality(DiProducer) = n
    BY <1>1, FS_Interval
  <1>3. IsFiniteSet(DI!Kind)
    <2>1. DI!Kind = ({"parse"} \cup {"metrique"}) \cup {"alerte"}
      BY DEF DI!Kind
    <2>2. IsFiniteSet({"parse"} \cup {"metrique"})
      BY FS_Singleton, FS_AddElement
    <2> QED
      BY <2>1, <2>2, FS_AddElement
  <1>4. DiPerProducer \in Nat /\ IsFiniteSet(DiWorker)
    BY SetsAsInLibrary DEF DI!DispatcherAssumption
  <1>5. DI!Total = n * DiPerProducer
    BY <1>2, SetsAsInLibrary DEF DI!Total
  <1> QED
    BY <1>1, <1>2, <1>3, <1>4, <1>5

LEMMA SubmittedFits ==
  ASSUME DI!DispatcherAssumption, NEW f \in [DiProducer -> 0 .. DiPerProducer]
  PROVE  DI!SumOver(f) \in Nat /\ DI!SumOver(f) =< DI!Total
  <1>1. f \in [DiProducer -> Nat] /\ \A p \in DiProducer : f[p] =< DiPerProducer
    <2>1. DiPerProducer \in Nat
      BY FiniteKinds
    <2> QED
      BY <2>1
  <1>2. DI!SumOver(f) = SumOf(f, DiProducer)
    BY SumOverIs
  <1> QED
    BY <1>1, <1>2, FiniteKinds, SumInNat, SumAtMost

\* The number of a task.
LEMMA IdIs ==
  ASSUME DI!DispatcherAssumption, NEW p \in DiProducer, NEW i \in 0 .. DiPerProducer - 1
  PROVE  DI!Id(p, i) \in Ids
  <1>1. PICK n \in Nat : DiProducer = 0 .. n - 1 /\ DI!Total = n * DiPerProducer
    BY FiniteKinds
  <1>2. p \in Nat /\ n - 1 - p \in Nat /\ DiPerProducer \in Nat /\ i \in Nat
    BY <1>1, FiniteKinds
  <1> DEFINE k == n - 1 - p
  <1>3. n * DiPerProducer = p * DiPerProducer + DiPerProducer + k * DiPerProducer
    BY <1>2
  <1>4. p * DiPerProducer \in Nat /\ k * DiPerProducer \in Nat
    BY <1>2
  <1>5. p * DiPerProducer + i >= 0 /\ p * DiPerProducer + i < n * DiPerProducer
    BY <1>2, <1>3, <1>4
  <1> QED
    BY <1>1, <1>2, <1>4, <1>5 DEF DI!Id, Ids

LEMMA KindIs == ASSUME NEW x PROVE DI!KindOf(x) \in DI!Kind
  BY DEF DI!KindOf, DI!Kind

LEMMA DispatchStep ==
  ASSUME DI!DispatcherAssumption, DispatchInv, [DI!Next]_(DI!vars)
  PROVE  DispatchInv'
  <1> DEFINE total == DI!Total
             submitted == DI!Submitted
             counted == DI!SumOver(diStats)
             working == Cardinality(Working)
             n == Len(diQueue)
  <1>1. /\ submitted \in Nat /\ submitted =< total /\ total \in Nat
        /\ counted \in Nat /\ working \in Nat /\ IsFiniteSet(Working) /\ n \in Nat
        /\ submitted = counted + diDropped + n + working
    <2>1. submitted \in Nat /\ submitted =< total /\ total \in Nat
      BY SubmittedFits, FiniteKinds DEF DI!Submitted, DispatchInv
    <2>2. counted \in Nat
      <3>1. DI!SumOver(diStats) = SumOf(diStats, DI!Kind)
        BY SumOverIs DEF DispatchInv
      <3> QED
        BY <3>1, FiniteKinds, SumInNat DEF DispatchInv
    <2>3. IsFiniteSet(Working)
      BY FiniteKinds, FS_Subset DEF Working
    <2>4. submitted = counted + diDropped + n + DI!Cardinality(Working)
      BY DEF DispatchInv, DI!CountedOnce, Working
    <2> QED
      BY <2>1, <2>2, <2>3, <2>4, FS_CardinalityType, SetsAsInLibrary DEF DispatchInv
  <1>2. ASSUME DI!Submitted' = DI!SumOver(diStats)' + diDropped' + Len(diQueue)' + Cardinality(Working')
        PROVE  DI!CountedOnce'
    BY <1>2, SetsAsInLibrary DEF DI!CountedOnce, Working
  <1>3. ASSUME NEW p \in DiProducer, DI!Submit(p)
        PROVE  DispatchInv'
    <2>1. diSent[p] \in 0 .. DiPerProducer - 1 /\ diSent[p] \in Nat
      BY <1>3, FiniteKinds DEF DI!Submit, DI!Full, DispatchInv
    <2>2. diSent' = [diSent EXCEPT ![p] = diSent[p] + 1]
      BY <1>3 DEF DI!Submit, DI!Full
    <2>3. diSent' \in [DiProducer -> 0 .. DiPerProducer]
      BY <2>1, <2>2, FiniteKinds DEF DispatchInv
    <2>4. DI!Submitted' = submitted + 1
      <3>1. diSent \in [DiProducer -> Nat] /\ diSent' \in [DiProducer -> Nat]
        BY <2>3, FiniteKinds DEF DispatchInv
      <3>2. SumOf(diSent', DiProducer) = SumOf(diSent, DiProducer) + 1
        BY <2>2, <3>1, FiniteKinds, SumCountsOn, Zenon
      <3>3. DI!SumOver(diSent') = SumOf(diSent', DiProducer) /\ DI!SumOver(diSent) = SumOf(diSent, DiProducer)
        BY <3>1, SumOverIs
      <3> QED
        BY <3>2, <3>3 DEF DI!Submitted
    <2>5a. diDropped \in Nat
      BY DEF DispatchInv
    <2>5. DI!Submitted' =< total
      BY <2>3, SubmittedFits DEF DI!Submitted
    <2>6. /\ UNCHANGED <<diCapacity, diRunning, diStats, diPc, diTask, diLooked>>
          /\ Working' = Working
      BY <1>3 DEF DI!Submit, DI!Full, Working
    <2>6a. DI!SumOver(diStats)' = counted
      BY <2>6
    <2>7. \/ diDropped' = diDropped + 1 /\ diQueue' = diQueue
          \/ /\ diDropped' = diDropped /\ diQueue' = Append(diQueue, DI!Id(p, diSent[p]))
             /\ ~ (diCapacity # DI!Unbounded /\ Len(diQueue) = diCapacity)
      BY <1>3 DEF DI!Submit, DI!Full
    <2>8. /\ diQueue' \in Seq(Ids) /\ diDropped' \in Nat /\ diDropped' + Len(diQueue') = diDropped + n + 1
          /\ Len(diQueue') =< n + 1
          /\ diCapacity # DI!Unbounded => Len(diQueue') =< diCapacity
      <3>1. DI!Id(p, diSent[p]) \in Ids
        BY <2>1, IdIs
      <3>2. diDropped \in Nat /\ diQueue \in Seq(Ids) /\ diCapacity \in Nat
            /\ (diCapacity # DI!Unbounded => n =< diCapacity)
        BY DEF DispatchInv
      <3>3. CASE diDropped' = diDropped + 1 /\ diQueue' = diQueue
        BY <1>1, <3>2, <3>3
      <3>4. CASE /\ diDropped' = diDropped /\ diQueue' = Append(diQueue, DI!Id(p, diSent[p]))
                 /\ ~ (diCapacity # DI!Unbounded /\ n = diCapacity)
        <4>1. diQueue' \in Seq(Ids) /\ Len(diQueue') = n + 1
          BY <3>1, <3>2, <3>4
        <4> HIDE DEF n
        <4>2. diCapacity # DI!Unbounded => n + 1 =< diCapacity
          BY <1>1, <3>2, <3>4
        <4> QED
          BY <1>1, <3>2, <3>4, <4>1, <4>2
      <3> QED
        BY <2>7, <3>3, <3>4
    <2>9. diRunning => diRunning'
      BY <2>6
    <2>10. diRunning' \/ DI!Submitted' = total
      BY <1>1, <2>4, <2>5, <2>6 DEF DispatchInv
    <2>11. DI!CountedOnce'
      <3>1. Cardinality(Working') = working
        BY <2>6
      <3>2. Len(diQueue') \in Nat
        BY <2>8
      <3> DEFINE a == DI!Submitted'
                 b == DI!SumOver(diStats)'
                 e == Cardinality(Working')
                 m == Len(diQueue')
      <3>3. a = submitted + 1 /\ b = counted /\ e = working /\ diDropped' + m = diDropped + n + 1
        BY <2>4, <2>6a, <2>8, <3>1
      <3>4. diDropped' \in Nat /\ m \in Nat
        BY <2>8, <3>2
      <3> DEFINE d == diDropped'
      <3>d. diDropped' \in Nat /\ d = diDropped'
        BY <3>4
      <3> HIDE DEF a, b, e, m, d, submitted, counted, working, n
      <3>s. submitted = counted + diDropped + n + working
        BY <1>1
      <3>t. counted \in Nat /\ working \in Nat /\ n \in Nat /\ m \in Nat /\ d \in Nat
        BY <1>1, <3>4, <3>d
      <3>u. a = counted + diDropped + n + working + 1 /\ d + m = diDropped + n + 1
        BY <3>3, <3>d, <3>s
      <3>v. a = counted + d + m + working
        BY <2>5a, <3>t, <3>u
      <3>5. a = b + diDropped' + m + e
        BY <3>3, <3>d, <3>v
      <3> QED
        BY <1>2, <3>5 DEF a, b, e, m
    <2>12. \A w \in DiWorker : diLooked'[w] + Len(diQueue') =< DI!Submitted'
      <3>1. \A w \in DiWorker : diLooked[w] \in Nat /\ diLooked[w] + n =< submitted
        BY DEF DispatchInv
      <3> QED
        BY <1>1, <2>4, <2>6, <2>8, <3>1
    <2> QED
      BY <2>3, <2>6, <2>8, <2>10, <2>11, <2>12 DEF DispatchInv
  <1>4. CASE DI!Stop
    <2>1. /\ DI!Submitted = total /\ DI!Submitted' = DI!Submitted /\ Working' = Working
          /\ UNCHANGED <<diCapacity, diQueue, diStats, diDropped, diSent, diPc, diTask, diLooked>>
      BY <1>4 DEF DI!Stop, DI!Submitted, Working
    <2>2. DI!CountedOnce'
      BY <2>1 DEF DispatchInv, DI!CountedOnce
    <2> QED
      BY <2>1, <2>2 DEF DispatchInv
  <1>5. ASSUME NEW w \in DiWorker, DI!Take(w)
        PROVE  DispatchInv'
    <2>1. /\ diPc[w] = "pop" /\ diQueue # <<>> /\ diQueue' = Tail(diQueue)
          /\ diTask' = [diTask EXCEPT ![w] = <<Head(diQueue)>>]
          /\ diPc' = [diPc EXCEPT ![w] = "work"]
          /\ UNCHANGED <<diCapacity, diRunning, diStats, diDropped, diSent, diLooked>>
          /\ DI!Submitted' = submitted
      BY <1>5 DEF DI!Take, DI!Submitted
    <2>2. diQueue' \in Seq(Ids) /\ Len(diQueue') = n - 1
      BY <2>1 DEF DispatchInv
    <2>3. Working' = Working \cup {w} /\ w \notin Working
      BY <2>1 DEF Working, DispatchInv
    <2>4. Cardinality(Working') = working + 1
      BY <1>1, <2>3, FS_AddElement
    <2>5. DI!CountedOnce'
      BY <1>1, <1>2, <2>1, <2>2, <2>4 DEF DispatchInv
    <2>6. \A u \in DiWorker : diLooked'[u] + Len(diQueue') =< DI!Submitted'
      <3>1. \A u \in DiWorker : diLooked[u] \in Nat /\ diLooked[u] + n =< submitted
        BY DEF DispatchInv
      <3> QED
        BY <1>1, <2>1, <2>2, <3>1
    <2>7. diCapacity' # DI!Unbounded => Len(diQueue') =< diCapacity'
      BY <1>1, <2>1, <2>2 DEF DispatchInv
    <2>8. /\ diPc' \in [DiWorker -> {"pop", "work", "flag", "gone"}] /\ DOMAIN diTask' = DiWorker
          /\ \A u \in DiWorker : diPc'[u] = "work" <=> diTask'[u] # <<>>
      BY <2>1 DEF DispatchInv
    <2> QED
      BY <2>1, <2>2, <2>5, <2>6, <2>7, <2>8 DEF DispatchInv
  <1>6. ASSUME NEW w \in DiWorker, DI!FindEmpty(w)
        PROVE  DispatchInv'
    <2>1. /\ diPc[w] = "pop" /\ n = 0
          /\ diLooked' = [diLooked EXCEPT ![w] = submitted]
          /\ diPc' = [diPc EXCEPT ![w] = "flag"]
          /\ UNCHANGED <<diCapacity, diQueue, diRunning, diStats, diDropped, diSent, diTask>>
          /\ DI!Submitted' = submitted
      BY <1>6 DEF DI!FindEmpty, DI!Submitted
    <2>2. Working' = Working
      BY <2>1 DEF Working, DispatchInv
    <2>3. DI!CountedOnce'
      BY <1>1, <1>2, <2>1, <2>2
    <2>4. diLooked' \in [DiWorker -> Nat] /\ \A u \in DiWorker : diLooked'[u] + Len(diQueue') =< DI!Submitted'
      BY <1>1, <2>1 DEF DispatchInv
    <2>5. diPc' \in [DiWorker -> {"pop", "work", "flag", "gone"}]
          /\ \A u \in DiWorker : diPc'[u] = "work" <=> diTask'[u] # <<>>
      BY <2>1 DEF DispatchInv
    <2> QED
      BY <2>1, <2>3, <2>4, <2>5 DEF DispatchInv
  <1>7. ASSUME NEW w \in DiWorker, DI!Count(w)
        PROVE  DispatchInv'
    <2> DEFINE k == DI!KindOf(diTask[w][1])
    <2>1. /\ diPc[w] = "work" /\ diStats' = [diStats EXCEPT ![k] = diStats[k] + 1]
          /\ diTask' = [diTask EXCEPT ![w] = <<>>]
          /\ diPc' = [diPc EXCEPT ![w] = "pop"]
          /\ UNCHANGED <<diCapacity, diQueue, diRunning, diDropped, diSent, diLooked>>
          /\ DI!Submitted' = submitted
      BY <1>7 DEF DI!Count, DI!Submitted
    <2>2. k \in DI!Kind
      BY KindIs
    <2> HIDE DEF k
    <2>3. diStats' \in [DI!Kind -> Nat]
      BY <2>1, <2>2 DEF DispatchInv
    <2>4. DI!SumOver(diStats)' = counted + 1
      <3>1. SumOf(diStats', DI!Kind) = SumOf(diStats, DI!Kind) + 1
        <4>1. diStats \in [DI!Kind -> Nat]
          BY DEF DispatchInv
        <4> QED
          BY <2>1, <2>2, <4>1, FiniteKinds, SumCountsOn, Zenon
      <3>2. DI!SumOver(diStats') = SumOf(diStats', DI!Kind) /\ DI!SumOver(diStats) = SumOf(diStats, DI!Kind)
        BY <2>3, SumOverIs DEF DispatchInv
      <3> QED
        BY <3>1, <3>2
    <2>5. Working' = Working \ {w} /\ w \in Working
      BY <2>1 DEF Working, DispatchInv
    <2>6. Cardinality(Working') = working - 1
      BY <1>1, <2>5, FS_RemoveElement
    <2>7. DI!CountedOnce'
      BY <1>1, <1>2, <2>1, <2>4, <2>6 DEF DispatchInv
    <2>8. /\ diPc' \in [DiWorker -> {"pop", "work", "flag", "gone"}] /\ DOMAIN diTask' = DiWorker
          /\ \A u \in DiWorker : diPc'[u] = "work" <=> diTask'[u] # <<>>
      BY <2>1 DEF DispatchInv
    <2> QED
      BY <2>1, <2>3, <2>7, <2>8 DEF DispatchInv
  <1>8. ASSUME NEW w \in DiWorker, DI!LookAtFlag(w)
        PROVE  DispatchInv'
    <2>1. /\ diPc[w] = "flag"
          /\ diPc' = [diPc EXCEPT ![w] = IF diRunning THEN "pop" ELSE "gone"]
          /\ UNCHANGED <<diCapacity, diQueue, diRunning, diStats, diDropped, diSent, diTask, diLooked>>
          /\ DI!Submitted' = submitted
      BY <1>8 DEF DI!LookAtFlag, DI!Submitted
    <2>2. Working' = Working
      BY <2>1 DEF Working, DispatchInv
    <2>3. DI!CountedOnce'
      BY <1>1, <1>2, <2>1, <2>2
    <2>5. diPc' \in [DiWorker -> {"pop", "work", "flag", "gone"}]
          /\ \A u \in DiWorker : diPc'[u] = "work" <=> diTask'[u] # <<>>
      BY <2>1 DEF DispatchInv
    <2> QED
      BY <2>1, <2>3, <2>5 DEF DispatchInv
  <1>9. CASE UNCHANGED DI!vars
    <2>1. DI!Submitted' = DI!Submitted /\ (DI!CountedOnce => DI!CountedOnce')
      BY <1>9 DEF DI!vars, DI!Submitted, DI!CountedOnce
    <2> QED
      BY <1>9, <2>1 DEF DI!vars, DispatchInv
  <1> QED
    BY <1>3, <1>4, <1>5, <1>6, <1>7, <1>8, <1>9 DEF DI!Next, DI!Work

\* Each task is waiting, in work, counted or reported as dropped, once; and the tasks
\* left behind were all submitted after the last look of every worker at the queue
\* (exo07_dispatcher.rs:223-230, 318; demo07_lockfree_crossbeam.rs:84-89).
THEOREM TasksCountedOnce ==
  ASSUME DI!DispatcherAssumption
  PROVE  DI!Spec => [](DI!TypeOK /\ DI!CountedOnce /\ DI!LeftBehindUnseen)
  <1>1. DI!Init => DispatchInv
    <2> SUFFICES ASSUME DI!Init
                 PROVE  DispatchInv
      OBVIOUS
    <2>1. DI!SumOver(diSent) = 0 /\ DI!SumOver(diStats) = 0
      <3>1. SumOf(diSent, DiProducer) = 0 /\ SumOf(diStats, DI!Kind) = 0
        BY FiniteKinds, SumOfZeros, Zenon DEF DI!Init
      <3>2. DI!SumOver(diSent) = SumOf(diSent, DiProducer) /\ DI!SumOver(diStats) = SumOf(diStats, DI!Kind)
        BY SumOverIs DEF DI!Init
      <3> QED
        BY <3>1, <3>2
    <2>2. Working = {} /\ Cardinality(Working) = 0
      BY FS_EmptySet DEF DI!Init, Working
    <2>3. DI!CountedOnce
      <3>1. DI!Cardinality(Working) = 0
        BY <2>2, SetsAsInLibrary
      <3>2. DI!Submitted = 0 /\ diDropped = 0 /\ Len(diQueue) = 0
        BY <2>1 DEF DI!Submitted, DI!Init
      <3>3. DI!Submitted = DI!SumOver(diStats) + diDropped + Len(diQueue) + DI!Cardinality(Working)
        BY <2>1, <3>1, <3>2
      <3> QED
        BY <3>3 DEF DI!CountedOnce, Working
    <2>4. diCapacity \in Nat /\ diQueue \in Seq(Ids) /\ Len(diQueue) = 0
      BY DEF DI!Init, DI!DispatcherAssumption
    <2>5. diSent \in [DiProducer -> 0 .. DiPerProducer]
      <3>1. DiPerProducer \in Nat
        BY FiniteKinds
      <3> QED
        BY <3>1 DEF DI!Init
    <2> QED
      BY <2>1, <2>3, <2>4, <2>5 DEF DI!Init, DispatchInv, DI!Submitted
  <1>2. DispatchInv /\ [DI!Next]_(DI!vars) => DispatchInv'
    BY DispatchStep
  <1>3. DispatchInv => DI!TypeOK /\ DI!CountedOnce /\ DI!LeftBehindUnseen
    <2> SUFFICES ASSUME DispatchInv
                 PROVE  DI!TypeOK /\ DI!LeftBehindUnseen
      BY DEF DispatchInv
    <2> DEFINE total == DI!Total
               submitted == DI!Submitted
               counted == DI!SumOver(diStats)
               working == Cardinality(Working)
               n == Len(diQueue)
    <2>1. submitted \in Nat /\ submitted =< total /\ total \in Nat /\ n \in Nat
      <3>1. diQueue \in Seq(Ids) /\ diSent \in [DiProducer -> 0 .. DiPerProducer]
        BY DEF DispatchInv
      <3>2. DI!SumOver(diSent) \in Nat /\ DI!SumOver(diSent) =< DI!Total /\ DI!Total \in Nat
        BY <3>1, SubmittedFits, FiniteKinds, Zenon
      <3> QED
        BY <3>1, <3>2 DEF DI!Submitted
    <2>2. counted \in Nat /\ \A k \in DI!Kind : diStats[k] \in Nat /\ diStats[k] =< counted
      <3>1. diStats \in [DI!Kind -> Nat] /\ DI!SumOver(diStats) = SumOf(diStats, DI!Kind)
        BY SumOverIs DEF DispatchInv
      <3> QED
        BY <3>1, FiniteKinds, SumInNat, SumCovers
    <2>3. working \in Nat
      BY FiniteKinds, FS_Subset, FS_CardinalityType DEF Working
    <2>4. submitted = counted + diDropped + n + working /\ diDropped \in Nat
      BY SetsAsInLibrary DEF DispatchInv, DI!CountedOnce, Working
    <2>5. counted =< total /\ diDropped =< total
      BY <2>1, <2>2, <2>3, <2>4
    <2>6. diStats \in [DI!Kind -> 0 .. total] /\ diDropped \in 0 .. total
      <3>1. \A k \in DI!Kind : diStats[k] \in 0 .. total
        BY <2>1, <2>2, <2>5
      <3>2. diStats \in [DI!Kind -> Nat]
        BY DEF DispatchInv
      <3> QED
        BY <2>1, <2>4, <2>5, <3>1, <3>2
    <2>7. DI!TypeOK
      BY <2>6 DEF DispatchInv, DI!TypeOK, Ids
    <2>8. DI!LeftBehindUnseen
      <3> DEFINE L == {diLooked[w] : w \in DiWorker}
      <3>1. \A w \in DiWorker : diLooked[w] \in 0 .. total /\ diLooked[w] + n =< total
        BY <2>1 DEF DispatchInv
      <3>2. L \in SUBSET (0 .. total) /\ L # {}
        BY <3>1 DEF DI!DispatcherAssumption
      <3>3. Max(L) \in L
        BY <2>1, <3>2, GreatestOf, Zenon
      <3>4. Max(L) \in Nat /\ Max(L) + n =< total
        BY <3>1, <3>3
      <3> HIDE DEF L
      <3>5. n =< total - Max(L)
        BY <2>1, <3>4
      <3> QED
        BY <3>5, SetsAsInLibrary DEF DI!LeftBehindUnseen, L
    <2> QED
      BY <2>7, <2>8
  <1> QED
    BY <1>1, <1>2, <1>3, PTL DEF DI!Spec
================================================================================
