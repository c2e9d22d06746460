--------------------------- MODULE KvScenes_proofs ---------------------------
(***************************************************************************)
(* Theorems about what a node relies on locally, for any number of threads *)
(* and keys, any tasks that share a client, any timeouts and any number of *)
(* calls and connections.                                                  *)
(***************************************************************************)
EXTENDS KvScenes, KvStorage_proofs, Data_proofs

(***************************************************************************)
(* The channel.  Sets and sequences are those of the library.              *)
(***************************************************************************)

LEMMA ChannelSets ==
  ASSUME NEW S
  PROVE  /\ CH!Cardinality(S) = Cardinality(S) /\ (CH!IsFiniteSet(S) <=> IsFiniteSet(S))
         /\ CH!ToSet(S) = ToSet(S) /\ (CH!IsInjective(S) <=> IsInjective(S))
  BY DEF CH!Cardinality, Cardinality, CH!IsFiniteSet, IsFiniteSet,
         CH!ToSet, ToSet, CH!IsInjective, IsInjective

LEMMA ChannelJoining ==
  ASSUME NEW T, NEW q \in Seq(T), NEW t \in T, t \notin CH!ToSet(q), CH!IsInjective(q)
  PROVE  /\ Append(q, t) \in Seq(T)
         /\ CH!IsInjective(Append(q, t))
         /\ CH!ToSet(Append(q, t)) = CH!ToSet(q) \cup {t}
  BY Joining, ChannelSets

LEMMA ChannelLeaving ==
  ASSUME NEW T, NEW q \in Seq(T), NEW t, CH!IsInjective(q)
  PROVE  /\ CH!Leave(q, t) \in Seq(T)
         /\ CH!IsInjective(CH!Leave(q, t))
         /\ CH!ToSet(CH!Leave(q, t)) = CH!ToSet(q) \ {t}
  <1>1. CH!Leave(q, t) = Leave(q, t)
    BY ChannelSets DEF CH!Leave, Leave, CH!RemoveAt, RemoveAt, CH!ToSet, ToSet
  <1> QED
    BY <1>1, Leaving, ChannelSets

LEMMA ChannelAdvancing ==
  ASSUME NEW T, NEW q \in Seq(T), q # <<>>, CH!IsInjective(q)
  PROVE  /\ Head(q) \in T /\ Tail(q) \in Seq(T)
         /\ CH!IsInjective(Tail(q))
         /\ Head(q) \in CH!ToSet(q)
         /\ CH!ToSet(Tail(q)) = CH!ToSet(q) \ {Head(q)}
  BY Advancing, ChannelSets
(***************************************************************************)
(* The inductive invariant.                                                *)
(***************************************************************************)

\* The mutex of a connection is held by the task that writes or reads on it.
HolderOK ==
  /\ \A t \in ChCaller : CH!Holding(t) => chHolder[chVia[t]] = t
  /\ \A c \in CH!Conn : chHolder[c] # ChNoCaller =>
       CH!Holding(chHolder[c]) /\ chVia[chHolder[c]] = c

\* Somebody has written a request to c and waits for the answer.
Reader(c) == {t \in ChCaller : chPc[t] = "read" /\ chVia[t] = c}

\* Every request has been answered to somebody, or was abandoned, or is the one
\* its task waits for.
LogOK(c) ==
  Len(chLog[c]) = chRead[c] + chAbandoned[c] + IF Reader(c) = {} THEN 0 ELSE 1

\* The request of a task that reads is the last one written; it has no answer yet.
MineOK(t) ==
  /\ chPc[t] = "read" => chMine[t] = Len(chLog[chVia[t]])
  /\ CH!Running(t) => chAnswer[t] = 0

IInv ==
  /\ CH!TypeOK
  /\ HolderOK
  /\ \A c \in CH!Conn : LogOK(c)
  /\ \A t \in ChCaller : MineOK(t)
  /\ CH!OwnResponseUntilTimeout

(***************************************************************************)
(* The types.                                                              *)
(***************************************************************************)

LEMMA ReleaseType ==
  ASSUME CH!TypeOK, NEW t \in ChCaller, CH!Release(t)
  PROVE  /\ chAge' \in [ChCaller -> Nat] /\ chHeld' \in [ChCaller -> Nat]
         /\ chHolder' \in [CH!Conn -> ChCaller \cup {ChNoCaller}]
         /\ chQueue' \in [CH!Conn -> Seq(ChCaller)]
         /\ \A c \in CH!Conn :
              /\ chHolder'[c] = IF chHolder[c] = t THEN ChNoCaller ELSE chHolder[c]
              /\ CH!IsInjective(chQueue'[c])
              /\ CH!ToSet(chQueue'[c]) = CH!ToSet(chQueue[c]) \ {t}
  <1>1. \A c \in CH!Conn : /\ CH!Leave(chQueue[c], t) \in Seq(ChCaller)
                        /\ CH!IsInjective(CH!Leave(chQueue[c], t))
                        /\ CH!ToSet(CH!Leave(chQueue[c], t)) = CH!ToSet(chQueue[c]) \ {t}
    <2> TAKE c \in CH!Conn
    <2>1. chQueue[c] \in Seq(ChCaller) /\ CH!IsInjective(chQueue[c])
      BY DEF CH!TypeOK, CH!QueueOK
    <2> QED
      BY <2>1, ChannelLeaving
  <1>2. chQueue' = [c \in CH!Conn |-> CH!Leave(chQueue[c], t)]
    BY DEF CH!Release
  <1>3. /\ chQueue' \in [CH!Conn -> Seq(ChCaller)]
        /\ \A c \in CH!Conn : /\ CH!IsInjective(chQueue'[c])
                           /\ CH!ToSet(chQueue'[c]) = CH!ToSet(chQueue[c]) \ {t}
    BY <1>1, <1>2
  <1>4. chHolder' = [c \in CH!Conn |-> IF chHolder[c] = t THEN ChNoCaller ELSE chHolder[c]]
    BY DEF CH!Release
  <1>5. chAge' \in [ChCaller -> Nat] /\ chHeld' \in [ChCaller -> Nat]
    BY DEF CH!Release, CH!TypeOK
  <1>6. \A c \in CH!Conn : chHolder[c] \in ChCaller \cup {ChNoCaller}
    BY DEF CH!TypeOK
  <1> QED
    BY <1>3, <1>4, <1>5, <1>6

LEMMA InitInv == ASSUME CH!KvRpcAssumption, CH!Init PROVE IInv
  <1>1. 1 \in CH!Conn
    BY DEF CH!KvRpcAssumption, CH!Conn
  <1>2. chQueue \in [CH!Conn -> Seq(ChCaller)] /\ chLog \in [CH!Conn -> Seq(CH!Kind \cup {"garbage"})]
    BY DEF CH!Init
  <1>3. \A c \in CH!Conn : Len(chLog[c]) = 0
    BY DEF CH!Init
  <1>q. \A c \in CH!Conn : CH!QueueOK(c)
    BY DEF CH!Init, CH!QueueOK, CH!IsInjective, CH!ToSet
  <1>4. CH!TypeOK
    BY <1>1, <1>2, <1>3, <1>q DEF CH!Init, CH!TypeOK
  <1>5. HolderOK /\ \A c \in CH!Conn : Reader(c) = {}
    BY DEF CH!Init, HolderOK, CH!Holding, Reader
  <1>6. \A c \in CH!Conn : LogOK(c)
    BY <1>3, <1>5 DEF CH!Init, LogOK
  <1>7. (\A t \in ChCaller : MineOK(t)) /\ CH!OwnResponseUntilTimeout
    BY DEF CH!Init, MineOK, CH!Running, CH!OwnResponseUntilTimeout
  <1> QED
    BY <1>4, <1>5, <1>6, <1>7 DEF IInv

\* A connection has one reader at most, the holder of its mutex.
LEMMA OneReader ==
  ASSUME CH!KvRpcAssumption, IInv, NEW c \in CH!Conn
  PROVE  /\ \A t \in Reader(c) : chHolder[c] = t
         /\ chHolder[c] = ChNoCaller => Reader(c) = {}
  BY DEF CH!KvRpcAssumption, IInv, HolderOK, CH!Holding, Reader

(***************************************************************************)
(* The steps of a task.                                                    *)
(***************************************************************************)

LEMMA EnqueueInv ==
  ASSUME CH!KvRpcAssumption, IInv, NEW t \in ChCaller, NEW c \in CH!Conn,
         chPc[t] \in {"idle", "reconnect"}, CH!Enqueue(t, c),
         UNCHANGED <<chHolder, CH!conns>>, chPool' \in CH!Conn, chNext' \in CH!Conn,
         chCalls' \in [ChCaller -> Nat]
  PROVE  IInv'
  <1>1. /\ chPc' = [chPc EXCEPT ![t] = "lock"] /\ chVia' = [chVia EXCEPT ![t] = c]
        /\ chMine' = [chMine EXCEPT ![t] = 0] /\ chAnswer' = [chAnswer EXCEPT ![t] = 0]
        /\ chOutcome' = [chOutcome EXCEPT ![t] = "none"]
        /\ chQueue' = [chQueue EXCEPT ![c] = Append(chQueue[c], t)]
        /\ chAge' = chAge /\ chHeld' = chHeld
        /\ UNCHANGED <<chHolder, chOpen, chLog, chCut, chGarbled, chReceived, chServed, chRead,
                       chAbandoned>>
    BY DEF CH!Enqueue, CH!conns
  <1>2. /\ chPc \in [ChCaller -> {"idle", "lock", "write", "read", "reconnect"}]
        /\ chVia \in [ChCaller -> CH!Conn] /\ chQueue \in [CH!Conn -> Seq(ChCaller)]
    BY DEF IInv, CH!TypeOK
  <1>3. \A d \in CH!Conn : CH!IsInjective(chQueue[d])
                     /\ CH!ToSet(chQueue[d]) = {u \in ChCaller : chPc[u] = "lock" /\ chVia[u] = d}
    BY DEF IInv, CH!TypeOK, CH!QueueOK
  <1>4. /\ Append(chQueue[c], t) \in Seq(ChCaller)
        /\ CH!IsInjective(Append(chQueue[c], t))
        /\ CH!ToSet(Append(chQueue[c], t)) = CH!ToSet(chQueue[c]) \cup {t}
    <2>1. t \notin CH!ToSet(chQueue[c])
      BY <1>3
    <2>2. chQueue[c] \in Seq(ChCaller) /\ CH!IsInjective(chQueue[c])
      BY <1>2, <1>3
    <2> QED
      BY <2>1, <2>2, ChannelJoining
  <1>5. chQueue' \in [CH!Conn -> Seq(ChCaller)]
    BY <1>1, <1>2, <1>4
  <1>10. \A d \in CH!Conn : CH!QueueOK(d)'
    <2> TAKE d \in CH!Conn
    <2>1. CASE d = c
      <3>1. chQueue'[d] = Append(chQueue[c], t)
        BY <1>1, <1>2, <2>1
      <3>2. {u \in ChCaller : chPc'[u] = "lock" /\ chVia'[u] = d}
              = {u \in ChCaller : chPc[u] = "lock" /\ chVia[u] = c} \cup {t}
        BY <1>1, <1>2, <2>1
      <3> QED
        BY <1>3, <1>4, <3>1, <3>2 DEF CH!QueueOK
    <2>2. CASE d # c
      <3>1. chQueue'[d] = chQueue[d]
        BY <1>1, <1>2, <2>2
      <3>2. {u \in ChCaller : chPc'[u] = "lock" /\ chVia'[u] = d}
              = {u \in ChCaller : chPc[u] = "lock" /\ chVia[u] = d}
        BY <1>1, <1>2, <2>2
      <3> QED
        BY <1>3, <3>1, <3>2 DEF CH!QueueOK
    <2> QED
      BY <2>1, <2>2
  <1>11. CH!TypeOK'
    BY <1>1, <1>5, <1>10 DEF IInv, CH!TypeOK
  <1>12. ASSUME NEW u \in ChCaller, CH!Holding(u)'
         PROVE  chHolder'[chVia'[u]] = u
    <2>1. u # t /\ CH!Holding(u)
      BY <1>1, <1>2, <1>12 DEF CH!Holding
    <2> QED
      BY <1>1, <1>2, <2>1 DEF IInv, HolderOK
  <1>13. ASSUME NEW d \in CH!Conn, chHolder'[d] # ChNoCaller
         PROVE  CH!Holding(chHolder[d])' /\ chVia'[chHolder'[d]] = d
    <2>1. PICK u \in ChCaller : u = chHolder[d]
      BY <1>1, <1>13 DEF IInv, CH!TypeOK
    <2>2. CH!Holding(u) /\ chVia[u] = d
      BY <1>1, <1>13, <2>1 DEF IInv, HolderOK
    <2>3. u # t
      BY <2>2 DEF CH!Holding
    <2>4. chPc'[u] = chPc[u] /\ chVia'[u] = chVia[u] /\ chHolder'[d] = u
      BY <1>1, <1>2, <2>1, <2>3
    <2> QED
      BY <2>2, <2>4 DEF CH!Holding
  <1>14. HolderOK'
    BY <1>12, <1>13 DEF HolderOK
  <1>6. \A d \in CH!Conn : Reader(d)' = Reader(d)
    BY <1>1 DEF IInv, CH!TypeOK, Reader
  <1>7. \A d \in CH!Conn : LogOK(d)'
    BY <1>1, <1>6 DEF IInv, LogOK
  <1>8. \A u \in ChCaller : MineOK(u)'
    BY <1>1 DEF IInv, CH!TypeOK, MineOK, CH!Running
  <1>9. CH!OwnResponseUntilTimeout'
    BY <1>1 DEF IInv, CH!TypeOK, CH!OwnResponseUntilTimeout
  <1> QED
    BY <1>11, <1>14, <1>7, <1>8, <1>9 DEF IInv

LEMMA BeginInv ==
  ASSUME CH!KvRpcAssumption, IInv, NEW t \in ChCaller, CH!Begin(t)
  PROVE  IInv'
  <1>1. /\ chPc[t] = "idle" /\ CH!Enqueue(t, chPool)
        /\ UNCHANGED <<chPool, chNext, chHolder, CH!conns>>
        /\ chCalls' = [chCalls EXCEPT ![t] = chCalls[t] + 1]
    BY DEF CH!Begin
  <1>2. /\ chPool \in CH!Conn /\ chNext \in CH!Conn /\ chCalls \in [ChCaller -> Nat]
    BY DEF IInv, CH!TypeOK
  <1>3. chPool' \in CH!Conn /\ chNext' \in CH!Conn /\ UNCHANGED <<chHolder, CH!conns>>
    BY <1>1, <1>2
  <1>4. chCalls' \in [ChCaller -> Nat]
    BY <1>1, <1>2
  <1> QED
    BY <1>1, <1>2, <1>3, <1>4, EnqueueInv

LEMMA ReconnectInv ==
  ASSUME CH!KvRpcAssumption, IInv, NEW t \in ChCaller, CH!Reconnect(t)
  PROVE  IInv'
  <1>1. chNext + 1 \in CH!Conn
    BY DEF CH!Reconnect, IInv, CH!TypeOK, CH!Conn, CH!KvRpcAssumption
  <1> QED
    BY <1>1, EnqueueInv DEF CH!Reconnect, IInv, CH!TypeOK

LEMMA ConnectFailsInv ==
  ASSUME CH!KvRpcAssumption, IInv, NEW t \in ChCaller, CH!ConnectFails(t)
  PROVE  IInv'
  <1>1. /\ chPc[t] = "reconnect" /\ chPc' = [chPc EXCEPT ![t] = "idle"]
        /\ UNCHANGED <<chPool, chNext, chHolder, chQueue, chVia, chMine, chAge, chHeld, chCalls,
                       chOutcome, chAnswer, chOpen, chLog, chCut, chGarbled, chReceived, chServed,
                       chRead, chAbandoned>>
    BY DEF CH!ConnectFails, CH!conns
  <1>2. \A d \in CH!Conn : CH!QueueOK(d)'
    <2> TAKE d \in CH!Conn
    <2>1. CH!QueueOK(d) /\ chPc \in [ChCaller -> {"idle", "lock", "write", "read", "reconnect"}]
      BY DEF IInv, CH!TypeOK
    <2>2. {u \in ChCaller : chPc'[u] = "lock" /\ chVia'[u] = d}
            = {u \in ChCaller : chPc[u] = "lock" /\ chVia[u] = d}
      BY <1>1, <2>1
    <2> QED
      BY <1>1, <2>1, <2>2 DEF CH!QueueOK
  <1>3. CH!TypeOK'
    BY <1>1, <1>2 DEF IInv, CH!TypeOK
  <1>4. chPc \in [ChCaller -> {"idle", "lock", "write", "read", "reconnect"}]
        /\ chHolder \in [CH!Conn -> ChCaller \cup {ChNoCaller}]
    BY DEF IInv, CH!TypeOK
  <1>5. \A u \in ChCaller : CH!Holding(u)' <=> CH!Holding(u)
    BY <1>1, <1>4 DEF CH!Holding
  <1>6. HolderOK'
    BY <1>1, <1>4, <1>5 DEF IInv, HolderOK
  <1>7. \A d \in CH!Conn : Reader(d)' = Reader(d)
    BY <1>1, <1>4 DEF Reader
  <1>8. \A d \in CH!Conn : LogOK(d)'
    BY <1>1, <1>7 DEF IInv, LogOK
  <1>9. (\A u \in ChCaller : MineOK(u)') /\ CH!OwnResponseUntilTimeout'
    BY <1>1, <1>4 DEF IInv, MineOK, CH!Running, CH!OwnResponseUntilTimeout
  <1> QED
    BY <1>3, <1>6, <1>8, <1>9 DEF IInv

LEMMA AcquireInv ==
  ASSUME CH!KvRpcAssumption, IInv, NEW t \in ChCaller, CH!Acquire(t)
  PROVE  IInv'
  <1>1. /\ chPc \in [ChCaller -> {"idle", "lock", "write", "read", "reconnect"}]
        /\ chVia \in [ChCaller -> CH!Conn] /\ chQueue \in [CH!Conn -> Seq(ChCaller)]
        /\ chHolder \in [CH!Conn -> ChCaller \cup {ChNoCaller}] /\ t # ChNoCaller
    BY DEF IInv, CH!TypeOK, CH!KvRpcAssumption
  <1>2. PICK c \in CH!Conn : c = chVia[t]
    BY <1>1
  <1>3. /\ chPc[t] = "lock" /\ chPc' = [chPc EXCEPT ![t] = "write"]
        /\ chHolder[c] = ChNoCaller /\ chHolder' = [chHolder EXCEPT ![c] = t]
        /\ Head(chQueue[c]) = t /\ chQueue' = [chQueue EXCEPT ![c] = Tail(chQueue[c])]
        /\ UNCHANGED <<chPool, chNext, chVia, chMine, chAge, chHeld, chCalls, chOutcome, chAnswer,
                       chOpen, chLog, chCut, chGarbled, chReceived, chServed, chRead, chAbandoned>>
    BY <1>2 DEF CH!Acquire, CH!conns
  <1>4. \A d \in CH!Conn : CH!IsInjective(chQueue[d])
                     /\ CH!ToSet(chQueue[d]) = {u \in ChCaller : chPc[u] = "lock" /\ chVia[u] = d}
    BY DEF IInv, CH!TypeOK, CH!QueueOK
  <1>5. /\ Tail(chQueue[c]) \in Seq(ChCaller) /\ CH!IsInjective(Tail(chQueue[c]))
        /\ CH!ToSet(Tail(chQueue[c])) = CH!ToSet(chQueue[c]) \ {t}
    <2>1. t \in CH!ToSet(chQueue[c])
      BY <1>2, <1>3, <1>4
    <2>2. chQueue[c] # <<>>
      BY <2>1 DEF CH!ToSet
    <2>3. chQueue[c] \in Seq(ChCaller) /\ CH!IsInjective(chQueue[c])
      BY <1>1, <1>4
    <2> QED
      BY <1>3, <2>2, <2>3, ChannelAdvancing
  <1>6. chQueue' \in [CH!Conn -> Seq(ChCaller)]
    BY <1>1, <1>3, <1>5
  <1>7. \A d \in CH!Conn : CH!QueueOK(d)'
    <2> TAKE d \in CH!Conn
    <2>1. CASE d = c
      <3>1. chQueue'[d] = Tail(chQueue[c])
        BY <1>1, <1>3, <2>1
      <3>2. {u \in ChCaller : chPc'[u] = "lock" /\ chVia'[u] = d}
              = {u \in ChCaller : chPc[u] = "lock" /\ chVia[u] = c} \ {t}
        BY <1>1, <1>3, <2>1
      <3> QED
        BY <1>4, <1>5, <3>1, <3>2 DEF CH!QueueOK
    <2>2. CASE d # c
      <3>1. chQueue'[d] = chQueue[d]
        BY <1>1, <1>3, <2>2
      <3>2. {u \in ChCaller : chPc'[u] = "lock" /\ chVia'[u] = d}
              = {u \in ChCaller : chPc[u] = "lock" /\ chVia[u] = d}
        BY <1>1, <1>2, <1>3, <2>2
      <3> QED
        BY <1>4, <3>1, <3>2 DEF CH!QueueOK
    <2> QED
      BY <2>1, <2>2
  <1>8. CH!TypeOK'
    BY <1>3, <1>6, <1>7 DEF IInv, CH!TypeOK
  <1>9. ASSUME NEW u \in ChCaller, CH!Holding(u)'
        PROVE  chHolder'[chVia'[u]] = u
    <2>1. CASE u = t
      BY <1>1, <1>2, <1>3, <2>1
    <2>2. CASE u # t
      <3>1. CH!Holding(u)
        BY <1>1, <1>3, <1>9, <2>2 DEF CH!Holding
      <3>2. chHolder[chVia[u]] = u /\ chVia[u] # c
        BY <1>1, <1>3, <3>1 DEF IInv, HolderOK, CH!KvRpcAssumption
      <3> QED
        BY <1>1, <1>3, <3>2
    <2> QED
      BY <2>1, <2>2
  <1>10. ASSUME NEW d \in CH!Conn, chHolder'[d] # ChNoCaller
         PROVE  CH!Holding(chHolder[d])' /\ chVia'[chHolder'[d]] = d
    <2>1. CASE d = c
      <3>1. chHolder'[d] = t /\ chPc'[t] = "write" /\ chVia'[t] = c
        BY <1>1, <1>2, <1>3, <2>1
      <3> QED
        BY <2>1, <3>1 DEF CH!Holding
    <2>2. CASE d # c
      <3>1. PICK u \in ChCaller : u = chHolder[d] /\ u = chHolder'[d]
        BY <1>1, <1>3, <1>10, <2>2
      <3>4. chHolder[d] # ChNoCaller
        BY <3>1 DEF CH!KvRpcAssumption
      <3>2. CH!Holding(u) /\ chVia[u] = d
        BY <3>1, <3>4 DEF IInv, HolderOK
      <3>3. chPc'[u] = chPc[u] /\ chVia'[u] = d
        BY <1>1, <1>3, <3>2 DEF CH!Holding
      <3> QED
        BY <3>1, <3>2, <3>3 DEF CH!Holding
    <2> QED
      BY <2>1, <2>2
  <1>11. HolderOK'
    BY <1>9, <1>10 DEF HolderOK
  <1>12. \A d \in CH!Conn : Reader(d)' = Reader(d)
    BY <1>1, <1>3 DEF Reader
  <1>13. \A d \in CH!Conn : LogOK(d)'
    BY <1>3, <1>12 DEF IInv, LogOK
  <1>14. (\A u \in ChCaller : MineOK(u)') /\ CH!OwnResponseUntilTimeout'
    BY <1>1, <1>3 DEF IInv, MineOK, CH!Running, CH!OwnResponseUntilTimeout
  <1> QED
    BY <1>8, <1>11, <1>13, <1>14 DEF IInv

LEMMA WriteRequestInv ==
  ASSUME CH!KvRpcAssumption, IInv, NEW t \in ChCaller, CH!WriteRequest(t)
  PROVE  IInv'
  <1>1. /\ chPc \in [ChCaller -> {"idle", "lock", "write", "read", "reconnect"}]
        /\ chVia \in [ChCaller -> CH!Conn] /\ chMine \in [ChCaller -> Nat]
        /\ chLog \in [CH!Conn -> Seq(CH!Kind \cup {"garbage"})]
        /\ ChKindOf[t] \in CH!Kind
    BY DEF IInv, CH!TypeOK, CH!KvRpcAssumption
  <1>2. PICK c \in CH!Conn : c = chVia[t]
    BY <1>1
  <1>3. PICK f \in CH!Kind \cup {"garbage"} : f = CH!Frame(t)
    BY <1>1 DEF CH!Frame
  <1>4. /\ chPc[t] = "write" /\ chPc' = [chPc EXCEPT ![t] = "read"]
        /\ chLog' = [chLog EXCEPT ![c] = Append(chLog[c], f)]
        /\ chMine' = [chMine EXCEPT ![t] = Len(chLog[c]) + 1]
        /\ UNCHANGED <<chPool, chNext, chHolder, chQueue, chOpen, chCut, chGarbled, chReceived,
                       chServed, chRead, chVia, chAge, chHeld, chCalls, chOutcome, chAnswer, chAbandoned>>
    BY <1>2, <1>3 DEF CH!WriteRequest
  <1>5. /\ chLog[c] \in Seq(CH!Kind \cup {"garbage"}) /\ Len(chLog[c]) \in Nat
        /\ Append(chLog[c], f) \in Seq(CH!Kind \cup {"garbage"})
        /\ Len(Append(chLog[c], f)) = Len(chLog[c]) + 1
    BY <1>1
  <1>6. /\ chLog' \in [CH!Conn -> Seq(CH!Kind \cup {"garbage"})]
        /\ Len(chLog'[c]) = Len(chLog[c]) + 1
        /\ \A d \in CH!Conn \ {c} : chLog'[d] = chLog[d]
    BY <1>1, <1>4, <1>5
  <1>7. chMine' \in [ChCaller -> Nat] /\ chMine'[t] = Len(chLog'[c])
    BY <1>1, <1>4, <1>5, <1>6
  <1>8. \A d \in CH!Conn : CH!QueueOK(d)'
    <2> TAKE d \in CH!Conn
    <2>1. {u \in ChCaller : chPc'[u] = "lock" /\ chVia'[u] = d}
            = {u \in ChCaller : chPc[u] = "lock" /\ chVia[u] = d}
      BY <1>1, <1>4
    <2>2. CH!QueueOK(d)
      BY DEF IInv, CH!TypeOK
    <2> QED
      BY <1>4, <2>1, <2>2 DEF CH!QueueOK
  <1>9. \A d \in CH!Conn : /\ chRead'[d] =< chServed'[d] /\ chServed'[d] =< chReceived'[d]
                       /\ chReceived'[d] =< chServed'[d] + 1
                       /\ chReceived'[d] =< Len(chLog'[d])
    <2> TAKE d \in CH!Conn
    <2>1. /\ chRead[d] =< chServed[d] /\ chServed[d] =< chReceived[d]
          /\ chReceived[d] =< chServed[d] + 1 /\ chReceived[d] =< Len(chLog[d])
          /\ chReceived[d] \in Nat
      BY DEF IInv, CH!TypeOK
    <2>3. chLog[d] \in Seq(CH!Kind \cup {"garbage"}) /\ Len(chLog[d]) \in Nat
      BY <1>1
    <2>4. CASE d = c
      BY <1>4, <1>6, <2>1, <2>3, <2>4
    <2>5. CASE d # c
      BY <1>4, <1>6, <2>1, <2>5
    <2> QED
      BY <2>4, <2>5
  <1>10. chPc' \in [ChCaller -> {"idle", "lock", "write", "read", "reconnect"}]
    BY <1>1, <1>4
  <1>11. CH!TypeOK'
    BY <1>4, <1>6, <1>7, <1>8, <1>9, <1>10 DEF IInv, CH!TypeOK
  <1>12. \A u \in ChCaller : CH!Holding(u)' <=> CH!Holding(u)
    BY <1>1, <1>4 DEF CH!Holding
  <1>13. chHolder \in [CH!Conn -> ChCaller \cup {ChNoCaller}]
    BY DEF IInv, CH!TypeOK
  <1>14. HolderOK'
    BY <1>4, <1>12, <1>13 DEF IInv, HolderOK
  <1>15. Reader(c) = {}
    <2> SUFFICES ASSUME NEW u \in Reader(c) PROVE FALSE
      OBVIOUS
    <2>1. u \in ChCaller /\ chPc[u] = "read" /\ chHolder[c] = u
      BY OneReader DEF Reader
    <2>2. chHolder[c] = t
      BY <1>2, <1>4 DEF IInv, HolderOK, CH!Holding
    <2> QED
      BY <1>4, <2>1, <2>2
  <1>16. t \in Reader(c)' /\ \A d \in CH!Conn \ {c} : Reader(d)' = Reader(d)
    BY <1>1, <1>2, <1>4 DEF Reader
  <1>17. ASSUME NEW d \in CH!Conn PROVE LogOK(d)'
    <2>1. LogOK(d)
      BY DEF IInv
    <2>2. CASE d = c
      <3>3. chRead[c] \in Nat /\ chAbandoned[c] \in Nat
        BY DEF IInv, CH!TypeOK
      <3>4. LogOK(c)
        BY DEF IInv
      <3>1. Len(chLog[c]) = chRead[c] + chAbandoned[c]
        BY <1>15, <3>3, <3>4 DEF LogOK
      <3>2. Len(chLog'[c]) = chRead'[c] + chAbandoned'[c] + 1
        BY <1>4, <1>6, <3>1
      <3> QED
        BY <1>16, <2>2, <3>2 DEF LogOK
    <2>3. CASE d # c
      BY <1>4, <1>6, <1>16, <2>1, <2>3 DEF LogOK
    <2> QED
      BY <2>2, <2>3
  <1>18. ASSUME NEW u \in ChCaller PROVE MineOK(u)'
    <2>1. CASE u = t
      BY <1>1, <1>2, <1>4, <1>7, <2>1 DEF IInv, MineOK, CH!Running
    <2>2. CASE u # t
      <3>1. chPc'[u] = chPc[u] /\ chMine'[u] = chMine[u] /\ chVia'[u] = chVia[u] /\ chAnswer'[u] = chAnswer[u]
        BY <1>1, <1>4, <2>2
      <3>2. chPc[u] = "read" => chVia[u] # c
        BY <1>15 DEF Reader
      <3>3. chPc[u] = "read" => chLog'[chVia[u]] = chLog[chVia[u]]
        BY <1>1, <1>6, <3>2
      <3> QED
        BY <3>1, <3>3 DEF IInv, MineOK, CH!Running
    <2> QED
      BY <2>1, <2>2
  <1>19. CH!OwnResponseUntilTimeout'
    <2> SUFFICES ASSUME NEW u \in ChCaller, chAnswer'[u] # 0, chAbandoned'[chVia'[u]] = 0
                 PROVE  chAnswer'[u] = chMine'[u]
      BY DEF CH!OwnResponseUntilTimeout
    <2>1. u # t
      BY <1>4 DEF IInv, MineOK, CH!Running
    <2>2. chMine'[u] = chMine[u]
      BY <1>1, <1>4, <2>1
    <2> QED
      BY <1>4, <2>2 DEF IInv, CH!OwnResponseUntilTimeout
  <1> QED
    BY <1>11, <1>14, <1>17, <1>18, <1>19 DEF IInv

\* A task that held or awaited the mutex of c leaves: what remains of the
\* invariant once the connection's count of abandoned or read answers is right.
LEMMA ReleaseInv ==
  ASSUME CH!KvRpcAssumption, IInv, NEW t \in ChCaller, CH!Release(t), CH!Running(t),
         NEW s \in {"idle", "reconnect"}, chPc' = [chPc EXCEPT ![t] = s], chVia' = chVia
  PROVE  /\ chPc' \in [ChCaller -> {"idle", "lock", "write", "read", "reconnect"}]
         /\ \A d \in CH!Conn : CH!QueueOK(d)'
         /\ HolderOK'
         /\ \A d \in CH!Conn : Reader(d)' = Reader(d) \ {t}
         /\ chPc[t] = "read" => \A d \in CH!Conn :
              Reader(d) = IF d = chVia[t] THEN {t} ELSE Reader(d) \ {t}
         /\ chPc[t] # "read" => \A d \in CH!Conn : Reader(d) = Reader(d) \ {t}
  <1>1. /\ chPc \in [ChCaller -> {"idle", "lock", "write", "read", "reconnect"}]
        /\ chVia \in [ChCaller -> CH!Conn] /\ CH!TypeOK
        /\ chHolder \in [CH!Conn -> ChCaller \cup {ChNoCaller}]
    BY DEF IInv, CH!TypeOK
  <1>2. \A d \in CH!Conn :
          /\ chHolder'[d] = IF chHolder[d] = t THEN ChNoCaller ELSE chHolder[d]
          /\ CH!IsInjective(chQueue'[d])
          /\ CH!ToSet(chQueue'[d]) = CH!ToSet(chQueue[d]) \ {t}
    BY <1>1, ReleaseType
  <1>3. chPc' \in [ChCaller -> {"idle", "lock", "write", "read", "reconnect"}]
    BY <1>1
  <1>4. ASSUME NEW d \in CH!Conn PROVE CH!QueueOK(d)'
    <2>1. CH!ToSet(chQueue[d]) = {u \in ChCaller : chPc[u] = "lock" /\ chVia[u] = d}
      BY <1>1 DEF CH!TypeOK, CH!QueueOK
    <2>2. {u \in ChCaller : chPc'[u] = "lock" /\ chVia'[u] = d}
            = {u \in ChCaller : chPc[u] = "lock" /\ chVia[u] = d} \ {t}
      BY <1>1
    <2> QED
      BY <1>2, <2>1, <2>2 DEF CH!QueueOK
  <1>5. ASSUME NEW u \in ChCaller, CH!Holding(u)' PROVE chHolder'[chVia'[u]] = u
    <2>1. u # t /\ CH!Holding(u)
      BY <1>1, <1>5 DEF CH!Holding
    <2>2. chHolder[chVia[u]] = u /\ chVia[u] \in CH!Conn
      BY <1>1, <2>1 DEF IInv, HolderOK
    <2> QED
      BY <1>2, <2>1, <2>2
  <1>6. ASSUME NEW d \in CH!Conn, chHolder'[d] # ChNoCaller
        PROVE  CH!Holding(chHolder[d])' /\ chVia'[chHolder'[d]] = d
    <2>1. chHolder[d] # t /\ chHolder'[d] = chHolder[d] /\ chHolder[d] # ChNoCaller
      BY <1>2, <1>6
    <2>2. PICK u \in ChCaller : u = chHolder[d]
      BY <1>1, <2>1
    <2>3. CH!Holding(u) /\ chVia[u] = d
      BY <2>1, <2>2 DEF IInv, HolderOK
    <2>4. chPc'[u] = chPc[u] /\ u = chHolder'[d]
      BY <1>1, <2>1, <2>2
    <2> QED
      BY <2>3, <2>4 DEF CH!Holding
  <1>7. HolderOK'
    BY <1>5, <1>6 DEF HolderOK
  <1>8. \A d \in CH!Conn : Reader(d)' = Reader(d) \ {t}
    BY <1>1 DEF Reader
  <1>9. ASSUME NEW d \in CH!Conn, chPc[t] = "read", d = chVia[t]
        PROVE  Reader(d) = {t}
    <2>1. t \in Reader(d)
      BY <1>9 DEF Reader
    <2> QED
      BY <2>1, OneReader
  <1>10. ASSUME NEW d \in CH!Conn, chPc[t] # "read" \/ d # chVia[t]
         PROVE  Reader(d) = Reader(d) \ {t}
    BY <1>10 DEF Reader
  <1> QED
    BY <1>3, <1>4, <1>7, <1>8, <1>9, <1>10

LEMMA ReadResponseInv ==
  ASSUME CH!KvRpcAssumption, IInv, NEW t \in ChCaller, CH!ReadResponse(t)
  PROVE  IInv'
  <1>1. /\ chPc \in [ChCaller -> {"idle", "lock", "write", "read", "reconnect"}]
        /\ chVia \in [ChCaller -> CH!Conn] /\ chAnswer \in [ChCaller -> Nat]
        /\ chOutcome \in [ChCaller -> {"none", "ok", "error"}]
        /\ chRead \in [CH!Conn -> Nat] /\ chServed \in [CH!Conn -> Nat]
        /\ chAbandoned \in [CH!Conn -> Nat] /\ chPool \in CH!Conn /\ CH!TypeOK
    BY DEF IInv, CH!TypeOK
  <1>2. PICK c \in CH!Conn : c = chVia[t]
    BY <1>1
  <1>3. /\ chPc[t] = "read" /\ chPc' = [chPc EXCEPT ![t] = "idle"]
        /\ chRead[c] < chServed[c]
        /\ chRead' = [chRead EXCEPT ![c] = chRead[c] + 1]
        /\ chAnswer' = [chAnswer EXCEPT ![t] = chRead[c] + 1]
        /\ chPool' = IF ChKindOf[t] = "heartbeat" THEN c ELSE chPool
        /\ CH!Release(t)
        /\ UNCHANGED <<chNext, chOpen, chLog, chCut, chGarbled, chReceived, chServed, chVia, chMine,
                       chCalls, chAbandoned>>
    BY <1>2 DEF CH!ReadResponse
  <1>4. \E x \in {"ok", "error"} : chOutcome' = [chOutcome EXCEPT ![t] = x]
    <2>1. \E isError \in BOOLEAN :
            LET ok == \/ ChKindOf[t] = "heartbeat"
                      \/ CH!Variant[ChKindOf[t]] = CH!Variant[chLog[c][chRead[c] + 1]] /\ ~ isError
            IN chOutcome' = [chOutcome EXCEPT ![t] = IF ok THEN "ok" ELSE "error"]
      BY <1>2 DEF CH!ReadResponse
    <2> QED
      BY <2>1
  <1>5. chOutcome' \in [ChCaller -> {"none", "ok", "error"}]
    BY <1>1, <1>4
  <1>6. /\ chAge' \in [ChCaller -> Nat] /\ chHeld' \in [ChCaller -> Nat]
        /\ chHolder' \in [CH!Conn -> ChCaller \cup {ChNoCaller}]
        /\ chQueue' \in [CH!Conn -> Seq(ChCaller)]
    BY <1>1, <1>3, ReleaseType
  <1>7. CH!Running(t) /\ chVia' = chVia
    BY <1>3 DEF CH!Running
  <1>8. /\ chPc' \in [ChCaller -> {"idle", "lock", "write", "read", "reconnect"}]
        /\ \A d \in CH!Conn : CH!QueueOK(d)'
        /\ HolderOK'
        /\ \A d \in CH!Conn : Reader(d)' = Reader(d) \ {t}
        /\ \A d \in CH!Conn :
             Reader(d) = IF d = chVia[t] THEN {t} ELSE Reader(d) \ {t}
    BY <1>3, <1>7, ReleaseInv
  <1>9. /\ chRead[c] \in Nat /\ chRead[c] + 1 \in Nat
        /\ chRead' \in [CH!Conn -> Nat] /\ chAnswer' \in [ChCaller -> Nat]
        /\ chRead'[c] = chRead[c] + 1 /\ \A d \in CH!Conn \ {c} : chRead'[d] = chRead[d]
        /\ chPool' \in CH!Conn
    BY <1>1, <1>3
  <1>10. \A d \in CH!Conn : /\ chRead'[d] =< chServed'[d] /\ chServed'[d] =< chReceived'[d]
                        /\ chReceived'[d] =< chServed'[d] + 1
                        /\ chReceived'[d] =< Len(chLog'[d])
    <2> TAKE d \in CH!Conn
    <2>1. /\ chRead[d] =< chServed[d] /\ chServed[d] =< chReceived[d]
          /\ chReceived[d] =< chServed[d] + 1 /\ chReceived[d] =< Len(chLog[d])
          /\ chRead[d] \in Nat /\ chServed[d] \in Nat
      BY DEF IInv, CH!TypeOK
    <2>2. CASE d = c
      BY <1>3, <1>9, <2>1, <2>2
    <2>3. CASE d # c
      BY <1>3, <1>9, <2>1, <2>3
    <2> QED
      BY <2>2, <2>3
  <1>11. CH!TypeOK'
    BY <1>3, <1>5, <1>6, <1>8, <1>9, <1>10 DEF IInv, CH!TypeOK
  <1>12. Len(chLog[c]) = chRead[c] + chAbandoned[c] + 1
    <2>1. LogOK(c) /\ Reader(c) # {}
      BY <1>2, <1>8 DEF IInv
    <2> QED
      BY <2>1 DEF LogOK
  <1>13. ASSUME NEW d \in CH!Conn PROVE LogOK(d)'
    <2>1. CASE d = c
      <3>1. Reader(d)' = {}
        BY <1>2, <1>8, <2>1
      <3>2. Len(chLog'[c]) = chRead'[c] + chAbandoned'[c] + 0
        BY <1>1, <1>3, <1>9, <1>12
      <3> QED
        BY <2>1, <3>1, <3>2 DEF LogOK
    <2>2. CASE d # c
      <3>1. Reader(d)' = Reader(d) /\ LogOK(d)
        BY <1>2, <1>8, <2>2 DEF IInv
      <3> QED
        BY <1>3, <1>9, <2>2, <3>1 DEF LogOK
    <2> QED
      BY <2>1, <2>2
  <1>14. ASSUME NEW u \in ChCaller PROVE MineOK(u)'
    <2>1. CASE u = t
      BY <1>1, <1>3, <2>1 DEF MineOK, CH!Running
    <2>2. CASE u # t
      BY <1>1, <1>3, <2>2 DEF IInv, MineOK, CH!Running
    <2> QED
      BY <2>1, <2>2
  <1>15. ASSUME NEW u \in ChCaller, chAnswer'[u] # 0, chAbandoned'[chVia'[u]] = 0
         PROVE  chAnswer'[u] = chMine'[u]
    <2>1. CASE u = t
      <3>1. chMine'[u] = Len(chLog[c])
        BY <1>2, <1>3, <2>1 DEF IInv, MineOK
      <3>2. chAnswer'[u] = chRead[c] + 1 /\ chAbandoned[c] = 0
        BY <1>1, <1>2, <1>3, <1>15, <2>1
      <3> QED
        BY <1>9, <1>12, <3>1, <3>2
    <2>2. CASE u # t
      BY <1>1, <1>3, <1>15, <2>2 DEF IInv, CH!OwnResponseUntilTimeout
    <2> QED
      BY <2>1, <2>2
  <1>16. CH!OwnResponseUntilTimeout'
    BY <1>15 DEF CH!OwnResponseUntilTimeout
  <1> QED
    BY <1>11, <1>8, <1>13, <1>14, <1>16 DEF IInv

LEMMA GiveUpInv ==
  ASSUME CH!KvRpcAssumption, IInv, NEW t \in ChCaller, CH!Running(t), CH!GiveUp(t),
         chCut' \in [CH!Conn -> BOOLEAN], chGarbled' \in [CH!Conn -> BOOLEAN]
  PROVE  IInv'
  <1>1. /\ chPc \in [ChCaller -> {"idle", "lock", "write", "read", "reconnect"}]
        /\ chVia \in [ChCaller -> CH!Conn] /\ chOutcome \in [ChCaller -> {"none", "ok", "error"}]
        /\ chAbandoned \in [CH!Conn -> Nat] /\ CH!TypeOK
    BY DEF IInv, CH!TypeOK
  <1>2. PICK c \in CH!Conn : c = chVia[t]
    BY <1>1
  <1>3. PICK s \in {"idle", "reconnect"} : chPc' = [chPc EXCEPT ![t] = s]
    BY DEF CH!GiveUp
  <1>4. /\ chOutcome' = [chOutcome EXCEPT ![t] = "error"]
        /\ chAbandoned' = IF chPc[t] = "read"
                          THEN [chAbandoned EXCEPT ![c] = chAbandoned[c] + 1] ELSE chAbandoned
        /\ CH!Release(t)
        /\ UNCHANGED <<chPool, chNext, chOpen, chLog, chReceived, chServed, chRead, chVia, chMine,
                       chCalls, chAnswer>>
    BY <1>2 DEF CH!GiveUp
  <1>5. /\ chAge' \in [ChCaller -> Nat] /\ chHeld' \in [ChCaller -> Nat]
        /\ chHolder' \in [CH!Conn -> ChCaller \cup {ChNoCaller}]
        /\ chQueue' \in [CH!Conn -> Seq(ChCaller)]
    BY <1>1, <1>4, ReleaseType
  <1>6. /\ chPc' \in [ChCaller -> {"idle", "lock", "write", "read", "reconnect"}]
        /\ \A d \in CH!Conn : CH!QueueOK(d)'
        /\ HolderOK'
        /\ \A d \in CH!Conn : Reader(d)' = Reader(d) \ {t}
        /\ chPc[t] = "read" => \A d \in CH!Conn :
             Reader(d) = IF d = chVia[t] THEN {t} ELSE Reader(d) \ {t}
        /\ chPc[t] # "read" => \A d \in CH!Conn : Reader(d) = Reader(d) \ {t}
    BY <1>3, <1>4, ReleaseInv
  <1>7. /\ chAbandoned' \in [CH!Conn -> Nat]
        /\ \A d \in CH!Conn : chAbandoned'[d] >= chAbandoned[d]
        /\ chPc[t] = "read" => /\ chAbandoned'[c] = chAbandoned[c] + 1
                             /\ \A d \in CH!Conn \ {c} : chAbandoned'[d] = chAbandoned[d]
        /\ chPc[t] # "read" => chAbandoned' = chAbandoned
    BY <1>1, <1>4
  <1>8. chOutcome' \in [ChCaller -> {"none", "ok", "error"}]
    BY <1>1, <1>4
  <1>9. CH!TypeOK'
    BY <1>4, <1>5, <1>6, <1>7, <1>8 DEF IInv, CH!TypeOK
  <1>10. ASSUME NEW d \in CH!Conn PROVE LogOK(d)'
    <2>1. LogOK(d) /\ chRead[d] \in Nat
      BY <1>1 DEF IInv, CH!TypeOK
    <2>2. CASE chPc[t] = "read" /\ d = c
      <3>1. Reader(d)' = {} /\ Reader(d) # {}
        BY <1>2, <1>6, <2>2
      <3>2. Len(chLog[d]) = chRead[d] + chAbandoned[d] + 1
        BY <2>1, <3>1 DEF LogOK
      <3>4. chLog'[d] = chLog[d] /\ chRead'[d] = chRead[d] /\ chAbandoned'[d] = chAbandoned[d] + 1
        BY <1>4, <1>7, <2>2
      <3>5. chAbandoned[d] \in Nat
        BY <1>1
      <3>3. Len(chLog'[d]) = chRead'[d] + chAbandoned'[d] + 0
        BY <2>1, <3>2, <3>4, <3>5
      <3> QED
        BY <3>1, <3>3 DEF LogOK
    <2>3. CASE chPc[t] # "read" \/ d # c
      <3>1. Reader(d)' = Reader(d) /\ chAbandoned'[d] = chAbandoned[d]
        BY <1>2, <1>6, <1>7, <2>3
      <3> QED
        BY <1>4, <2>1, <3>1 DEF LogOK
    <2> QED
      BY <2>2, <2>3
  <1>11. ASSUME NEW u \in ChCaller PROVE MineOK(u)'
    <2>1. CASE u = t
      BY <1>1, <1>3, <2>1 DEF MineOK, CH!Running
    <2>2. CASE u # t
      BY <1>1, <1>3, <1>4, <2>2 DEF IInv, MineOK, CH!Running
    <2> QED
      BY <2>1, <2>2
  <1>12. ASSUME NEW u \in ChCaller, chAnswer'[u] # 0, chAbandoned'[chVia'[u]] = 0
         PROVE  chAnswer'[u] = chMine'[u]
    <2>1. chVia[u] \in CH!Conn /\ chAbandoned[chVia[u]] \in Nat
      BY <1>1
    <2>2. chAbandoned[chVia[u]] = 0
      BY <1>4, <1>7, <1>12, <2>1
    <2> QED
      BY <1>4, <1>12, <2>2 DEF IInv, CH!OwnResponseUntilTimeout
  <1>13. CH!OwnResponseUntilTimeout'
    BY <1>12 DEF CH!OwnResponseUntilTimeout
  <1> QED
    BY <1>6, <1>9, <1>10, <1>11, <1>13 DEF IInv

LEMMA TimeoutsInv ==
  ASSUME CH!KvRpcAssumption, IInv, NEW t \in ChCaller,
         CH!ConnectionBroken(t) \/ CH!GarbledResponse(t) \/ CH!CallTimeout(t) \/ CH!OuterTimeout(t)
  PROVE  IInv'
  <1>1. chCut \in [CH!Conn -> BOOLEAN] /\ chGarbled \in [CH!Conn -> BOOLEAN]
    BY DEF IInv, CH!TypeOK
  <1>2. /\ CH!Running(t) /\ CH!GiveUp(t)
        /\ UNCHANGED <<chCut, chGarbled>> \/ CH!CutShort(t)
    BY DEF CH!ConnectionBroken, CH!GarbledResponse, CH!CallTimeout, CH!OuterTimeout, CH!Running
  <1>3. chCut' \in [CH!Conn -> BOOLEAN] /\ chGarbled' \in [CH!Conn -> BOOLEAN]
    BY <1>1, <1>2 DEF CH!CutShort
  <1> QED
    BY <1>2, <1>3, GiveUpInv

(***************************************************************************)
(* The steps of the peer and of the clock.                                 *)
(***************************************************************************)

LEMMA QuietInv ==
  ASSUME IInv, CH!TypeOK',
         UNCHANGED <<chHolder, chPc, chVia, chMine, chAnswer, chLog, chRead, chAbandoned>>
  PROVE  IInv'
  <1>1. HolderOK'
    BY DEF IInv, HolderOK, CH!Holding
  <1>2. \A d \in CH!Conn : Reader(d)' = Reader(d)
    BY DEF Reader
  <1>3. \A d \in CH!Conn : LogOK(d)'
    BY <1>2 DEF IInv, LogOK
  <1>4. (\A u \in ChCaller : MineOK(u)') /\ CH!OwnResponseUntilTimeout'
    BY DEF IInv, MineOK, CH!Running, CH!OwnResponseUntilTimeout
  <1> QED
    BY <1>1, <1>3, <1>4 DEF IInv

LEMMA PeerInv ==
  ASSUME CH!KvRpcAssumption, IInv, NEW c \in CH!Conn, CH!Serve(c) \/ CH!ServerCloses(c)
  PROVE  IInv'
  <1>1. /\ chOpen \in [CH!Conn -> BOOLEAN] /\ chReceived \in [CH!Conn -> Nat]
        /\ chServed \in [CH!Conn -> Nat] /\ chRead \in [CH!Conn -> Nat]
        /\ chLog \in [CH!Conn -> Seq(CH!Kind \cup {"garbage"})]
    BY DEF IInv, CH!TypeOK
  <1>2. /\ UNCHANGED <<chPool, chNext, chHolder, chQueue, chLog, chCut, chGarbled, chRead, chPc, chVia,
                       chMine, chAge, chHeld, chCalls, chOutcome, chAnswer, chAbandoned>>
        /\ \/ UNCHANGED <<chReceived, chServed>> /\ chOpen' = [chOpen EXCEPT ![c] = FALSE]
           \/ /\ UNCHANGED <<chOpen, chServed>> /\ chReceived[c] = chServed[c]
              /\ chReceived[c] < Len(chLog[c])
              /\ chReceived' = [chReceived EXCEPT ![c] = chReceived[c] + 1]
           \/ /\ UNCHANGED <<chOpen, chReceived>> /\ chServed[c] < chReceived[c]
              /\ chServed' = [chServed EXCEPT ![c] = chServed[c] + 1]
    BY DEF CH!Serve, CH!ServerReceives, CH!ServerResponds, CH!ServerRejects, CH!ServerCloses
  <1>3. /\ chOpen' \in [CH!Conn -> BOOLEAN] /\ chReceived' \in [CH!Conn -> Nat]
        /\ chServed' \in [CH!Conn -> Nat]
    <2>1. chOpen' \in [CH!Conn -> BOOLEAN]
      BY <1>1, <1>2
    <2>2. chReceived' \in [CH!Conn -> Nat]
      BY <1>1, <1>2
    <2>3. chServed' \in [CH!Conn -> Nat]
      <3>1. chServed[c] + 1 \in Nat
        BY <1>1
      <3>2. chServed' = chServed \/ chServed' = [chServed EXCEPT ![c] = chServed[c] + 1]
        BY <1>2
      <3> QED
        BY <1>1, <3>1, <3>2
    <2> QED
      BY <2>1, <2>2, <2>3
  <1>4. ASSUME NEW d \in CH!Conn
        PROVE  /\ chRead'[d] =< chServed'[d] /\ chServed'[d] =< chReceived'[d]
               /\ chReceived'[d] =< chServed'[d] + 1 /\ chReceived'[d] =< Len(chLog'[d])
    <2>1. /\ chRead[d] =< chServed[d] /\ chServed[d] =< chReceived[d]
          /\ chReceived[d] =< chServed[d] + 1 /\ chReceived[d] =< Len(chLog[d])
          /\ chRead[d] \in Nat /\ chServed[d] \in Nat /\ chReceived[d] \in Nat
          /\ Len(chLog[d]) \in Nat
      BY <1>1 DEF IInv, CH!TypeOK
    <2>2. CASE d = c
      BY <1>1, <1>2, <2>1, <2>2
    <2>3. CASE d # c
      BY <1>1, <1>2, <2>1, <2>3
    <2> QED
      BY <2>2, <2>3
  <1>5. \A d \in CH!Conn : CH!QueueOK(d)'
    BY <1>2 DEF IInv, CH!TypeOK, CH!QueueOK
  <1>6. CH!TypeOK'
    BY <1>2, <1>3, <1>4, <1>5 DEF IInv, CH!TypeOK
  <1> QED
    BY <1>2, <1>6, QuietInv

LEMMA TickInv == ASSUME CH!KvRpcAssumption, IInv, CH!Tick PROVE IInv'
  <1>1. chAge \in [ChCaller -> Nat] /\ chHeld \in [ChCaller -> Nat]
    BY DEF IInv, CH!TypeOK
  <1>2. chAge' \in [ChCaller -> Nat] /\ chHeld' \in [ChCaller -> Nat]
    BY <1>1 DEF CH!Tick
  <1>3. UNCHANGED <<chPool, chNext, chHolder, chQueue, chPc, chVia, chMine, chCalls, chOutcome, chAnswer,
                    chOpen, chLog, chCut, chGarbled, chReceived, chServed, chRead, chAbandoned>>
    BY DEF CH!Tick, CH!conns
  <1>4. \A d \in CH!Conn : CH!QueueOK(d)'
    BY <1>3 DEF IInv, CH!TypeOK, CH!QueueOK
  <1>5. CH!TypeOK'
    BY <1>2, <1>3, <1>4 DEF IInv, CH!TypeOK
  <1> QED
    BY <1>3, <1>5, QuietInv

LEMMA StutterInv == ASSUME IInv, UNCHANGED CH!vars PROVE IInv'
  <1>1. UNCHANGED <<chPool, chNext, chHolder, chQueue, chPc, chVia, chMine, chAge, chHeld, chCalls,
                    chOutcome, chAnswer, chOpen, chLog, chCut, chGarbled, chReceived, chServed, chRead,
                    chAbandoned>>
    BY DEF CH!vars
  <1>2. \A d \in CH!Conn : CH!QueueOK(d)'
    BY <1>1 DEF IInv, CH!TypeOK, CH!QueueOK
  <1>3. CH!TypeOK'
    BY <1>1, <1>2 DEF IInv, CH!TypeOK
  <1> QED
    BY <1>1, <1>3, QuietInv

(***************************************************************************)
(* The theorems.                                                           *)
(***************************************************************************)

LEMMA NextInv == ASSUME CH!KvRpcAssumption, IInv, [CH!Next]_(CH!vars) PROVE IInv'
  <1>1. ASSUME NEW t \in ChCaller, CH!Begin(t) PROVE IInv'
    BY <1>1, BeginInv
  <1>2. ASSUME NEW t \in ChCaller, CH!Progress(t) PROVE IInv'
    BY <1>2, AcquireInv, WriteRequestInv, ReadResponseInv, TimeoutsInv, ReconnectInv,
       ConnectFailsInv DEF CH!Progress
  <1>3. ASSUME NEW c \in CH!Conn, CH!Serve(c) \/ CH!ServerCloses(c) PROVE IInv'
    BY <1>3, PeerInv
  <1>4. CASE CH!Tick
    BY <1>4, TickInv
  <1>5. CASE UNCHANGED CH!vars
    BY <1>5, StutterInv
  <1> QED
    BY <1>1, <1>2, <1>3, <1>4, <1>5 DEF CH!Next

(***************************************************************************)
(* The scenes.  A behaviour of the scenes is one of the engine and one of  *)
(* the channel: the one that does not run stutters.                        *)
(***************************************************************************)

\* Whatever the scene, the engine and the channel behave as they do on their own,
\* so what is proved of either holds here (storage.rs:100-267, client.rs:29-70).
THEOREM ScenesRun == SceneSpec => Spec /\ CH!Init /\ [][CH!Next]_(CH!vars)
  <1>1. channel = CH!vars /\ channel' = CH!vars'
    BY DEF channel, CH!vars
  <1>2. SceneInit => Init /\ CH!Init
    BY DEF SceneInit
  <1>3. [SceneNext]_<<vars, channel, scene>> => [Next]_vars /\ [CH!Next]_(CH!vars)
    <2>1. RunStorage => Next /\ CH!vars' = CH!vars
      BY <1>1 DEF RunStorage
    <2>2. RunChannel => CH!Next /\ UNCHANGED vars
      BY DEF RunChannel
    <2>3. UNCHANGED <<vars, channel, scene>> => UNCHANGED vars /\ CH!vars' = CH!vars
      BY <1>1
    <2> QED
      BY <2>1, <2>2, <2>3 DEF SceneNext
  <1> QED
    BY <1>2, <1>3, PTL DEF SceneSpec, Spec

\* The engine's invariants hold in every scene.
LEMMA EngineInvariance == SceneSpec => [](TypeInv /\ VersionInv)
  BY ScenesRun, VersionInvariant, PTL

LEMMA ChannelInvariance == SceneSpec => []IInv
  <1>1. CH!Init => IInv
    BY InitInv, ChannelConstants
  <1>2. IInv /\ [CH!Next]_(CH!vars) => IInv'
    BY NextInv, ChannelConstants
  <1> QED
    BY <1>1, <1>2, ScenesRun, PTL

\* The peer reads no request before it is written and answers none before it is
\* read; the queue of a mutex names exactly the tasks that wait for it
\* (client.rs:44-50, server.rs:86-102).
THEOREM AlwaysChannelTypeOK == SceneSpec => []ChannelTypeOK
  <1>1. IInv => ChannelTypeOK
    BY DEF IInv, ChannelTypeOK
  <1> QED
    BY <1>1, ChannelInvariance, PTL

\* The skew of a connection is the number of its calls that gave up after they
\* wrote: it never heals, and nothing else creates it (client.rs:43-51).
THEOREM AlwaysSkewIsAbandoned == SceneSpec => []SkewIsAbandoned
  <1>1. ASSUME IInv, NEW t \in ChCaller, chPc[t] = "read"
        PROVE  chMine[t] - (chRead[chVia[t]] + 1) = chAbandoned[chVia[t]]
    <2>1. PICK c \in CH!Conn : c = chVia[t]
      BY <1>1 DEF IInv, CH!TypeOK
    <2>2. chRead[c] \in Nat /\ chAbandoned[c] \in Nat
      BY <1>1 DEF IInv, CH!TypeOK
    <2>3. Reader(c) # {}
      BY <1>1, <2>1 DEF Reader
    <2>4. LogOK(c) /\ chMine[t] = Len(chLog[c])
      BY <1>1, <2>1 DEF IInv, MineOK
    <2>5. Len(chLog[c]) = chRead[c] + chAbandoned[c] + 1
      BY <2>3, <2>4 DEF LogOK
    <2> QED
      BY <2>1, <2>2, <2>4, <2>5
  <1>2. ASSUME IInv, NEW c \in CH!Conn, chHolder[c] = ChNoCaller
        PROVE  Len(chLog[c]) - chRead[c] = chAbandoned[c]
    <2>1. chRead[c] \in Nat /\ chAbandoned[c] \in Nat
      BY <1>2 DEF IInv, CH!TypeOK
    <2>2. LogOK(c) /\ Reader(c) = {}
      BY <1>2, OneReader, ChannelConstants DEF IInv
    <2>3. Len(chLog[c]) = chRead[c] + chAbandoned[c]
      BY <2>1, <2>2 DEF LogOK
    <2> QED
      BY <2>1, <2>3
  <1>3. IInv => SkewIsAbandoned
    BY <1>1, <1>2 DEF SkewIsAbandoned, CH!SkewIsAbandoned
  <1> QED
    BY <1>3, ChannelInvariance, PTL

\* As long as no call on a connection gave up after it wrote, every call on it
\* gets the answer to its own request, whatever the tasks that share the client
\* do (client.rs:42-51).
THEOREM AlwaysOwnResponseUntilTimeout == SceneSpec => []OwnResponseUntilTimeout
  <1>1. IInv => OwnResponseUntilTimeout
    BY DEF IInv, OwnResponseUntilTimeout
  <1> QED
    BY <1>1, ChannelInvariance, PTL

(***************************************************************************)
(* The owned store.  OpsOf lets every thread call anything; in "owned" the *)
(* calls under way are those of OwnedOps, which have one writer per key.   *)
(***************************************************************************)

OwnedOps == [t \in Thread |-> IF t = Owner THEN Op ELSE {"delete"}]

OwnedInv == scene = "owned" => Within(OwnedOps) /\ WriterInv

LEMMA OnlyOwner == OneWriterPerKey(OwnedOps)
  <1>1. \A t \in Thread : t # Owner => OwnedOps[t] = {"delete"}
    BY DEF OwnedOps
  <1>2. \A t, u \in Thread : t # u => OwnedOps[t] = {"delete"} \/ OwnedOps[u] = {"delete"}
    BY <1>1
  <1> QED
    BY <1>2 DEF OneWriterPerKey

LEMMA InitOwned == SceneInit => OwnedInv
  BY DEF SceneInit, Init, OwnedInv, Within, Writing, Reading, Purging, WriterInv,
         Inserting

\* A step of the scene, in "owned".
LEMMA NextOwned ==
  ASSUME TypeInv, TypeInv', VersionInv, OwnedInv, [SceneNext]_<<vars, channel, scene>>
  PROVE  /\ OwnedInv'
         /\ scene = "owned" => VersionsKept
  <1> SUFFICES ASSUME scene = "owned" \/ scene' = "owned"
               PROVE  Within(OwnedOps)' /\ WriterInv' /\ VersionsKept
    BY DEF OwnedInv
  <1>1. /\ scene = "owned"
        /\ \/ Next /\ \A t \in Thread \ {Owner} : pc'[t] \in {"idle", "remove"}
           \/ UNCHANGED vars
    <2>1. scene' = scene
      BY DEF SceneNext, RunStorage, RunChannel
    <2>2. SceneNext => RunStorage
      BY <2>1 DEF SceneNext, RunChannel
    <2>3. RunStorage => Next /\ \A t \in Thread \ {Owner} : pc'[t] \in {"idle", "remove"}
      BY <2>1 DEF RunStorage, InScene
    <2> QED
      BY <2>1, <2>2, <2>3
  <1>2. Within(OwnedOps) /\ WriterInv
    BY <1>1 DEF OwnedInv
  <1>3. Within(OwnedOps)'
    BY <1>1, <1>2 DEF vars, Within, IsWriter, OwnedOps, Op, Writing, Reading, Purging
  <1> QED
    BY <1>1, <1>2, <1>3, OnlyOwner, NextWriter

LEMMA OwnedInvariance == SceneSpec => [](TypeInv /\ VersionInv /\ OwnedInv)
  <1>1. TypeInv /\ TypeInv' /\ VersionInv /\ OwnedInv /\ [SceneNext]_<<vars, channel, scene>>
        => OwnedInv'
    BY NextOwned
  <1> QED
    BY <1>1, InitOwned, EngineInvariance, PTL DEF SceneSpec

\* With one writer the version held under a key never goes down while the key stays
\* present, whatever the others delete (storage.rs:9 and 169-172).
THEOREM AlwaysVersionsNeverRegress == SceneSpec => OwnVersionsNeverRegress
  <1>1. TypeInv /\ TypeInv' /\ VersionInv /\ OwnedInv /\ [SceneNext]_<<vars, channel, scene>>
        => [scene = "owned" => VersionsKept]_vars
    BY NextOwned
  <1> QED
    BY <1>1, OwnedInvariance, PTL DEF SceneSpec, OwnVersionsNeverRegress

\* In every scene, what a get or a purge removes alive was written after its thread
\* had looked at the key (storage.rs:131-136 and 253-267).
THEOREM AlwaysJudgedIsRemoved == SceneSpec => LiveRemovedOnlyIfRewritten
  <1>1. SceneSpec => Spec
    BY ScenesRun, PTL
  <1> QED
    BY <1>1, JudgedIsRemoved, PTL
=============================================================================
