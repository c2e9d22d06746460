----------------------------- MODULE Parts_proofs -----------------------------
(***************************************************************************)
(* Theorems about the parts, each for any value of its constants: the      *)
(* in-memory Raft (RF), the circuit breaker (CB), the replicated set and   *)
(* counter (OR, PN), the publication by Release and Acquire (PU), work     *)
(* stealing (WS), the watches of the gRPC store (WA), the metrics of a     *)
(* node (ME), retries (RT) and the nodes as processes (NO), all instances  *)
(* of Parts.  At the end, what the run of Parts checks of its behaviours.  *)
(***************************************************************************)
EXTENDS Queues_proofs, KvRing_proofs

\* The operators of the instance on finite sets are those of the library.
LEMMA RaftSets ==
  ASSUME NEW S
  PROVE  /\ RF!Cardinality(S) = Cardinality(S)
         /\ RF!Min(S) = Min(S) /\ RF!Max(S) = Max(S)
  BY DEF RF!Cardinality, Cardinality, RF!IsFiniteSet, IsFiniteSet, RF!Min, Min, RF!Max, Max

(***************************************************************************)
(* The inductive invariant.                                                *)
(***************************************************************************)

Entry == [term : Nat, command : Nat]

\* The nodes that have reached term t: whoever voted in it, or later.
InTerm(t) == {i \in RF!Node : rfCurrentTerm[i] >= t}

RaftTypes ==
  /\ RF!TypeOK
  /\ rfVotedFor \in [RF!Node -> 0 .. RfNodes]
  /\ rfLog \in [RF!Node -> Seq(Entry)]
  /\ rfCommitIndex \in [RF!Node -> Nat]
  /\ rfAlive \in [RF!Node -> BOOLEAN]
  /\ rfElected \subseteq Nat \X RF!Node

\* A majority has reached every term that a leader was elected in; a node that has
\* reached a term votes in it no more.
ElectedOnMajority == \A e \in rfElected : 2 * Cardinality(InTerm(e[1])) > RfNodes

RaftInv ==
  /\ RaftTypes
  /\ ElectedOnMajority
  /\ RF!OneLeaderPerTerm

(***************************************************************************)
(* Majorities.                                                             *)
(***************************************************************************)

LEMMA NodesFinite ==
  ASSUME RF!RaftDemoAssumption
  PROVE  /\ IsFiniteSet(RF!Node) /\ Cardinality(RF!Node) = RfNodes
         /\ \A S \in SUBSET RF!Node : IsFiniteSet(S) /\ Cardinality(S) \in Nat
         /\ \A S, T \in SUBSET RF!Node :
              S \subseteq T => Cardinality(S) =< Cardinality(T)
  <1>1. IsFiniteSet(RF!Node) /\ Cardinality(RF!Node) = RfNodes
    BY FS_Interval DEF RF!RaftDemoAssumption, RF!Node
  <1>2. ASSUME NEW S \in SUBSET RF!Node
        PROVE  IsFiniteSet(S) /\ Cardinality(S) \in Nat
    BY <1>1, FS_Subset, FS_CardinalityType
  <1>3. ASSUME NEW S \in SUBSET RF!Node, NEW T \in SUBSET RF!Node, S \subseteq T
        PROVE  Cardinality(S) =< Cardinality(T)
    BY <1>2, <1>3, FS_Subset
  <1> QED
    BY <1>1, <1>2, <1>3

LEMMA MajoritiesMeet ==
  ASSUME RF!RaftDemoAssumption, NEW S \in SUBSET RF!Node, NEW T \in SUBSET RF!Node,
         2 * Cardinality(S) > RfNodes, 2 * Cardinality(T) > RfNodes
  PROVE  S \cap T # {}
  <1>1. Cardinality(S) \in Nat /\ Cardinality(T) \in Nat /\ RfNodes \in Nat
    BY NodesFinite DEF RF!RaftDemoAssumption
  <1>2. Cardinality(S) + Cardinality(T) > Cardinality(RF!Node)
    BY <1>1, NodesFinite
  <1> QED
    BY <1>2, NodesFinite, FS_MajoritiesIntersect

\* A quorum is a majority.
LEMMA QuorumIsMajority ==
  ASSUME RF!RaftDemoAssumption, NEW S \in SUBSET RF!Node, Cardinality(S) >= RF!quorum
  PROVE  2 * Cardinality(S) > RfNodes
  BY NodesFinite DEF RF!quorum, RF!RaftDemoAssumption

LEMMA RaftInit == ASSUME RF!RaftDemoAssumption, RF!Init PROVE RaftInv
  <1>1. RF!TypeOK
    BY DEF RF!Init, RF!TypeOK, RF!Nobody, RF!RaftDemoAssumption
  <1>2. RaftTypes
    BY <1>1 DEF RF!Init, RaftTypes, RF!Nobody, RF!RaftDemoAssumption
  <1>3. ElectedOnMajority /\ RF!OneLeaderPerTerm
    BY DEF RF!Init, ElectedOnMajority, RF!OneLeaderPerTerm
  <1> QED
    BY <1>2, <1>3 DEF RaftInv

(***************************************************************************)
(* An election.                                                            *)
(***************************************************************************)

LEMMA ElectionInv ==
  ASSUME RF!RaftDemoAssumption, RaftInv, NEW c \in RF!Node, RF!run_election(c)
  PROVE  RaftInv'
  <1> DEFINE votes == RF!Voters(c) \cup {c}
             won == Cardinality(votes) >= RF!quorum
  <1>1. PICK term \in 1 .. RfMaxTerm : term = rfCurrentTerm[c] + 1
    BY DEF RF!run_election, RaftInv, RaftTypes, RF!TypeOK, RF!RaftDemoAssumption
  <1>2. /\ votes \subseteq RF!Node /\ c \in votes
        /\ \A i \in votes : rfCurrentTerm[i] < term
    BY <1>1 DEF RF!Voters, RF!Alive, RaftInv, RaftTypes, RF!TypeOK
  <1>3. /\ rfCurrentTerm' = [i \in RF!Node |-> IF i \in votes THEN term ELSE rfCurrentTerm[i]]
        /\ rfVotedFor' = [i \in RF!Node |-> IF i \in votes THEN c ELSE rfVotedFor[i]]
        /\ rfRole' = [i \in RF!Node |->
             IF i = c /\ won THEN "Leader"
             ELSE IF i \in votes \/ (won /\ rfAlive[i]) THEN "Follower" ELSE rfRole[i]]
        /\ rfElected' = IF won THEN rfElected \cup {<<term, c>>} ELSE rfElected
        /\ UNCHANGED <<rfLog, rfCommitIndex, rfAlive>>
    <2>1. RF!Cardinality(votes) = Cardinality(votes)
      BY RaftSets
    <2> QED
      BY <1>1, <2>1 DEF RF!run_election
  <1> HIDE DEF votes, won
  <1>4. rfCurrentTerm \in [RF!Node -> 0 .. RfMaxTerm] /\ RfMaxTerm \in Nat
    BY DEF RaftInv, RaftTypes, RF!TypeOK, RF!RaftDemoAssumption
  <1>5. RaftTypes'
    <2>1. rfCurrentTerm' \in [RF!Node -> 0 .. RfMaxTerm] /\ rfVotedFor' \in [RF!Node -> 0 .. RfNodes]
      <3>1. rfVotedFor \in [RF!Node -> 0 .. RfNodes] /\ c \in 0 .. RfNodes /\ term \in 0 .. RfMaxTerm
        BY <1>4 DEF RaftInv, RaftTypes, RF!Node, RF!RaftDemoAssumption
      <3> QED
        BY <1>3, <1>4, <3>1
    <2>2. rfRole' \in [RF!Node -> {"Follower", "Leader"}]
      BY <1>3 DEF RaftInv, RaftTypes, RF!TypeOK
    <2>3. \A i \in RF!Node : rfVotedFor'[i] = RF!Nobody <=> rfCurrentTerm'[i] = 0
      BY <1>1, <1>3 DEF RaftInv, RaftTypes, RF!TypeOK, RF!Nobody, RF!Node, RF!RaftDemoAssumption
    <2>4. rfElected' \subseteq Nat \X RF!Node
      BY <1>1, <1>3 DEF RaftInv, RaftTypes
    <2>5. RF!TypeOK'
      BY <1>3, <2>1, <2>2, <2>3 DEF RaftInv, RaftTypes, RF!TypeOK
    <2> QED
      BY <1>3, <2>1, <2>4, <2>5 DEF RaftInv, RaftTypes
  <1>6. \A e \in rfElected : e[1] \in Nat
    BY DEF RaftInv, RaftTypes
  <1>7. ASSUME NEW t \in Nat PROVE InTerm(t) \subseteq InTerm(t)'
    BY <1>1, <1>2, <1>3, <1>4 DEF InTerm
  <1>8. won => 2 * Cardinality(votes) > RfNodes
    BY <1>2, QuorumIsMajority DEF won
  <1>9. votes \subseteq InTerm(term)'
    BY <1>2, <1>3 DEF InTerm
  <1>10. ASSUME NEW e \in rfElected' PROVE 2 * Cardinality(InTerm(e[1])') > RfNodes
    <2>1. CASE e \in rfElected
      <3>1. /\ InTerm(e[1]) \subseteq RF!Node /\ InTerm(e[1])' \subseteq RF!Node
            /\ InTerm(e[1]) \subseteq InTerm(e[1])'
        BY <1>6, <1>7, <2>1 DEF InTerm
      <3>2. /\ Cardinality(InTerm(e[1])) =< Cardinality(InTerm(e[1])')
            /\ Cardinality(InTerm(e[1])) \in Nat /\ Cardinality(InTerm(e[1])') \in Nat
        BY <3>1, NodesFinite
      <3>3. 2 * Cardinality(InTerm(e[1])) > RfNodes
        BY <2>1 DEF RaftInv, ElectedOnMajority
      <3> QED
        BY <3>2, <3>3 DEF RF!RaftDemoAssumption
    <2>2. CASE e = <<term, c>> /\ won
      <3>1. votes \subseteq RF!Node /\ InTerm(term)' \subseteq RF!Node
        BY <1>2 DEF InTerm
      <3>2. /\ Cardinality(votes) =< Cardinality(InTerm(term)')
            /\ Cardinality(votes) \in Nat /\ Cardinality(InTerm(term)') \in Nat
        BY <1>9, <3>1, NodesFinite
      <3>3. e[1] = term
        BY <2>2
      <3> QED
        BY <1>8, <2>2, <3>2, <3>3 DEF RF!RaftDemoAssumption
    <2> QED
      BY <1>3, <1>10, <2>1, <2>2
  <1>11. ASSUME won, NEW e \in rfElected, e[1] = term PROVE FALSE
    <2>1. InTerm(term) \subseteq RF!Node /\ 2 * Cardinality(InTerm(term)) > RfNodes
      BY <1>11 DEF RaftInv, ElectedOnMajority, InTerm
    <2>2. PICK i \in votes : i \in InTerm(term)
      BY <1>2, <1>8, <1>11, <2>1, MajoritiesMeet
    <2>3. rfCurrentTerm[i] < term /\ rfCurrentTerm[i] >= term /\ rfCurrentTerm[i] \in Nat
      BY <1>2, <1>4, <2>2 DEF InTerm
    <2> QED
      BY <1>1, <2>3
  <1>12. RF!OneLeaderPerTerm'
    <2> SUFFICES ASSUME NEW e \in rfElected', NEW f \in rfElected', e[1] = f[1]
                 PROVE  e = f
      BY DEF RF!OneLeaderPerTerm
    <2>1. CASE e \in rfElected /\ f \in rfElected
      BY <2>1 DEF RaftInv, RF!OneLeaderPerTerm
    <2>2. CASE ~ (e \in rfElected /\ f \in rfElected)
      BY <1>3, <1>11, <2>2
    <2> QED
      BY <2>1, <2>2
  <1>14. ElectedOnMajority'
    BY <1>10 DEF ElectedOnMajority
  <1> QED
    BY <1>5, <1>12, <1>14 DEF RaftInv

(***************************************************************************)
(* A request.                                                              *)
(***************************************************************************)

\* The living leader with the least number exists.
LEMMA LeaderIsNode ==
  ASSUME RF!RaftDemoAssumption, RF!Leaders # {}
  PROVE  RF!leader \in RF!Leaders /\ RF!leader \in RF!Node
  <1>1. RF!Leaders \subseteq RF!Node /\ RF!Leaders \subseteq Nat
    BY DEF RF!Leaders, RF!Alive, RF!Node, RF!RaftDemoAssumption
  <1>2. Min(RF!Leaders) \in RF!Leaders
    BY <1>1, LeastOf
  <1>3. RF!leader = Min(RF!Leaders)
    BY RaftSets DEF RF!leader
  <1> QED
    BY <1>1, <1>2, <1>3

LEMMA RequestsFinite ==
  ASSUME RF!RaftDemoAssumption, RaftInv
  PROVE  IsFiniteSet(RF!Requests) /\ Cardinality(RF!Requests) \in Nat
  <1> DEFINE Of(i) == {rfLog[i][k].command : k \in DOMAIN rfLog[i]}
  <1>1. ASSUME NEW i \in RF!Node PROVE IsFiniteSet(Of(i))
    <2>1. rfLog[i] \in Seq(Entry) /\ DOMAIN rfLog[i] = 1 .. Len(rfLog[i]) /\ Len(rfLog[i]) \in Nat
      BY <1>1 DEF RaftInv, RaftTypes
    <2>2. IsFiniteSet(DOMAIN rfLog[i])
      <3>1. \A n \in Nat : IsFiniteSet(1 .. n)
        BY FS_Interval
      <3> QED
        BY <2>1, <3>1
    <2>3. [k \in DOMAIN rfLog[i] |-> rfLog[i][k].command] \in Surjection(DOMAIN rfLog[i], Of(i))
      BY DEF Surjection
    <2> QED
      BY <2>2, <2>3, FS_Surjection
  <1>2. IsFiniteSet({Of(i) : i \in RF!Node})
    <2>1. [i \in RF!Node |-> Of(i)] \in Surjection(RF!Node, {Of(i) : i \in RF!Node})
      BY DEF Surjection
    <2> QED
      BY <2>1, NodesFinite, FS_Surjection
  <1>3. IsFiniteSet(UNION {Of(i) : i \in RF!Node})
    BY <1>1, <1>2, FS_UNION
  <1> QED
    BY <1>3, FS_CardinalityType DEF RF!Requests

LEMMA RequestInv ==
  ASSUME RF!RaftDemoAssumption, RaftInv, RF!client_request
  PROVE  RaftInv'
  <1>1. PICK l \in RF!Leaders : l = RF!leader /\ l \in RF!Node
    BY LeaderIsNode DEF RF!client_request
  <1>2. PICK entry \in Entry :
          entry = [term |-> rfCurrentTerm[RF!leader], command |-> Cardinality(RF!Requests) + 1]
    <2>1. rfCurrentTerm[RF!leader] \in Nat
      BY <1>1 DEF RaftInv, RaftTypes, RF!TypeOK, RF!RaftDemoAssumption
    <2>2. Cardinality(RF!Requests) + 1 \in Nat
      BY RequestsFinite
    <2> QED
      BY <2>1, <2>2 DEF Entry
  <1>3. PICK target \in Nat : target = Len(rfLog[RF!leader]) + 1
    BY <1>1 DEF RaftInv, RaftTypes
  <1>4. /\ rfLog' = [i \in RF!Node |-> IF i \in RF!Alive THEN Append(rfLog[i], entry) ELSE rfLog[i]]
        /\ rfCommitIndex' = [i \in RF!Node |->
             IF Cardinality(RF!Alive) >= RF!quorum /\ rfAlive[i] /\ Len(rfLog'[i]) >= target
               THEN Max({rfCommitIndex[i], target}) ELSE rfCommitIndex[i]]
        /\ UNCHANGED <<rfRole, rfCurrentTerm, rfVotedFor, rfAlive, rfElected>>
    <2>1. /\ RF!Cardinality(RF!Requests) = Cardinality(RF!Requests)
          /\ RF!Cardinality(RF!Alive) = Cardinality(RF!Alive)
          /\ \A i \in RF!Node : RF!Max({rfCommitIndex[i], target}) = Max({rfCommitIndex[i], target})
      BY RaftSets
    <2> QED
      BY <1>2, <1>3, <2>1 DEF RF!client_request
  <1>5. rfLog \in [RF!Node -> Seq(Entry)] /\ rfCommitIndex \in [RF!Node -> Nat]
        /\ \A i \in RF!Node : rfCommitIndex[i] =< Len(rfLog[i])
    BY DEF RaftInv, RaftTypes, RF!TypeOK
  <1>6. ASSUME NEW i \in RF!Node
        PROVE  /\ rfLog'[i] \in Seq(Entry) /\ Len(rfLog'[i]) \in Nat /\ Len(rfLog[i]) \in Nat
               /\ Len(rfLog'[i]) >= Len(rfLog[i])
               /\ DOMAIN rfLog[i] = 1 .. Len(rfLog[i]) /\ DOMAIN rfLog'[i] = 1 .. Len(rfLog'[i])
               /\ \A k \in 1 .. Len(rfLog[i]) : rfLog'[i][k] = rfLog[i][k]
               /\ i \in RF!Alive => /\ Len(rfLog'[i]) = Len(rfLog[i]) + 1
                                    /\ rfLog'[i][Len(rfLog'[i])] = entry
    <2>1. rfLog[i] \in Seq(Entry)
      BY <1>5
    <2>2. CASE i \in RF!Alive
      <3>1. rfLog'[i] = Append(rfLog[i], entry)
        BY <1>4, <2>2
      <3> QED
        BY <2>1, <3>1
    <2>3. CASE i \notin RF!Alive
      <3>1. rfLog'[i] = rfLog[i]
        BY <1>4, <2>3
      <3> QED
        BY <2>1, <2>3, <3>1
    <2> QED
      BY <2>2, <2>3
  <1>7. ASSUME NEW i \in RF!Node
        PROVE  rfCommitIndex'[i] \in Nat /\ rfCommitIndex'[i] =< Len(rfLog'[i])
    <2>1. CASE rfCommitIndex'[i] = rfCommitIndex[i]
      BY <1>5, <1>6, <2>1
    <2>2. CASE Len(rfLog'[i]) >= target /\ rfCommitIndex'[i] = Max({rfCommitIndex[i], target})
      <3>1. rfCommitIndex[i] \in Nat /\ target \in Nat
        BY <1>5
      <3>2. Max({rfCommitIndex[i], target}) \in {rfCommitIndex[i], target}
        BY <3>1 DEF Max
      <3> QED
        BY <1>5, <1>6, <2>2, <3>1, <3>2
    <2> QED
      BY <1>4, <2>1, <2>2
  <1>8. RaftTypes'
    <2>1. rfLog' \in [RF!Node -> Seq(Entry)]
      BY <1>4, <1>6
    <2>2. rfCommitIndex' \in [RF!Node -> Nat]
      BY <1>4, <1>7
    <2>3. RF!TypeOK'
      BY <1>4, <1>7 DEF RaftInv, RaftTypes, RF!TypeOK
    <2> QED
      BY <1>4, <2>1, <2>2, <2>3 DEF RaftInv, RaftTypes
  <1>9. ElectedOnMajority' /\ RF!OneLeaderPerTerm'
    BY <1>4 DEF RaftInv, ElectedOnMajority, RF!OneLeaderPerTerm, InTerm
  <1> QED
    BY <1>8, <1>9 DEF RaftInv

LEMMA CrashInv ==
  ASSUME RaftInv, NEW i \in RF!Node, RF!CrashOrRevive(i) \/ UNCHANGED RF!vars
  PROVE  RaftInv'
  <1>1. UNCHANGED <<rfRole, rfCurrentTerm, rfVotedFor, rfLog, rfCommitIndex, rfElected>>
    BY DEF RF!CrashOrRevive, RF!vars
  <1>2. rfAlive' \in [RF!Node -> BOOLEAN]
    BY DEF RF!CrashOrRevive, RF!vars, RaftInv, RaftTypes
  <1>3. RaftTypes'
    BY <1>1, <1>2 DEF RaftInv, RaftTypes, RF!TypeOK
  <1> QED
    BY <1>1, <1>3 DEF RaftInv, ElectedOnMajority, RF!OneLeaderPerTerm, InTerm

(***************************************************************************)
(* The theorems.                                                           *)
(***************************************************************************)

LEMMA RaftInvariant == ASSUME RF!RaftDemoAssumption PROVE RF!Spec => []RaftInv
  <1>1. RF!Init => RaftInv
    BY RaftInit
  <1>2. RaftInv /\ [RF!Next]_(RF!vars) => RaftInv'
    <2>1. 0 \in RF!Node
      BY DEF RF!Node, RF!RaftDemoAssumption
    <2> QED
      BY <2>1, ElectionInv, RequestInv, CrashInv DEF RF!Next
  <1> QED
    BY <1>1, <1>2, PTL DEF RF!Spec

\* The variables are of their types, a node that has not voted is in term 0, and no
\* node commits beyond the end of its log (demo_3_3c_raft.rs:100-221).
THEOREM RaftTypeCorrect == ASSUME RF!RaftDemoAssumption PROVE RF!Spec => []RF!TypeOK
  <1>1. RaftInv => RF!TypeOK
    BY DEF RaftInv, RaftTypes
  <1> QED
    BY <1>1, RaftInvariant, PTL

\* A term has one leader at most, whatever crashed and came back between the
\* elections (demo_3_3c_raft.rs:11-12, 100-164).
THEOREM AlwaysOneLeaderPerTerm ==
  ASSUME RF!RaftDemoAssumption PROVE RF!Spec => []RF!OneLeaderPerTerm
  <1>1. RaftInv => RF!OneLeaderPerTerm
    BY DEF RaftInv
  <1> QED
    BY <1>1, RaftInvariant, PTL

\* An election that is won leaves one leader among the living: an old one that came
\* back gives up (demo_3_3c_raft.rs:147-154).
THEOREM AlwaysElectionLeavesOne ==
  ASSUME RF!RaftDemoAssumption PROVE RF!Spec => [][RF!ElectionLeavesOne]_(RF!vars)
  <1>1. ASSUME RaftInv, NEW c \in RF!Node, RF!run_election(c), rfElected' # rfElected
        PROVE  Cardinality(RF!Leaders') = 1
    <2> DEFINE votes == RF!Voters(c) \cup {c}
    <2>1. /\ rfAlive' = rfAlive /\ rfAlive[c]
          /\ rfRole' = [i \in RF!Node |-> IF i = c THEN "Leader"
                        ELSE IF i \in votes \/ rfAlive[i] THEN "Follower" ELSE rfRole[i]]
      BY <1>1 DEF RF!run_election
    <2>2. RF!Leaders' = {c}
      BY <2>1 DEF RF!Leaders, RF!Alive
    <2> QED
      BY <2>2, FS_Singleton
  <1>2. ASSUME RaftInv, RF!Next, rfElected' # rfElected
        PROVE  Cardinality(RF!Leaders') = 1
    BY <1>1, <1>2 DEF RF!Next, RF!client_request, RF!CrashOrRevive
  <1>3. RaftInv /\ [RF!Next]_(RF!vars) => [RF!ElectionLeavesOne]_(RF!vars)
    BY <1>2, RaftSets DEF RF!ElectionLeavesOne
  <1> QED
    BY <1>3, RaftInvariant, PTL DEF RF!Spec

(***************************************************************************)
(* The circuit breaker.                                                    *)
(***************************************************************************)

\* The age of the last opening is that of the breaker's own clock; the successes of
\* a test are those reported since it began.
BreakerInv ==
  /\ CB!TypeOK /\ CB!StaysOpen
  /\ cbElapsed \in 0 .. CbResetTimeout /\ cbQuiet = cbElapsed
  /\ cbState = "HalfOpen" => cbTested = cbSuccessCount

LEMMA BreakerStep ==
  ASSUME CB!CircuitBreakerAssumption, BreakerInv, [CB!Next]_(CB!vars)
  PROVE  BreakerInv' /\ CB!ClosesOnSuccesses
  <1> USE DEF CB!CircuitBreakerAssumption, BreakerInv, CB!TypeOK, CB!StaysOpen,
              CB!ClosesOnSuccesses
  <1>1. ASSUME NEW c \in CbCaller, CB!Pass(c)
        PROVE  BreakerInv' /\ CB!ClosesOnSuccesses
    BY <1>1 DEF CB!Pass, CB!Admit
  <1>2. ASSUME NEW c \in CbCaller, CB!HalfOpen(c)
        PROVE  BreakerInv' /\ CB!ClosesOnSuccesses
    BY <1>2 DEF CB!HalfOpen, CB!Admit
  <1>3. ASSUME NEW c \in CbCaller, CB!Answer(c) \/ CB!Drop(c)
        PROVE  BreakerInv' /\ CB!ClosesOnSuccesses
    BY <1>3 DEF CB!Answer, CB!Drop
  <1>4. ASSUME NEW c \in CbCaller, CB!Report(c)
        PROVE  BreakerInv' /\ CB!ClosesOnSuccesses
    <2>1. cbPc' \in [CbCaller -> {"idle", "calling", "ok", "failed"}]
      BY <1>4 DEF CB!Report
    <2>2. ASSUME CB!on_success
          PROVE  BreakerInv' /\ CB!ClosesOnSuccesses
      <3>1. CASE cbState = "Closed"
        BY <2>1, <2>2, <3>1 DEF CB!on_success
      <3>2. CASE cbState = "HalfOpen"
        BY <2>1, <2>2, <3>2 DEF CB!on_success
      <3>3. CASE cbState = "Open"
        BY <2>1, <2>2, <3>3 DEF CB!on_success
      <3> QED
        BY <3>1, <3>2, <3>3
    <2>3. ASSUME CB!on_failure
          PROVE  BreakerInv' /\ CB!ClosesOnSuccesses
      <3>1. CASE cbState = "Closed"
        BY <2>1, <2>3, <3>1 DEF CB!on_failure, CB!Open
      <3>2. CASE cbState = "HalfOpen"
        BY <2>1, <2>3, <3>2 DEF CB!on_failure, CB!Open, CB!OpenAgain
      <3>3. CASE cbState = "Open"
        BY <2>1, <2>3, <3>3 DEF CB!on_failure
      <3> QED
        BY <3>1, <3>2, <3>3
    <2> QED
      BY <1>4, <2>2, <2>3 DEF CB!Report
  <1>5. ASSUME CB!Tick \/ CB!GoDown \/ CB!ComeBack \/ UNCHANGED CB!vars
        PROVE  BreakerInv' /\ CB!ClosesOnSuccesses
    BY <1>5 DEF CB!Tick, CB!Soon, CB!GoDown, CB!ComeBack, CB!vars
  <1> QED
    BY <1>1, <1>2, <1>3, <1>4, <1>5 DEF CB!Next, CB!Call

\* Each opening keeps the circuit open for reset_timeout, whatever is reported late,
\* and it closes on success_threshold successes reported since it last half-opened
\* (demo_3_4a_circuit_breaker.rs:69-155).
THEOREM BreakerStaysOpen ==
  ASSUME CB!CircuitBreakerAssumption
  PROVE  CB!Spec => [](CB!TypeOK /\ CB!StaysOpen) /\ [][CB!ClosesOnSuccesses]_(CB!vars)
  <1>1. CB!Init => BreakerInv
    BY DEF CB!Init, BreakerInv, CB!TypeOK, CB!StaysOpen, CB!CircuitBreakerAssumption
  <1>2. BreakerInv /\ [CB!Next]_(CB!vars) => BreakerInv' /\ [CB!ClosesOnSuccesses]_(CB!vars)
    BY BreakerStep
  <1>3. BreakerInv => CB!TypeOK /\ CB!StaysOpen
    BY DEF BreakerInv
  <1> QED
    BY <1>1, <1>2, <1>3, PTL DEF CB!Spec

(***************************************************************************)
(* The replicated set.                                                     *)
(***************************************************************************)

\* A tag names one add, or is none.
Known == {t \in OrNode \X (Nat \ {0}) : t[2] =< orCounter[t[1]]}

SetInv ==
  /\ orCounter \in [OrNode -> Nat]
  /\ orElements \in [OrNode -> [OrItem -> SUBSET Known]]
  /\ orWanted \in [OrNode -> SUBSET OrItem]
  /\ OR!AddWins

LEMMA SetStep ==
  ASSUME SetInv, [OR!Next]_(OR!vars)
  PROVE  SetInv'
  <1>1. ASSUME NEW r \in OrNode, NEW i \in OrItem, OR!Add(r, i)
        PROVE  SetInv'
    <2> DEFINE tag == <<r, orCounter[r] + 1>>
    <2>1. /\ orCounter' = [orCounter EXCEPT ![r] = @ + 1]
          /\ orElements' = [orElements EXCEPT ![r][i] = @ \cup {tag}]
          /\ orWanted' = [orWanted EXCEPT ![r] = @ \cup {i}]
      BY <1>1 DEF OR!Add, SetInv
    <2>2. Known \subseteq Known' /\ tag \in Known' /\ orCounter' \in [OrNode -> Nat]
      BY <2>1 DEF Known, SetInv
    <2>3. orElements' \in [OrNode -> [OrItem -> SUBSET Known']]
      <3> DEFINE K == Known'
      <3>1. orElements \in [OrNode -> [OrItem -> SUBSET K]] /\ tag \in K
        BY <2>2 DEF SetInv
      <3> HIDE DEF K, tag
      <3>2. orElements' \in [OrNode -> [OrItem -> SUBSET K]]
        BY <2>1, <3>1
      <3> QED
        BY <3>2 DEF K
    <2>4. orWanted' \in [OrNode -> SUBSET OrItem]
      BY <2>1 DEF SetInv
    <2>5. ASSUME NEW s \in OrNode, NEW j \in orWanted'[s]
          PROVE  orElements'[s][j] # {}
      <3>1. CASE s = r /\ j = i
        <4>1. tag \in orElements'[r][i]
          BY <2>1 DEF SetInv
        <4> QED
          BY <3>1, <4>1
      <3>2. CASE ~ (s = r /\ j = i)
        <4>1. j \in OrItem /\ j \in orWanted[s] /\ orElements'[s][j] = orElements[s][j]
          BY <2>1, <2>5, <3>2 DEF SetInv
        <4> QED
          BY <4>1 DEF SetInv, OR!AddWins, OR!values, OR!contains
      <3> QED
        BY <3>1, <3>2
    <2>6. OR!AddWins'
      BY <2>4, <2>5 DEF OR!AddWins, OR!values, OR!contains
    <2> QED
      BY <2>2, <2>3, <2>4, <2>6 DEF SetInv
  <1>2. ASSUME NEW r \in OrNode, NEW i \in OrItem, OR!Remove(r, i)
        PROVE  SetInv'
    <2>1. /\ orCounter' = orCounter
          /\ orElements' = [orElements EXCEPT ![r][i] = {}]
          /\ orWanted' = [orWanted EXCEPT ![r] = @ \ {i}]
      BY <1>2 DEF OR!Remove
    <2>2. Known' = Known
      BY <2>1 DEF Known
    <2>3. orElements' \in [OrNode -> [OrItem -> SUBSET Known]]
      BY <2>1 DEF SetInv
    <2>4. orWanted' \in [OrNode -> SUBSET OrItem]
      BY <2>1 DEF SetInv
    <2>5. ASSUME NEW s \in OrNode, NEW j \in orWanted'[s]
          PROVE  orElements'[s][j] # {}
      BY <2>1, <2>5 DEF SetInv, OR!AddWins, OR!values, OR!contains
    <2>6. OR!AddWins'
      BY <2>4, <2>5 DEF OR!AddWins, OR!values, OR!contains
    <2> QED
      BY <2>1, <2>2, <2>3, <2>4, <2>6 DEF SetInv
  <1>3. ASSUME NEW r \in OrNode, NEW s \in OrNode, OR!Merge(r, s)
        PROVE  SetInv'
    <2>1. /\ orCounter' = orCounter /\ orWanted' = orWanted
          /\ orElements' = [orElements EXCEPT ![r] =
                            [i \in OrItem |-> orElements[r][i] \cup orElements[s][i]]]
      BY <1>3 DEF OR!Merge, OR!Union
    <2>2. Known' = Known
      BY <2>1 DEF Known
    <2>3. orElements' \in [OrNode -> [OrItem -> SUBSET Known]]
      BY <2>1 DEF SetInv
    <2>4. ASSUME NEW u \in OrNode, NEW j \in orWanted[u]
          PROVE  orElements'[u][j] # {}
      BY <2>1, <2>4 DEF SetInv, OR!AddWins, OR!values, OR!contains
    <2>5. OR!AddWins'
      BY <2>1, <2>4 DEF SetInv, OR!AddWins, OR!values, OR!contains
    <2> QED
      BY <2>1, <2>2, <2>3, <2>5 DEF SetInv
  <1>4. CASE UNCHANGED OR!vars
    BY <1>4 DEF SetInv, Known, OR!vars, OR!AddWins, OR!values, OR!contains
  <1> QED
    BY <1>1, <1>2, <1>3, <1>4 DEF OR!Next

\* The updates there were are within the bound.
SetBudget == orRemoves \in Nat /\ orRemoves + SumOf(orCounter, OrNode) =< OrMaxUpdates

LEMMA BudgetStep ==
  ASSUME OR!OrSetAssumption, SetInv, SetBudget, [OR!Next]_(OR!vars)
  PROVE  SetBudget'
  <1>1. /\ IsFiniteSet(OrNode) /\ OrMaxUpdates \in Nat
        /\ orCounter \in [OrNode -> Nat] /\ SumOf(orCounter, OrNode) \in Nat
    <2>1. IsFiniteSet(OrNode) /\ OrMaxUpdates \in Nat
      BY DEF OR!OrSetAssumption, OR!IsFiniteSet, IsFiniteSet
    <2>2. orCounter \in [OrNode -> Nat]
      BY DEF SetInv
    <2> QED
      BY <2>1, <2>2, SumInNat
  <1>2. OR!MayUpdate <=> orRemoves + SumOf(orCounter, OrNode) < OrMaxUpdates
    BY DEF OR!MayUpdate, OR!FoldSet, OR!MapThenFoldSet, SumOf, FoldSet, MapThenFoldSet
  <1>3. ASSUME NEW r \in OrNode, NEW i \in OrItem, OR!Add(r, i)
        PROVE  SetBudget'
    <2>1. orCounter' = [orCounter EXCEPT ![r] = orCounter[r] + 1] /\ orRemoves' = orRemoves
      BY <1>3 DEF OR!Add
    <2>2. SumOf(orCounter', OrNode) = SumOf(orCounter, OrNode) + 1
      BY <1>1, <2>1, SumCountsOn, Zenon
    <2>3. OR!MayUpdate
      BY <1>3 DEF OR!Add
    <2>4. orRemoves + SumOf(orCounter, OrNode) + 1 =< OrMaxUpdates
      BY <1>1, <1>2, <2>3 DEF SetBudget
    <2> QED
      BY <1>1, <2>1, <2>2, <2>4 DEF SetBudget
  <1>4. ASSUME NEW r \in OrNode, NEW i \in OrItem, OR!Remove(r, i)
        PROVE  SetBudget'
    <2>1. orCounter' = orCounter /\ orRemoves' = orRemoves + 1 /\ OR!MayUpdate
      BY <1>4 DEF OR!Remove
    <2> QED
      BY <1>1, <1>2, <2>1 DEF SetBudget
  <1>5. ASSUME NEW r \in OrNode, NEW s \in OrNode, OR!Merge(r, s)
        PROVE  SetBudget'
    BY <1>5 DEF OR!Merge, SetBudget
  <1>6. CASE UNCHANGED OR!vars
    BY <1>6 DEF OR!vars, SetBudget
  <1> QED
    BY <1>3, <1>4, <1>5, <1>6 DEF OR!Next

\* A tag that a replica knows names one add that was made; and an add survives the
\* removes of the other replicas, whatever is merged after it
\* (demo_3_3b_crdt.rs:115-121).
THEOREM SetAddWins ==
  ASSUME OR!OrSetAssumption
  PROVE  OR!Spec => [](OR!TypeOK /\ OR!AddWins)
  <1>1. OR!Init => SetInv /\ SetBudget
    <2> SUFFICES ASSUME OR!Init
                 PROVE  SetInv /\ SetBudget
      OBVIOUS
    <2>1. IsFiniteSet(OrNode) /\ OrMaxUpdates \in Nat
      BY DEF OR!OrSetAssumption, OR!IsFiniteSet, IsFiniteSet
    <2>2. SumOf(orCounter, OrNode) = 0
      BY <2>1, SumOfZeros, Zenon DEF OR!Init
    <2>3. SetBudget
      BY <2>1, <2>2 DEF OR!Init, SetBudget
    <2>4. SetInv
      BY DEF OR!Init, SetInv, OR!AddWins, OR!values, OR!contains
    <2> QED
      BY <2>3, <2>4
  <1>2. SetInv /\ SetBudget /\ [OR!Next]_(OR!vars) => SetInv' /\ SetBudget'
    BY SetStep, BudgetStep
  <1>3. SetInv /\ SetBudget => OR!TypeOK /\ OR!AddWins
    <2> SUFFICES ASSUME SetInv, SetBudget
                 PROVE  OR!TypeOK
      BY DEF SetInv
    <2>1. IsFiniteSet(OrNode) /\ OrMaxUpdates \in Nat /\ orCounter \in [OrNode -> Nat]
      BY DEF OR!OrSetAssumption, OR!IsFiniteSet, IsFiniteSet, SetInv
    <2>2. SumOf(orCounter, OrNode) \in Nat /\ \A r \in OrNode : orCounter[r] =< SumOf(orCounter, OrNode)
      BY <2>1, SumInNat, SumCovers
    <2>3. \A r \in OrNode : orCounter[r] \in Nat /\ orCounter[r] =< OrMaxUpdates
      BY <2>1, <2>2 DEF SetBudget
    <2>4. ASSUME NEW t \in Known
          PROVE  t \in OR!Tag /\ t[2] =< orCounter[t[1]]
      <3>1. t[1] \in OrNode /\ t[2] \in Nat \ {0} /\ t[2] =< orCounter[t[1]] /\ t = <<t[1], t[2]>>
        BY DEF Known
      <3>2. t[2] \in 1 .. OrMaxUpdates
        BY <2>1, <2>3, <3>1
      <3> QED
        BY <3>1, <3>2 DEF OR!Tag
    <2>5. \A r \in OrNode, i \in OrItem : orElements[r][i] \subseteq Known
      BY DEF SetInv
    <2> QED
      BY <2>4, <2>5 DEF OR!TypeOK
  <1> QED
    BY <1>1, <1>2, <1>3, PTL DEF OR!Spec

(***************************************************************************)
(* The replicated counter.                                                 *)
(***************************************************************************)

\* What a replica has counted, of each.
Counts == [PnNode -> Nat]

\* The counts p of what u says was counted: the own ones exact, the others behind.
Sound(p, u) ==
  /\ p \in [PnNode -> Counts] /\ u \in Counts
  /\ \A q \in PnNode : p[q][q] = u[q] /\ \A m \in PnNode : p[q][m] =< u[m]

CounterInv ==
  /\ Sound(pnP, pnUps) /\ Sound(pnN, pnDowns)
  /\ PN!GSum(pnUps) + PN!GSum(pnDowns) =< PnMaxUpdates

LEMMA GSumIs == ASSUME NEW g PROVE PN!GSum(g) = SumOf(g, PnNode)
  BY DEF PN!GSum, PN!FoldSet, PN!MapThenFoldSet, SumOf, FoldSet, MapThenFoldSet

LEMMA MergeIs ==
  ASSUME NEW g \in [PnNode -> Nat], NEW h \in [PnNode -> Nat]
  PROVE  /\ PN!GMerge(g, h) \in [PnNode -> Nat]
         /\ \A m \in PnNode :
              PN!GMerge(g, h)[m] = IF g[m] >= h[m] THEN g[m] ELSE h[m]
  <1>1. ASSUME NEW a \in Nat, NEW b \in Nat
        PROVE  PN!Max({a, b}) = IF a >= b THEN a ELSE b
    <2> DEFINE c == IF a >= b THEN a ELSE b
    <2>1. c \in {a, b} /\ \A x \in {a, b} : c >= x
      OBVIOUS
    <2>2. PN!Max({a, b}) \in {a, b} /\ \A x \in {a, b} : PN!Max({a, b}) >= x
      BY <2>1 DEF PN!Max
    <2> QED
      BY <2>1, <2>2
  <1> QED
    BY <1>1 DEF PN!GMerge

LEMMA SumIsNat ==
  ASSUME PN!PNCounterAssumption
  PROVE  /\ IsFiniteSet(PnNode) /\ PnMaxUpdates \in Nat
         /\ \A g \in Counts : PN!GSum(g) \in Nat
         /\ \A g \in Counts, r \in PnNode : g[r] =< PN!GSum(g)
         /\ \A g \in Counts, r \in PnNode : PN!GSum([g EXCEPT ![r] = g[r] + 1]) = PN!GSum(g) + 1
  <1>1. IsFiniteSet(PnNode) /\ PnMaxUpdates \in Nat
    BY DEF PN!PNCounterAssumption, PN!IsFiniteSet, IsFiniteSet
  <1>2. \A g \in Counts : PN!GSum(g) \in Nat
    BY <1>1, GSumIs, SumInNat DEF Counts
  <1>3. \A g \in Counts, r \in PnNode : g[r] =< PN!GSum(g)
    BY <1>1, GSumIs, SumCovers DEF Counts
  <1>4. ASSUME NEW g \in Counts, NEW r \in PnNode
        PROVE  PN!GSum([g EXCEPT ![r] = g[r] + 1]) = PN!GSum(g) + 1
    <2> DEFINE h == [g EXCEPT ![r] = g[r] + 1]
    <2>1. SumOf(h, PnNode) = SumOf(g, PnNode) + 1
      BY <1>1, SumCountsOn, Zenon DEF Counts
    <2> HIDE DEF h
    <2>2. PN!GSum(h) = SumOf(h, PnNode) /\ PN!GSum(g) = SumOf(g, PnNode)
      BY GSumIs
    <2>3. PN!GSum(h) = PN!GSum(g) + 1
      BY <2>1, <2>2
    <2> QED
      BY <2>3 DEF h
  <1> QED
    BY <1>1, <1>2, <1>3, <1>4

\* One replica counts one more.
LEMMA CountedOnceMore ==
  ASSUME NEW p, NEW u, Sound(p, u), NEW r \in PnNode
  PROVE  Sound([p EXCEPT ![r] = [p[r] EXCEPT ![r] = p[r][r] + 1]], [u EXCEPT ![r] = u[r] + 1])
  <1> DEFINE p2 == [p EXCEPT ![r] = [p[r] EXCEPT ![r] = p[r][r] + 1]]
             u2 == [u EXCEPT ![r] = u[r] + 1]
  <1>1. u2 \in Counts /\ u2[r] = u[r] + 1 /\ \A m \in PnNode \ {r} : u2[m] = u[m]
    BY DEF Sound, Counts
  <1>2. p2 \in [PnNode -> Counts]
    BY DEF Sound, Counts
  <1>3. \A q, m \in PnNode : p2[q][m] = IF q = r /\ m = r THEN p[q][m] + 1 ELSE p[q][m]
    BY DEF Sound, Counts
  <1>4. \A q, m \in PnNode : p[q][m] \in Nat /\ u[m] \in Nat
    BY DEF Sound, Counts
  <1> HIDE DEF p2, u2
  <1>5. ASSUME NEW q \in PnNode, NEW m \in PnNode
        PROVE  p2[q][m] =< u2[m] /\ (q = m => p2[q][m] = u2[m])
    BY <1>1, <1>3, <1>4, <1>5 DEF Sound
  <1>6. Sound(p2, u2)
    BY <1>1, <1>2, <1>5 DEF Sound
  <1> QED
    BY <1>6 DEF p2, u2

\* One replica merges what another has counted.
LEMMA MergedOnce ==
  ASSUME NEW p, NEW u, Sound(p, u), NEW r \in PnNode, NEW s \in PnNode
  PROVE  Sound([p EXCEPT ![r] = PN!GMerge(p[r], p[s])], u)
  <1> DEFINE g == PN!GMerge(p[r], p[s])
             p2 == [p EXCEPT ![r] = g]
  <1>1. /\ g \in Counts
        /\ \A m \in PnNode : g[m] = IF p[r][m] >= p[s][m] THEN p[r][m] ELSE p[s][m]
    BY MergeIs DEF Sound, Counts
  <1> HIDE DEF g
  <1>2. p2 \in [PnNode -> Counts]
    BY <1>1 DEF Sound
  <1>3. \A q, m \in PnNode : p[q][m] \in Nat /\ u[m] \in Nat
    BY DEF Sound, Counts
  <1>4. ASSUME NEW q \in PnNode, NEW m \in PnNode
        PROVE  p2[q][m] =< u[m] /\ (q = m => p2[q][m] = u[m])
    BY <1>1, <1>3, <1>4 DEF Sound
  <1> HIDE DEF p2
  <1>5. Sound(p2, u)
    BY <1>2, <1>4 DEF Sound
  <1> QED
    BY <1>5 DEF p2, g

LEMMA CounterStep ==
  ASSUME PN!PNCounterAssumption, CounterInv, [PN!Next]_(PN!vars)
  PROVE  CounterInv'
  <1>1. /\ PN!GSum(pnUps) \in Nat /\ PN!GSum(pnDowns) \in Nat /\ PnMaxUpdates \in Nat
        /\ pnP \in [PnNode -> Counts] /\ pnN \in [PnNode -> Counts]
        /\ pnUps \in Counts /\ pnDowns \in Counts
    BY SumIsNat DEF CounterInv, Sound
  <1>2. Sound(pnP, pnUps) /\ Sound(pnN, pnDowns)
    BY DEF CounterInv
  <1>3. ASSUME Sound(pnP', pnUps'), Sound(pnN', pnDowns'),
               PN!GSum(pnUps') + PN!GSum(pnDowns') =< PnMaxUpdates
        PROVE  CounterInv'
    BY <1>3 DEF CounterInv
  <1>4. ASSUME NEW r \in PnNode, PN!Increment(r)
        PROVE  CounterInv'
    <2>1. /\ pnP' = [pnP EXCEPT ![r] = [pnP[r] EXCEPT ![r] = pnP[r][r] + 1]]
          /\ pnUps' = [pnUps EXCEPT ![r] = pnUps[r] + 1]
          /\ pnN' = pnN /\ pnDowns' = pnDowns /\ PN!GSum(pnUps) + PN!GSum(pnDowns) < PnMaxUpdates
      BY <1>1, <1>4 DEF PN!Increment, PN!GIncrement, PN!MayUpdate, Counts
    <2>2. PN!GSum(pnUps') + PN!GSum(pnDowns') =< PnMaxUpdates
      <3>1. PN!GSum(pnUps') = PN!GSum(pnUps) + 1 /\ PN!GSum(pnDowns') = PN!GSum(pnDowns)
        BY <1>1, <2>1, SumIsNat
      <3> QED
        BY <1>1, <2>1, <3>1
    <2>3. Sound(pnP', pnUps') /\ Sound(pnN', pnDowns')
      BY <1>2, <2>1, CountedOnceMore
    <2> QED
      BY <1>3, <2>2, <2>3
  <1>5. ASSUME NEW r \in PnNode, PN!Decrement(r)
        PROVE  CounterInv'
    <2>1. /\ pnN' = [pnN EXCEPT ![r] = [pnN[r] EXCEPT ![r] = pnN[r][r] + 1]]
          /\ pnDowns' = [pnDowns EXCEPT ![r] = pnDowns[r] + 1]
          /\ pnP' = pnP /\ pnUps' = pnUps /\ PN!GSum(pnUps) + PN!GSum(pnDowns) < PnMaxUpdates
      BY <1>1, <1>5 DEF PN!Decrement, PN!GIncrement, PN!MayUpdate, Counts
    <2>2. PN!GSum(pnUps') + PN!GSum(pnDowns') =< PnMaxUpdates
      <3>1. PN!GSum(pnDowns') = PN!GSum(pnDowns) + 1 /\ PN!GSum(pnUps') = PN!GSum(pnUps)
        BY <1>1, <2>1, SumIsNat
      <3> QED
        BY <1>1, <2>1, <3>1
    <2>3. Sound(pnP', pnUps') /\ Sound(pnN', pnDowns')
      BY <1>2, <2>1, CountedOnceMore
    <2> QED
      BY <1>3, <2>2, <2>3
  <1>6. ASSUME NEW r \in PnNode, NEW s \in PnNode, PN!Merge(r, s)
        PROVE  CounterInv'
    <2>1. /\ pnP' = [pnP EXCEPT ![r] = PN!GMerge(pnP[r], pnP[s])]
          /\ pnN' = [pnN EXCEPT ![r] = PN!GMerge(pnN[r], pnN[s])]
          /\ pnUps' = pnUps /\ pnDowns' = pnDowns
      BY <1>6 DEF PN!Merge
    <2>2. Sound(pnP', pnUps') /\ Sound(pnN', pnDowns')
      BY <1>2, <2>1, MergedOnce
    <2> QED
      BY <1>3, <2>1, <2>2 DEF CounterInv
  <1>7. CASE UNCHANGED PN!vars
    BY <1>7 DEF PN!vars, CounterInv
  <1> QED
    BY <1>4, <1>5, <1>6, <1>7 DEF PN!Next

LEMMA CounterInvariant == ASSUME PN!PNCounterAssumption PROVE PN!Spec => []CounterInv
  <1>1. PN!Init => CounterInv
    <2> SUFFICES ASSUME PN!Init
                 PROVE  CounterInv
      OBVIOUS
    <2>1. PN!GSum(pnUps) = 0 /\ PN!GSum(pnDowns) = 0
      <3>1. SumOf(pnUps, PnNode) = 0 /\ SumOf(pnDowns, PnNode) = 0
        BY SumIsNat, SumOfZeros, Zenon DEF PN!Init, PN!GNew
      <3> QED
        BY <3>1, GSumIs
    <2> QED
      BY <2>1, SumIsNat DEF PN!Init, PN!GNew, CounterInv, Sound, Counts
  <1>2. CounterInv /\ [PN!Next]_(PN!vars) => CounterInv'
    BY CounterStep
  <1> QED
    BY <1>1, <1>2, PTL DEF PN!Spec

\* The merges of an order, one after the other.
MergeFcn(g, order) ==
  CHOOSE h : h = [s \in SUBSET (DOMAIN order) |->
                    IF s = {} THEN g[order[1]]
                              ELSE PN!GMerge(h[s \ {PN!Max(s)}], g[order[PN!Max(s)]])]

LEMMA SyncedIs ==
  ASSUME NEW g, NEW order
  PROVE  PN!Synced(g, order) = MergeFcn(g, order)[DOMAIN order]
  BY Zenon DEF PN!Synced, PN!FoldLeft, PN!MapThenFoldSet, MergeFcn

LEMMA MergeFcnIs ==
  ASSUME NEW g \in [PnNode -> Counts], NEW k \in Nat, NEW order \in [1 .. k -> PnNode], k # 0
  PROVE  /\ MergeFcn(g, order)[{}] = g[order[1]]
         /\ \A s \in SUBSET (1 .. k) : s # {} =>
              /\ PN!Max(s) \in s
              /\ MergeFcn(g, order)[s] =
                   PN!GMerge(MergeFcn(g, order)[s \ {PN!Max(s)}], g[order[PN!Max(s)]])
  <1> DEFINE D == 1 .. k
             Step(h, s) == IF s = {} THEN g[order[1]]
                              ELSE PN!GMerge(h[s \ {PN!Max(s)}], g[order[PN!Max(s)]])
             F == MergeFcn(g, order)
  <1>1. ASSUME NEW s \in SUBSET D, s # {}
        PROVE  PN!Max(s) \in s
    <2>1. PN!Max(s) = Max(s)
      BY DEF PN!Max, Max
    <2>2. s \in SUBSET (0 .. k)
      OBVIOUS
    <2> QED
      BY <1>1, <2>1, <2>2, GreatestOf
  <1>2. PICK c : \A s \in SUBSET D : c[s] = PN!Max(s)
    <2>1. \A s \in SUBSET D : [r \in SUBSET D |-> PN!Max(r)][s] = PN!Max(s)
      OBVIOUS
    <2> QED
      BY <2>1, Zenon
  <1>3. PICK T : \A i \in D : \A v \in Counts : T[i][v] = PN!GMerge(v, g[order[i]])
    <2>1. \A i \in D : \A v \in Counts :
            [j \in D |-> [w \in Counts |-> PN!GMerge(w, g[order[j]])]][i][v]
              = PN!GMerge(v, g[order[i]])
      OBVIOUS
    <2> QED
      BY <2>1, Zenon
  <1>4. PICK h \in [SUBSET D -> Counts] : IsFold(c, T, g[order[1]], D, h)
    <2>1. g[order[1]] \in Counts
      OBVIOUS
    <2>2. \A s \in SUBSET D : s # {} => c[s] \in s
      BY <1>1, <1>2
    <2>3. \A i \in D : \A v \in Counts : T[i][v] \in Counts
      <3>1. ASSUME NEW i \in D, NEW v \in Counts
            PROVE  T[i][v] \in Counts
        <4>1. g[order[i]] \in [PnNode -> Nat] /\ v \in [PnNode -> Nat]
          BY DEF Counts
        <4>2. PN!GMerge(v, g[order[i]]) \in Counts
          BY <4>1, MergeIs DEF Counts
        <4> QED
          BY <1>3, <4>2
      <3> QED
        BY <3>1
    <2>4. IsFiniteSet(D)
      BY FS_Interval
    <2> QED
      BY <2>1, <2>2, <2>3, <2>4, FoldExists, Zenon
  <1>5. ASSUME NEW s \in SUBSET D
        PROVE  h[s] = Step(h, s)
    <2>1. CASE s = {}
      BY <1>4, <2>1 DEF IsFold
    <2>2. CASE s # {}
      <3>1. c[s] = PN!Max(s) /\ PN!Max(s) \in s /\ s \ {PN!Max(s)} \in SUBSET D
        BY <1>1, <1>2, <2>2
      <3>2. h[s] = T[c[s]][h[s \ {c[s]}]] /\ h[s \ {c[s]}] \in Counts
        BY <1>4, <2>2, <3>1 DEF IsFold
      <3> QED
        BY <1>3, <2>2, <3>1, <3>2
    <2> QED
      BY <2>1, <2>2
  <1>6. h = [s \in SUBSET D |-> Step(h, s)]
    BY <1>5
  <1>7. F = [s \in SUBSET D |-> Step(F, s)]
    <2>1. DOMAIN order = D
      OBVIOUS
    <2> QED
      BY <1>6, <2>1, Zenon DEF MergeFcn
  <1> HIDE DEF F
  <1>8. \A s \in SUBSET D : F[s] = Step(F, s)
    BY <1>7
  <1>9. {} \in SUBSET D
    OBVIOUS
  <1>10. F[{}] = g[order[1]] /\ \A s \in SUBSET D : s # {} => PN!Max(s) \in s /\
           F[s] = PN!GMerge(F[s \ {PN!Max(s)}], g[order[PN!Max(s)]])
    BY <1>1, <1>8, <1>9
  <1> QED
    BY <1>10 DEF F

\* Whatever the order, once every replica was merged the counts are exact.
LEMMA SyncedExact ==
  ASSUME NEW g, NEW u, Sound(g, u), NEW k \in Nat, k # 0,
         NEW order \in [1 .. k -> PnNode], \A m \in PnNode : \E i \in 1 .. k : order[i] = m
  PROVE  PN!Synced(g, order) = u
  <1> DEFINE D == 1 .. k
             F == MergeFcn(g, order)
             Claim(s) == /\ F[s] \in Counts
                         /\ \A m \in PnNode : F[s][m] =< u[m]
                         /\ \A i \in s, m \in PnNode : F[s][m] >= g[order[i]][m]
             S == {s \in SUBSET D : Claim(s)}
  <1>1. /\ F[{}] = g[order[1]]
        /\ \A s \in SUBSET D : s # {} =>
             PN!Max(s) \in s /\ F[s] = PN!GMerge(F[s \ {PN!Max(s)}], g[order[PN!Max(s)]])
    BY MergeFcnIs DEF Sound
  <1> HIDE DEF F
  <1>2. /\ g \in [PnNode -> Counts] /\ u \in Counts
        /\ \A q, m \in PnNode : g[q][m] \in Nat /\ u[m] \in Nat /\ g[q][m] =< u[m]
        /\ \A m \in PnNode : g[m][m] = u[m]
    BY DEF Sound, Counts
  <1>3. {} \in S
    BY <1>1, <1>2
  <1>4. ASSUME NEW s \in SUBSET D, s # {}, \A x \in s : s \ {x} \in S
        PROVE  s \in S
    <2> DEFINE x == PN!Max(s)
               r == s \ {x}
    <2>1. x \in s /\ F[s] = PN!GMerge(F[r], g[order[x]]) /\ Claim(r)
      BY <1>1, <1>4
    <2> HIDE DEF x, r
    <2>2. order[x] \in PnNode /\ F[r] \in Counts /\ g[order[x]] \in Counts
      BY <1>2, <2>1
    <2>3. /\ F[s] \in Counts
          /\ \A m \in PnNode :
               F[s][m] = IF F[r][m] >= g[order[x]][m] THEN F[r][m] ELSE g[order[x]][m]
      <3>1. F[r] \in [PnNode -> Nat] /\ g[order[x]] \in [PnNode -> Nat]
        BY <2>2 DEF Counts
      <3>2. /\ PN!GMerge(F[r], g[order[x]]) \in [PnNode -> Nat]
            /\ \A m \in PnNode :
                 PN!GMerge(F[r], g[order[x]])[m]
                   = IF F[r][m] >= g[order[x]][m] THEN F[r][m] ELSE g[order[x]][m]
        BY <3>1, MergeIs, Zenon
      <3> QED
        BY <2>1, <3>2 DEF Counts
    <2>4. \A m \in PnNode : F[s][m] \in Nat /\ F[r][m] \in Nat /\ g[order[x]][m] \in Nat
      BY <2>2, <2>3 DEF Counts
    <2>5. \A m \in PnNode : F[s][m] =< u[m]
      BY <1>2, <2>1, <2>2, <2>3
    <2>6. ASSUME NEW i \in s, NEW m \in PnNode
          PROVE  F[s][m] >= g[order[i]][m]
      <3>1. CASE i = x
        BY <2>3, <2>4, <3>1
      <3>2. CASE i # x
        <4>1. i \in r /\ order[i] \in PnNode
          BY <3>2 DEF r
        <4>2. F[r][m] >= g[order[i]][m] /\ g[order[i]][m] \in Nat
          BY <1>2, <2>1, <4>1
        <4>3. F[s][m] >= F[r][m]
          BY <2>3, <2>4
        <4> QED
          BY <2>4, <4>2, <4>3
      <3> QED
        BY <3>1, <3>2
    <2> QED
      BY <2>3, <2>5, <2>6
  <1>5. Claim(D)
    <2>1. SUBSET D \subseteq S
      <3>1. IsFiniteSet(D)
        BY FS_Interval
      <3>2. \A s \in SUBSET D : s # {} /\ (\A x \in s : s \ {x} \in S) => s \in S
        BY <1>4
      <3> HIDE DEF D, S
      <3> QED
        BY <1>3, <3>1, <3>2, SubsetsReached
    <2> QED
      BY <2>1
  <1>6. ASSUME NEW m \in PnNode
        PROVE  F[D][m] = u[m]
    <2>1. PICK i \in D : order[i] = m
      OBVIOUS
    <2>2. F[D][m] >= u[m] /\ F[D][m] =< u[m] /\ F[D][m] \in Nat /\ u[m] \in Nat
      BY <1>2, <1>5, <2>1 DEF Counts
    <2> QED
      BY <2>2
  <1>7. F[D] = u
    BY <1>2, <1>5, <1>6 DEF Counts
  <1>8. DOMAIN order = D
    OBVIOUS
  <1> QED
    BY <1>7, <1>8, SyncedIs DEF F

\* A replica counts each of its updates once, never one of the others twice, and
\* merging them all, in any order and with repetitions, counts them exactly
\* (demo_3_3b_crdt.rs:7-17, 38-40, 215).
THEOREM CountersCountOnce ==
  ASSUME PN!PNCounterAssumption
  PROVE  PN!Spec => [](PN!TypeOK /\ PN!NeverOvercounts /\ PN!SyncCountsAll)
  <1>1. CounterInv => PN!TypeOK /\ PN!NeverOvercounts /\ PN!SyncCountsAll
    <2> SUFFICES ASSUME CounterInv
                 PROVE  PN!TypeOK /\ PN!NeverOvercounts /\ PN!SyncCountsAll
      OBVIOUS
    <2>1. Sound(pnP, pnUps) /\ Sound(pnN, pnDowns)
      BY DEF CounterInv
    <2>2. PN!NeverOvercounts
      BY <2>1 DEF Sound, PN!NeverOvercounts
    <2>3. ASSUME NEW u \in Counts, PN!GSum(u) =< PnMaxUpdates, NEW g, Sound(g, u),
                 NEW r \in PnNode, NEW m \in PnNode
          PROVE  g[r][m] \in 0 .. PnMaxUpdates
      <3>1. g[r][m] \in Nat /\ u[m] \in Nat /\ g[r][m] =< u[m]
        BY <2>3 DEF Sound, Counts
      <3>2. u[m] =< PN!GSum(u) /\ PN!GSum(u) \in Nat /\ PnMaxUpdates \in Nat
        BY SumIsNat
      <3> QED
        BY <2>3, <3>1, <3>2
    <2>4. PN!TypeOK
      <3>1. /\ pnUps \in Counts /\ pnDowns \in Counts
            /\ PN!GSum(pnUps) \in Nat /\ PN!GSum(pnDowns) \in Nat /\ PnMaxUpdates \in Nat
            /\ PN!GSum(pnUps) + PN!GSum(pnDowns) =< PnMaxUpdates
        BY <2>1, SumIsNat DEF CounterInv, Sound
      <3>2. PN!GSum(pnUps) =< PnMaxUpdates /\ PN!GSum(pnDowns) =< PnMaxUpdates
        BY <3>1
      <3> QED
        BY <2>1, <2>3, <3>1, <3>2 DEF PN!TypeOK
    <2>5. PN!SyncCountsAll
      <3>1. ASSUME NEW order \in PN!TupleOf(PnNode, PN!Cardinality(PnNode) + 1),
                   PN!ToSet(order) = PnNode
            PROVE  PN!Synced(pnP, order) = pnUps /\ PN!Synced(pnN, order) = pnDowns
        <4> DEFINE k == Cardinality(PnNode) + 1
        <4>1. k \in Nat /\ k # 0
          BY SumIsNat, FS_CardinalityType
        <4>2. order \in [1 .. k -> PnNode]
          BY <3>1 DEF PN!TupleOf, PN!Cardinality, Cardinality
        <4>3. \A m \in PnNode : \E i \in 1 .. k : order[i] = m
          BY <3>1, <4>2 DEF PN!ToSet
        <4> HIDE DEF k
        <4> QED
          BY <2>1, <4>1, <4>2, <4>3, SyncedExact
      <3> QED
        BY <3>1 DEF PN!SyncCountsAll
    <2> QED
      BY <2>2, <2>4, <2>5
  <1> QED
    BY <1>1, CounterInvariant, PTL

(***************************************************************************)
(* Publication by Release and Acquire.                                     *)
(***************************************************************************)

Write == [val : Nat, carries : [PU!Atomic -> Nat]]

\* What is still to be stored follows on what is stored.
TodoOK ==
  LET n == Len(puWrites["data"]) IN
  /\ puTodo \in Seq(Nat) /\ n >= 1 /\ Len(puTodo) + n = Len(PuValues) + 1
  /\ \A i \in 1 .. Len(puTodo) : puTodo[i] = PuValues[n - 1 + i]
  /\ \A i \in 2 .. n : puWrites["data"][i].val = PuValues[i - 1]

\* The flag is raised once, by a store that carries the last value.
FlagOK ==
  /\ puKnows["producer"]["data"] = Len(puWrites["data"])
  /\ Len(puWrites["ready"]) \in {1, 2}
  /\ puWrites["ready"][1] = [val |-> 0, carries |-> PU!Nothing]
  /\ Len(puWrites["ready"]) = 2 =>
       /\ puTodo = <<>>
       /\ puWrites["ready"][2].val = 1
       /\ puWrites["ready"][2].carries["data"] = Len(puWrites["data"])

\* Whoever has seen the flag knows the last value.
SeenOK ==
  LET known == puKnows["consumer"] IN
  /\ known["ready"] \in {1, 2} /\ known["data"] \in 1 .. Len(puWrites["data"])
  /\ puStage \in {"spin", "read", "done"}
  /\ puStage # "spin" =>
       Len(puWrites["ready"]) = 2 /\ known["data"] = Len(puWrites["data"])

PublicationInv ==
  /\ puWrites \in [PU!Atomic -> Seq(Write)]
  /\ puKnows \in [PU!Side -> [PU!Atomic -> Nat]]
  /\ TodoOK /\ FlagOK /\ SeenOK
  /\ PU!PublishedIsRead

LEMMA PublicationStep ==
  ASSUME PU!PublicationAssumption, PublicationInv, [PU!Next]_(PU!vars)
  PROVE  PublicationInv'
  <1> DEFINE n == Len(puWrites["data"])
  <1>1. /\ puWrites["data"] \in Seq(Write) /\ puWrites["ready"] \in Seq(Write)
        /\ n \in Nat /\ Len(PuValues) \in Nat \ {0} /\ Len(puTodo) \in Nat
    BY DEF PublicationInv, PU!Atomic, PU!PublicationAssumption, TodoOK
  <1> DEFINE m == Len(puWrites["ready"])
  <1>1a. m \in {1, 2}
    BY DEF PublicationInv, FlagOK
  <1>2. CASE PU!StoreData
    <2> DEFINE w == [val |-> Head(puTodo), carries |-> PU!Nothing]
    <2>1. /\ puTodo # <<>> /\ puTodo' = Tail(puTodo) /\ UNCHANGED <<puStage, puGot>>
          /\ puWrites' = [puWrites EXCEPT !["data"] = Append(@, w)]
          /\ puKnows' = [puKnows EXCEPT !["producer"]["data"] = n + 1]
      BY <1>2 DEF PU!StoreData, PU!Store
    <2>2. Len(puWrites["ready"]) = 1 /\ puStage = "spin"
      BY <2>1 DEF PublicationInv, FlagOK, SeenOK
    <2>3. w \in Write /\ w.val = PuValues[n]
      <3>1. Head(puTodo) \in Nat /\ Head(puTodo) = PuValues[n]
        <4>1. Len(puTodo) >= 1 /\ Head(puTodo) = puTodo[1] /\ puTodo[1] \in Nat
          BY <2>1 DEF PublicationInv, TodoOK
        <4>2. puTodo[1] = PuValues[n - 1 + 1] /\ n - 1 + 1 = n
          BY <1>1, <4>1 DEF PublicationInv, TodoOK
        <4> QED
          BY <4>1, <4>2
      <3> QED
        BY <3>1 DEF Write, PU!Nothing
    <2>4. /\ puWrites' \in [PU!Atomic -> Seq(Write)]
          /\ puWrites'["data"] = Append(puWrites["data"], w)
          /\ puWrites'["ready"] = puWrites["ready"]
      <3> HIDE DEF w
      <3> QED
        BY <2>1, <2>3 DEF PublicationInv, PU!Atomic
    <2> HIDE DEF w
    <2>5. /\ Len(puWrites'["data"]) = n + 1
          /\ \A i \in 1 .. n : puWrites'["data"][i] = puWrites["data"][i]
          /\ puWrites'["data"][n + 1] = w
      BY <1>1, <2>3, <2>4
    <2>6. \A i \in 2 .. n + 1 : puWrites'["data"][i].val = PuValues[i - 1]
      <3> SUFFICES ASSUME NEW i \in 2 .. n + 1
                   PROVE  puWrites'["data"][i].val = PuValues[i - 1]
        OBVIOUS
      <3>1. CASE i = n + 1
        BY <1>1, <2>3, <2>5, <3>1
      <3>2. CASE i # n + 1
        <4>1. i \in 2 .. n /\ i \in 1 .. n
          BY <1>1, <3>2
        <4> QED
          BY <2>5, <4>1 DEF PublicationInv, TodoOK
      <3> QED
        BY <3>1, <3>2
    <2>7. /\ puTodo' \in Seq(Nat) /\ Len(puTodo') + (n + 1) = Len(PuValues) + 1
          /\ \A i \in 1 .. Len(puTodo') : puTodo'[i] = PuValues[(n + 1) - 1 + i]
      <3>1. /\ puTodo \in Seq(Nat) /\ Len(puTodo) + n = Len(PuValues) + 1
            /\ \A i \in 1 .. Len(puTodo) : puTodo[i] = PuValues[n - 1 + i]
        BY DEF PublicationInv, TodoOK
      <3>2. /\ puTodo' \in Seq(Nat) /\ Len(puTodo') = Len(puTodo) - 1
            /\ \A i \in 1 .. Len(puTodo') : puTodo'[i] = puTodo[i + 1]
        BY <2>1, <3>1
      <3>3. \A i \in 1 .. Len(puTodo') : puTodo'[i] = PuValues[(n + 1) - 1 + i]
        <4> SUFFICES ASSUME NEW i \in 1 .. Len(puTodo')
                     PROVE  puTodo'[i] = PuValues[(n + 1) - 1 + i]
          OBVIOUS
        <4>1. i + 1 \in 1 .. Len(puTodo) /\ n - 1 + (i + 1) = (n + 1) - 1 + i
          <5>1. Len(puTodo') = Len(puTodo) - 1 /\ n \in Nat /\ Len(puTodo) \in Nat
            BY <1>1, <3>2
          <5> HIDE DEF n
          <5> QED
            BY <5>1
        <4>2. puTodo[i + 1] = PuValues[n - 1 + (i + 1)]
          BY <3>1, <4>1
        <4> QED
          BY <3>2, <4>1, <4>2
      <3> QED
        BY <1>1, <3>1, <3>2, <3>3
    <2>8. /\ puKnows' \in [PU!Side -> [PU!Atomic -> Nat]]
          /\ puKnows'["producer"]["data"] = n + 1
          /\ puKnows'["consumer"] = puKnows["consumer"]
      BY <1>1, <2>1 DEF PublicationInv, PU!Side, PU!Atomic
    <2>9. PU!PublishedIsRead'
      BY <2>1, <2>2 DEF PU!PublishedIsRead
    <2> QED
      <3>1. TodoOK'
        BY <1>1, <2>5, <2>6, <2>7 DEF TodoOK
      <3>2. FlagOK'
        BY <2>2, <2>4, <2>5, <2>8 DEF PublicationInv, FlagOK
      <3>3. SeenOK'
        BY <1>1, <2>1, <2>2, <2>5, <2>8 DEF PublicationInv, SeenOK
      <3> QED
        BY <2>4, <2>8, <2>9, <3>1, <3>2, <3>3 DEF PublicationInv
  <1>3. CASE PU!StoreReady
    <2> DEFINE w == [val |-> 1, carries |-> puKnows["producer"]]
    <2>1. /\ puTodo = <<>> /\ Len(puWrites["ready"]) = 1 /\ UNCHANGED <<puTodo, puStage, puGot>>
          /\ puWrites' = [puWrites EXCEPT !["ready"] = Append(@, w)]
          /\ puKnows' = [puKnows EXCEPT !["producer"]["ready"] = Len(puWrites["ready"]) + 1]
      BY <1>3 DEF PU!StoreReady, PU!Store
    <2>2. w \in Write /\ w.val = 1 /\ w.carries["data"] = n
      BY DEF PublicationInv, FlagOK, Write, PU!Side
    <2> HIDE DEF w
    <2>3. /\ puWrites' \in [PU!Atomic -> Seq(Write)]
          /\ puWrites'["ready"] = Append(puWrites["ready"], w)
          /\ puWrites'["data"] = puWrites["data"]
      BY <2>1, <2>2 DEF PublicationInv, PU!Atomic
    <2>4. /\ Len(puWrites'["ready"]) = 2
          /\ puWrites'["ready"][1] = puWrites["ready"][1] /\ puWrites'["ready"][2] = w
      BY <1>1, <2>1, <2>2, <2>3
    <2>5. /\ puKnows' \in [PU!Side -> [PU!Atomic -> Nat]]
          /\ puKnows'["producer"]["data"] = n
          /\ puKnows'["consumer"] = puKnows["consumer"]
      <3>1. puKnows' = [puKnows EXCEPT !["producer"]["ready"] = 2]
        BY <2>1
      <3> QED
        BY <3>1 DEF PublicationInv, FlagOK, PU!Side, PU!Atomic
    <2>6. PU!PublishedIsRead'
      BY <2>1 DEF PublicationInv, PU!PublishedIsRead
    <2>7. TodoOK'
      BY <2>1, <2>3 DEF PublicationInv, TodoOK
    <2>8. FlagOK'
      BY <2>1, <2>2, <2>3, <2>4, <2>5 DEF PublicationInv, FlagOK
    <2>9. SeenOK'
      BY <2>1, <2>3, <2>4, <2>5 DEF PublicationInv, SeenOK
    <2> QED
      BY <2>3, <2>5, <2>6, <2>7, <2>8, <2>9 DEF PublicationInv
  <1>4. CASE PU!LoadReady
    <2>1. PICK i \in puKnows["consumer"]["ready"] .. Len(puWrites["ready"]) :
            /\ puStage' = IF puWrites["ready"][i].val = 1 THEN "read" ELSE "spin"
            /\ puKnows' = [puKnows EXCEPT !["consumer"] = PU!Learned("ready", i)]
      BY <1>4 DEF PU!LoadReady
    <2>2. puStage = "spin" /\ UNCHANGED <<puWrites, puTodo, puGot>>
      BY <1>4 DEF PU!LoadReady
    <2>3. i \in {1, 2} /\ i =< Len(puWrites["ready"])
      BY <1>1, <2>1 DEF PublicationInv, FlagOK, SeenOK
    <2> DEFINE k == PU!Learned("ready", i)
    <2>4a. i = 1 \/ (i = 2 /\ m = 2)
      <3> HIDE DEF m
      <3>1. i =< m
        BY <2>3 DEF m
      <3> QED
        BY <1>1a, <2>3, <3>1
    <2>4. /\ puWrites["ready"][i].carries \in [PU!Atomic -> Nat]
          /\ puWrites["ready"][i].carries["data"] = IF i = 1 THEN 1 ELSE n
          /\ puWrites["ready"][i].val = i - 1
      <3>1. puWrites["ready"][i] \in Write
        BY <1>1, <2>4a
      <3>2. puWrites["ready"][i].carries \in [PU!Atomic -> Nat]
        BY <3>1 DEF Write
      <3>3. CASE i = 1
        BY <3>2, <3>3 DEF PublicationInv, FlagOK, PU!Nothing, PU!Atomic
      <3>4. CASE i = 2
        BY <2>4a, <3>2, <3>4 DEF PublicationInv, FlagOK
      <3> QED
        BY <2>4a, <3>3, <3>4
    <2>5. /\ k \in [PU!Atomic -> Nat] /\ k["ready"] = i
          /\ k["data"] \in 1 .. n /\ (i = 2 => k["data"] = n)
      <3>1. /\ puKnows["consumer"] \in [PU!Atomic -> Nat]
            /\ puKnows["consumer"]["data"] \in 1 .. n
        BY DEF PublicationInv, SeenOK, PU!Side
      <3> DEFINE c == puWrites["ready"][i].carries
                 known == puKnows["consumer"]
      <3>2. /\ k = [PU!Newer(known, c) EXCEPT !["ready"] = i]
            /\ c \in [PU!Atomic -> Nat] /\ known \in [PU!Atomic -> Nat]
            /\ c["data"] = IF i = 1 THEN 1 ELSE n
        BY <2>4, <3>1 DEF PU!Learned
      <3> HIDE DEF c, known, k
      <3>3. /\ k \in [PU!Atomic -> Nat] /\ k["ready"] = i
            /\ k["data"] = IF known["data"] >= c["data"] THEN known["data"] ELSE c["data"]
        BY <2>3, <3>2 DEF PU!Newer, PU!Atomic
      <3>4. known["data"] \in 1 .. n /\ n \in Nat
        BY <1>1, <3>1 DEF known
      <3> HIDE DEF n
      <3>5. k["data"] \in 1 .. n /\ (i = 2 => k["data"] = n)
        BY <2>3, <3>2, <3>3, <3>4
      <3> QED
        BY <3>3, <3>5
    <2> HIDE DEF k
    <2>6. /\ puKnows' \in [PU!Side -> [PU!Atomic -> Nat]]
          /\ puKnows'["producer"] = puKnows["producer"] /\ puKnows'["consumer"] = k
      BY <2>1, <2>5 DEF k, PublicationInv, PU!Side
    <2>7. PU!PublishedIsRead' /\ puStage' \in {"spin", "read"} /\ (puStage' = "read" => i = 2)
      BY <2>1, <2>3, <2>4 DEF PU!PublishedIsRead
    <2>8. TodoOK'
      BY <2>2 DEF PublicationInv, TodoOK
    <2>9. FlagOK'
      BY <2>2, <2>6 DEF PublicationInv, FlagOK
    <2>10. SeenOK'
      <3>1. i = 2 => Len(puWrites["ready"]) = 2
        BY <2>4a
      <3> QED
        BY <2>2, <2>3, <2>5, <2>6, <2>7, <3>1 DEF SeenOK
    <2> QED
      BY <2>2, <2>6, <2>7, <2>8, <2>9, <2>10 DEF PublicationInv
  <1>5. CASE PU!LoadData
    <2>1. PICK i \in puKnows["consumer"]["data"] .. n : puGot' = puWrites["data"][i].val
      BY <1>5 DEF PU!LoadData
    <2>2. puStage = "read" /\ puStage' = "done" /\ UNCHANGED <<puWrites, puKnows, puTodo>>
      BY <1>5 DEF PU!LoadData
    <2>3. i = n /\ Len(puTodo) = 0
      BY <1>1, <2>1, <2>2 DEF PublicationInv, FlagOK, SeenOK
    <2>4. n = Len(PuValues) + 1
      BY <1>1, <2>3 DEF PublicationInv, TodoOK
    <2>5. puGot' = PuValues[Len(PuValues)]
      <3>1. n \in 2 .. n /\ n - 1 = Len(PuValues)
        BY <1>1, <2>4
      <3> QED
        BY <2>1, <2>3, <3>1 DEF PublicationInv, TodoOK
    <2>6. PU!PublishedIsRead'
      BY <2>5 DEF PU!PublishedIsRead
    <2> QED
      BY <2>2, <2>6 DEF PublicationInv, TodoOK, FlagOK, SeenOK
  <1>6. CASE UNCHANGED PU!vars
    BY <1>6 DEF PU!vars, PublicationInv, TodoOK, FlagOK, SeenOK, PU!PublishedIsRead
  <1> QED
    BY <1>2, <1>3, <1>4, <1>5, <1>6 DEF PU!Next

\* A consumer that has seen the flag reads the value stored before it was raised,
\* although the value itself is stored and loaded with Relaxed
\* (demo06_atomics_cas.rs:61-93).
THEOREM WhatIsPublishedIsRead ==
  ASSUME PU!PublicationAssumption
  PROVE  PU!Spec => []PU!PublishedIsRead
  <1>1. PU!Init => PublicationInv
    BY DEF PU!Init, PublicationInv, TodoOK, FlagOK, SeenOK, PU!PublishedIsRead,
           PU!Nothing, PU!Atomic, PU!Side, Write, PU!PublicationAssumption
  <1>2. PublicationInv /\ [PU!Next]_(PU!vars) => PublicationInv'
    BY PublicationStep
  <1>3. PublicationInv => PU!PublishedIsRead
    BY DEF PublicationInv
  <1> QED
    BY <1>1, <1>2, <1>3, PTL DEF PU!Spec

(***************************************************************************)
(* Work stealing.                                                          *)
(***************************************************************************)

\* What a worker has found empty in its round is empty for good: nobody is given a
\* task any more.
RoundOK(w) ==
  /\ wsPc[w] \in {"steal", "take", "gone"} =>
       /\ wsDeque[w] = <<>>
       /\ \A u \in WS!Worker : u < wsStealer[w] => wsDeque[u] = <<>>
  /\ wsPc[w] = "gone" => \A u \in WS!Worker : wsDeque[u] = <<>>
  /\ wsPc[w] = "take" => WS!Victim(w) \in WS!Worker

StealingInv ==
  /\ wsDeque \in [WS!Worker -> Seq(1 .. WsTasks)]
  /\ wsStealer \in [WS!Worker -> 1 .. WsWorkers + 1]
  /\ wsPc \in [WS!Worker -> {"own", "steal", "take", "work", "gone"}]
  /\ \A w \in WS!Worker : RoundOK(w)

\* A step of worker w that takes tasks at most and leaves the rounds of the others.
LEMMA StealingKept ==
  ASSUME StealingInv, NEW w \in WS!Worker,
         wsDeque' \in [WS!Worker -> Seq(1 .. WsTasks)],
         \A u \in WS!Worker : wsDeque[u] = <<>> => wsDeque'[u] = <<>>,
         NEW l \in {"own", "steal", "take", "work", "gone"},
         wsPc' = [wsPc EXCEPT ![w] = l],
         NEW v \in 1 .. WsWorkers + 1, wsStealer' = [wsStealer EXCEPT ![w] = v],
         RoundOK(w)'
  PROVE  StealingInv'
  <1>1. /\ wsPc' \in [WS!Worker -> {"own", "steal", "take", "work", "gone"}]
        /\ wsStealer' \in [WS!Worker -> 1 .. WsWorkers + 1]
    BY DEF StealingInv
  <1>2. ASSUME NEW u \in WS!Worker, u # w
        PROVE  RoundOK(u)'
    BY <1>2 DEF StealingInv, RoundOK, WS!Victim
  <1> QED
    BY <1>1, <1>2 DEF StealingInv

LEMMA StealingStep ==
  ASSUME WS!WorkStealingAssumption, StealingInv, [WS!Next]_(WS!vars)
  PROVE  StealingInv'
  <1>1. ASSUME NEW w \in WS!Worker, WS!Run(w)
        PROVE  StealingInv'
    <2>1. /\ w \in 1 .. WsWorkers /\ wsStealer[w] \in 1 .. WsWorkers + 1
          /\ WsWorkers \in Nat \ {0} /\ RoundOK(w)
          /\ WS!Victim(w) \in 1 .. WsWorkers + 1
          /\ wsPc[w] \in {"own", "steal", "take", "work", "gone"}
      BY DEF StealingInv, WS!Worker, WS!Victim, WS!WorkStealingAssumption
    <2>2. ASSUME NEW v \in WS!Worker, wsDeque[v] # <<>>, WS!Take(v)
          PROVE  /\ wsDeque' \in [WS!Worker -> Seq(1 .. WsTasks)]
                 /\ \A u \in WS!Worker : wsDeque[u] = <<>> => wsDeque'[u] = <<>>
      BY <2>2 DEF WS!Take, StealingInv
    <2>3. wsStealer = [wsStealer EXCEPT ![w] = wsStealer[w]] /\ wsPc = [wsPc EXCEPT ![w] = wsPc[w]]
      BY DEF StealingInv
    <2>4. wsPc'[w] \in {"own", "work"} => RoundOK(w)'
      BY DEF RoundOK
    <2>5. CASE WS!PopOwn(w)
      <3>1. wsPc'[w] = "work" /\ wsPc' = [wsPc EXCEPT ![w] = "work"] /\ wsStealer' = wsStealer
        BY <2>5 DEF WS!PopOwn, WS!Goto, StealingInv
      <3> QED
        BY <2>1, <2>2, <2>3, <2>4, <2>5, <3>1, StealingKept DEF WS!PopOwn
    <2>6. CASE WS!StealTakes(w)
      <3>1. wsPc'[w] = "work" /\ wsPc' = [wsPc EXCEPT ![w] = "work"] /\ wsStealer' = wsStealer
        BY <2>6 DEF WS!StealTakes, WS!Goto, StealingInv
      <3>2. WS!Victim(w) \in WS!Worker /\ wsDeque[WS!Victim(w)] # <<>>
        BY <2>1, <2>6 DEF WS!StealTakes, WS!StillOldest, RoundOK
      <3> QED
        BY <2>1, <2>2, <2>3, <2>4, <2>6, <3>1, <3>2, StealingKept DEF WS!StealTakes
    <2>7. CASE wsDeque' = wsDeque
      <3>1. /\ wsDeque' \in [WS!Worker -> Seq(1 .. WsTasks)]
            /\ \A u \in WS!Worker : wsDeque[u] = <<>> => wsDeque'[u] = <<>>
        BY <2>7 DEF StealingInv
      <3>2. CASE WS!StealRetry(w) \/ WS!Process(w)
        <4>1. /\ wsPc' = [wsPc EXCEPT ![w] = "own"] /\ wsPc'[w] = "own"
              /\ wsStealer' = wsStealer
          BY <3>2 DEF WS!StealRetry, WS!Process, WS!Goto, StealingInv
        <4> QED
          BY <2>1, <2>3, <2>4, <3>1, <4>1, StealingKept
      <3>3. CASE WS!OwnEmpty(w)
        <4>1. /\ wsPc' = [wsPc EXCEPT ![w] = "steal"] /\ wsPc'[w] = "steal"
              /\ wsStealer' = [wsStealer EXCEPT ![w] = 1] /\ wsStealer'[w] = 1
              /\ wsDeque[w] = <<>>
          BY <3>3 DEF WS!OwnEmpty, WS!Goto, StealingInv
        <4>2. RoundOK(w)'
          BY <2>7, <4>1 DEF RoundOK, WS!Worker
        <4>3. 1 \in 1 .. WsWorkers + 1
          BY <2>1
        <4> QED
          BY <3>1, <4>1, <4>2, <4>3, StealingKept
      <3>4. CASE WS!StealEmpty(w)
        <4> DEFINE v == WS!Victim(w) + 1
        <4>1. /\ wsPc' = wsPc /\ wsPc[w] = "steal"
              /\ wsStealer' = [wsStealer EXCEPT ![w] = v] /\ wsStealer'[w] = v
              /\ WS!Victim(w) \in WS!Worker /\ wsDeque[WS!Victim(w)] = <<>>
          BY <3>4 DEF WS!StealEmpty, StealingInv
        <4>2. v \in 1 .. WsWorkers + 1
          BY <2>1, <4>1 DEF WS!Worker
        <4>3. \A u \in WS!Worker :
                u < v => u < wsStealer[w] \/ u = w \/ u = WS!Victim(w)
          BY <2>1 DEF WS!Worker, WS!Victim
        <4>4. RoundOK(w)'
          BY <2>1, <2>7, <4>1, <4>3 DEF RoundOK
        <4> HIDE DEF v
        <4> QED
          BY <2>1, <2>3, <3>1, <4>1, <4>2, <4>4, StealingKept
      <3>5. CASE WS!StealLooks(w)
        <4>1. /\ wsPc' = [wsPc EXCEPT ![w] = "take"] /\ wsPc'[w] = "take"
              /\ wsStealer' = wsStealer /\ wsPc[w] = "steal"
              /\ WS!Victim(w) \in WS!Worker
          BY <3>5 DEF WS!StealLooks, WS!Goto, StealingInv
        <4>2. RoundOK(w)'
          BY <2>1, <2>7, <4>1 DEF RoundOK, WS!Victim
        <4> QED
          BY <2>1, <2>3, <3>1, <4>1, <4>2, StealingKept
      <3>6. CASE WS!Leave(w)
        <4>1. /\ wsPc' = [wsPc EXCEPT ![w] = "gone"] /\ wsPc'[w] = "gone"
              /\ wsStealer' = wsStealer /\ wsPc[w] = "steal"
              /\ WS!Victim(w) \notin WS!Worker
          BY <3>6 DEF WS!Leave, WS!Goto, StealingInv
        <4>2. \A u \in WS!Worker : u < wsStealer[w] \/ u = w
          BY <2>1, <4>1 DEF WS!Worker, WS!Victim
        <4>3. RoundOK(w)'
          BY <2>1, <2>7, <4>1, <4>2 DEF RoundOK
        <4> QED
          BY <2>1, <2>3, <3>1, <4>1, <4>3, StealingKept
      <3>7. ~ WS!PopOwn(w) /\ ~ WS!StealTakes(w) => \/ WS!StealRetry(w) \/ WS!Process(w)
                    \/ WS!OwnEmpty(w) \/ WS!StealEmpty(w) \/ WS!StealLooks(w) \/ WS!Leave(w)
        BY <1>1 DEF WS!Run
      <3> QED
        BY <2>5, <2>6, <3>2, <3>3, <3>4, <3>5, <3>6, <3>7
    <2> QED
      BY <1>1, <2>5, <2>6, <2>7 DEF WS!Run, WS!OwnEmpty, WS!StealEmpty, WS!StealLooks,
         WS!StealRetry, WS!Process, WS!Leave
  <1>2. CASE UNCHANGED WS!vars
    BY <1>2 DEF WS!vars, StealingInv, RoundOK, WS!Victim
  <1> QED
    BY <1>1, <1>2 DEF WS!Next

\* Each task is in the first worker's deque, at work or processed.
AtWork == {w \in WS!Worker : wsPc[w] = "work"}

TaskInv ==
  /\ \A u \in WS!Worker : u # 1 => wsDeque[u] = <<>>
  /\ wsProcessed \in [WS!Worker -> Nat]
  /\ Len(wsDeque[1]) + Cardinality(AtWork) + SumOf(wsProcessed, WS!Worker) = WsTasks

LEMMA WorkersCounted ==
  ASSUME WS!WorkStealingAssumption
  PROVE  /\ IsFiniteSet(WS!Worker) /\ 1 \in WS!Worker
         /\ IsFiniteSet(AtWork) /\ Cardinality(AtWork) \in Nat
  <1>1. IsFiniteSet(WS!Worker) /\ 1 \in WS!Worker
    BY FS_Interval DEF WS!Worker, WS!WorkStealingAssumption
  <1>2. IsFiniteSet(AtWork)
    BY <1>1, FS_Subset DEF AtWork
  <1> QED
    BY <1>1, <1>2, FS_CardinalityType

\* A task that is taken goes to work.
LEMMA TaskTaken ==
  ASSUME WS!WorkStealingAssumption, StealingInv, TaskInv, NEW w \in WS!Worker,
         wsPc[w] # "work", NEW v \in WS!Worker, wsDeque[v] # <<>>, WS!Take(v),
         WS!Goto(w, "work"), wsProcessed' = wsProcessed
  PROVE  TaskInv'
  <1>1. v = 1
    BY DEF TaskInv
  <1>2. wsDeque' = [wsDeque EXCEPT ![1] = Tail(wsDeque[1])]
    BY <1>1 DEF WS!Take
  <1>3. /\ wsDeque'[1] = Tail(wsDeque[1])
        /\ \A u \in WS!Worker : u # 1 => wsDeque'[u] = wsDeque[u]
    BY <1>1, <1>2 DEF StealingInv
  <1>4. Len(wsDeque[1]) \in Nat /\ Len(wsDeque'[1]) = Len(wsDeque[1]) - 1
    BY <1>1, <1>3 DEF StealingInv
  <1>5. AtWork' = AtWork \cup {w} /\ w \notin AtWork
    BY DEF AtWork, WS!Goto, StealingInv
  <1>6. Cardinality(AtWork') = Cardinality(AtWork) + 1
    BY <1>5, WorkersCounted, FS_AddElement
  <1>7. SumOf(wsProcessed, WS!Worker) \in Nat
    BY WorkersCounted, SumInNat DEF TaskInv
  <1>8. Len(wsDeque'[1]) + Cardinality(AtWork') + SumOf(wsProcessed, WS!Worker) = WsTasks
    <2>1. Len(wsDeque[1]) + Cardinality(AtWork) + SumOf(wsProcessed, WS!Worker) = WsTasks
      BY DEF TaskInv
    <2>2. Cardinality(AtWork) \in Nat
      BY WorkersCounted
    <2> QED
      BY <1>4, <1>6, <1>7, <2>1, <2>2
  <1> QED
    BY <1>3, <1>8 DEF TaskInv, WS!Worker

\* A task at work is counted.
LEMMA TaskProcessed ==
  ASSUME WS!WorkStealingAssumption, StealingInv, TaskInv, NEW w \in WS!Worker,
         WS!Process(w)
  PROVE  TaskInv'
  <1>1. /\ wsDeque' = wsDeque /\ wsPc[w] = "work" /\ wsPc' = [wsPc EXCEPT ![w] = "own"]
        /\ wsProcessed' = [wsProcessed EXCEPT ![w] = wsProcessed[w] + 1]
    BY DEF WS!Process, WS!Goto
  <1>2. SumOf(wsProcessed', WS!Worker) = SumOf(wsProcessed, WS!Worker) + 1
    BY <1>1, WorkersCounted, SumCountsOn DEF TaskInv
  <1>3. AtWork' = AtWork \ {w} /\ w \in AtWork
    BY <1>1 DEF AtWork, StealingInv
  <1>4. Cardinality(AtWork') = Cardinality(AtWork) - 1
    BY <1>3, WorkersCounted, FS_RemoveElement
  <1>5. wsProcessed' \in [WS!Worker -> Nat]
    BY <1>1 DEF TaskInv
  <1>6. Len(wsDeque'[1]) + Cardinality(AtWork') + SumOf(wsProcessed', WS!Worker) = WsTasks
    <2>1. Len(wsDeque[1]) + Cardinality(AtWork) + SumOf(wsProcessed, WS!Worker) = WsTasks
      BY DEF TaskInv
    <2>2. Cardinality(AtWork) \in Nat /\ SumOf(wsProcessed, WS!Worker) \in Nat
      BY WorkersCounted, SumInNat DEF TaskInv
    <2>3. Len(wsDeque[1]) \in Nat
      BY WorkersCounted DEF StealingInv
    <2>4. Len(wsDeque'[1]) = Len(wsDeque[1])
      BY <1>1
    <2> DEFINE a == Len(wsDeque[1])
               b == Cardinality(AtWork)
               c == SumOf(wsProcessed, WS!Worker)
    <2>5. Len(wsDeque'[1]) + Cardinality(AtWork') + SumOf(wsProcessed', WS!Worker)
            = a + (b - 1) + (c + 1)
      BY <1>2, <1>4, <2>4, Zenon
    <2>6. a + (b - 1) + (c + 1) = a + b + c
      <3>1. a \in Nat /\ b \in Nat /\ c \in Nat
        BY <2>2, <2>3
      <3> HIDE DEF a, b, c
      <3> QED
        BY <3>1
    <2> QED
      BY <2>1, <2>5, <2>6, Zenon
  <1> QED
    BY <1>1, <1>5, <1>6 DEF TaskInv, WS!Worker

LEMMA TaskStep ==
  ASSUME WS!WorkStealingAssumption, StealingInv, TaskInv, [WS!Next]_(WS!vars)
  PROVE  TaskInv'
  <1>1. ASSUME NEW w \in WS!Worker, WS!Run(w)
        PROVE  TaskInv'
    <2>1. CASE WS!PopOwn(w)
      BY <2>1, TaskTaken DEF WS!PopOwn
    <2>2. CASE WS!StealTakes(w)
      <3>1. WS!Victim(w) \in WS!Worker
        BY <2>2 DEF WS!StealTakes, StealingInv, RoundOK
      <3> QED
        BY <2>2, <3>1, TaskTaken DEF WS!StealTakes, WS!StillOldest
    <2>3. CASE WS!Process(w)
      BY <2>3, TaskProcessed
    <2>4. ASSUME NEW l \in {"own", "steal", "take", "gone"}, wsPc[w] # "work",
                 wsPc' = [wsPc EXCEPT ![w] = l] \/ wsPc' = wsPc,
                 wsDeque' = wsDeque, wsProcessed' = wsProcessed
          PROVE  TaskInv'
      <3>1. AtWork' = AtWork
        BY <2>4 DEF AtWork, StealingInv
      <3> QED
        BY <2>4, <3>1 DEF TaskInv, WS!Worker
    <2>5. CASE WS!OwnEmpty(w)
      BY <2>4, <2>5 DEF WS!OwnEmpty, WS!Goto
    <2>6. CASE WS!StealEmpty(w)
      BY <2>4, <2>6 DEF WS!StealEmpty
    <2>7. CASE WS!StealLooks(w)
      BY <2>4, <2>7 DEF WS!StealLooks, WS!Goto
    <2>8. CASE WS!StealRetry(w)
      BY <2>4, <2>8 DEF WS!StealRetry, WS!Goto
    <2>9. CASE WS!Leave(w)
      BY <2>4, <2>9 DEF WS!Leave, WS!Goto
    <2> QED
      BY <1>1, <2>1, <2>2, <2>3, <2>5, <2>6, <2>7, <2>8, <2>9 DEF WS!Run
  <1>2. CASE UNCHANGED WS!vars
    BY <1>2 DEF WS!vars, TaskInv, AtWork, WS!Worker
  <1> QED
    BY <1>1, <1>2 DEF WS!Next

\* When all have left, nothing waits and nothing is at work: all is in the sum.
LEMMA TasksAllProcessed ==
  ASSUME WS!WorkStealingAssumption, StealingInv, TaskInv
  PROVE  WS!AllProcessed
  <1> SUFFICES ASSUME \A w \in WS!Worker : wsPc[w] = "gone"
               PROVE  WS!Sum[WsWorkers] = WsTasks
    BY DEF WS!AllProcessed
  <1>1. WS!Sum[WsWorkers] = SumOf(wsProcessed, 1 .. WsWorkers)
    <2>1. WsWorkers \in Nat /\ wsProcessed \in [1 .. WsWorkers -> Nat]
      BY DEF WS!WorkStealingAssumption, TaskInv, WS!Worker
    <2>2. WS!Sum = CHOOSE h : h = [n \in 0 .. WsWorkers |->
                                    IF n = 0 THEN 0 ELSE h[n - 1] + wsProcessed[n]]
      BY DEF WS!Sum
    <2> QED
      BY <2>1, <2>2, SumsUpto, Zenon
  <1>2. Len(wsDeque[1]) = 0
    BY WorkersCounted DEF StealingInv, RoundOK
  <1>3. Cardinality(AtWork) = 0
    <2>1. AtWork = {}
      BY DEF AtWork
    <2> QED
      BY <2>1, FS_EmptySet
  <1>4. SumOf(wsProcessed, WS!Worker) \in Nat
    BY WorkersCounted, SumInNat DEF TaskInv
  <1> QED
    BY <1>1, <1>2, <1>3, <1>4 DEF TaskInv, WS!Worker

\* A worker leaves only when every deque is empty, also when it lost races for tasks
\* on its round, and when all have left each task was processed once
\* (demo07_lockfree_crossbeam.rs:170-236).
THEOREM StealersLeaveWhenDry ==
  ASSUME WS!WorkStealingAssumption
  PROVE  WS!Spec => [](WS!TypeOK /\ WS!LeavesWhenDry /\ WS!AllProcessed)
  <1>1. WS!Init => StealingInv
    <2> SUFFICES ASSUME WS!Init
                 PROVE  StealingInv
      OBVIOUS
    <2>1. [i \in 1 .. WsTasks |-> i] \in Seq(1 .. WsTasks) /\ <<>> \in Seq(1 .. WsTasks)
      BY DEF WS!WorkStealingAssumption
    <2>2. wsDeque \in [WS!Worker -> Seq(1 .. WsTasks)]
      BY <2>1 DEF WS!Init
    <2>3. 1 \in 1 .. WsWorkers + 1
      BY DEF WS!WorkStealingAssumption
    <2> QED
      BY <2>2, <2>3 DEF WS!Init, StealingInv, RoundOK
  <1>2. WS!Init => TaskInv
    <2> SUFFICES ASSUME WS!Init
                 PROVE  TaskInv
      OBVIOUS
    <2>1. AtWork = {}
      BY DEF WS!Init, AtWork
    <2>2. Cardinality(AtWork) = 0
      BY <2>1, FS_EmptySet
    <2>3. wsProcessed = [w \in WS!Worker |-> 0] /\ wsProcessed \in [WS!Worker -> Nat]
      BY DEF WS!Init
    <2>4. SumOf(wsProcessed, WS!Worker) = 0
      BY <2>3, WorkersCounted, SumOfZeros
    <2>5. Len(wsDeque[1]) = WsTasks /\ \A u \in WS!Worker : u # 1 => wsDeque[u] = <<>>
      <3>1. Len([i \in 1 .. WsTasks |-> i]) = WsTasks
        BY DEF WS!WorkStealingAssumption
      <3> QED
        BY <3>1, WorkersCounted DEF WS!Init
    <2>6. WsTasks \in Nat
      BY DEF WS!WorkStealingAssumption
    <2> QED
      BY <2>2, <2>3, <2>4, <2>5, <2>6 DEF TaskInv
  <1>3. StealingInv /\ TaskInv /\ [WS!Next]_(WS!vars) => StealingInv' /\ TaskInv'
    BY StealingStep, TaskStep
  <1>4. StealingInv /\ TaskInv => WS!TypeOK /\ WS!LeavesWhenDry /\ WS!AllProcessed
    BY TasksAllProcessed DEF StealingInv, RoundOK, WS!LeavesWhenDry, WS!TypeOK
  <1> QED
    BY <1>1, <1>2, <1>3, <1>4, PTL DEF WS!Spec

(***************************************************************************)
(* The watches of the gRPC store.                                          *)
(***************************************************************************)

\* s grows and stays below n.
Below(s, n) ==
  /\ \A i \in 1 .. Len(s) - 1 : s[i] < s[i + 1]
  /\ \A i \in 1 .. Len(s) : s[i] < n

\* A place: of a change or of an event.
Place == Nat \ {0}

\* What a watch was handed lies below the event it will receive next, and accounts
\* with what it has skipped for every event since it subscribed.
HearingOK(w) ==
  /\ Below(WA!Handed(w), waNext[w])
  /\ waSince[w] + Len(WA!Handed(w)) + waSkipped[w] = waNext[w]

WatchTypes ==
  /\ waChanges \in Nat /\ waCalls \in 0 .. WaMaxWrites /\ waChanges =< waCalls
  /\ waStore \in [WaKey -> 0 .. waChanges]
  /\ waPending \in [WaWriter -> Seq(Nat)] /\ waEvents \in Seq(Nat)
  /\ waPc \in [WaWatcher -> {"none", "recv", "send", "gone"}]
  /\ waNext \in [WaWatcher -> Place] /\ waSince \in [WaWatcher -> Place]
  /\ waSkipped \in [WaWatcher -> Nat]
  /\ waStream \in [WaWatcher -> Seq(Nat)] /\ waHeard \in [WaWatcher -> Seq(Nat)]

WatchOK(w) ==
  /\ waNext[w] =< Len(waEvents) + 1 /\ Len(waStream[w]) =< WaWindow
  /\ waPc[w] = "none" => waStream[w] = <<>> /\ waHeard[w] = <<>> /\ waSkipped[w] = 0
  /\ waPc[w] # "gone" => HearingOK(w)

WatchInv == WatchTypes /\ \A w \in WaWatcher : WatchOK(w)

LEMMA OldestIs ==
  ASSUME WA!WatchServerAssumption, waEvents \in Seq(Nat)
  PROVE  WA!Oldest \in 1 .. Len(waEvents) + 1
  <1>1. Len(waEvents) \in Nat
    OBVIOUS
  <1> DEFINE x == Len(waEvents) - WaBuffer + 1
  <1>2. x \in Int /\ x =< Len(waEvents) + 1
    BY <1>1 DEF WA!WatchServerAssumption
  <1> HIDE DEF x
  <1>3. WA!Oldest = WA!Max({1, x})
    BY DEF WA!Oldest, x
  <1>4. PICK m \in {1, x} : m >= 1 /\ m >= x
    BY <1>2
  <1>5. WA!Oldest \in {1, x} /\ WA!Oldest >= 1
    BY <1>2, <1>3, <1>4 DEF WA!Max
  <1> QED
    BY <1>1, <1>2, <1>5

LEMMA ConcatThree ==
  ASSUME NEW a \in Seq(Nat), NEW x \in Seq(Nat), NEW t \in Seq(Nat)
  PROVE  (a \o x) \o t = a \o (x \o t)
  BY ConcatAssociative

\* The client reads what the task has sent: nothing is added.
LEMMA ReadsOn ==
  ASSUME NEW a \in Seq(Nat), NEW b \in Seq(Nat), NEW c \in Seq(Nat), b # <<>>
  PROVE  Append(a, Head(b)) \o Tail(b) \o c = a \o b \o c
  <1> DEFINE x == <<Head(b)>>
             t == Tail(b)
  <1>1. Head(b) \in Nat /\ t \in Seq(Nat) /\ x \in Seq(Nat)
    BY HeadTailProperties
  <1>2. b = x \o t
    OBVIOUS
  <1>3. Append(a, Head(b)) = a \o x
    BY <1>1, AppendIsConcat
  <1> HIDE DEF x, t
  <1>4. (a \o x) \o t = a \o (x \o t)
    BY <1>1, ConcatThree, Zenon
  <1> QED
    BY <1>2, <1>3, <1>4 DEF t

\* The next event is handed over.
LEMMA HandedOne ==
  ASSUME NEW a \in Seq(Nat), NEW b \in Seq(Nat), NEW n \in Nat, Below(a \o b, n)
  PROVE  /\ Below(a \o b \o <<n>>, n + 1)
         /\ Len(a \o b \o <<n>>) = Len(a \o b) + 1
  <1> DEFINE s == a \o b
  <1>1. s \in Seq(Nat) /\ Len(s) \in Nat
    OBVIOUS
  <1> HIDE DEF s
  <1>2. s \o <<n>> = Append(s, n)
    BY <1>1, AppendIsConcat
  <1>3. /\ Len(Append(s, n)) = Len(s) + 1
        /\ \A i \in 1 .. Len(s) : Append(s, n)[i] = s[i] /\ s[i] \in Nat
        /\ Append(s, n)[Len(s) + 1] = n
    BY <1>1
  <1> DEFINE t == Append(s, n)
             m == Len(s)
  <1>4. m \in Nat /\ Len(t) = m + 1 /\ t[m + 1] = n
    BY <1>1, <1>3
  <1>5. \A i \in 1 .. m : t[i] = s[i] /\ s[i] \in Nat /\ s[i] < n
    BY <1>3 DEF Below, s
  <1>6. \A i \in 1 .. m - 1 : s[i] < s[i + 1]
    BY DEF Below, s
  <1> HIDE DEF t, m
  <1>7. ASSUME NEW i \in 1 .. m + 1
        PROVE  t[i] < n + 1
    <2>1. CASE i = m + 1
      BY <1>4, <2>1
    <2>2. CASE i # m + 1
      <3>1. i \in 1 .. m
        BY <1>4, <2>2
      <3> QED
        BY <1>5, <3>1
    <2> QED
      BY <2>1, <2>2
  <1>8. ASSUME NEW i \in 1 .. m
        PROVE  t[i] < t[i + 1]
    <2>1. CASE i = m
      BY <1>4, <1>5, <2>1
    <2>2. CASE i # m
      <3>1. i \in 1 .. m - 1 /\ i + 1 \in 1 .. m
        BY <1>4, <2>2
      <3> QED
        BY <1>5, <1>6, <3>1
    <2> QED
      BY <2>1, <2>2
  <1>9. Below(t, n + 1)
    <2>1. m + 1 - 1 = m
      BY <1>4
    <2> QED
      BY <1>4, <1>7, <1>8, <2>1 DEF Below
  <1> QED
    BY <1>2, <1>3, <1>9 DEF s, t

LEMMA BelowMore ==
  ASSUME NEW s \in Seq(Nat), NEW m \in Nat, NEW n \in Nat, m =< n, Below(s, m)
  PROVE  Below(s, n)
  <1>1. \A i \in 1 .. Len(s) : s[i] \in Nat
    OBVIOUS
  <1> QED
    BY <1>1 DEF Below

\* What a watch was handed, by what its task does.
LEMMA HandedParts ==
  ASSUME NEW a \in Seq(Nat), NEW b \in Seq(Nat), NEW n \in Place
  PROVE  /\ a \o b \in Seq(Nat) /\ a \o b \o <<>> = a \o b
         /\ n - 1 \in Nat /\ a \o b \o <<n - 1>> \in Seq(Nat)
  <1>1. a \o b \in Seq(Nat) /\ n - 1 \in Nat
    BY DEF Place
  <1>2. <<n - 1>> \in Seq(Nat)
    BY <1>1
  <1> QED
    BY <1>1, <1>2, ConcatEmptySeq, ConcatProperties

\* The other watches go on as they were.
LEMMA WatchKept ==
  ASSUME WatchInv, WatchTypes', NEW w \in WaWatcher, Len(waEvents') >= Len(waEvents),
         WatchOK(w)',
         \A u \in WaWatcher : u # w =>
           /\ waPc'[u] = waPc[u] /\ waNext'[u] = waNext[u] /\ waSince'[u] = waSince[u]
           /\ waStream'[u] = waStream[u] /\ waHeard'[u] = waHeard[u] /\ waSkipped'[u] = waSkipped[u]
  PROVE  WatchInv'
  <1>1. ASSUME NEW u \in WaWatcher, u # w
        PROVE  WatchOK(u)'
    <2>1. /\ waPc'[u] = waPc[u] /\ waNext'[u] = waNext[u] /\ waSince'[u] = waSince[u]
          /\ waStream'[u] = waStream[u] /\ waHeard'[u] = waHeard[u] /\ waSkipped'[u] = waSkipped[u]
      BY <1>1
    <2>2. WA!Handed(u)' = WA!Handed(u)
      BY <2>1 DEF WA!Handed
    <2>3. HearingOK(u)' <=> HearingOK(u)
      BY <2>1, <2>2 DEF HearingOK, Below
    <2>4. waNext[u] \in Nat
      BY DEF WatchInv, WatchTypes, Place
    <2>4a. Len(waEvents) \in Nat /\ Len(waEvents') \in Nat
      BY DEF WatchInv, WatchTypes
    <2> QED
      BY <2>1, <2>3, <2>4, <2>4a DEF WatchInv, WatchOK
  <1> QED
    BY <1>1 DEF WatchInv

LEMMA WriterStep ==
  ASSUME WA!WatchServerAssumption, WatchInv, NEW t \in WaWriter,
         (\E k \in WaKey : WA!Put(t, k) \/ WA!Delete(t, k)) \/ WA!Publish(t)
  PROVE  WatchInv'
  <1>1. UNCHANGED <<waPc, waNext, waSince, waStream, waHeard, waSkipped>>
    BY DEF WA!Put, WA!Delete, WA!Publish, WA!watchVars
  <1>2. WatchTypes' /\ Len(waEvents') >= Len(waEvents)
    <2>1. ASSUME NEW k \in WaKey, NEW v \in {waChanges + 1, 0}, WA!Change(t, k, v),
                 waCalls < WaMaxWrites, waCalls' = waCalls + 1, waEvents' = waEvents
          PROVE  WatchTypes' /\ Len(waEvents') >= Len(waEvents)
      <3>1. /\ waChanges' \in Nat /\ waCalls' \in 0 .. WaMaxWrites /\ waChanges' =< waCalls'
            /\ v \in 0 .. waChanges' /\ waChanges' = waChanges + 1
        BY <2>1 DEF WA!Change, WatchInv, WatchTypes, WA!WatchServerAssumption
      <3>2. waStore' \in [WaKey -> 0 .. waChanges']
        <4>1. waStore \in [WaKey -> 0 .. waChanges] /\ 0 .. waChanges \subseteq 0 .. waChanges'
          BY <3>1 DEF WatchInv, WatchTypes
        <4>2. waStore' = [waStore EXCEPT ![k] = v]
          BY <2>1 DEF WA!Change
        <4> QED
          BY <3>1, <4>1, <4>2
      <3>3. waPending' \in [WaWriter -> Seq(Nat)]
        <4>1. <<waChanges + 1>> \in Seq(Nat)
          BY DEF WatchInv, WatchTypes
        <4> QED
          BY <2>1, <4>1 DEF WA!Change, WatchInv, WatchTypes
      <3> QED
        BY <1>1, <2>1, <3>1, <3>2, <3>3 DEF WatchInv, WatchTypes
    <2>2. ASSUME NEW k \in WaKey, WA!Put(t, k)
          PROVE  WatchTypes' /\ Len(waEvents') >= Len(waEvents)
      BY <2>1, <2>2 DEF WA!Put, WA!MayCall
    <2>3. ASSUME NEW k \in WaKey, WA!Delete(t, k)
          PROVE  WatchTypes' /\ Len(waEvents') >= Len(waEvents)
      <3>1. CASE waStore[k] = WA!None
        <4>1. /\ waCalls < WaMaxWrites /\ waCalls' = waCalls + 1
              /\ UNCHANGED <<waStore, waChanges, waPending, waEvents>>
          BY <2>3, <3>1 DEF WA!Delete, WA!MayCall
        <4> QED
          BY <1>1, <4>1 DEF WatchInv, WatchTypes, WA!WatchServerAssumption
      <3>2. CASE waStore[k] # WA!None
        BY <2>1, <2>3, <3>2 DEF WA!Delete, WA!MayCall, WA!None
      <3> QED
        BY <3>1, <3>2
    <2>4. CASE WA!Publish(t)
      <3>1. /\ waPending[t] # <<>> /\ UNCHANGED <<waStore, waChanges, waCalls>>
            /\ waEvents' = Append(waEvents, Head(waPending[t]))
            /\ waPending' = [waPending EXCEPT ![t] = <<>>]
        BY <2>4 DEF WA!Publish
      <3>2. /\ waPending[t] \in Seq(Nat) /\ waEvents \in Seq(Nat)
            /\ <<>> \in Seq(Nat)
        BY DEF WatchInv, WatchTypes
      <3>3. waEvents' \in Seq(Nat) /\ Len(waEvents') = Len(waEvents) + 1 /\ Len(waEvents) \in Nat
        BY <3>1, <3>2
      <3>4. waPending' \in [WaWriter -> Seq(Nat)]
        BY <3>1, <3>2 DEF WatchInv, WatchTypes
      <3> QED
        BY <1>1, <3>1, <3>3, <3>4 DEF WatchInv, WatchTypes
    <2> QED
      BY <2>2, <2>3, <2>4
  <1>3. ASSUME NEW w \in WaWatcher
        PROVE  WatchOK(w)'
    <2>1. HearingOK(w)' <=> HearingOK(w)
      BY <1>1 DEF HearingOK, Below, WA!Handed
    <2>2. waNext[w] \in Nat /\ Len(waEvents) \in Nat /\ Len(waEvents') \in Nat
      BY <1>2 DEF WatchInv, WatchTypes, Place
    <2> QED
      BY <1>1, <1>2, <2>1, <2>2 DEF WatchInv, WatchOK
  <1> QED
    BY <1>2, <1>3 DEF WatchInv

LEMMA WatcherStep ==
  ASSUME WA!WatchServerAssumption, WatchInv, NEW w \in WaWatcher,
         WA!Watch(w) \/ WA!Task(w) \/ WA!Read(w) \/ WA!Disconnect(w)
  PROVE  WatchInv'
  <1> DEFINE h == waHeard[w]
             s == waStream[w]
             n == waNext[w]
  <1>1. /\ h \in Seq(Nat) /\ s \in Seq(Nat) /\ n \in Place /\ n \in Nat /\ n - 1 \in Nat
        /\ waSince[w] \in Nat /\ waSkipped[w] \in Nat /\ Len(waEvents) \in Nat
        /\ WatchOK(w)
    BY DEF WatchInv, WatchTypes, Place
  <1>2. UNCHANGED <<waStore, waChanges, waCalls, waPending, waEvents>>
    BY DEF WA!Watch, WA!Task, WA!Recv, WA!Lagged, WA!Relay, WA!RelayFails, WA!Read,
           WA!Disconnect
  <1>3. WA!Oldest \in 1 .. Len(waEvents) + 1
    BY OldestIs DEF WatchInv, WatchTypes
  <1>4. /\ h \o s \in Seq(Nat) /\ h \o s \o <<>> = h \o s
        /\ h \o s \o <<n - 1>> \in Seq(Nat) /\ Len(h \o s) \in Nat
    <2> HIDE DEF h, s, n
    <2>1. h \o s \in Seq(Nat) /\ h \o s \o <<>> = h \o s /\ h \o s \o <<n - 1>> \in Seq(Nat)
      BY <1>1, HandedParts
    <2> QED
      BY <2>1
  <1>5. CASE WA!Watch(w)
    <2> DEFINE p == Len(waEvents) + 1
    <2>1. /\ waPc[w] = "none" /\ waPc' = [waPc EXCEPT ![w] = "recv"]
          /\ waNext' = [waNext EXCEPT ![w] = p] /\ waSince' = [waSince EXCEPT ![w] = p]
          /\ UNCHANGED <<waStream, waHeard, waSkipped>>
      BY <1>5 DEF WA!Watch
    <2>2. p \in Place /\ p \in Nat /\ p =< Len(waEvents) + 1
      BY <1>1 DEF Place
    <2> HIDE DEF p
    <2>3. WatchTypes'
      BY <1>2, <2>1, <2>2 DEF WatchInv, WatchTypes
    <2>4. h = <<>> /\ s = <<>> /\ waSkipped[w] = 0 /\ Len(s) =< WaWindow
      BY <1>1, <2>1 DEF WatchOK
    <2>5. /\ waPc'[w] = "recv" /\ waNext'[w] = p /\ waSince'[w] = p /\ waSkipped'[w] = 0
          /\ waStream'[w] = <<>> /\ waHeard'[w] = <<>>
      BY <2>1, <2>4 DEF WatchInv, WatchTypes
    <2>6. WA!Handed(w)' = <<>>
      BY <2>5 DEF WA!Handed
    <2>7. HearingOK(w)'
      BY <2>2, <2>5, <2>6 DEF HearingOK, Below
    <2>8. WatchOK(w)'
      BY <1>2, <2>2, <2>4, <2>5, <2>7 DEF WatchOK
    <2> QED
      BY <1>1, <1>2, <2>1, <2>3, <2>8, WatchKept
  <1>6. CASE WA!Recv(w)
    <2>1. /\ waPc[w] = "recv" /\ n =< Len(waEvents) /\ waPc' = [waPc EXCEPT ![w] = "send"]
          /\ waNext' = [waNext EXCEPT ![w] = n + 1]
          /\ UNCHANGED <<waSince, waStream, waHeard, waSkipped>>
      BY <1>1, <1>3, <1>6 DEF WA!Recv
    <2>2. n + 1 \in Place
      BY <1>1 DEF Place
    <2>3. WatchTypes'
      BY <1>2, <2>1, <2>2 DEF WatchInv, WatchTypes
    <2>4. /\ waPc'[w] = "send" /\ waNext'[w] = n + 1 /\ waSince'[w] = waSince[w]
          /\ waSkipped'[w] = waSkipped[w] /\ waStream'[w] = s /\ waHeard'[w] = h
      BY <2>1 DEF WatchInv, WatchTypes
    <2>5. WA!Handed(w) = h \o s /\ HearingOK(w)
      BY <1>1, <1>4, <2>1 DEF WA!Handed, WatchOK
    <2>6. WA!Handed(w)' = h \o s \o <<n>>
      <3>1. waNext'[w] - 1 = n
        BY <1>1, <2>4
      <3> QED
        BY <2>4, <3>1 DEF WA!Handed
    <2>7. Below(h \o s \o <<n>>, n + 1) /\ Len(h \o s \o <<n>>) = Len(h \o s) + 1
      BY <1>1, <2>5, HandedOne DEF HearingOK
    <2>8. HearingOK(w)'
      <3>1. Below(WA!Handed(w)', waNext'[w])
        BY <2>4, <2>6, <2>7
      <3>2. waSince[w] + (Len(h \o s) + 1) + waSkipped[w] = n + 1
        <4>1. waSince[w] + Len(h \o s) + waSkipped[w] = n
          BY <2>5 DEF HearingOK
        <4> HIDE DEF h, s, n
        <4> QED
          BY <1>1, <1>4, <4>1
      <3>3. waSince'[w] + Len(WA!Handed(w)') + waSkipped'[w] = waNext'[w]
        BY <2>4, <2>6, <2>7, <3>2
      <3> QED
        BY <3>1, <3>3 DEF HearingOK, Below
    <2>9. WatchOK(w)'
      BY <1>1, <1>2, <2>1, <2>4, <2>8 DEF WatchOK
    <2> QED
      BY <1>1, <1>2, <2>1, <2>3, <2>9, WatchKept
  <1>7. CASE WA!Lagged(w)
    <2> DEFINE o == WA!Oldest
               k == waSkipped[w] + (o - n)
    <2>1. /\ waPc[w] = "recv" /\ n < o /\ waSkipped' = [waSkipped EXCEPT ![w] = k]
          /\ waNext' = [waNext EXCEPT ![w] = o]
          /\ UNCHANGED <<waPc, waSince, waStream, waHeard>>
      BY <1>7 DEF WA!Lagged
    <2>2. o \in Place /\ o \in Nat /\ o =< Len(waEvents) + 1
      BY <1>1, <1>3 DEF Place
    <2>2a. k \in Nat
      BY <1>1, <2>1, <2>2
    <2> HIDE DEF o, k
    <2>3. WatchTypes'
      BY <1>2, <2>1, <2>2, <2>2a DEF WatchInv, WatchTypes
    <2>4. /\ waPc'[w] = "recv" /\ waNext'[w] = o /\ waSince'[w] = waSince[w]
          /\ waSkipped'[w] = k /\ waStream'[w] = s /\ waHeard'[w] = h
      BY <2>1 DEF WatchInv, WatchTypes
    <2>5. WA!Handed(w) = h \o s /\ HearingOK(w) /\ WA!Handed(w)' = h \o s
      BY <1>1, <1>4, <2>1, <2>4 DEF WA!Handed, WatchOK
    <2>6. Below(h \o s, o)
      <3>1. Below(h \o s, n)
        BY <2>5 DEF HearingOK
      <3> HIDE DEF h, s, n
      <3>2. n =< o /\ n \in Nat /\ o \in Nat /\ h \o s \in Seq(Nat)
        BY <1>1, <1>4, <2>1, <2>2
      <3> QED
        BY <3>1, <3>2, BelowMore
    <2>7. waSince[w] + Len(h \o s) + k = o
      <3>1. waSince[w] + Len(h \o s) + waSkipped[w] = n
        BY <2>5 DEF HearingOK
      <3> DEFINE a == waSince[w]
                 b == Len(h \o s)
                 c == waSkipped[w]
      <3>2. /\ a \in Nat /\ b \in Nat /\ c \in Nat /\ n \in Nat /\ o \in Nat
            /\ a + b + c = n /\ k = c + (o - n)
        BY <1>1, <1>4, <2>2, <3>1 DEF k
      <3> HIDE DEF a, b, c, n, o, k
      <3>3. a + b + k = o
        BY <3>2
      <3> QED
        BY <3>3 DEF a, b
    <2>8. HearingOK(w)'
      BY <2>4, <2>5, <2>6, <2>7 DEF HearingOK, Below
    <2>9. WatchOK(w)'
      BY <1>1, <1>2, <2>2, <2>4, <2>8 DEF WatchOK
    <2> QED
      BY <1>1, <1>2, <2>1, <2>3, <2>9, WatchKept
  <1>8. CASE WA!Relay(w)
    <2> DEFINE r == Append(s, n - 1)
    <2>1. /\ waPc[w] = "send" /\ Len(s) < WaWindow /\ waPc' = [waPc EXCEPT ![w] = "recv"]
          /\ waStream' = [waStream EXCEPT ![w] = r]
          /\ UNCHANGED <<waNext, waSince, waHeard, waSkipped>>
      BY <1>8 DEF WA!Relay
    <2>2. r \in Seq(Nat) /\ Len(r) =< WaWindow /\ h \o r = h \o s \o <<n - 1>>
      <3> USE <1>1
      <3> HIDE DEF h, s, n
      <3>1. r \in Seq(Nat) /\ Len(r) = Len(s) + 1 /\ Len(s) \in Nat
        OBVIOUS
      <3>2. r = s \o <<n - 1>> /\ <<n - 1>> \in Seq(Nat)
        BY AppendIsConcat
      <3>3. h \o r = h \o s \o <<n - 1>>
        <4>1. h \o (s \o <<n - 1>>) = h \o s \o <<n - 1>>
          BY <3>2, ConcatAssociative
        <4> QED
          BY <3>2, <4>1
      <3> HIDE DEF r
      <3> QED
        BY <2>1, <3>1, <3>3 DEF WA!WatchServerAssumption
    <2> HIDE DEF r
    <2>3. WatchTypes'
      BY <1>2, <2>1, <2>2 DEF WatchInv, WatchTypes
    <2>4. /\ waPc'[w] = "recv" /\ waNext'[w] = n /\ waSince'[w] = waSince[w]
          /\ waSkipped'[w] = waSkipped[w] /\ waStream'[w] = r /\ waHeard'[w] = h
      BY <2>1 DEF WatchInv, WatchTypes
    <2>5. WA!Handed(w) = h \o s \o <<n - 1>> /\ HearingOK(w)
      BY <1>1, <2>1 DEF WA!Handed, WatchOK
    <2>6. WA!Handed(w)' = WA!Handed(w)
      <3>1. h \o r \o <<>> = h \o r
        BY <1>1, <2>2, HandedParts
      <3> QED
        BY <2>2, <2>4, <2>5, <3>1 DEF WA!Handed
    <2>7. HearingOK(w)'
      BY <2>4, <2>5, <2>6 DEF HearingOK, Below
    <2>8. WatchOK(w)'
      BY <1>1, <1>2, <2>2, <2>4, <2>7 DEF WatchOK
    <2> QED
      BY <1>1, <1>2, <2>1, <2>3, <2>8, WatchKept
  <1>9. CASE WA!RelayFails(w)
    <2>1. /\ waPc' = [waPc EXCEPT ![w] = "gone"]
          /\ UNCHANGED <<waNext, waSince, waStream, waHeard, waSkipped>>
      BY <1>9 DEF WA!RelayFails
    <2>2. WatchTypes' /\ waPc'[w] = "gone"
      BY <1>2, <2>1 DEF WatchInv, WatchTypes
    <2>3. WatchOK(w)'
      BY <1>1, <1>2, <2>1, <2>2 DEF WatchOK
    <2> QED
      BY <1>1, <1>2, <2>1, <2>2, <2>3, WatchKept
  <1>10. CASE WA!Read(w)
    <2>1. /\ s # <<>>
          /\ waHeard' = [waHeard EXCEPT ![w] = Append(h, Head(s))]
          /\ waStream' = [waStream EXCEPT ![w] = Tail(s)]
          /\ UNCHANGED <<waPc, waNext, waSince, waSkipped>>
      BY <1>10 DEF WA!Read
    <2>2. /\ Append(h, Head(s)) \in Seq(Nat) /\ Tail(s) \in Seq(Nat)
          /\ Len(Tail(s)) = Len(s) - 1 /\ Len(s) \in Nat
      BY <1>1, <2>1
    <2>3. WatchTypes'
      BY <1>2, <2>1, <2>2 DEF WatchInv, WatchTypes
    <2>4. /\ waPc'[w] = waPc[w] /\ waNext'[w] = n /\ waSince'[w] = waSince[w]
          /\ waSkipped'[w] = waSkipped[w] /\ waStream'[w] = Tail(s)
          /\ waHeard'[w] = Append(h, Head(s))
      BY <2>1 DEF WatchInv, WatchTypes
    <2> DEFINE x == IF waPc[w] = "send" THEN <<n - 1>> ELSE <<>>
    <2>5. x \in Seq(Nat)
      BY <1>1
    <2>6. WA!Handed(w) = h \o s \o x /\ WA!Handed(w)' = Append(h, Head(s)) \o Tail(s) \o x
      BY <2>4 DEF WA!Handed
    <2>7. WA!Handed(w)' = WA!Handed(w)
      <3> HIDE DEF h, s, x
      <3> QED
        BY <1>1, <2>1, <2>5, <2>6, ReadsOn
    <2>8. HearingOK(w)' <=> HearingOK(w)
      BY <2>4, <2>7 DEF HearingOK, Below
    <2>9. waPc[w] # "none"
      BY <1>1, <2>1 DEF WatchOK
    <2>10. Len(Tail(s)) =< WaWindow
      <3>1. Len(s) =< WaWindow
        BY <1>1 DEF WatchOK
      <3> QED
        BY <2>2, <3>1 DEF WA!WatchServerAssumption
    <2>11. WatchOK(w)'
      BY <1>1, <1>2, <2>4, <2>8, <2>9, <2>10 DEF WatchOK
    <2> QED
      BY <1>1, <1>2, <2>1, <2>3, <2>11, WatchKept
  <1>11. CASE WA!Disconnect(w)
    <2>1. UNCHANGED <<waPc, waNext, waSince, waStream, waHeard, waSkipped>>
      BY <1>11 DEF WA!Disconnect
    <2>2. WatchTypes'
      BY <1>2, <2>1 DEF WatchInv, WatchTypes
    <2>3. HearingOK(w)' <=> HearingOK(w)
      BY <2>1 DEF HearingOK, Below, WA!Handed
    <2>4. WatchOK(w)'
      BY <1>1, <1>2, <2>1, <2>3 DEF WatchOK
    <2> QED
      BY <1>1, <1>2, <2>1, <2>2, <2>4, WatchKept
  <1> QED
    BY <1>5, <1>6, <1>7, <1>8, <1>9, <1>10, <1>11 DEF WA!Task

LEMMA WatchInvariant == ASSUME WA!WatchServerAssumption PROVE WA!Spec => []WatchInv
  <1>1. WA!Init => WatchInv
    <2> SUFFICES ASSUME WA!Init
                 PROVE  WatchInv
      OBVIOUS
    <2>1. WatchTypes
      <3>1. <<>> \in Seq(Nat)
        OBVIOUS
      <3> QED
        BY <3>1 DEF WA!Init, WA!None, WatchTypes, Place, WA!WatchServerAssumption
    <2>2. ASSUME NEW w \in WaWatcher
          PROVE  WatchOK(w)
      <3>1. /\ waHeard[w] = <<>> /\ waStream[w] = <<>> /\ waPc[w] = "none"
            /\ waNext[w] = 1 /\ waSince[w] = 1 /\ waSkipped[w] = 0 /\ Len(waEvents) = 0
        BY DEF WA!Init
      <3>2. WA!Handed(w) = <<>>
        BY <3>1 DEF WA!Handed
      <3> QED
        BY <3>1, <3>2 DEF WatchOK, HearingOK, Below, WA!WatchServerAssumption
    <2> QED
      BY <2>1, <2>2 DEF WatchInv
  <1>2. WatchInv /\ [WA!Next]_(WA!vars) => WatchInv'
    <2>1. ASSUME WatchInv, UNCHANGED WA!vars
          PROVE  WatchInv'
      BY <2>1 DEF WA!vars, WatchInv, WatchTypes, WatchOK, HearingOK, Below, WA!Handed
    <2> QED
      BY <2>1, WriterStep, WatcherStep DEF WA!Next
  <1> QED
    BY <1>1, <1>2, PTL DEF WA!Spec

\* A client hears the events of the channel in order, none twice, and each one since
\* it subscribed is heard, on its way or counted as lost, however slow it is
\* (app-tokio-tonic/src/bin/server.rs:135-166).
THEOREM WatchersHearInOrder ==
  ASSUME WA!WatchServerAssumption
  PROVE  WA!Spec => [](WA!TypeOK /\ WA!HeardInOrder)
  <1>1. WatchInv => WA!TypeOK /\ WA!HeardInOrder
    <2> SUFFICES ASSUME WatchInv
                 PROVE  WA!TypeOK /\ WA!HeardInOrder
      OBVIOUS
    <2>1. waStore \in [WaKey -> 0 .. WaMaxWrites]
      <3>1. waStore \in [WaKey -> 0 .. waChanges] /\ 0 .. waChanges \subseteq 0 .. WaMaxWrites
        BY DEF WatchInv, WatchTypes, WA!WatchServerAssumption
      <3> QED
        BY <3>1
    <2>2. WA!TypeOK
      BY <2>1 DEF WatchInv, WatchTypes, WatchOK, Place, WA!TypeOK
    <2>3. WA!HeardInOrder
      BY DEF WatchInv, WatchOK, HearingOK, Below, WA!HeardInOrder
    <2> QED
      BY <2>2, <2>3
  <1> QED
    BY <1>1, WatchInvariant, PTL

\* What is published, and what the writers have still to publish.
PublishInv ==
  /\ \A t \in WaWriter : waPending[t] = <<>> \/ \E n \in Nat : waPending[t] = <<n>>
  /\ WA!ChangesPublished

LEMMA EventsAsInLibrary ==
  ASSUME NEW S
  PROVE  WA!ToSet(S) = ToSet(S) /\ (WA!IsInjective(S) <=> IsInjective(S))
  BY DEF WA!ToSet, ToSet, WA!IsInjective, IsInjective

LEMMA ChangeKept ==
  ASSUME WatchInv, PublishInv, NEW t \in WaWriter, NEW k \in WaKey, NEW v,
         waPending[t] = <<>>, WA!Change(t, k, v), waEvents' = waEvents
  PROVE  PublishInv'
  <1> DEFINE Late == {u \in WaWriter : waPending[u] # <<>>}
             n == waChanges + 1
  <1>1. /\ waChanges \in Nat /\ waChanges' = n /\ n \in Nat
        /\ \A u \in WaWriter : waPending'[u] = IF u = t THEN <<n>> ELSE waPending[u]
    BY DEF WA!Change, WatchInv, WatchTypes
  <1>2. Late' = Late \cup {t} /\ t \notin Late
    BY <1>1
  <1>3. /\ Head(waPending'[t]) = n
        /\ \A u \in Late : waPending'[u] = waPending[u] /\ Head(waPending[u]) \in 1 .. waChanges
    BY <1>1, <1>2 DEF PublishInv, WA!ChangesPublished
  <1>4. WA!ToSet(waEvents) \subseteq 1 .. waChanges /\ n \notin 1 .. waChanges
        /\ (1 .. waChanges) \cup {n} = 1 .. n
    BY <1>1 DEF PublishInv, WA!ChangesPublished
  <1> HIDE DEF n
  <1>5. {Head(waPending'[u]) : u \in Late'} = {Head(waPending[u]) : u \in Late} \cup {n}
    BY <1>2, <1>3
  <1>6. WA!ToSet(waEvents) \cup {Head(waPending[u]) : u \in Late} = 1 .. waChanges
    BY DEF PublishInv, WA!ChangesPublished
  <1>7. WA!ToSet(waEvents') \cup {Head(waPending'[u]) : u \in Late'} = 1 .. waChanges'
    BY <1>1, <1>4, <1>5, <1>6
  <1>8. \A u \in Late' : Head(waPending'[u]) \notin WA!ToSet(waEvents')
    BY <1>2, <1>3, <1>4 DEF PublishInv, WA!ChangesPublished
  <1>9. \A u, w \in Late' : Head(waPending'[u]) = Head(waPending'[w]) => u = w
    BY <1>2, <1>3, <1>4 DEF PublishInv, WA!ChangesPublished
  <1>10. WA!IsInjective(waEvents')
    BY DEF PublishInv, WA!ChangesPublished
  <1>11. \A u \in WaWriter : waPending'[u] = <<>> \/ \E m \in Nat : waPending'[u] = <<m>>
    BY <1>1 DEF PublishInv
  <1> QED
    BY <1>7, <1>8, <1>9, <1>10, <1>11 DEF PublishInv, WA!ChangesPublished

LEMMA PublishKept ==
  ASSUME WatchInv, PublishInv, NEW t \in WaWriter, WA!Publish(t)
  PROVE  PublishInv'
  <1> DEFINE Late == {u \in WaWriter : waPending[u] # <<>>}
  <1>1. PICK n \in Nat : waPending[t] = <<n>>
    BY DEF WA!Publish, PublishInv
  <1>2. /\ waEvents \in Seq(Nat) /\ waEvents' = Append(waEvents, n) /\ waChanges' = waChanges
        /\ \A u \in WaWriter : waPending'[u] = IF u = t THEN <<>> ELSE waPending[u]
    BY <1>1 DEF WA!Publish, WatchInv, WatchTypes
  <1>3. Late' = Late \ {t} /\ t \in Late /\ \A u \in Late' : waPending'[u] = waPending[u]
    <2>1. <<n>> # <<>>
      OBVIOUS
    <2>2. waPending[t] # <<>> /\ waPending'[t] = <<>>
      BY <1>1, <1>2, <2>1
    <2>3. \A u \in WaWriter \ {t} : waPending'[u] = waPending[u]
      BY <1>2
    <2> QED
      BY <2>2, <2>3
  <1>4. IsInjective(waEvents) /\ n \notin ToSet(waEvents)
    BY <1>1, <1>3, EventsAsInLibrary DEF PublishInv, WA!ChangesPublished
  <1>5. WA!IsInjective(waEvents') /\ WA!ToSet(waEvents') = WA!ToSet(waEvents) \cup {n}
    BY <1>2, <1>4, Joining, EventsAsInLibrary
  <1>6. \A u \in Late' : Head(waPending'[u]) = Head(waPending[u]) /\ Head(waPending[u]) # n
    BY <1>1, <1>3 DEF PublishInv, WA!ChangesPublished
  <1>7. {Head(waPending[u]) : u \in Late} = {Head(waPending'[u]) : u \in Late'} \cup {n}
    BY <1>1, <1>3
  <1>8. WA!ToSet(waEvents) \cup {Head(waPending[u]) : u \in Late} = 1 .. waChanges
    BY DEF PublishInv, WA!ChangesPublished
  <1>9. WA!ToSet(waEvents') \cup {Head(waPending'[u]) : u \in Late'} = 1 .. waChanges'
    BY <1>2, <1>5, <1>7, <1>8
  <1>10. \A u \in Late' : Head(waPending'[u]) \notin WA!ToSet(waEvents')
    BY <1>3, <1>5, <1>6 DEF PublishInv, WA!ChangesPublished
  <1>11. \A u, w \in Late' : Head(waPending'[u]) = Head(waPending'[w]) => u = w
    BY <1>3, <1>6 DEF PublishInv, WA!ChangesPublished
  <1>12. \A u \in WaWriter : waPending'[u] = <<>> \/ \E m \in Nat : waPending'[u] = <<m>>
    BY <1>2 DEF PublishInv
  <1> QED
    BY <1>5, <1>9, <1>10, <1>11, <1>12 DEF PublishInv, WA!ChangesPublished

\* Every change of the store is published once or about to be, in whatever order the
\* writers come by after they released its lock (app-tokio-tonic/src/bin/server.rs:
\* 64-133).
THEOREM ChangesArePublished ==
  ASSUME WA!WatchServerAssumption
  PROVE  WA!Spec => []WA!ChangesPublished
  <1>1. WA!Init => PublishInv
    <2> SUFFICES ASSUME WA!Init
                 PROVE  PublishInv
      OBVIOUS
    <2>1. waEvents = <<>> /\ waChanges = 0 /\ \A t \in WaWriter : waPending[t] = <<>>
      BY DEF WA!Init
    <2>2. WA!ToSet(waEvents) = {} /\ WA!IsInjective(waEvents)
      BY <2>1 DEF WA!ToSet, WA!IsInjective
    <2> QED
      BY <2>1, <2>2 DEF PublishInv, WA!ChangesPublished
  <1>2. WatchInv /\ PublishInv /\ [WA!Next]_(WA!vars) => PublishInv'
    <2> SUFFICES ASSUME WatchInv, PublishInv, [WA!Next]_(WA!vars)
                 PROVE  PublishInv'
      OBVIOUS
    <2>1. ASSUME NEW t \in WaWriter, NEW k \in WaKey, WA!Put(t, k) \/ WA!Delete(t, k)
          PROVE  PublishInv'
      <3>1. waPending[t] = <<>> /\ waEvents' = waEvents
        BY <2>1 DEF WA!Put, WA!Delete, WA!MayCall
      <3>2. CASE \E v : WA!Change(t, k, v)
        BY <3>1, <3>2, ChangeKept
      <3>3. CASE UNCHANGED <<waChanges, waPending>>
        BY <3>1, <3>3 DEF PublishInv, WA!ChangesPublished
      <3> QED
        BY <2>1, <3>2, <3>3 DEF WA!Put, WA!Delete
    <2>2. CASE \/ UNCHANGED WA!vars
               \/ \E w \in WaWatcher : WA!Watch(w) \/ WA!Task(w) \/ WA!Read(w) \/ WA!Disconnect(w)
      <3>1. UNCHANGED <<waChanges, waPending, waEvents>>
        BY <2>2 DEF WA!vars, WA!Watch, WA!Task, WA!Read, WA!Disconnect, WA!Recv, WA!Lagged,
           WA!Relay, WA!RelayFails
      <3> QED
        BY <3>1 DEF PublishInv, WA!ChangesPublished
    <2> QED
      BY <2>1, <2>2, PublishKept DEF WA!Next
  <1>3. PublishInv => WA!ChangesPublished
    BY DEF PublishInv
  <1> QED
    BY <1>1, <1>2, <1>3, WatchInvariant, PTL DEF WA!Spec

(***************************************************************************)
(* The counters of a node.                                                 *)
(***************************************************************************)

\* The operators of the instance on finite sets are those of the library.
LEMMA SameCounts ==
  ASSUME NEW S
  PROVE  /\ ME!Cardinality(S) = Cardinality(S)
         /\ ME!IsFiniteSet(S) <=> IsFiniteSet(S)
         /\ ME!Min(S) = Min(S) /\ ME!Max(S) = Max(S)
  BY DEF ME!Cardinality, Cardinality, ME!IsFiniteSet, IsFiniteSet, ME!Min, Min, ME!Max, Max

\* x lies between two of the latencies measured.
Between(x) == \E a, b \in meSamples : a =< x /\ x =< b

\* An average is between measured latencies, and what is on its way into it was
\* measured.
MetricsInv ==
  /\ mePc \in [MeConn -> {"none", "read", "kind", "work", "load", "store", "answer", "gone"}]
  /\ ME!ConnectionsCounted
  /\ meSamples \subseteq Nat /\ (\E n \in Nat : \A s \in meSamples : s =< n)
  /\ meLag \in Nat /\ (meLag # 0 => Between(meLag))
  /\ meLatency \in [MeConn -> Nat] /\ mePrev \in [MeConn -> Nat]
  /\ \A c \in MeConn :
       /\ mePc[c] \in {"load", "store"} => meLatency[c] \in meSamples
       /\ mePrev[c] # 0 => Between(mePrev[c])

\* A step in which the connections stay open.
LEMMA SameConnections ==
  ASSUME MetricsInv, NEW c \in MeConn, NEW l, NEW m,
         m = mePc[c], mePc' = [mePc EXCEPT ![c] = l],
         l \notin {"none", "gone"}, m \notin {"none", "gone"},
         meActiveConnections' = meActiveConnections
  PROVE  ME!ConnectionsCounted'
  <1>1. ME!Open' = ME!Open
    BY DEF MetricsInv, ME!Open
  <1> QED
    BY <1>1 DEF MetricsInv, ME!ConnectionsCounted

\* The average of two values between two bounds is between them too.
LEMMA AverageBetween ==
  ASSUME NEW p \in Nat, NEW l \in Nat, meSamples \subseteq Nat,
         l \in meSamples, p # 0 => Between(p)
  PROVE  ME!ewma(p, l) \in Nat /\ Between(ME!ewma(p, l))
  <1>1. CASE p = 0
    BY <1>1 DEF ME!ewma, Between
  <1>2. CASE p # 0
    <2>1. PICK a \in meSamples, b \in meSamples : a =< p /\ p =< b
      BY <1>2 DEF Between
    <2>2. PICK d \in meSamples, e \in meSamples : /\ d =< a /\ d =< l /\ e >= b /\ e >= l
      <3>1. a \in Nat /\ b \in Nat
        BY <2>1
      <3> QED
        BY <3>1
    <2>3. ME!ewma(p, l) = (7 * p + l) \div 8 /\ d \in Nat /\ e \in Nat /\ d =< p /\ p =< e
      BY <1>2, <2>1, <2>2 DEF ME!ewma
    <2>4. d =< (7 * p + l) \div 8 /\ (7 * p + l) \div 8 =< e /\ (7 * p + l) \div 8 \in Nat
      BY <2>2, <2>3
    <2> QED
      BY <2>2, <2>3, <2>4 DEF Between
  <1> QED
    BY <1>1, <1>2

LEMMA MetricsStep ==
  ASSUME ME!KvMetricsAssumption, MetricsInv, [ME!Next]_(ME!vars)
  PROVE  MetricsInv'
  <1> DEFINE Labels == {"none", "read", "kind", "work", "load", "store", "answer", "gone"}
             Measures == <<meLag, meLatency, mePrev, meSamples>>
  <1>1. IsFiniteSet(ME!Open) /\ Cardinality(ME!Open) \in Nat
    <2>1. ME!Open \subseteq MeConn
      BY DEF ME!Open
    <2> QED
      BY <2>1, FS_Subset, FS_CardinalityType, SameCounts DEF ME!KvMetricsAssumption
  <1>2. ASSUME NEW c \in MeConn, NEW l \in Labels, mePc' = [mePc EXCEPT ![c] = l],
               l \notin {"load", "store"}, UNCHANGED Measures, ME!ConnectionsCounted'
        PROVE  MetricsInv'
    BY <1>2 DEF MetricsInv, Between
  <1>3. ASSUME NEW c \in MeConn, ME!Accept(c)
        PROVE  MetricsInv'
    <2>1. ME!Open' = ME!Open \cup {c} /\ c \notin ME!Open
      BY <1>3 DEF ME!Accept, ME!Open, ME!Goto, MetricsInv
    <2>2. Cardinality(ME!Open \cup {c}) = Cardinality(ME!Open) + 1
      BY <1>1, <2>1, FS_AddElement
    <2>3. ME!ConnectionsCounted'
      BY <1>3, <2>1, <2>2, SameCounts DEF ME!Accept, ME!ConnectionsCounted, MetricsInv
    <2> QED
      BY <1>2, <1>3, <2>3 DEF ME!Accept, ME!Goto
  <1>4. ASSUME NEW c \in MeConn, ME!Close(c)
        PROVE  MetricsInv'
    <2>1. ME!Open' = ME!Open \ {c} /\ c \in ME!Open
      BY <1>4 DEF ME!Close, ME!Open, ME!Goto, MetricsInv
    <2>2. Cardinality(ME!Open \ {c}) = Cardinality(ME!Open) - 1
      BY <1>1, <2>1, FS_RemoveElement
    <2>3. ME!ConnectionsCounted'
      BY <1>4, <2>1, <2>2, SameCounts DEF ME!Close, ME!ConnectionsCounted, MetricsInv
    <2> QED
      BY <1>2, <1>4, <2>3 DEF ME!Close, ME!Goto
  <1>5. ASSUME NEW c \in MeConn, ME!Receive(c) \/ ME!Classify(c) \/ ME!Answer(c)
        PROVE  MetricsInv'
    <2>1. PICK l \in {"kind", "read", "work"} : mePc' = [mePc EXCEPT ![c] = l]
      BY <1>5 DEF ME!Receive, ME!Classify, ME!Answer, ME!Goto
    <2>2. /\ mePc[c] \in {"read", "kind", "answer"} /\ UNCHANGED Measures
          /\ meActiveConnections' = meActiveConnections
      BY <1>5 DEF ME!Receive, ME!Classify, ME!Answer
    <2>3. ME!ConnectionsCounted'
      BY <2>1, <2>2, SameConnections
    <2> QED
      BY <1>2, <2>1, <2>2, <2>3
  <1>6. ASSUME NEW c \in MeConn, ME!Work(c)
        PROVE  MetricsInv'
    <2>1. mePc[c] = "work" /\ UNCHANGED <<meActiveConnections, meLag, mePrev>>
      BY <1>6 DEF ME!Work
    <2>2. CASE meKind[c] # "put"
      <3>1. mePc' = [mePc EXCEPT ![c] = "answer"] /\ UNCHANGED Measures
        BY <1>6, <2>2 DEF ME!Work, ME!Goto
      <3>2. ME!ConnectionsCounted'
        BY <2>1, <3>1, SameConnections
      <3> QED
        BY <1>2, <3>1, <3>2
    <2>3. CASE meKind[c] = "put"
      <3>1. PICK t \in MeLatencies : /\ meLatency' = [meLatency EXCEPT ![c] = 1000 * t]
                                     /\ meSamples' = meSamples \cup {1000 * t}
                                     /\ mePc' = [mePc EXCEPT ![c] = "load"]
        BY <1>6, <2>3 DEF ME!Work, ME!Goto
      <3> DEFINE v == 1000 * t
      <3>2. v \in Nat
        BY DEF ME!KvMetricsAssumption
      <3> HIDE DEF v
      <3>3. ME!ConnectionsCounted'
        BY <2>1, <3>1, SameConnections
      <3>4. meSamples' = meSamples \cup {v} /\ meLatency' = [meLatency EXCEPT ![c] = v]
        BY <3>1 DEF v
      <3>5. \A x : Between(x) => Between(x)'
        BY <3>4 DEF Between
      <3>6. \E n \in Nat : \A s \in meSamples' : s =< n
        <4>1. PICK n \in Nat : \A s \in meSamples : s =< n
          BY DEF MetricsInv
        <4>2. \A s \in meSamples' : s =< n + v
          BY <3>2, <3>4, <4>1 DEF MetricsInv
        <4> QED
          BY <3>2, <4>2
      <3>7. /\ meLatency' \in [MeConn -> Nat] /\ mePrev' \in [MeConn -> Nat]
            /\ mePc' \in [MeConn -> Labels]
        BY <2>1, <3>1, <3>2, <3>4 DEF MetricsInv
      <3>8. /\ meSamples' \subseteq Nat
            /\ meLag' \in Nat /\ (meLag' # 0 => Between(meLag)')
        BY <2>1, <3>2, <3>4, <3>5 DEF MetricsInv
      <3>9. ASSUME NEW d \in MeConn
            PROVE  /\ mePc'[d] \in {"load", "store"} => meLatency'[d] \in meSamples'
                   /\ mePrev'[d] # 0 => Between(mePrev[d])'
        <4>1. mePc'[d] \in {"load", "store"} => meLatency'[d] \in meSamples'
          BY <3>1, <3>4 DEF MetricsInv
        <4>2. mePrev'[d] # 0 => Between(mePrev[d])'
          BY <2>1, <3>5 DEF MetricsInv
        <4> QED
          BY <4>1, <4>2
      <3> QED
        BY <3>3, <3>6, <3>7, <3>8, <3>9 DEF MetricsInv
    <2> QED
      BY <2>2, <2>3
  <1>7. ASSUME NEW c \in MeConn, ME!LoadLag(c)
        PROVE  MetricsInv'
    <2>1. /\ mePc[c] = "load" /\ mePc' = [mePc EXCEPT ![c] = "store"]
          /\ mePrev' = [mePrev EXCEPT ![c] = meLag]
          /\ UNCHANGED <<meActiveConnections, meLag, meLatency, meSamples>>
      BY <1>7 DEF ME!LoadLag, ME!Goto
    <2>2. ME!ConnectionsCounted'
      BY <2>1, SameConnections
    <2> QED
      BY <2>1, <2>2 DEF MetricsInv, Between
  <1>8. ASSUME NEW c \in MeConn, ME!StoreLag(c)
        PROVE  MetricsInv'
    <2>1. /\ mePc[c] = "store" /\ mePc' = [mePc EXCEPT ![c] = "answer"]
          /\ meLag' = ME!ewma(mePrev[c], meLatency[c])
          /\ UNCHANGED <<meActiveConnections, mePrev, meLatency, meSamples>>
      BY <1>8 DEF ME!StoreLag, ME!Goto
    <2>2. ME!ConnectionsCounted'
      BY <2>1, SameConnections
    <2>3. meLag' \in Nat /\ Between(meLag)'
      <3>1. ME!ewma(mePrev[c], meLatency[c]) \in Nat /\ Between(ME!ewma(mePrev[c], meLatency[c]))
        BY <2>1, AverageBetween DEF MetricsInv
      <3> QED
        BY <2>1, <3>1 DEF Between
    <2> QED
      BY <2>1, <2>2, <2>3 DEF MetricsInv, Between
  <1>9. CASE UNCHANGED ME!vars
    BY <1>9 DEF ME!vars, MetricsInv, Between, ME!ConnectionsCounted, ME!Open
  <1> QED
    BY <1>3, <1>4, <1>5, <1>6, <1>7, <1>8, <1>9 DEF ME!Next, ME!Task

\* The kinds that are counted, the requests still to be classified and those in work.
Counted == MeKinds \ {"other"}
Unclassified == {c \in MeConn : mePc[c] = "kind"}
InWork == {c \in MeConn : mePc[c] \in {"work", "load", "store", "answer"}}

OpsInv ==
  /\ meCount \in [ME!Counter -> Nat]
  /\ meKind \in [MeConn -> MeKinds \cup {"other"}] /\ meDone \in [MeConn -> 0 .. MeRequests]
  /\ meCount["ops"] = SumOf(meDone, MeConn)
  /\ SumOf(meCount, Counted) + Cardinality(Unclassified) =< meCount["ops"]
  /\ meCount["errors"] + Cardinality(InWork) =< SumOf(meCount, Counted)

LEMMA CounterFacts ==
  ASSUME ME!KvMetricsAssumption
  PROVE  /\ IsFiniteSet(MeConn) /\ IsFiniteSet(Counted) /\ MeRequests \in Nat
         /\ ME!Counter = {"ops", "errors"} \cup Counted
         /\ "ops" \notin Counted /\ "errors" \notin Counted
  <1>1. IsFiniteSet(MeConn) /\ MeRequests \in Nat /\ MeKinds \subseteq {"get", "put", "delete", "other"}
    BY SameCounts DEF ME!KvMetricsAssumption
  <1>2. IsFiniteSet(({"get"} \cup {"put"}) \cup {"delete"})
    BY FS_Singleton, FS_AddElement
  <1>3. Counted \subseteq ({"get"} \cup {"put"}) \cup {"delete"}
    BY <1>1 DEF Counted
  <1>4. IsFiniteSet(Counted)
    BY <1>2, <1>3, FS_Subset
  <1>5. "ops" \notin Counted /\ "errors" \notin Counted
    BY <1>3
  <1> QED
    BY <1>1, <1>4, <1>5 DEF ME!Counter, Counted

LEMMA OpsStep ==
  ASSUME ME!KvMetricsAssumption, MetricsInv, OpsInv, [ME!Next]_(ME!vars)
  PROVE  OpsInv'
  <1> DEFINE kinds == SumOf(meCount, Counted)
             asked == SumOf(meDone, MeConn)
             u == Cardinality(Unclassified)
             w == Cardinality(InWork)
             ops == meCount["ops"]
             errors == meCount["errors"]
             Labels == {"none", "read", "kind", "work", "load", "store", "answer", "gone"}
  <1>1. /\ IsFiniteSet(MeConn) /\ IsFiniteSet(Counted) /\ MeRequests \in Nat
        /\ ME!Counter = {"ops", "errors"} \cup Counted
        /\ "ops" \notin Counted /\ "errors" \notin Counted
    BY CounterFacts
  <1>2. /\ meCount \in [ME!Counter -> Nat] /\ \A x \in Counted : meCount[x] \in Nat
        /\ mePc \in [MeConn -> Labels]
        /\ meKind \in [MeConn -> MeKinds \cup {"other"}] /\ meDone \in [MeConn -> 0 .. MeRequests]
    BY <1>1 DEF OpsInv, MetricsInv
  <1>3. IsFiniteSet(Unclassified) /\ IsFiniteSet(InWork) /\ u \in Nat /\ w \in Nat
    <2>1. Unclassified \subseteq MeConn /\ InWork \subseteq MeConn
      BY DEF Unclassified, InWork
    <2> QED
      BY <1>1, <2>1, FS_Subset, FS_CardinalityType
  <1>4. /\ kinds \in Nat /\ asked \in Nat /\ ops \in Nat /\ errors \in Nat
        /\ ops = asked /\ kinds + u =< ops /\ errors + w =< kinds
    <2>1. \A c \in MeConn : meDone[c] \in Nat
      BY <1>1, <1>2
    <2>2. kinds \in Nat /\ asked \in Nat
      BY <1>1, <1>2, <2>1, SumOfNumbers
    <2>3. ops \in Nat /\ errors \in Nat
      BY <1>1, <1>2
    <2> QED
      BY <2>2, <2>3 DEF OpsInv
  <1> HIDE DEF kinds, asked, u, w, ops, errors
  \* A step that counts nothing.
  <1>5. ASSUME meCount' = meCount, meDone' = meDone, meKind' = meKind,
               Cardinality(Unclassified') =< u, Cardinality(InWork') =< w,
               Cardinality(Unclassified') \in Nat, Cardinality(InWork') \in Nat
        PROVE  OpsInv'
    <2>1. kinds' = kinds /\ asked' = asked /\ ops' = ops /\ errors' = errors
      BY <1>5 DEF kinds, asked, ops, errors
    <2>2. kinds + Cardinality(Unclassified') =< ops /\ errors + Cardinality(InWork') =< kinds
      BY <1>3, <1>4, <1>5
    <2> QED
      BY <1>2, <1>4, <1>5, <2>1, <2>2 DEF OpsInv, kinds, asked, ops, errors
  <1>6. ASSUME NEW c \in MeConn, NEW l, mePc' = [mePc EXCEPT ![c] = l]
        PROVE  /\ Unclassified' = IF l = "kind" THEN Unclassified \cup {c} ELSE Unclassified \ {c}
               /\ InWork' = IF l \in {"work", "load", "store", "answer"}
                              THEN InWork \cup {c} ELSE InWork \ {c}
    BY <1>2, <1>6 DEF Unclassified, InWork
  <1>7. \A c \in MeConn : /\ c \in Unclassified <=> mePc[c] = "kind"
                          /\ c \in InWork <=> mePc[c] \in {"work", "load", "store", "answer"}
    BY DEF Unclassified, InWork
  <1>8. ASSUME NEW c \in MeConn
        PROVE  /\ Cardinality(Unclassified \cup {c}) = IF c \in Unclassified THEN u ELSE u + 1
               /\ Cardinality(Unclassified \ {c}) = IF c \in Unclassified THEN u - 1 ELSE u
               /\ Cardinality(InWork \cup {c}) = IF c \in InWork THEN w ELSE w + 1
               /\ Cardinality(InWork \ {c}) = IF c \in InWork THEN w - 1 ELSE w
    BY <1>3, FS_AddElement, FS_RemoveElement DEF u, w
  <1>8a. \A c \in MeConn : /\ c \in Unclassified => u > 0
                           /\ c \in InWork => w > 0
    BY <1>3, FS_EmptySet DEF u, w
  <1>9. ASSUME NEW c \in MeConn, ME!Accept(c) \/ ME!Close(c)
        PROVE  OpsInv'
    <2>1. /\ \E l \in {"read", "gone"} : mePc' = [mePc EXCEPT ![c] = l]
          /\ mePc[c] \in {"none", "read"} /\ UNCHANGED <<meCount, meDone, meKind>>
      BY <1>9 DEF ME!Accept, ME!Close, ME!Goto
    <2>2. Unclassified' = Unclassified \ {c} /\ InWork' = InWork \ {c}
      BY <1>6, <2>1
    <2>3. c \notin Unclassified /\ c \notin InWork
      BY <1>7, <2>1
    <2>4. Cardinality(Unclassified') = u /\ Cardinality(InWork') = w
      BY <1>8, <2>2, <2>3
    <2>5. u =< u /\ w =< w
      BY <1>3
    <2> QED
      BY <1>3, <1>5, <2>1, <2>4, <2>5
  <1>10. ASSUME NEW c \in MeConn, ME!Receive(c)
        PROVE  OpsInv'
    <2>1. /\ mePc[c] = "read" /\ mePc' = [mePc EXCEPT ![c] = "kind"] /\ meDone[c] < MeRequests
          /\ meDone' = [meDone EXCEPT ![c] = @ + 1]
          /\ meCount' = [meCount EXCEPT !["ops"] = @ + 1]
          /\ \E k \in MeKinds : meKind' = [meKind EXCEPT ![c] = k]
      BY <1>10 DEF ME!Receive, ME!Goto, ME!Bump
    <2>2. Cardinality(Unclassified') = u + 1 /\ Cardinality(InWork') = w
      <3>1. Unclassified' = Unclassified \cup {c} /\ InWork' = InWork \ {c}
        BY <1>6, <2>1
      <3>2. c \notin Unclassified /\ c \notin InWork
        BY <1>7, <2>1
      <3> QED
        BY <1>8, <3>1, <3>2
    <2>3. /\ meCount' \in [ME!Counter -> Nat] /\ meCount'["ops"] = ops + 1
          /\ meCount'["errors"] = errors /\ \A x \in Counted : meCount[x] = meCount'[x]
      BY <1>1, <1>2, <2>1 DEF ops, errors
    <2>4. SumOf(meCount', Counted) = kinds
      BY <2>3, SumSame DEF kinds
    <2>5. meDone' \in [MeConn -> 0 .. MeRequests] /\ SumOf(meDone', MeConn) = asked + 1
      <3>1. \A d \in MeConn : meDone[d] \in Nat
        BY <1>1, <1>2
      <3>2. meDone'[c] = meDone[c] + 1 /\ \A d \in MeConn \ {c} : meDone'[d] = meDone[d]
        BY <1>2, <2>1
      <3>3. SumOf(meDone', MeConn) = SumOf(meDone, MeConn) + 1
        BY <1>1, <3>1, <3>2, SumCounts
      <3>4. meDone' \in [MeConn -> 0 .. MeRequests]
        BY <1>1, <1>2, <2>1, <3>1
      <3> QED
        BY <3>3, <3>4 DEF asked
    <2>6. meKind' \in [MeConn -> MeKinds \cup {"other"}]
      BY <1>2, <2>1
    <2>7. kinds + (u + 1) =< ops + 1 /\ errors + w =< kinds /\ ops + 1 = asked + 1
      BY <1>3, <1>4
    <2> QED
      BY <2>2, <2>3, <2>4, <2>5, <2>6, <2>7 DEF OpsInv
  <1>11. ASSUME NEW c \in MeConn, ME!Classify(c)
        PROVE  OpsInv'
    <2>1. mePc[c] = "kind" /\ UNCHANGED <<meDone, meKind>>
      BY <1>11 DEF ME!Classify
    <2>2. c \in Unclassified /\ c \notin InWork /\ u > 0
      BY <1>7, <1>8a, <2>1
    <2>3. CASE meKind[c] = "other"
      <3>1. mePc' = [mePc EXCEPT ![c] = "read"] /\ meCount' = meCount
        BY <1>11, <2>3 DEF ME!Classify, ME!Goto
      <3>2. Unclassified' = Unclassified \ {c} /\ InWork' = InWork \ {c}
        <4>1. "read" # "kind" /\ "read" \notin {"work", "load", "store", "answer"}
          OBVIOUS
        <4> QED
          BY <1>6, <3>1, <4>1
      <3>3. Cardinality(Unclassified') = u - 1 /\ Cardinality(InWork') = w
        BY <1>8, <2>2, <3>2
      <3>4. u - 1 \in Nat /\ u - 1 =< u /\ w =< w
        BY <1>3, <2>2
      <3> QED
        BY <1>3, <1>5, <2>1, <3>1, <3>3, <3>4
    <2>4. CASE meKind[c] # "other"
      <3>1. mePc' = [mePc EXCEPT ![c] = "work"] /\ meCount' = [meCount EXCEPT ![meKind[c]] = @ + 1]
        BY <1>11, <2>4 DEF ME!Classify, ME!Goto, ME!Bump
      <3>2. meKind[c] \in Counted
        BY <1>2, <2>4 DEF Counted
      <3>3. Cardinality(Unclassified') = u - 1 /\ Cardinality(InWork') = w + 1
        <4>1. Unclassified' = Unclassified \ {c} /\ InWork' = InWork \cup {c}
          BY <1>6, <3>1
        <4> QED
          BY <1>8, <2>2, <4>1
      <3>4. /\ meCount' \in [ME!Counter -> Nat] /\ meCount'["ops"] = ops /\ meCount'["errors"] = errors
            /\ meCount'[meKind[c]] = meCount[meKind[c]] + 1
            /\ \A x \in Counted \ {meKind[c]} : meCount'[x] = meCount[x]
        BY <1>1, <1>2, <3>1, <3>2 DEF ops, errors
      <3>5. SumOf(meCount', Counted) = kinds + 1
        BY <1>1, <1>2, <3>2, <3>4, SumCounts DEF kinds
      <3>6. (kinds + 1) + (u - 1) =< ops /\ errors + (w + 1) =< kinds + 1
        BY <1>3, <1>4
      <3>7. SumOf(meDone', MeConn) = asked
        BY <2>1 DEF asked
      <3> QED
        BY <1>2, <1>4, <2>1, <3>3, <3>4, <3>5, <3>6, <3>7 DEF OpsInv
    <2> QED
      BY <2>3, <2>4
  <1>12. ASSUME NEW c \in MeConn, ME!Work(c) \/ ME!LoadLag(c) \/ ME!StoreLag(c)
        PROVE  OpsInv'
    <2>1. /\ mePc[c] \in {"work", "load", "store"} /\ UNCHANGED <<meCount, meDone, meKind>>
          /\ \E l \in {"load", "store", "answer"} : mePc' = [mePc EXCEPT ![c] = l]
      BY <1>12 DEF ME!Work, ME!LoadLag, ME!StoreLag, ME!Goto
    <2>2. Unclassified' = Unclassified \ {c} /\ InWork' = InWork \cup {c}
      BY <1>6, <2>1
    <2>3. c \notin Unclassified /\ c \in InWork
      BY <1>7, <2>1
    <2>4. Cardinality(Unclassified') = u /\ Cardinality(InWork') = w
      BY <1>8, <2>2, <2>3
    <2>5. u =< u /\ w =< w
      BY <1>3
    <2> QED
      BY <1>3, <1>5, <2>1, <2>4, <2>5
  <1>13. ASSUME NEW c \in MeConn, ME!Answer(c)
        PROVE  OpsInv'
    <2>1. mePc[c] = "answer" /\ mePc' = [mePc EXCEPT ![c] = "read"] /\ UNCHANGED <<meDone, meKind>>
      BY <1>13 DEF ME!Answer, ME!Goto
    <2>2. Cardinality(Unclassified') = u /\ Cardinality(InWork') = w - 1 /\ w > 0
      <3>1. Unclassified' = Unclassified \ {c} /\ InWork' = InWork \ {c}
        <4>1. "read" # "kind" /\ "read" \notin {"work", "load", "store", "answer"}
          OBVIOUS
        <4> QED
          BY <1>6, <2>1, <4>1
      <3>2. c \notin Unclassified /\ c \in InWork
        BY <1>7, <2>1
      <3> QED
        BY <1>8, <1>8a, <3>1, <3>2
    <2>3. CASE meCount' = meCount
      <3>1. w - 1 \in Nat /\ w - 1 =< w /\ u =< u
        BY <1>3, <2>2
      <3> QED
        BY <1>3, <1>5, <2>1, <2>2, <2>3, <3>1
    <2>4. CASE meCount' = [meCount EXCEPT !["errors"] = @ + 1]
      <3>1. /\ meCount' \in [ME!Counter -> Nat] /\ meCount'["ops"] = ops
            /\ meCount'["errors"] = errors + 1 /\ \A x \in Counted : meCount[x] = meCount'[x]
        BY <1>1, <1>2, <2>4 DEF ops, errors
      <3>2. SumOf(meCount', Counted) = kinds /\ SumOf(meDone', MeConn) = asked
        BY <2>1, <3>1, SumSame DEF kinds, asked
      <3>3. kinds + u =< ops /\ (errors + 1) + (w - 1) =< kinds
        BY <1>3, <1>4
      <3> QED
        BY <1>2, <1>4, <2>1, <2>2, <3>1, <3>2, <3>3 DEF OpsInv
    <2> QED
      BY <1>13, <2>3, <2>4 DEF ME!Answer, ME!Bump
  <1>14. CASE UNCHANGED ME!vars
    BY <1>14 DEF ME!vars, OpsInv, Unclassified, InWork
  <1> QED
    BY <1>9, <1>10, <1>11, <1>12, <1>13, <1>14 DEF ME!Next, ME!Task

\* The gauge counts the open connections; the moving average lies between the
\* smallest and the largest latency measured, although tasks overwrite each other's
\* averages; and the total of operations covers those of each kind, which cover the
\* errors (metrics.rs:66-77, server.rs:59-66, 80-190).
THEOREM MetricsAreRight ==
  ASSUME ME!KvMetricsAssumption
  PROVE  ME!Spec => [](/\ ME!TypeOK /\ ME!ConnectionsCounted
                       /\ ME!LagWithinSamples /\ ME!OpsCoverKinds)
  <1>1. ME!Init => MetricsInv /\ OpsInv
    <2> SUFFICES ASSUME ME!Init
                 PROVE  MetricsInv /\ OpsInv
      OBVIOUS
    <2>1. ME!Open = {} /\ Unclassified = {} /\ InWork = {}
      BY DEF ME!Init, ME!Open, Unclassified, InWork
    <2>2. ME!ConnectionsCounted
      BY <2>1, FS_EmptySet, SameCounts DEF ME!Init, ME!ConnectionsCounted
    <2>3. MetricsInv
      BY <2>2 DEF ME!Init, MetricsInv
    <2>4. SumOf(meCount, Counted) = 0 /\ SumOf(meDone, MeConn) = 0
      <3>1. \A x \in Counted : meCount[x] = [y \in Counted |-> 0][x]
        BY CounterFacts DEF ME!Init
      <3>2. SumOf(meCount, Counted) = SumOf([y \in Counted |-> 0], Counted)
        BY <3>1, SumSame
      <3>3. SumOf([y \in Counted |-> 0], Counted) = 0
        BY CounterFacts, SumOfZeros
      <3>4. SumOf(meDone, MeConn) = 0
        BY CounterFacts, SumOfZeros, Zenon DEF ME!Init
      <3> QED
        BY <3>2, <3>3, <3>4
    <2>5. Cardinality(Unclassified) = 0 /\ Cardinality(InWork) = 0
      BY <2>1, FS_EmptySet
    <2>6. /\ meCount \in [ME!Counter -> Nat] /\ meCount["ops"] = 0 /\ meCount["errors"] = 0
          /\ meKind \in [MeConn -> MeKinds \cup {"other"}] /\ meDone \in [MeConn -> 0 .. MeRequests]
      BY CounterFacts DEF ME!Init
    <2> QED
      BY <2>3, <2>4, <2>5, <2>6 DEF OpsInv
  <1>2. MetricsInv /\ OpsInv /\ [ME!Next]_(ME!vars) => MetricsInv' /\ OpsInv'
    BY MetricsStep, OpsStep
  <1>3. MetricsInv => ME!ConnectionsCounted /\ ME!LagWithinSamples
    <2> SUFFICES ASSUME MetricsInv, meLag # 0
                 PROVE  Min(meSamples) =< meLag /\ meLag =< Max(meSamples)
      BY SameCounts DEF MetricsInv, ME!LagWithinSamples
    <2>1. PICK a \in meSamples, b \in meSamples : a =< meLag /\ meLag =< b
      BY DEF MetricsInv, Between
    <2>2. PICK n \in Nat : meSamples \in SUBSET (0 .. n)
      BY DEF MetricsInv
    <2>3. /\ Min(meSamples) \in Nat /\ Min(meSamples) =< a
          /\ Max(meSamples) \in Nat /\ Max(meSamples) >= b
      BY <2>1, <2>2, LeastOf, GreatestOf DEF MetricsInv
    <2>4. a \in Nat /\ b \in Nat /\ meLag \in Nat
      BY <2>1 DEF MetricsInv
    <2> QED
      BY <2>1, <2>3, <2>4
  <1>4. MetricsInv /\ OpsInv => ME!TypeOK /\ ME!OpsCoverKinds
    <2> SUFFICES ASSUME MetricsInv, OpsInv
                 PROVE  ME!TypeOK /\ ME!OpsCoverKinds
      OBVIOUS
    <2> DEFINE kinds == SumOf(meCount, Counted)
               u == Cardinality(Unclassified)
               w == Cardinality(InWork)
               n == Cardinality(MeConn)
    <2>1. /\ IsFiniteSet(MeConn) /\ IsFiniteSet(Counted) /\ MeRequests \in Nat
          /\ ME!Counter = {"ops", "errors"} \cup Counted
          /\ meCount["ops"] \in Nat /\ meCount["errors"] \in Nat
          /\ \A x \in Counted : meCount[x] \in Nat
      BY CounterFacts DEF OpsInv
    <2>2. kinds \in Nat /\ (\A x \in Counted : meCount[x] =< kinds) /\ n \in Nat
      BY <2>1, SumOfNumbers, FS_CardinalityType
    <2>3. u \in Nat /\ w \in Nat
      <3>1. Unclassified \subseteq MeConn /\ InWork \subseteq MeConn
        BY DEF Unclassified, InWork
      <3> QED
        BY <2>1, <3>1, FS_Subset, FS_CardinalityType
    <2>4. kinds + u =< meCount["ops"] /\ meCount["errors"] + w =< kinds
      BY DEF OpsInv
    <2>5. ME!OpsCoverKinds
      <3>1. ME!FoldSet(LAMBDA k, m : meCount[k] + m, 0, MeKinds \ {"other"}) = kinds
        BY DEF ME!FoldSet, ME!MapThenFoldSet, SumOf, FoldSet, MapThenFoldSet, Counted
      <3>2. ME!Cardinality({c \in MeConn : mePc[c] = "kind"}) = u
        BY SameCounts DEF Unclassified
      <3>3. meCount["errors"] =< kinds
        BY <2>1, <2>2, <2>3, <2>4
      <3> QED
        BY <2>4, <3>1, <3>2, <3>3 DEF ME!OpsCoverKinds
    <2>6. meCount["ops"] =< MeRequests * n
      <3>1. meDone \in [MeConn -> Nat] /\ \A c \in MeConn : meDone[c] =< MeRequests
        BY <2>1 DEF OpsInv
      <3>2. SumOf(meDone, MeConn) =< n * MeRequests
        BY <2>1, <3>1, SumAtMost
      <3>3. meCount["ops"] = SumOf(meDone, MeConn)
        BY DEF OpsInv
      <3> QED
        BY <2>1, <2>2, <3>2, <3>3
    <2>7. ME!TypeOK
      <3> DEFINE m == MeRequests * n
      <3>1. m \in Nat /\ meCount["ops"] =< m
        BY <2>1, <2>2, <2>6
      <3> HIDE DEF m, kinds, u, w
      <3>2. \A x \in ME!Counter : meCount[x] \in 0 .. m
        BY <2>1, <2>2, <2>3, <2>4, <3>1
      <3>3. ME!Cardinality(MeConn) = n
        BY SameCounts
      <3> QED
        BY <3>2, <3>3 DEF ME!TypeOK, MetricsInv, m
    <2> QED
      BY <2>5, <2>7
  <1> QED
    BY <1>1, <1>2, <1>3, <1>4, PTL DEF ME!Spec

(***************************************************************************)
(* Retries.                                                                *)
(***************************************************************************)

\* The powers of the multiplier are numbers, and the delay before a next attempt is the
\* last one times the multiplier, or the cap.
LEMMA DelaysGrow ==
  ASSUME RT!RetryBackoffAssumption, rtPolicy \in RtPolicies, NEW n \in Nat
  PROVE  /\ RT!base_delay(n) \in Nat /\ RT!base_delay(n) =< rtPolicy.max_delay
         /\ RT!base_delay(n) > 0 =>
              RT!base_delay(n + 1)
                = RT!Min({rtPolicy.multiplier * RT!base_delay(n), rtPolicy.max_delay})
  <1> DEFINE m == rtPolicy.multiplier
             c == rtPolicy.max_delay
             T == [v \in Nat |-> m * v]
  <1>1. m \in Nat /\ c \in Nat
    BY DEF RT!RetryBackoffAssumption
  <1> HIDE DEF m, c
  <1>2. PICK g \in [Nat -> Nat] : IsIteration(1, T, g)
    <2>1. \A v \in Nat : T[v] \in Nat
      BY <1>1
    <2> HIDE DEF T
    <2> QED
      BY <2>1, IterationExists
  <1>3. g = [i \in Nat |-> IF i = 0 THEN 1 ELSE m * g[i - 1]]
    <2>1. \A i \in Nat : (IF i = 0 THEN 1 ELSE T[g[i - 1]]) = IF i = 0 THEN 1 ELSE m * g[i - 1]
      BY <1>1
    <2> HIDE DEF T
    <2> QED
      BY <1>2, <2>1 DEF IsIteration
  <1>4. RT!powi = [i \in Nat |-> IF i = 0 THEN 1 ELSE m * RT!powi[i - 1]]
    <2> DEFINE F(h) == h = [i \in Nat |-> IF i = 0 THEN 1 ELSE m * h[i - 1]]
    <2>1. RT!powi = CHOOSE h : F(h)
      BY DEF RT!powi, m
    <2>2. F(g)
      BY <1>3
    <2> HIDE DEF F
    <2>3. F(RT!powi)
      BY <2>1, <2>2
    <2> QED
      BY <2>3 DEF F
  <1>5. PICK p : p = RT!powi
    OBVIOUS
  <1>6. p = [i \in Nat |-> IF i = 0 THEN 1 ELSE m * p[i - 1]]
    BY <1>4, <1>5
  <1>7. Nat \subseteq {i \in Nat : p[i] \in Nat}
    <2> DEFINE S == {i \in Nat : p[i] \in Nat}
    <2>1. 0 \in S
      BY <1>6
    <2>2. ASSUME NEW i \in Nat, i \in S PROVE i + 1 \in S
      <3>1. p[i + 1] = m * p[i]
        BY <1>6
      <3> QED
        BY <1>1, <2>2, <3>1
    <2> HIDE DEF S
    <2>3. Nat \subseteq S
      BY <2>1, <2>2, NumbersAll
    <2> QED
      BY <2>3 DEF S
  <1>8. PICK x \in Nat : x = p[n]
    BY <1>7
  <1>9. p[n + 1] = m * x /\ m * x \in Nat
    BY <1>1, <1>6, <1>8
  <1>10. RT!base_delay(n) = RT!Min({x, c}) /\ RT!base_delay(n + 1) = RT!Min({m * x, c})
    BY <1>5, <1>8, <1>9 DEF RT!base_delay, c
  <1>11. ASSUME NEW a \in Nat, NEW b \in Nat
         PROVE  RT!Min({a, b}) = IF a =< b THEN a ELSE b
    BY DEF RT!Min
  <1>12. /\ RT!base_delay(n) = IF x =< c THEN x ELSE c
         /\ RT!base_delay(n + 1) = IF m * x =< c THEN m * x ELSE c
    BY <1>1, <1>9, <1>10, <1>11
  <1>13. RT!base_delay(n) \in Nat /\ RT!base_delay(n) =< c
    BY <1>1, <1>12
  <1>14. ASSUME RT!base_delay(n) > 0
         PROVE  RT!base_delay(n + 1) = RT!Min({m * RT!base_delay(n), c})
    <2>1. CASE x =< c
      BY <1>10, <1>12, <2>1
    <2>2. CASE ~ (x =< c) /\ m = 0
      <3>1. FALSE
        <4>1. n # 0 => x = 0
          <5>1. ASSUME n # 0 PROVE x = 0
            <6>1. n - 1 \in Nat /\ p[n] = m * p[n - 1]
              BY <1>6, <5>1
            <6>2. p[n - 1] \in Nat
              BY <1>7, <6>1
            <6> QED
              BY <1>8, <2>2, <6>1, <6>2
          <5> QED
            BY <5>1
        <4>2. n = 0 => x = 1
          BY <1>6, <1>8
        <4>3. c > 0
          BY <1>12, <1>14, <2>2
        <4> QED
          BY <1>1, <2>2, <4>1, <4>2, <4>3
      <3> QED
        BY <3>1
    <2>3. CASE ~ (x =< c) /\ m # 0
      <3>1. m * x >= x /\ m * c >= c /\ m * c \in Nat
        BY <1>1, <2>3
      <3>2. RT!base_delay(n) = c /\ RT!base_delay(n + 1) = c
        BY <1>1, <1>9, <1>12, <2>3, <3>1
      <3>3. RT!Min({m * c, c}) = c
        BY <1>1, <1>11, <3>1
      <3> QED
        BY <3>2, <3>3
    <2> QED
      BY <2>1, <2>2, <2>3
  <1> QED
    BY <1>13, <1>14 DEF m, c

\* What the last attempt returned, that none is left when it is final, and the delay
\* before it.
RetryInv ==
  /\ rtPolicy \in RtPolicies /\ rtAttempt \in 0 .. rtPolicy.max_retries
  /\ rtPc \in {"call", "sleep", "done"}
  /\ rtResult \in {"none", "Ok", "Retryable", "Permanent"}
  /\ rtPc = "sleep" => rtAttempt < rtPolicy.max_retries
  /\ rtResult \in {"Ok", "Permanent"} => rtPc = "done"
  /\ RT!GivesUpInTurn

DelayInv ==
  /\ rtDelay \in Nat /\ rtBefore \in Nat /\ rtLeft \in Nat /\ rtLeft =< rtDelay
  /\ rtPc = "sleep" /\ ~ rtPolicy.jitter => rtDelay = RT!base_delay(rtAttempt)
  /\ rtPc = "call" /\ ~ rtPolicy.jitter =>
       rtDelay = IF rtAttempt = 0 THEN 0 ELSE RT!base_delay(rtAttempt - 1)
  /\ RT!BacksOff

LEMMA RetryStart ==
  ASSUME RT!RetryBackoffAssumption, RT!Init
  PROVE  RetryInv /\ DelayInv
  <1>1. rtPolicy.max_retries \in Nat /\ rtPolicy.max_delay \in Nat
    BY DEF RT!Init, RT!RetryBackoffAssumption
  <1> QED
    BY <1>1 DEF RT!Init, RetryInv, DelayInv, RT!GivesUpInTurn, RT!BacksOff

LEMMA RetryStep ==
  ASSUME RT!RetryBackoffAssumption, RetryInv, [RT!Next]_(RT!vars)
  PROVE  RetryInv'
  <1> USE DEF RetryInv, RT!GivesUpInTurn
  <1>1. rtPolicy.max_retries \in Nat
    BY DEF RT!RetryBackoffAssumption
  <1>2. CASE RT!CallSucceeds \/ RT!CallFailsForever
    BY <1>2 DEF RT!CallSucceeds, RT!CallFailsForever, RT!Return
  <1>3. CASE RT!CallFails
    BY <1>1, <1>3 DEF RT!CallFails, RT!Spent, RT!Return
  <1>4. CASE RT!Sleep
    BY <1>4 DEF RT!Sleep
  <1>5. CASE RT!Wake
    BY <1>1, <1>5 DEF RT!Wake
  <1>6. CASE UNCHANGED RT!vars
    BY <1>6 DEF RT!vars
  <1> QED
    BY <1>2, <1>3, <1>4, <1>5, <1>6 DEF RT!Next, RT!Call

\* The delays depend on the policy only.
LEMMA DelaysKept ==
  ASSUME rtPolicy' = rtPolicy, NEW n
  PROVE  RT!base_delay(n)' = RT!base_delay(n)
  BY DEF RT!base_delay, RT!powi

LEMMA DelayStep ==
  ASSUME RT!RetryBackoffAssumption, RetryInv, DelayInv, [RT!Next]_(RT!vars)
  PROVE  DelayInv'
  <1>1. rtPolicy.max_retries \in Nat /\ rtPolicy \in RtPolicies /\ rtAttempt \in Nat
    BY DEF RT!RetryBackoffAssumption, RetryInv
  <1>2. rtPolicy' = rtPolicy
    BY DEF RT!Next, RT!Call, RT!CallSucceeds, RT!CallFailsForever, RT!CallFails, RT!Sleep,
       RT!Wake, RT!vars
  <1>3. /\ rtDelay \in Nat /\ rtBefore \in Nat /\ rtLeft \in Nat /\ rtLeft =< rtDelay
        /\ RT!BacksOff
    BY DEF DelayInv
  <1>4. CASE /\ UNCHANGED <<rtAttempt, rtDelay, rtBefore>>
             /\ rtLeft' \in Nat /\ rtLeft' =< rtLeft
             /\ rtPc' = rtPc \/ rtPc' = "done"
    <2>1. RT!BacksOff'
      BY <1>2, <1>3, <1>4 DEF RT!BacksOff
    <2>2. \A n : RT!base_delay(n)' = RT!base_delay(n)
      BY <1>2, DelaysKept
    <2>3. rtLeft' =< rtDelay'
      BY <1>3, <1>4
    <2>4. /\ rtPc' = "sleep" /\ ~ rtPolicy'.jitter => rtDelay' = RT!base_delay(rtAttempt)
          /\ rtPc' = "call" /\ ~ rtPolicy'.jitter =>
               rtDelay' = IF rtAttempt = 0 THEN 0 ELSE RT!base_delay(rtAttempt - 1)
      BY <1>2, <1>4 DEF DelayInv
    <2>5. RT!base_delay(rtAttempt)' = RT!base_delay(rtAttempt)
      BY <1>2, <1>4, <2>2 DEF RT!base_delay
    <2>6. RT!base_delay(rtAttempt - 1)' = RT!base_delay(rtAttempt - 1)
      BY <1>2, <1>4, <2>2 DEF RT!base_delay
    <2> QED
      BY <1>3, <1>4, <2>1, <2>3, <2>4, <2>5, <2>6 DEF DelayInv
  <1>5. CASE RT!CallFails /\ ~ RT!Spent
    <2>1. PICK d \in RT!delays_with_jitter(rtAttempt) :
             /\ rtPc = "call" /\ rtPc' = "sleep" /\ rtAttempt' = rtAttempt
             /\ rtLeft' = d /\ rtDelay' = d /\ rtBefore' = rtDelay
      BY <1>5 DEF RT!CallFails
    <2>2. PICK b \in Nat : b = RT!base_delay(rtAttempt) /\ b =< rtPolicy.max_delay
      BY <1>1, DelaysGrow
    <2>3. d \in Nat /\ d =< b /\ (~ rtPolicy.jitter => d = b)
      BY <2>1, <2>2 DEF RT!delays_with_jitter
    <2>4. d =< rtPolicy.max_delay /\ rtPolicy.max_delay \in Nat
      BY <1>1, <2>2, <2>3 DEF RT!RetryBackoffAssumption
    <2>5. ASSUME ~ rtPolicy.jitter, rtDelay > 0
          PROVE  d = RT!Min({rtPolicy.multiplier * rtDelay, rtPolicy.max_delay})
      <3>1. rtAttempt # 0 /\ rtDelay = RT!base_delay(rtAttempt - 1)
        BY <2>1, <2>5 DEF DelayInv
      <3>2. rtAttempt - 1 \in Nat /\ (rtAttempt - 1) + 1 = rtAttempt
        BY <1>1, <3>1
      <3>3. RT!base_delay(rtAttempt)
              = RT!Min({rtPolicy.multiplier * rtDelay, rtPolicy.max_delay})
        BY <1>1, <2>5, <3>1, <3>2, DelaysGrow
      <3> QED
        BY <2>2, <2>3, <2>5, <3>3
    <2>6. RT!BacksOff'
      BY <1>2, <2>1, <2>4, <2>5 DEF RT!BacksOff, RT!Min
    <2>7. RT!base_delay(rtAttempt)' = b
      <3>1. RT!base_delay(rtAttempt)' = RT!base_delay(rtAttempt)
        BY <1>2, <2>1 DEF RT!base_delay, RT!powi
      <3> QED
        BY <2>2, <3>1
    <2> QED
      BY <1>2, <1>3, <2>1, <2>3, <2>6, <2>7 DEF DelayInv
  <1>6. CASE RT!Wake
    <2>1. /\ rtPc = "sleep" /\ rtPc' = "call" /\ rtAttempt' = rtAttempt + 1
          /\ UNCHANGED <<rtDelay, rtBefore, rtLeft>>
      BY <1>6 DEF RT!Wake
    <2>2. RT!BacksOff'
      BY <1>2, <1>3, <2>1 DEF RT!BacksOff
    <2>3. rtAttempt' # 0 /\ rtAttempt' - 1 = rtAttempt
      BY <1>1, <2>1
    <2>4. RT!base_delay(rtAttempt - 1)' = RT!base_delay(rtAttempt)
      BY <1>2, <2>3 DEF RT!base_delay, RT!powi
    <2>5. ~ rtPolicy.jitter => rtDelay = RT!base_delay(rtAttempt)
      BY <2>1 DEF DelayInv
    <2> QED
      BY <1>2, <1>3, <2>1, <2>2, <2>3, <2>4, <2>5 DEF DelayInv
  <1>7. \/ RT!CallFails /\ ~ RT!Spent
        \/ RT!Wake
        \/ /\ UNCHANGED <<rtAttempt, rtDelay, rtBefore>>
           /\ rtLeft' \in Nat /\ rtLeft' =< rtLeft
           /\ rtPc' = rtPc \/ rtPc' = "done"
    BY <1>3 DEF RT!Next, RT!Call, RT!CallSucceeds, RT!CallFailsForever, RT!CallFails,
       RT!Return, RT!Sleep, RT!vars
  <1> QED
    BY <1>4, <1>5, <1>6, <1>7

\* A call gives up on a retryable error after max_retries + 1 attempts, on a permanent
\* one after the attempt that returned it; no delay exceeds the cap, and without
\* jitter each is the last one times the multiplier until the cap is reached
\* (demo_3_4b_retry_backoff.rs:44-62, 98-135).
THEOREM RetriesBackOff ==
  ASSUME RT!RetryBackoffAssumption
  PROVE  RT!Spec => [](RT!TypeOK /\ RT!GivesUpInTurn /\ RT!BacksOff)
  <1>1. RT!Init => RetryInv /\ DelayInv
    BY RetryStart
  <1>2. RetryInv /\ DelayInv /\ [RT!Next]_(RT!vars) => (RetryInv /\ DelayInv)'
    BY RetryStep, DelayStep
  <1>3. RetryInv /\ DelayInv => RT!TypeOK /\ RT!GivesUpInTurn /\ RT!BacksOff
    BY DEF RetryInv, DelayInv, RT!TypeOK
  <1> QED
    BY <1>1, <1>2, <1>3, PTL DEF RT!Spec

(***************************************************************************)
(* The nodes as processes.                                                 *)
(***************************************************************************)

Peers(n) == Len(NO!parsed_peers(n))
Names(n) == {NO!name_of(n, i) : i \in 1 .. Peers(n)}

\* A node holds and counts peers of its list only, and says how many once it is up.
ProcessOK(n) ==
  /\ noStep[n] \in 1 .. Peers(n) + 1
  /\ noLive[n] \subseteq noPool[n] /\ noPool[n] \subseteq Names(n)
  /\ noCounting[n] < noStep[n]
  /\ IF noStage[n] = "up"
       THEN noTotal[n] = Peers(n) /\ noAlive[n] =< Peers(n)
       ELSE noTotal[n] = 0 /\ noAlive[n] = 0 /\ noCounting[n] = 0

NodesInv ==
  /\ noLists \in NoLists
  /\ noStage \in [NO!Node -> {"down", "connect", "up"}]
  /\ noStep \in [NO!Node -> Nat]
  /\ noPool \in [NO!Node -> SUBSET Nat] /\ noLive \in [NO!Node -> SUBSET Nat]
  /\ noCounting \in [NO!Node -> Nat]
  /\ noAlive \in [NO!Node -> Nat] /\ noTotal \in [NO!Node -> Nat]
  /\ \A n \in NO!Node : ProcessOK(n)

LEMMA NamesFacts ==
  ASSUME NO!KvNodeAssumption, noLists \in NoLists, NEW n \in NO!Node
  PROVE  /\ n \in Nat \ {0} /\ Peers(n) \in Nat /\ Peers(n) =< NoNodes - 1
         /\ DOMAIN NO!parsed_peers(n) = 1 .. Peers(n)
         /\ Names(n) \subseteq NO!ring(n) \ {n} /\ Names(n) \subseteq Nat
         /\ IsFiniteSet(Names(n)) /\ Cardinality(Names(n)) =< Peers(n)
  <1> DEFINE k == Peers(n)
  <1>1. /\ n \in Nat \ {0} /\ k \in Nat /\ k =< NoNodes - 1
        /\ DOMAIN NO!parsed_peers(n) = 1 .. k
    BY DEF NO!KvNodeAssumption, NO!Node, Peers, NO!parsed_peers
  <1> HIDE DEF k
  <1>2. \A i \in 1 .. k : NO!name_of(n, i) # n /\ NO!name_of(n, i) \in 1 .. k + 1
    BY <1>1 DEF NO!name_of
  <1>3. Names(n) = {NO!name_of(n, i) : i \in 1 .. k}
    BY DEF Names, k
  <1>4. Names(n) \subseteq NO!ring(n) \ {n} /\ Names(n) \subseteq (1 .. k + 1) \ {n}
    BY <1>1, <1>2, <1>3 DEF NO!ring
  <1>5. /\ IsFiniteSet(1 .. k + 1) /\ Cardinality(1 .. k + 1) = k + 1
        /\ IsFiniteSet(1 .. k) /\ Cardinality(1 .. k) = k
    BY <1>1, FS_Interval
  <1>6. ASSUME NEW S, Names(n) \subseteq S, IsFiniteSet(S), Cardinality(S) = k
        PROVE  IsFiniteSet(Names(n)) /\ Cardinality(Names(n)) =< k
    BY <1>6, FS_Subset
  <1>7. IsFiniteSet(Names(n)) /\ Cardinality(Names(n)) =< k
    <2>1. CASE n \in 1 .. k + 1
      <3> DEFINE T == 1 .. k + 1
                 S == T \ {n}
      <3>1. n \in T /\ IsFiniteSet(T) /\ Cardinality(T) = k + 1 /\ Names(n) \subseteq S
        BY <1>4, <1>5, <2>1
      <3> HIDE DEF T
      <3>2. Cardinality(S) = Cardinality(T) - 1 /\ IsFiniteSet(S)
        BY <3>1, FS_RemoveElement
      <3> HIDE DEF S
      <3>3. Cardinality(S) = k
        BY <1>1, <3>1, <3>2
      <3> QED
        BY <1>6, <3>1, <3>2, <3>3
    <2>2. CASE n \notin 1 .. k + 1
      <3>1. Names(n) \subseteq 1 .. k
        BY <1>1, <1>3, <2>2 DEF NO!name_of
      <3> QED
        BY <1>5, <1>6, <3>1
    <2> QED
      BY <2>1, <2>2
  <1> QED
    BY <1>1, <1>4, <1>7 DEF k

\* The cardinality of the instance is that of the library.
LEMMA NodeCounts ==
  ASSUME NEW S
  PROVE  NO!Cardinality(S) = Cardinality(S)
  BY DEF NO!Cardinality, Cardinality

\* The other nodes go on as they were, but for the connections they lost.
LEMMA ProcessKept ==
  ASSUME NodesInv, NEW u \in NO!Node, noLists' = noLists, noStage'[u] = noStage[u],
         noStep'[u] = noStep[u], noPool'[u] = noPool[u], noLive'[u] \subseteq noLive[u],
         noCounting'[u] = noCounting[u], noAlive'[u] = noAlive[u],
         noTotal'[u] = noTotal[u]
  PROVE  ProcessOK(u)'
  <1>1. Peers(u)' = Peers(u) /\ Names(u)' = Names(u)
    BY DEF Peers, Names, NO!parsed_peers, NO!name_of
  <1> QED
    BY <1>1 DEF NodesInv, ProcessOK

LEMMA NodeStep ==
  ASSUME NO!KvNodeAssumption, NodesInv, NEW n \in NO!Node, NO!Run(n) \/ NO!Crash(n)
  PROVE  NodesInv'
  <1> DEFINE k == Peers(n)
             N == Names(n)
  <1>1. noLists' = noLists /\ noLists \in NoLists
    BY DEF NO!Run, NO!Start, NO!Connect, NO!Listen, NO!Beat, NO!StoreAlive, NO!Crash, NodesInv
  <1>2. /\ k \in Nat /\ N \subseteq Nat /\ IsFiniteSet(N) /\ Cardinality(N) =< k
        /\ Peers(n)' = k /\ Names(n)' = N
    BY <1>1, NamesFacts DEF Peers, Names, NO!parsed_peers, NO!name_of
  <1>3. /\ noStep[n] \in 1 .. k + 1 /\ noLive[n] \subseteq noPool[n] /\ noPool[n] \subseteq N
        /\ noCounting[n] \in Nat /\ noCounting[n] < noStep[n] /\ ProcessOK(n)
        /\ noStage[n] = "up" => noTotal[n] = k /\ noAlive[n] =< k
    BY DEF NodesInv, ProcessOK
  <1> HIDE DEF k, N
  <1>4. NO!Through(n) <=> noStep[n] > k
    BY DEF NO!Through, k, Peers
  <1>5. ~ NO!Through(n) => NO!name_of(n, noStep[n]) \in N /\ noStep[n] =< k
    <2>1. N = {NO!name_of(n, i) : i \in 1 .. k}
      BY DEF N, k, Names
    <2> QED
      BY <1>2, <1>3, <1>4, <2>1
  <1>6. SUFFICES /\ noStage' \in [NO!Node -> {"down", "connect", "up"}]
                 /\ noStep' \in [NO!Node -> Nat] /\ noCounting' \in [NO!Node -> Nat]
                 /\ noPool' \in [NO!Node -> SUBSET Nat] /\ noLive' \in [NO!Node -> SUBSET Nat]
                 /\ noAlive' \in [NO!Node -> Nat] /\ noTotal' \in [NO!Node -> Nat]
                 /\ ProcessOK(n)'
                 /\ \A u \in NO!Node : u # n =>
                      /\ noStage'[u] = noStage[u] /\ noStep'[u] = noStep[u] /\ noPool'[u] = noPool[u]
                      /\ noLive'[u] \subseteq noLive[u] /\ noCounting'[u] = noCounting[u]
                      /\ noAlive'[u] = noAlive[u] /\ noTotal'[u] = noTotal[u]
    BY <1>1, ProcessKept DEF NodesInv
  <1> USE DEF NodesInv
  <1>7. CASE NO!Start(n)
    <2>1. /\ noStage[n] = "down" /\ noStage' = [noStage EXCEPT ![n] = "connect"]
          /\ noStep' = [noStep EXCEPT ![n] = 1]
          /\ UNCHANGED <<noPool, noLive, noCounting, noAlive, noTotal>>
      BY <1>7 DEF NO!Start
    <2>2. ProcessOK(n)'
      BY <1>2, <1>3, <2>1 DEF ProcessOK
    <2> QED
      BY <2>1, <2>2
  <1>8. CASE NO!Connect(n)
    <2> DEFINE m == NO!name_of(n, noStep[n])
    <2>1. /\ noStage[n] = "connect" /\ m \in N /\ noStep[n] =< k
          /\ noStep' = [noStep EXCEPT ![n] = noStep[n] + 1]
          /\ UNCHANGED <<noStage, noCounting, noAlive, noTotal>>
      BY <1>5, <1>8 DEF NO!Connect, NO!Forward
    <2>2. PICK p \in {noPool[n], noPool[n] \cup {m}}, l \in {noLive[n], noLive[n] \cup {m}} :
            /\ noPool' = [noPool EXCEPT ![n] = p] /\ noLive' = [noLive EXCEPT ![n] = l]
            /\ l \subseteq p
      <3>1. CASE NO!Listens(NO!reached(n, m))
        BY <1>3, <1>8, <3>1 DEF NO!Connect
      <3>2. CASE ~ NO!Listens(NO!reached(n, m))
        BY <1>3, <1>8, <3>2 DEF NO!Connect
      <3> QED
        BY <3>1, <3>2
    <2>3. p \subseteq N /\ p \subseteq Nat /\ l \subseteq Nat
      BY <1>2, <1>3, <2>1
    <2>4. noStep[n] + 1 \in 1 .. k + 1 /\ noStep[n] + 1 \in Nat /\ noCounting[n] < noStep[n] + 1
      BY <1>2, <1>3, <2>1
    <2>5. ProcessOK(n)'
      BY <1>2, <1>3, <2>1, <2>2, <2>3, <2>4 DEF ProcessOK
    <2> QED
      BY <2>1, <2>2, <2>3, <2>4, <2>5
  <1>9. CASE NO!Listen(n)
    <2>1. /\ noStage' = [noStage EXCEPT ![n] = "up"] /\ noStep' = [noStep EXCEPT ![n] = 1]
          /\ noTotal' = [noTotal EXCEPT ![n] = k]
          /\ noAlive' = [noAlive EXCEPT ![n] = Cardinality(noPool[n])]
          /\ noCounting' = [noCounting EXCEPT ![n] = 0]
          /\ UNCHANGED <<noPool, noLive>>
      BY <1>9, NodeCounts DEF NO!Listen, k, Peers
    <2>2. Cardinality(noPool[n]) \in Nat /\ Cardinality(noPool[n]) =< k
      <3>1. /\ Cardinality(noPool[n]) \in Nat /\ Cardinality(N) \in Nat
            /\ Cardinality(noPool[n]) =< Cardinality(N)
        BY <1>2, <1>3, FS_Subset, FS_CardinalityType
      <3> QED
        BY <1>2, <3>1
    <2>3. ProcessOK(n)'
      BY <1>2, <1>3, <2>1, <2>2 DEF ProcessOK
    <2> QED
      BY <1>2, <2>1, <2>2, <2>3
  <1>10. CASE NO!Beat(n)
    <2> DEFINE m == NO!name_of(n, noStep[n])
    <2>1. /\ noStage[n] = "up" /\ m \in N /\ noStep[n] =< k
          /\ noStep' = [noStep EXCEPT ![n] = noStep[n] + 1]
          /\ UNCHANGED <<noStage, noAlive, noTotal>>
      BY <1>5, <1>10 DEF NO!Beat, NO!Forward, NO!Listens
    <2>2. PICK p \in {noPool[n], noPool[n] \cup {m}}, l \in {noLive[n], noLive[n] \cup {m}},
               c \in {noCounting[n], noCounting[n] + 1} :
            /\ noPool' = [noPool EXCEPT ![n] = p] /\ noLive' = [noLive EXCEPT ![n] = l]
            /\ noCounting' = [noCounting EXCEPT ![n] = c] /\ l \subseteq p
      <3>1. CASE m \in noLive[n] \/ NO!Listens(NO!reached(n, m))
        BY <1>3, <1>10, <3>1 DEF NO!Beat
      <3>2. CASE ~ (m \in noLive[n] \/ NO!Listens(NO!reached(n, m)))
        BY <1>3, <1>10, <3>2 DEF NO!Beat
      <3> QED
        BY <3>1, <3>2
    <2>3. p \subseteq N /\ p \subseteq Nat /\ l \subseteq Nat
      BY <1>2, <1>3, <2>1
    <2>4. /\ noStep[n] + 1 \in 1 .. k + 1 /\ noStep[n] + 1 \in Nat
          /\ c \in Nat /\ c < noStep[n] + 1
      BY <1>2, <1>3, <2>1
    <2>5. ProcessOK(n)'
      BY <1>2, <1>3, <2>1, <2>2, <2>3, <2>4 DEF ProcessOK
    <2> QED
      BY <2>1, <2>2, <2>3, <2>4, <2>5
  <1>11. CASE NO!StoreAlive(n)
    <2>1. /\ noStage[n] = "up" /\ noStep' = [noStep EXCEPT ![n] = 1]
          /\ noAlive' = [noAlive EXCEPT ![n] = noCounting[n]]
          /\ noCounting' = [noCounting EXCEPT ![n] = 0]
          /\ UNCHANGED <<noStage, noPool, noLive, noTotal>>
      BY <1>11 DEF NO!StoreAlive, NO!Listens
    <2>2. noCounting[n] =< k
      BY <1>2, <1>3
    <2>3. ProcessOK(n)'
      BY <1>2, <1>3, <2>1, <2>2 DEF ProcessOK
    <2> QED
      BY <1>3, <2>1, <2>3
  <1>12. CASE NO!Crash(n)
    <2>1. /\ noStage' = [noStage EXCEPT ![n] = "down"] /\ noStep' = [noStep EXCEPT ![n] = 1]
          /\ noPool' = [noPool EXCEPT ![n] = {}] /\ noCounting' = [noCounting EXCEPT ![n] = 0]
          /\ noLive' = [o \in NO!Node |->
               IF o = n THEN {} ELSE {m \in noLive[o] : NO!reached(o, m) # n}]
          /\ noAlive' = [noAlive EXCEPT ![n] = 0]
          /\ noTotal' = [noTotal EXCEPT ![n] = 0]
      BY <1>12 DEF NO!Crash
    <2>2. /\ noLive' \in [NO!Node -> SUBSET Nat] /\ noLive'[n] = {}
          /\ \A u \in NO!Node : noLive'[u] \subseteq noLive[u]
      BY <2>1
    <2>3. ProcessOK(n)'
      BY <1>2, <2>1, <2>2 DEF ProcessOK
    <2> QED
      BY <2>1, <2>2, <2>3
  <1> QED
    BY <1>7, <1>8, <1>9, <1>10, <1>11, <1>12 DEF NO!Run

\* A list in order makes the ring of all nodes, with every node under its number, and
\* only such a list does.
LEMMA NamesInOrder ==
  ASSUME NO!KvNodeAssumption, noLists \in NoLists, NEW n \in NO!Node
  PROVE  LET peers == NO!parsed_peers(n)
             inOrder == /\ NO!ToSet(peers) = NO!Node \ {n}
                        /\ \A i, j \in DOMAIN peers : i < j => peers[i] < peers[j]
         IN inOrder <=> /\ NO!ring(n) = NO!Node
                        /\ \A m \in NO!Node \ {n} : NO!reached(n, m) = m
  <1> DEFINE p == NO!parsed_peers(n)
             k == Peers(n)
             T == NO!Node \ {n}
             q == [i \in 1 .. NoNodes - 1 |-> NO!name_of(n, i)]
  <1>1. /\ NoNodes \in Nat \ {0} /\ NO!Node = 1 .. NoNodes /\ n \in Nat /\ n \in 1 .. NoNodes
        /\ k \in Nat /\ k =< NoNodes - 1 /\ DOMAIN p = 1 .. k
        /\ p \in [1 .. k -> NO!Node]
    <2>1. /\ NoNodes \in Nat \ {0} /\ NO!Node = 1 .. NoNodes
          /\ n \in 1 .. NoNodes /\ p \in Seq(NO!Node)
      BY DEF NO!KvNodeAssumption, NO!Node, NO!parsed_peers
    <2>2. k \in Nat /\ k =< NoNodes - 1 /\ DOMAIN p = 1 .. k
      BY NamesFacts
    <2> HIDE DEF p, k
    <2> QED
      BY <2>1, <2>2
  <1>2. /\ \A i, j \in Nat : NO!name_of(n, i) = NO!name_of(n, j) => i = j
        /\ \A i, j \in Nat : i < j => NO!name_of(n, i) < NO!name_of(n, j)
        /\ \A i \in 1 .. NoNodes - 1 : NO!name_of(n, i) \in T
    BY <1>1 DEF NO!name_of
  <1>3. \A m \in T : \E i \in 1 .. NoNodes - 1 : NO!name_of(n, i) = m
    <2> SUFFICES ASSUME NEW m \in T
                 PROVE  \E i \in 1 .. NoNodes - 1 : NO!name_of(n, i) = m
      OBVIOUS
    <2>1. m \in Nat /\ m \in 1 .. NoNodes /\ m # n
      BY <1>1
    <2>2. CASE m < n
      <3>1. m \in 1 .. NoNodes - 1 /\ NO!name_of(n, m) = m
        BY <1>1, <2>1, <2>2 DEF NO!name_of
      <3> QED
        BY <3>1
    <2>3. CASE m > n
      <3>1. m - 1 \in 1 .. NoNodes - 1 /\ NO!name_of(n, m - 1) = m
        BY <1>1, <2>1, <2>3 DEF NO!name_of
      <3> QED
        BY <3>1
    <2> QED
      BY <1>1, <2>1, <2>2, <2>3
  <1>4. Listing(NoNodes - 1, q, T)
    <2>1. NoNodes - 1 \in Nat /\ q \in [1 .. NoNodes - 1 -> Nat]
      BY <1>1, <1>2
    <2>2. \A i, j \in 1 .. NoNodes - 1 : i < j => q[i] < q[j]
      BY <1>1, <1>2
    <2>3. {q[i] : i \in 1 .. NoNodes - 1} = T
      BY <1>2, <1>3
    <2> HIDE DEF q, T
    <2> QED
      BY <2>1, <2>2, <2>3 DEF Listing
  <1>5. NO!ring(n) = {n} \cup {NO!name_of(n, i) : i \in 1 .. k}
    BY <1>1 DEF NO!ring
  <1>6. ASSUME NEW i \in 1 .. k
        PROVE  NO!reached(n, NO!name_of(n, i)) = p[i]
    <2>1. \A j \in DOMAIN p : NO!name_of(n, j) = NO!name_of(n, i) => j = i
      BY <1>1, <1>2
    <2>2. (CHOOSE j \in DOMAIN p : NO!name_of(n, j) = NO!name_of(n, i)) = i
      BY <1>1, <2>1
    <2> QED
      BY <2>2 DEF NO!reached
  <1>7. NO!ToSet(p) = {p[i] : i \in 1 .. k}
    BY <1>1 DEF NO!ToSet
  <1> HIDE DEF p, k, T, q
  <1>8. ASSUME NO!ToSet(p) = T, \A i, j \in DOMAIN p : i < j => p[i] < p[j]
        PROVE  NO!ring(n) = NO!Node /\ \A m \in T : NO!reached(n, m) = m
    <2>1. Listing(k, p, T)
      BY <1>1, <1>7, <1>8 DEF Listing
    <2>2. k = NoNodes - 1 /\ \A i \in 1 .. k : p[i] = q[i]
      BY <1>4, <2>1, OneListing
    <2>3. \A i \in 1 .. k : q[i] = NO!name_of(n, i)
      BY <2>2 DEF q
    <2>4. {NO!name_of(n, i) : i \in 1 .. k} = T
      BY <1>2, <1>3, <2>2
    <2>5. NO!ring(n) = NO!Node
      BY <1>1, <1>5, <2>4 DEF T
    <2>6. ASSUME NEW m \in T
          PROVE  NO!reached(n, m) = m
      <3>1. PICK i \in 1 .. k : NO!name_of(n, i) = m
        BY <1>3, <2>2
      <3> QED
        BY <1>6, <2>2, <2>3, <3>1
    <2> QED
      BY <2>5, <2>6
  <1>9. ASSUME NO!ring(n) = NO!Node, \A m \in T : NO!reached(n, m) = m
        PROVE  NO!ToSet(p) = T /\ \A i, j \in DOMAIN p : i < j => p[i] < p[j]
    <2>1. ASSUME NEW i \in 1 .. k
          PROVE  p[i] = NO!name_of(n, i) /\ i \in Nat
      <3>1. i \in 1 .. NoNodes - 1 /\ NO!name_of(n, i) \in T /\ i \in Nat
        BY <1>1, <1>2
      <3> QED
        BY <1>6, <1>9, <3>1
    <2>2. {NO!name_of(n, i) : i \in 1 .. k} = T
      <3>1. \A i \in 1 .. k : NO!name_of(n, i) \in T
        BY <1>1, <1>2
      <3>2. T \subseteq {NO!name_of(n, i) : i \in 1 .. k}
        BY <1>5, <1>9 DEF T
      <3> QED
        BY <3>1, <3>2
    <2>3. {p[i] : i \in 1 .. k} = {NO!name_of(n, i) : i \in 1 .. k}
      BY <2>1
    <2> QED
      BY <1>1, <1>2, <1>7, <2>1, <2>2, <2>3
  <1> QED
    BY <1>8, <1>9 DEF p, T

LEMMA RingsAgree ==
  ASSUME NO!KvNodeAssumption, noLists \in NoLists
  PROVE  NO!NamesAgree
  <1> DEFINE Lists(n) ==
               LET peers == NO!parsed_peers(n) IN
               /\ NO!ToSet(peers) = NO!Node \ {n}
               /\ \A i, j \in DOMAIN peers : i < j => peers[i] < peers[j]
             Agree(n) == /\ NO!ring(n) = NO!Node
                         /\ \A m \in NO!Node \ {n} : NO!reached(n, m) = m
  <1>1. \A n \in NO!Node : Lists(n) <=> Agree(n)
    BY NamesInOrder
  <1>2. NO!InOrder <=> \A n \in NO!Node : Lists(n)
    BY DEF NO!InOrder
  <1>3. NO!NamesAgree <=> (NO!InOrder <=> \A n \in NO!Node : Agree(n))
    BY DEF NO!NamesAgree
  <1> HIDE DEF Lists, Agree
  <1> QED
    BY <1>1, <1>2, <1>3

\* Whoever starts, crashes and comes back: a node has clients under names of its ring
\* only and never its own, one that stands is in the pool, and peers_alive never
\* exceeds peers_total.  All nodes make one ring, with the same names, just when every
\* list has the others in order (main.rs:132-260, metrics.rs).
THEOREM NodesCountTheirPeers ==
  ASSUME NO!KvNodeAssumption
  PROVE  NO!Spec => [](NO!TypeOK /\ NO!NamesAgree)
  <1>1. NO!Init => NodesInv
    <2> SUFFICES ASSUME NO!Init
                 PROVE  NodesInv
      OBVIOUS
    <2>1. noLists \in NoLists
      BY DEF NO!Init
    <2>2. ASSUME NEW n \in NO!Node
          PROVE  ProcessOK(n)
      BY <2>1, NamesFacts DEF NO!Init, ProcessOK
    <2> QED
      BY <2>1, <2>2 DEF NO!Init, NodesInv
  <1>2. NodesInv /\ [NO!Next]_(NO!vars) => NodesInv'
    <2>1. ASSUME NodesInv, UNCHANGED NO!vars
          PROVE  NodesInv'
      <3>1. \A n \in NO!Node : ProcessOK(n)'
        BY <2>1, ProcessKept DEF NO!vars
      <3> QED
        BY <2>1, <3>1 DEF NO!vars, NodesInv
    <2> QED
      BY <2>1, NodeStep DEF NO!Next
  <1>3. NodesInv => NO!TypeOK
    <2> SUFFICES ASSUME NodesInv, NEW n \in NO!Node
                 PROVE  /\ noLive[n] \subseteq noPool[n] /\ noPool[n] \subseteq NO!ring(n) \ {n}
                        /\ noAlive[n] =< noTotal[n]
                        /\ noTotal[n] =< NoNodes - 1 /\ noCounting[n] < noStep[n]
      BY DEF NodesInv, NO!TypeOK
    <2>1. Names(n) \subseteq NO!ring(n) \ {n} /\ Peers(n) \in Nat /\ Peers(n) =< NoNodes - 1
      BY NamesFacts DEF NodesInv
    <2>2. NoNodes \in Nat \ {0}
      BY DEF NO!KvNodeAssumption
    <2> QED
      BY <2>1, <2>2 DEF NodesInv, ProcessOK
  <1>4. NodesInv => NO!NamesAgree
    BY RingsAgree DEF NodesInv
  <1> QED
    BY <1>1, <1>2, <1>3, <1>4, PTL DEF NO!Spec
(***************************************************************************)
(* Statistics in atomics.                                                  *)
(***************************************************************************)

StSample == [ok : BOOLEAN, latency : 0 .. StMaxU64]

\* Thread t is in a record and past its step s.
PastStep(t, s) == ~ ST!Done(t) /\ \E k \in 1 .. stAt[t].step - 1 : ST!Steps[k] = s

\* The counters that a record adds to, in which step, and how much.
Counter == {"total", "success", "failed"} \cup (IF stProgram = "exo06" THEN {"sum"} ELSE {})
StepOf(f) == IF f \in {"success", "failed"} THEN "outcome" ELSE f
Amount(r, f) ==
  CASE f = "total" -> 1
    [] f = "success" -> IF r.ok THEN 1 ELSE 0
    [] f = "failed" -> IF r.ok THEN 0 ELSE 1
    [] f = "sum" -> r.latency

\* What t has added to f that the mutex has not seen yet.
Ahead(t, f) == IF PastStep(t, StepOf(f)) THEN Amount(ST!Sample(t), f) ELSE 0

StatsTypes ==
  /\ stProgram \in ST!Programs
  /\ stValue \in [ST!Field -> Nat] /\ stGuarded \in [ST!Field -> Nat]
  /\ stAt \in [StThread -> [record : Nat \ {0}, step : Nat \ {0}]]
  /\ \A t \in StThread : /\ stAt[t].record =< Len(StRecords[t]) + 1
                         /\ stAt[t].step =< Len(ST!Steps)
  /\ stSeen \in [StThread -> Nat] /\ stRead \in [StThread -> BOOLEAN]
  /\ \A t \in StThread : stRead[t] => ST!Step(t) \in {"min", "max"}

\* Each counter is what the mutex holds and what the threads are ahead of it.
StatsCounted ==
  \A f \in Counter : stValue[f] = stGuarded[f] + SumOf([t \in StThread |-> Ahead(t, f)], StThread)

\* An extreme covers what the mutex holds and the records ahead of it, and is one of
\* these.
MaxOK ==
  /\ stGuarded["max"] =< stValue["max"]
  /\ \A t \in StThread : PastStep(t, "max") => ST!Sample(t).latency =< stValue["max"]
  /\ \/ stValue["max"] = stGuarded["max"]
     \/ \E t \in StThread : PastStep(t, "max") /\ ST!Sample(t).latency = stValue["max"]
MinOK ==
  /\ stGuarded["min"] >= stValue["min"]
  /\ \A t \in StThread : PastStep(t, "min") => ST!Sample(t).latency >= stValue["min"]
  /\ \/ stValue["min"] = stGuarded["min"]
     \/ \E t \in StThread : PastStep(t, "min") /\ ST!Sample(t).latency = stValue["min"]

\* What a thread has read was an extreme: it has been passed since, or is the same.
SeenBehind ==
  \A t \in StThread :
    stRead[t] => /\ ST!Step(t) = "max" => stSeen[t] =< stValue["max"]
                 /\ ST!Step(t) = "min" => stSeen[t] >= stValue["min"]

StatsInv ==
  /\ StatsTypes /\ StatsCounted /\ MaxOK /\ MinOK /\ SeenBehind /\ ST!ExtremesCover

LEMMA StatsSteps ==
  ASSUME stProgram \in ST!Programs
  PROVE  /\ Len(ST!Steps) \in Nat /\ Len(ST!Steps) > 1
         /\ ST!Steps[Len(ST!Steps)] \in {"min", "max"}
         /\ \A j, k \in 1 .. Len(ST!Steps) : ST!Steps[j] = ST!Steps[k] => j = k
         /\ \A k \in 1 .. Len(ST!Steps) : ST!Steps[k] \in {"total", "outcome", "sum", "min", "max"}
         /\ \A s \in {"total", "outcome", "min", "max"} : \E k \in 1 .. Len(ST!Steps) : ST!Steps[k] = s
         /\ (\E k \in 1 .. Len(ST!Steps) : ST!Steps[k] = "sum") <=> stProgram = "exo06"
  <1>1. CASE stProgram = "exo06"
    <2> DEFINE q == ST!Steps
    <2>1. q = <<"total", "outcome", "sum", "min", "max">>
      BY <1>1 DEF ST!Steps, ST!Exo06Steps
    <2>2. /\ Len(q) = 5 /\ q[1] = "total" /\ q[2] = "outcome" /\ q[3] = "sum"
          /\ q[4] = "min" /\ q[5] = "max"
      BY <2>1
    <2> HIDE DEF q
    <2>3. 1 .. Len(q) = {1, 2, 3, 4, 5}
      BY <2>2
    <2>4. /\ Len(q) \in Nat /\ Len(q) > 1
          /\ q[Len(q)] \in {"min", "max"}
          /\ \A j, k \in 1 .. Len(q) : q[j] = q[k] => j = k
          /\ \A k \in 1 .. Len(q) : q[k] \in {"total", "outcome", "sum", "min", "max"}
          /\ \A s \in {"total", "outcome", "min", "max"} : \E k \in 1 .. Len(q) : q[k] = s
          /\ \E k \in 1 .. Len(q) : q[k] = "sum"
      BY <2>2, <2>3
    <2> QED
      BY <1>1, <2>4 DEF q
  <1>2. CASE stProgram = "demo06"
    <2> DEFINE q == ST!Steps
    <2>1. q = <<"total", "outcome", "max", "min">>
      BY <1>2 DEF ST!Steps, ST!Demo06Steps
    <2>2. /\ Len(q) = 4 /\ q[1] = "total" /\ q[2] = "outcome" /\ q[3] = "max"
          /\ q[4] = "min"
      BY <2>1
    <2> HIDE DEF q
    <2>3. 1 .. Len(q) = {1, 2, 3, 4}
      BY <2>2
    <2>4. /\ Len(q) \in Nat /\ Len(q) > 1
          /\ q[Len(q)] \in {"min", "max"}
          /\ \A j, k \in 1 .. Len(q) : q[j] = q[k] => j = k
          /\ \A k \in 1 .. Len(q) : q[k] \in {"total", "outcome", "sum", "min", "max"}
          /\ \A s \in {"total", "outcome", "min", "max"} : \E k \in 1 .. Len(q) : q[k] = s
          /\ ~ \E k \in 1 .. Len(q) : q[k] = "sum"
      BY <2>2, <2>3
    <2> QED
      BY <1>2, <2>4 DEF q
  <1> QED
    BY <1>1, <1>2 DEF ST!Programs

\* What the mutex makes of a record.
LEMMA Locked ==
  ASSUME NEW g \in [ST!Field -> Nat], NEW r \in StSample, StMaxU64 \in Nat
  PROVE  /\ ST!RecordUnderLock(g, r) \in [ST!Field -> Nat]
         /\ \A f \in {"total", "success", "failed", "sum"} :
              ST!RecordUnderLock(g, r)[f] = g[f] + Amount(r, f)
         /\ ST!RecordUnderLock(g, r)["min"] = IF r.latency < g["min"] THEN r.latency ELSE g["min"]
         /\ ST!RecordUnderLock(g, r)["max"] = IF r.latency > g["max"] THEN r.latency ELSE g["max"]
  <1>1. r.ok \in BOOLEAN /\ r.latency \in Nat
    BY DEF StSample
  <1> DEFINE o == ST!Outcome(r)
             g1 == [g EXCEPT !.total = @ + 1]
             g2 == [g1 EXCEPT ![o] = g[o] + 1]
             g3 == [g2 EXCEPT !.sum = g.sum + r.latency]
             g4 == [g3 EXCEPT !.min = IF r.latency < g.min THEN r.latency ELSE g.min]
             g5 == [g4 EXCEPT !.max = IF r.latency > g.max THEN r.latency ELSE g.max]
             F == {"total", "success", "failed", "sum", "min", "max"}
  <1>2. ST!RecordUnderLock(g, r) = g5 /\ ST!Field = F
    BY DEF ST!RecordUnderLock, ST!Field
  <1>field. g \in [F -> Nat]
    BY DEF ST!Field
  <1>3. o = IF r.ok THEN "success" ELSE "failed"
    BY DEF ST!Outcome
  <1>4. g1 \in [F -> Nat] /\ g1["total"] = g["total"] + 1 /\ \A f \in F \ {"total"} : g1[f] = g[f]
    BY <1>field
  <1> HIDE DEF o, g1
  <1>5. g2 \in [F -> Nat] /\ g2[o] = g[o] + 1 /\ \A f \in F \ {o} : g2[f] = g1[f]
    BY <1>field, <1>3, <1>4
  <1> HIDE DEF g2
  <1>6. /\ g3 \in [F -> Nat] /\ g3["sum"] = g["sum"] + r.latency
        /\ \A f \in F \ {"sum"} : g3[f] = g2[f]
    BY <1>1, <1>field, <1>5
  <1> HIDE DEF g3
  <1>7. /\ g4 \in [F -> Nat] /\ g4["min"] = IF r.latency < g["min"] THEN r.latency ELSE g["min"]
        /\ \A f \in F \ {"min"} : g4[f] = g3[f]
    BY <1>1, <1>field, <1>6
  <1> HIDE DEF g4
  <1>8. /\ g5 \in [F -> Nat] /\ g5["max"] = IF r.latency > g["max"] THEN r.latency ELSE g["max"]
        /\ \A f \in F \ {"max"} : g5[f] = g4[f]
    BY <1>1, <1>field, <1>7
  <1> HIDE DEF g5
  <1>9. /\ g5["total"] = g["total"] + 1
        /\ g5["success"] = g["success"] + (IF r.ok THEN 1 ELSE 0)
        /\ g5["failed"] = g["failed"] + (IF r.ok THEN 0 ELSE 1)
        /\ g5["sum"] = g["sum"] + r.latency
    BY <1>1, <1>field, <1>3, <1>4, <1>5, <1>6, <1>7, <1>8
  <1>10. /\ g5["min"] = IF r.latency < g["min"] THEN r.latency ELSE g["min"]
         /\ g5["max"] = IF r.latency > g["max"] THEN r.latency ELSE g["max"]
    BY <1>field, <1>3, <1>4, <1>5, <1>6, <1>7, <1>8
  <1>11. \A f \in {"total", "success", "failed", "sum"} : g5[f] = g[f] + Amount(r, f)
    BY <1>9 DEF Amount
  <1> QED
    BY <1>2, <1>8, <1>10, <1>11

\* A thread moves on: the others and what they are ahead of stay; it has passed one
\* step more, or the mutex takes the record whose steps it has all passed.
LEMMA Turn ==
  ASSUME ST!AtomicStatsAssumption, StatsTypes, UNCHANGED stProgram,
         NEW t \in StThread, ~ ST!Done(t), ST!Advance(t)
  PROVE  /\ stAt' \in [StThread -> [record : Nat \ {0}, step : Nat \ {0}]]
         /\ \A u \in StThread : /\ stAt'[u].record =< Len(StRecords[u]) + 1
                                /\ stAt'[u].step =< Len(ST!Steps)
         /\ \A u \in StThread \ {t} : stAt'[u] = stAt[u]
         /\ ~ PastStep(t, ST!Step(t))
         /\ \/ /\ stGuarded' = stGuarded
               /\ ST!Done(t)' = FALSE /\ ST!Sample(t)' = ST!Sample(t)
               /\ stAt'[t].record = stAt[t].record
               /\ \A s : PastStep(t, s)' <=> PastStep(t, s) \/ s = ST!Step(t)
            \/ /\ stGuarded' = ST!RecordUnderLock(stGuarded, ST!Sample(t))
               /\ ST!Step(t) \in {"min", "max"}
               /\ stAt'[t].record = stAt[t].record + 1
               /\ \A s : ~ PastStep(t, s)'
               /\ \A s \in {"total", "outcome", "min", "max"} : PastStep(t, s) \/ s = ST!Step(t)
               /\ stProgram = "exo06" => PastStep(t, "sum")
  <1> DEFINE n == Len(ST!Steps)
             k == stAt[t].step
             r == stAt[t].record
  <1>1. /\ n \in Nat /\ n > 1 /\ ST!Steps' = ST!Steps
        /\ ST!Steps[n] \in {"min", "max"}
        /\ \A i, j \in 1 .. n : ST!Steps[i] = ST!Steps[j] => i = j
        /\ \A s \in {"total", "outcome", "min", "max"} : \E j \in 1 .. n : ST!Steps[j] = s
        /\ stProgram = "exo06" => \E j \in 1 .. n : ST!Steps[j] = "sum"
    BY StatsSteps DEF StatsTypes, ST!Steps
  <1>2. /\ k \in 1 .. n /\ r \in Nat \ {0} /\ r =< Len(StRecords[t]) /\ Len(StRecords[t]) \in Nat
        /\ ST!Step(t) = ST!Steps[k]
    <2>1. StRecords[t] \in Seq(StSample)
      BY DEF ST!AtomicStatsAssumption, StSample
    <2> QED
      BY <2>1, <1>1 DEF StatsTypes, ST!Done, ST!Step
  <1> HIDE DEF n
  <1>3. ~ PastStep(t, ST!Step(t))
    BY <1>1, <1>2 DEF PastStep
  <1>4. \A s : PastStep(t, s) <=> \E j \in 1 .. k - 1 : ST!Steps[j] = s
    BY DEF PastStep
  <1>5. CASE k < n
    <2>1. stAt' = [stAt EXCEPT ![t].step = k + 1] /\ stGuarded' = stGuarded
      BY <1>5 DEF ST!Advance, n
    <2>2. /\ stAt' \in [StThread -> [record : Nat \ {0}, step : Nat \ {0}]]
          /\ stAt'[t].step = k + 1 /\ stAt'[t].record = r
          /\ \A u \in StThread \ {t} : stAt'[u] = stAt[u]
      BY <1>2, <2>1 DEF StatsTypes
    <2>3. ST!Done(t)' = FALSE /\ ST!Sample(t)' = ST!Sample(t)
      BY <1>2, <2>2 DEF ST!Done, ST!Sample
    <2>4. \A s : PastStep(t, s)' <=> \E j \in 1 .. k : ST!Steps[j] = s
      BY <1>1, <1>2, <2>2, <2>3 DEF PastStep
    <2>5. \A s : PastStep(t, s)' <=> PastStep(t, s) \/ s = ST!Step(t)
      <3>1. 1 .. k = (1 .. k - 1) \cup {k}
        BY <1>2
      <3> QED
        BY <1>2, <1>4, <2>4, <3>1
    <2>6. \A u \in StThread : stAt'[u].record =< Len(StRecords[u]) + 1 /\ stAt'[u].step =< n
      <3>1. stAt'[t].record =< Len(StRecords[t]) + 1 /\ stAt'[t].step =< n
        BY <1>1, <1>2, <1>5, <2>2
      <3>2. \A u \in StThread : stAt[u].record =< Len(StRecords[u]) + 1 /\ stAt[u].step =< n
        BY DEF StatsTypes, n
      <3> QED
        BY <2>2, <3>1, <3>2
    <2> QED
      BY <1>3, <2>1, <2>2, <2>3, <2>5, <2>6 DEF n
  <1>6. CASE k = n
    <2>1. /\ stAt' = [stAt EXCEPT ![t] = [record |-> r + 1, step |-> 1]]
          /\ stGuarded' = ST!RecordUnderLock(stGuarded, ST!Sample(t))
      BY <1>1, <1>2, <1>6 DEF ST!Advance, n
    <2>2. /\ stAt' \in [StThread -> [record : Nat \ {0}, step : Nat \ {0}]]
          /\ stAt'[t].step = 1 /\ stAt'[t].record = r + 1
          /\ \A u \in StThread \ {t} : stAt'[u] = stAt[u]
      BY <1>2, <2>1 DEF StatsTypes
    <2>3. \A s : ~ PastStep(t, s)'
      <3>1. 1 .. stAt'[t].step - 1 = {}
        BY <2>2
      <3> QED
        BY <3>1 DEF PastStep
    <2>4. ASSUME NEW s, \E j \in 1 .. n : ST!Steps[j] = s
          PROVE  PastStep(t, s) \/ s = ST!Step(t)
      <3>1. 1 .. n = (1 .. k - 1) \cup {k}
        BY <1>2, <1>6
      <3> QED
        BY <1>2, <1>4, <2>4, <3>1
    <2>5. /\ \A s \in {"total", "outcome", "min", "max"} : PastStep(t, s) \/ s = ST!Step(t)
          /\ ST!Step(t) \in {"min", "max"}
          /\ stProgram = "exo06" => PastStep(t, "sum")
      BY <1>1, <1>2, <1>6, <2>4
    <2>6. \A u \in StThread : stAt'[u].record =< Len(StRecords[u]) + 1 /\ stAt'[u].step =< n
      <3>1. stAt'[t].record =< Len(StRecords[t]) + 1 /\ stAt'[t].step =< n
        BY <1>1, <1>2, <2>2
      <3>2. \A u \in StThread : stAt[u].record =< Len(StRecords[u]) + 1 /\ stAt[u].step =< n
        BY DEF StatsTypes, n
      <3> QED
        BY <2>2, <3>1, <3>2
    <2> QED
      BY <1>3, <2>1, <2>2, <2>3, <2>5, <2>6 DEF n
  <1>7. k < n \/ k = n
    BY <1>1, <1>2
  <1> QED
    BY <1>5, <1>6, <1>7

LEMMA StatsConstants ==
  ASSUME ST!AtomicStatsAssumption
  PROVE  IsFiniteSet(StThread) /\ StMaxU64 \in Nat
  BY DEF ST!AtomicStatsAssumption, ST!IsFiniteSet, IsFiniteSet

LEMMA SampleTyped ==
  ASSUME ST!AtomicStatsAssumption, StatsTypes, NEW t \in StThread, ~ ST!Done(t)
  PROVE  ST!Sample(t) \in StSample /\ ST!Sample(t).latency \in Nat
  <1>1. StRecords[t] \in Seq(StSample)
    BY DEF ST!AtomicStatsAssumption, StSample
  <1>2. stAt[t].record \in 1 .. Len(StRecords[t])
    BY <1>1 DEF StatsTypes, ST!Done
  <1>3. ST!Sample(t) \in StSample
    BY <1>1, <1>2 DEF ST!Sample
  <1> QED
    BY <1>3, StatsConstants DEF StSample

\* What the others are ahead of stays.
LEMMA OthersStay ==
  ASSUME UNCHANGED stProgram, NEW u \in StThread, stAt'[u] = stAt[u]
  PROVE  /\ ST!Done(u)' = ST!Done(u) /\ ST!Sample(u)' = ST!Sample(u) /\ ST!Step(u)' = ST!Step(u)
         /\ \A s : PastStep(u, s)' <=> PastStep(u, s)
         /\ \A f : Ahead(u, f)' = Ahead(u, f)
  <1>1. ST!Done(u)' = ST!Done(u) /\ ST!Sample(u)' = ST!Sample(u) /\ ST!Steps' = ST!Steps
    BY DEF ST!Done, ST!Sample, ST!Steps
  <1>2. \A s : PastStep(u, s)' <=> PastStep(u, s)
    BY <1>1 DEF PastStep
  <1>3. \A f : Ahead(u, f)' = Ahead(u, f)
    BY <1>1, <1>2 DEF Ahead
  <1>4. ST!Step(u)' = ST!Step(u)
    BY <1>1 DEF ST!Step
  <1> QED
    BY <1>1, <1>2, <1>3, <1>4

LEMMA AmountTyped ==
  ASSUME NEW r \in StSample, StMaxU64 \in Nat, NEW f \in {"total", "success", "failed", "sum"}
  PROVE  Amount(r, f) \in Nat
  BY DEF StSample, Amount

\* A counter to which a step adds its amount, if it is its turn, stays ahead of the
\* mutex by what the threads are.
LEMMA CountMoves ==
  ASSUME ST!AtomicStatsAssumption, StatsTypes, StatsCounted, UNCHANGED stProgram,
         NEW t \in StThread, ~ ST!Done(t), ST!Advance(t), NEW f \in Counter, NEW k,
         k = IF StepOf(f) = ST!Step(t) THEN Amount(ST!Sample(t), f) ELSE 0,
         stValue'[f] = stValue[f] + k
  PROVE  stValue'[f] = stGuarded'[f] + SumOf([u \in StThread |-> Ahead(u, f)'], StThread)
  <1> DEFINE old == [u \in StThread |-> Ahead(u, f)]
             new == [u \in StThread |-> Ahead(u, f)']
             r == ST!Sample(t)
             a == Amount(r, f)
             was == Ahead(t, f)
             is == Ahead(t, f)'
  <1>1. /\ IsFiniteSet(StThread) /\ StMaxU64 \in Nat
        /\ f \in {"total", "success", "failed", "sum"} /\ f \in ST!Field
        /\ f = "sum" => stProgram = "exo06"
    BY StatsConstants DEF Counter, ST!Field
  <1>2. \A u \in StThread : Ahead(u, f) \in Nat
    <2> SUFFICES ASSUME NEW u \in StThread PROVE Ahead(u, f) \in Nat
      OBVIOUS
    <2>1. ~ ST!Done(u) => Amount(ST!Sample(u), f) \in Nat
      BY <1>1, SampleTyped, AmountTyped
    <2> QED
      BY <2>1 DEF Ahead, PastStep
  <1>3. r \in StSample /\ a \in Nat
    BY <1>1, SampleTyped, AmountTyped
  <1>4. ASSUME NEW u \in StThread \ {t}
        PROVE  Ahead(u, f)' = Ahead(u, f)
    <2>1. stAt'[u] = stAt[u]
      BY Turn
    <2> QED
      BY <2>1, OthersStay
  <1>5. stValue[f] = stGuarded[f] + SumOf(old, StThread)
    BY DEF StatsCounted
  <1>6. stGuarded[f] \in Nat
    BY <1>1 DEF StatsTypes
  <1>7. \/ stGuarded' = stGuarded /\ is = was + k
        \/ stGuarded'[f] = stGuarded[f] + a /\ was = a /\ is = 0 /\ k = 0
    <2>1. CASE /\ stGuarded' = stGuarded
               /\ ST!Done(t)' = FALSE /\ ST!Sample(t)' = ST!Sample(t)
               /\ \A s : PastStep(t, s)' <=> PastStep(t, s) \/ s = ST!Step(t)
      <3>1. CASE StepOf(f) = ST!Step(t)
        <4>1. ~ PastStep(t, StepOf(f)) /\ PastStep(t, StepOf(f))'
          BY <2>1, <3>1, Turn
        <4>2. was = 0 /\ is = a /\ k = a
          BY <2>1, <3>1, <4>1 DEF Ahead
        <4> QED
          BY <1>3, <2>1, <4>2
      <3>2. CASE StepOf(f) # ST!Step(t)
        <4>1. PastStep(t, StepOf(f))' <=> PastStep(t, StepOf(f))
          BY <2>1, <3>2
        <4>2. was = is /\ k = 0 /\ was \in Nat
          BY <1>2, <2>1, <3>2, <4>1 DEF Ahead
        <4> QED
          BY <2>1, <4>2
      <3> QED
        BY <3>1, <3>2
    <2>2. CASE /\ stGuarded' = ST!RecordUnderLock(stGuarded, ST!Sample(t))
               /\ ST!Step(t) \in {"min", "max"}
               /\ \A s : ~ PastStep(t, s)'
               /\ \A s \in {"total", "outcome", "min", "max"} : PastStep(t, s) \/ s = ST!Step(t)
               /\ stProgram = "exo06" => PastStep(t, "sum")
      <3>1. StepOf(f) \in {"total", "outcome", "sum"} /\ (StepOf(f) = "sum" => stProgram = "exo06")
        BY <1>1 DEF StepOf
      <3>2. PastStep(t, StepOf(f)) /\ StepOf(f) # ST!Step(t)
        BY <2>2, <3>1
      <3>3. was = a /\ is = 0 /\ k = 0
        BY <2>2, <3>2 DEF Ahead
      <3>4. stGuarded'[f] = stGuarded[f] + a
        BY <1>1, <1>3, <2>2, Locked DEF StatsTypes
      <3> QED
        BY <3>3, <3>4
    <2> QED
      BY <2>1, <2>2, Turn
  <1>8. /\ old \in [StThread -> Nat] /\ old[t] = was /\ new[t] = is
        /\ \A u \in StThread \ {t} : new[u] = old[u]
        /\ DOMAIN new = StThread
    BY <1>2, <1>4
  <1>9. k \in Nat /\ is \in Nat
    BY <1>2, <1>3, <1>7
  <1> HIDE DEF old, new, was, is, a, r
  <1>10. new \in [StThread -> Nat]
    <2>1. new = [u \in StThread |-> new[u]]
      BY Zenon DEF new
    <2>2. \A u \in StThread : new[u] \in Nat
      BY <1>8, <1>9
    <2> QED
      BY <2>1, <2>2
  <1>11. CASE stGuarded' = stGuarded /\ is = was + k
    <2>1. new = [old EXCEPT ![t] = old[t] + k]
      BY <1>8, <1>9, <1>10, <1>11
    <2>2. SumOf(new, StThread) = SumOf(old, StThread) + k
      <3>1. old \in [StThread -> Nat] /\ k \in Nat
        BY <1>8, <1>9
      <3>2. SumOf([old EXCEPT ![t] = old[t] + k], StThread) = SumOf(old, StThread) + k
        BY <1>1, <3>1, SumChangesAny, Zenon
      <3> QED
        BY <2>1, <3>2, Zenon
    <2>3. SumOf(old, StThread) \in Nat
      BY <1>1, <1>8, SumInNat
    <2>4. stValue'[f] = stGuarded'[f] + SumOf(new, StThread)
      BY <1>5, <1>6, <1>9, <1>11, <2>2, <2>3
    <2> QED
      BY <2>4 DEF new
  <1>12. CASE stGuarded'[f] = stGuarded[f] + a /\ was = a /\ is = 0 /\ k = 0
    <2>1. old = [new EXCEPT ![t] = new[t] + a]
      BY <1>3, <1>8, <1>10, <1>12 DEF a, r
    <2>2. a \in Nat
      BY <1>3 DEF a, r
    <2>3. SumOf(old, StThread) = SumOf(new, StThread) + a
      <3>1. SumOf([new EXCEPT ![t] = new[t] + a], StThread) = SumOf(new, StThread) + a
        BY <1>1, <1>10, <2>2, SumChangesAny, Zenon
      <3> QED
        BY <2>1, <3>1, Zenon
    <2>4. SumOf(new, StThread) \in Nat
      BY <1>1, <1>10, SumInNat
    <2>5. stValue'[f] = stGuarded'[f] + SumOf(new, StThread)
      BY <1>5, <1>6, <1>12, <2>2, <2>3, <2>4
    <2> QED
      BY <2>5 DEF new
  <1> QED
    BY <1>7, <1>11, <1>12

\* The largest latency after a step that leaves it, or raises it to its own.
LEMMA MaxMoves ==
  ASSUME ST!AtomicStatsAssumption, StatsTypes, MaxOK, UNCHANGED stProgram,
         NEW t \in StThread, ~ ST!Done(t), ST!Advance(t), stValue'["max"] \in Nat,
         \/ ST!Step(t) # "max" /\ stValue'["max"] = stValue["max"]
         \/ /\ ST!Step(t) = "max" /\ ST!Sample(t).latency =< stValue'["max"]
            /\ \/ stValue'["max"] = stValue["max"]
               \/ stValue["max"] =< stValue'["max"] /\ stValue'["max"] = ST!Sample(t).latency
  PROVE  MaxOK'
  <1> DEFINE v == stValue["max"]
             w == stValue'["max"]
             g == stGuarded["max"]
             h == stGuarded'["max"]
             x == ST!Sample(t).latency
  <1>1. v \in Nat /\ w \in Nat /\ g \in Nat /\ x \in Nat
    <2>1. "max" \in ST!Field
      BY DEF ST!Field
    <2>2. ST!Sample(t).latency \in Nat
      BY SampleTyped
    <2> QED
      BY <2>1, <2>2 DEF StatsTypes
  <1>2. \A u \in StThread \ {t} : /\ ST!Sample(u)' = ST!Sample(u)
                                  /\ PastStep(u, "max")' <=> PastStep(u, "max")
    BY Turn, OthersStay
  <1>3. g =< v /\ (v = g \/ \E u \in StThread : PastStep(u, "max") /\ ST!Sample(u).latency = v)
    BY DEF MaxOK
  <1>4. \A u \in StThread : PastStep(u, "max") => ST!Sample(u).latency =< v
    BY DEF MaxOK
  <1>5. v =< w /\ (ST!Step(t) = "max" => x =< w)
    BY <1>1
  <1>6. w = v \/ (ST!Step(t) = "max" /\ w = x)
    OBVIOUS
  <1>7. \A u \in StThread \ {t} : PastStep(u, "max") => ST!Sample(u).latency =< w
    <2> SUFFICES ASSUME NEW u \in StThread, PastStep(u, "max")
                 PROVE  ST!Sample(u).latency =< w
      OBVIOUS
    <2>1. ~ ST!Done(u)
      BY DEF PastStep
    <2>2. ST!Sample(u).latency \in Nat
      BY <2>1, SampleTyped
    <2> QED
      BY <1>1, <1>4, <1>5, <2>2
  <1>8. CASE /\ stGuarded' = stGuarded
             /\ ST!Sample(t)' = ST!Sample(t)
             /\ \A s : PastStep(t, s)' <=> PastStep(t, s) \/ s = ST!Step(t)
    <2>1. PastStep(t, "max")' <=> PastStep(t, "max") \/ ST!Step(t) = "max"
      BY <1>8
    <2>2. h = g /\ h =< w
      BY <1>1, <1>3, <1>5, <1>8
    <2>3. PastStep(t, "max")' => ST!Sample(t)'.latency =< w
      BY <1>1, <1>4, <1>5, <1>8, <2>1
    <2>4. w = h \/ \E u \in StThread : PastStep(u, "max")' /\ ST!Sample(u)'.latency = w
      <3>1. CASE w = v
        <4>1. ASSUME NEW u \in StThread, PastStep(u, "max"), ST!Sample(u).latency = v
              PROVE  PastStep(u, "max")' /\ ST!Sample(u)'.latency = w
          BY <1>2, <1>8, <2>1, <3>1, <4>1
        <4> QED
          BY <1>3, <2>2, <3>1, <4>1
      <3>2. CASE ST!Step(t) = "max" /\ w = x
        BY <1>8, <2>1, <3>2
      <3> QED
        BY <1>6, <3>1, <3>2
    <2> QED
      BY <1>2, <1>7, <2>2, <2>3, <2>4 DEF MaxOK
  <1>9. CASE /\ stGuarded' = ST!RecordUnderLock(stGuarded, ST!Sample(t))
             /\ \A s : ~ PastStep(t, s)'
             /\ \A s \in {"total", "outcome", "min", "max"} : PastStep(t, s) \/ s = ST!Step(t)
    <2>1. h = IF x > g THEN x ELSE g
      <3>1. ST!Sample(t) \in StSample /\ stGuarded \in [ST!Field -> Nat] /\ StMaxU64 \in Nat
        BY SampleTyped, StatsConstants DEF StatsTypes
      <3> QED
        BY <1>9, <3>1, Locked
    <2>2. x =< w /\ g =< w
      <3>1. PastStep(t, "max") \/ ST!Step(t) = "max"
        BY <1>9
      <3>2. PastStep(t, "max") => x =< v
        BY <1>4
      <3> QED
        BY <1>1, <1>3, <1>5, <3>1, <3>2
    <2>3. w = h \/ \E u \in StThread \ {t} : PastStep(u, "max") /\ ST!Sample(u).latency = w
      <3>1. CASE w = x
        BY <1>1, <2>1, <2>2, <3>1
      <3>2. CASE w = v /\ v = g
        BY <1>1, <2>1, <2>2, <3>2
      <3>3. CASE w = v /\ w # x /\ v # g
        BY <1>3, <3>3
      <3> QED
        BY <1>6, <3>1, <3>2, <3>3
    <2>4. h =< w
      BY <1>1, <2>1, <2>2
    <2> QED
      BY <1>2, <1>7, <1>9, <2>3, <2>4 DEF MaxOK
  <1> QED
    BY <1>8, <1>9, Turn

\* The smallest latency after a step that leaves it, or lowers it to its own.
LEMMA MinMoves ==
  ASSUME ST!AtomicStatsAssumption, StatsTypes, MinOK, UNCHANGED stProgram,
         NEW t \in StThread, ~ ST!Done(t), ST!Advance(t), stValue'["min"] \in Nat,
         \/ ST!Step(t) # "min" /\ stValue'["min"] = stValue["min"]
         \/ /\ ST!Step(t) = "min" /\ ST!Sample(t).latency >= stValue'["min"]
            /\ \/ stValue'["min"] = stValue["min"]
               \/ stValue["min"] >= stValue'["min"] /\ stValue'["min"] = ST!Sample(t).latency
  PROVE  MinOK'
  <1> DEFINE v == stValue["min"]
             w == stValue'["min"]
             g == stGuarded["min"]
             h == stGuarded'["min"]
             x == ST!Sample(t).latency
  <1>1. v \in Nat /\ w \in Nat /\ g \in Nat /\ x \in Nat
    <2>1. "min" \in ST!Field
      BY DEF ST!Field
    <2>2. ST!Sample(t).latency \in Nat
      BY SampleTyped
    <2> QED
      BY <2>1, <2>2 DEF StatsTypes
  <1>2. \A u \in StThread \ {t} : /\ ST!Sample(u)' = ST!Sample(u)
                                  /\ PastStep(u, "min")' <=> PastStep(u, "min")
    BY Turn, OthersStay
  <1>3. g >= v /\ (v = g \/ \E u \in StThread : PastStep(u, "min") /\ ST!Sample(u).latency = v)
    BY DEF MinOK
  <1>4. \A u \in StThread : PastStep(u, "min") => ST!Sample(u).latency >= v
    BY DEF MinOK
  <1>5. v >= w /\ (ST!Step(t) = "min" => x >= w)
    BY <1>1
  <1>6. w = v \/ (ST!Step(t) = "min" /\ w = x)
    OBVIOUS
  <1>7. \A u \in StThread \ {t} : PastStep(u, "min") => ST!Sample(u).latency >= w
    <2> SUFFICES ASSUME NEW u \in StThread, PastStep(u, "min")
                 PROVE  ST!Sample(u).latency >= w
      OBVIOUS
    <2>1. ~ ST!Done(u)
      BY DEF PastStep
    <2>2. ST!Sample(u).latency \in Nat
      BY <2>1, SampleTyped
    <2> QED
      BY <1>1, <1>4, <1>5, <2>2
  <1>8. CASE /\ stGuarded' = stGuarded
             /\ ST!Sample(t)' = ST!Sample(t)
             /\ \A s : PastStep(t, s)' <=> PastStep(t, s) \/ s = ST!Step(t)
    <2>1. PastStep(t, "min")' <=> PastStep(t, "min") \/ ST!Step(t) = "min"
      BY <1>8
    <2>2. h = g /\ h >= w
      BY <1>1, <1>3, <1>5, <1>8
    <2>3. PastStep(t, "min")' => ST!Sample(t)'.latency >= w
      BY <1>1, <1>4, <1>5, <1>8, <2>1
    <2>4. w = h \/ \E u \in StThread : PastStep(u, "min")' /\ ST!Sample(u)'.latency = w
      <3>1. CASE w = v
        <4>1. ASSUME NEW u \in StThread, PastStep(u, "min"), ST!Sample(u).latency = v
              PROVE  PastStep(u, "min")' /\ ST!Sample(u)'.latency = w
          BY <1>2, <1>8, <2>1, <3>1, <4>1
        <4> QED
          BY <1>3, <2>2, <3>1, <4>1
      <3>2. CASE ST!Step(t) = "min" /\ w = x
        BY <1>8, <2>1, <3>2
      <3> QED
        BY <1>6, <3>1, <3>2
    <2> QED
      BY <1>2, <1>7, <2>2, <2>3, <2>4 DEF MinOK
  <1>9. CASE /\ stGuarded' = ST!RecordUnderLock(stGuarded, ST!Sample(t))
             /\ \A s : ~ PastStep(t, s)'
             /\ \A s \in {"total", "outcome", "min", "max"} : PastStep(t, s) \/ s = ST!Step(t)
    <2>1. h = IF x < g THEN x ELSE g
      <3>1. ST!Sample(t) \in StSample /\ stGuarded \in [ST!Field -> Nat] /\ StMaxU64 \in Nat
        BY SampleTyped, StatsConstants DEF StatsTypes
      <3> QED
        BY <1>9, <3>1, Locked
    <2>2. x >= w /\ g >= w
      <3>1. PastStep(t, "min") \/ ST!Step(t) = "min"
        BY <1>9
      <3>2. PastStep(t, "min") => x >= v
        BY <1>4
      <3> QED
        BY <1>1, <1>3, <1>5, <3>1, <3>2
    <2>3. w = h \/ \E u \in StThread \ {t} : PastStep(u, "min") /\ ST!Sample(u).latency = w
      <3>1. CASE w = x
        BY <1>1, <2>1, <2>2, <3>1
      <3>2. CASE w = v /\ v = g
        BY <1>1, <2>1, <2>2, <3>2
      <3>3. CASE w = v /\ w # x /\ v # g
        BY <1>3, <3>3
      <3> QED
        BY <1>6, <3>1, <3>2, <3>3
    <2>4. h >= w
      BY <1>1, <2>1, <2>2
    <2> QED
      BY <1>2, <1>7, <1>9, <2>3, <2>4 DEF MinOK
  <1> QED
    BY <1>8, <1>9, Turn

\* The records whose turn has passed: one more at most.
LEMMA PastMoves ==
  ASSUME ST!AtomicStatsAssumption, StatsTypes, UNCHANGED stProgram,
         NEW t \in StThread, ~ ST!Done(t), ST!Advance(t), NEW f \in {"min", "max"},
         NEW u \in StThread, NEW i \in ST!Past(u, f)'
  PROVE  i \in ST!Past(u, f) \/ (u = t /\ ST!Step(t) = f /\ i = stAt[t].record)
  <1> DEFINE r == stAt[u].record
             n == Len(StRecords[u])
  <1>1. /\ i \in 1 .. n
        /\ \/ i < stAt'[u].record
           \/ i = stAt'[u].record /\ \E k \in 1 .. stAt'[u].step - 1 : ST!Steps'[k] = f
    BY DEF ST!Past
  <1>2. r \in Nat /\ n \in Nat /\ i \in Nat
    <2>1. StRecords[u] \in Seq(StSample)
      BY DEF ST!AtomicStatsAssumption, StSample
    <2> QED
      BY <1>1, <2>1 DEF StatsTypes
  <1>3. ASSUME i < r PROVE i \in ST!Past(u, f)
    BY <1>1, <1>3 DEF ST!Past
  <1>4. ASSUME i = r, PastStep(u, f) PROVE i \in ST!Past(u, f)
    BY <1>1, <1>4 DEF ST!Past, PastStep
  <1>5. ASSUME i = stAt'[u].record, \E k \in 1 .. stAt'[u].step - 1 : ST!Steps'[k] = f
        PROVE  PastStep(u, f)'
    BY <1>1, <1>2, <1>5 DEF PastStep, ST!Done
  <1>6. CASE u # t
    <2>1. stAt'[u] = stAt[u]
      BY <1>6, Turn
    <2>2. PastStep(u, f)' <=> PastStep(u, f)
      BY <2>1, OthersStay
    <2> QED
      BY <1>1, <1>3, <1>4, <1>5, <2>1, <2>2
  <1>7. CASE u = t
    <2>1. CASE /\ stAt'[t].record = stAt[t].record
               /\ \A s : PastStep(t, s)' <=> PastStep(t, s) \/ s = ST!Step(t)
      BY <1>1, <1>3, <1>4, <1>5, <1>7, <2>1
    <2>2. CASE /\ stAt'[t].record = stAt[t].record + 1
               /\ \A s : ~ PastStep(t, s)'
               /\ \A s \in {"total", "outcome", "min", "max"} : PastStep(t, s) \/ s = ST!Step(t)
      <3>1. i < r + 1
        BY <1>1, <1>5, <1>7, <2>2
      <3>2. i < r \/ i = r
        BY <1>2, <3>1
      <3> QED
        BY <1>3, <1>4, <1>7, <2>2, <3>2
    <2> QED
      BY <2>1, <2>2, Turn
  <1> QED
    BY <1>6, <1>7

\* A step of record() in the terms of the invariant: the counters take their amounts,
\* the extremes stay or take the latency.
LEMMA RecordStep ==
  ASSUME ST!AtomicStatsAssumption, StatsInv, UNCHANGED stProgram,
         NEW t \in StThread, ~ ST!Done(t), ST!Advance(t),
         stValue' \in [ST!Field -> Nat],
         \A f \in Counter : stValue'[f] =
           stValue[f] + (IF StepOf(f) = ST!Step(t) THEN Amount(ST!Sample(t), f) ELSE 0),
         \/ ST!Step(t) # "max" /\ stValue'["max"] = stValue["max"]
         \/ /\ ST!Step(t) = "max" /\ ST!Sample(t).latency =< stValue'["max"]
            /\ \/ stValue'["max"] = stValue["max"]
               \/ stValue["max"] =< stValue'["max"] /\ stValue'["max"] = ST!Sample(t).latency,
         \/ ST!Step(t) # "min" /\ stValue'["min"] = stValue["min"]
         \/ /\ ST!Step(t) = "min" /\ ST!Sample(t).latency >= stValue'["min"]
            /\ \/ stValue'["min"] = stValue["min"]
               \/ stValue["min"] >= stValue'["min"] /\ stValue'["min"] = ST!Sample(t).latency,
         stSeen' = stSeen, stRead' = [stRead EXCEPT ![t] = FALSE]
  PROVE  StatsInv'
  <1>1. /\ StatsTypes /\ StatsCounted /\ MaxOK /\ MinOK /\ SeenBehind /\ ST!ExtremesCover
    BY DEF StatsInv
  <1>2. /\ stValue["max"] \in Nat /\ stValue'["max"] \in Nat
        /\ stValue["min"] \in Nat /\ stValue'["min"] \in Nat
    BY <1>1 DEF StatsTypes, ST!Field
  <1>3. stValue["max"] =< stValue'["max"] /\ stValue["min"] >= stValue'["min"]
    BY <1>2
  <1>4. StatsTypes'
    <2>1. stGuarded' \in [ST!Field -> Nat]
      <3>1. ST!RecordUnderLock(stGuarded, ST!Sample(t)) \in [ST!Field -> Nat]
        BY <1>1, SampleTyped, StatsConstants, Locked DEF StatsTypes
      <3>2. stGuarded \in [ST!Field -> Nat]
        BY <1>1 DEF StatsTypes
      <3>3. stGuarded' = stGuarded \/ stGuarded' = ST!RecordUnderLock(stGuarded, ST!Sample(t))
        BY <1>1, Turn
      <3> QED
        BY <3>1, <3>2, <3>3
    <2>2. stRead' \in [StThread -> BOOLEAN] /\ stSeen' \in [StThread -> Nat]
      BY <1>1 DEF StatsTypes
    <2>3. ASSUME NEW u \in StThread, stRead'[u]
          PROVE  ST!Step(u)' \in {"min", "max"}
      <3>1. u # t /\ stRead[u]
        BY <1>1, <2>3 DEF StatsTypes
      <3>2. ST!Step(u)' = ST!Step(u)
        BY <1>1, <3>1, Turn, OthersStay
      <3> QED
        BY <1>1, <3>1, <3>2 DEF StatsTypes
    <2>4. ST!Steps' = ST!Steps /\ stProgram' \in ST!Programs
      BY <1>1 DEF ST!Steps, StatsTypes
    <2>5. /\ stAt' \in [StThread -> [record : Nat \ {0}, step : Nat \ {0}]]
          /\ \A u \in StThread : /\ stAt'[u].record =< Len(StRecords[u]) + 1
                                 /\ stAt'[u].step =< Len(ST!Steps)
      BY <1>1, Turn
    <2> QED
      BY <2>1, <2>2, <2>3, <2>4, <2>5 DEF StatsTypes
  <1>5. StatsCounted'
    <2>1. Counter' = Counter
      BY DEF Counter
    <2>2. ASSUME NEW f \in Counter
          PROVE  stValue'[f] = stGuarded'[f] + SumOf([u \in StThread |-> Ahead(u, f)'], StThread)
      BY <1>1, CountMoves
    <2> QED
      BY <2>1, <2>2 DEF StatsCounted
  <1>6. MaxOK'
    BY <1>1, <1>2, MaxMoves
  <1>7. MinOK'
    BY <1>1, <1>2, MinMoves
  <1>8. SeenBehind'
    <2> SUFFICES ASSUME NEW u \in StThread, stRead'[u]
                 PROVE  /\ ST!Step(u)' = "max" => stSeen[u] =< stValue'["max"]
                        /\ ST!Step(u)' = "min" => stSeen[u] >= stValue'["min"]
      BY DEF SeenBehind
    <2>1. u # t /\ stRead[u] /\ stSeen[u] \in Nat
      BY <1>1 DEF StatsTypes
    <2>2. ST!Step(u)' = ST!Step(u)
      BY <1>1, <2>1, Turn, OthersStay
    <2>3. /\ ST!Step(u) = "max" => stSeen[u] =< stValue["max"]
          /\ ST!Step(u) = "min" => stSeen[u] >= stValue["min"]
      BY <1>1, <2>1 DEF SeenBehind
    <2> QED
      BY <1>2, <1>3, <2>1, <2>2, <2>3
  <1>9. ST!ExtremesCover'
    <2> SUFFICES ASSUME NEW u \in StThread
                 PROVE  /\ \A i \in ST!Past(u, "max")' : stValue'["max"] >= StRecords[u][i].latency
                        /\ \A i \in ST!Past(u, "min")' : stValue'["min"] =< StRecords[u][i].latency
      BY DEF ST!ExtremesCover
    <2>1. ASSUME NEW f \in {"min", "max"}, NEW i \in ST!Past(u, f)'
          PROVE  StRecords[u][i].latency \in Nat
      <3>1. i \in 1 .. Len(StRecords[u])
        BY <2>1 DEF ST!Past
      <3>2. StRecords[u] \in Seq(StSample)
        BY DEF ST!AtomicStatsAssumption, StSample
      <3>3. StRecords[u][i] \in StSample /\ StMaxU64 \in Nat
        BY <3>1, <3>2, StatsConstants
      <3> QED
        BY <3>3 DEF StSample
    <2>2. ASSUME NEW i \in ST!Past(u, "max")'
          PROVE  stValue'["max"] >= StRecords[u][i].latency
      <3>1. CASE i \in ST!Past(u, "max")
        <4>1. stValue["max"] >= StRecords[u][i].latency
          BY <1>1, <3>1 DEF ST!ExtremesCover
        <4> QED
          BY <1>2, <1>3, <2>1, <2>2, <4>1
      <3>2. CASE u = t /\ ST!Step(t) = "max" /\ i = stAt[t].record
        BY <1>2, <2>1, <2>2, <3>2 DEF ST!Sample
      <3> QED
        BY <1>1, <2>2, <3>1, <3>2, PastMoves
    <2>3. ASSUME NEW i \in ST!Past(u, "min")'
          PROVE  stValue'["min"] =< StRecords[u][i].latency
      <3>1. CASE i \in ST!Past(u, "min")
        <4>1. stValue["min"] =< StRecords[u][i].latency
          BY <1>1, <3>1 DEF ST!ExtremesCover
        <4> QED
          BY <1>2, <1>3, <2>1, <2>3, <4>1
      <3>2. CASE u = t /\ ST!Step(t) = "min" /\ i = stAt[t].record
        BY <1>2, <2>1, <2>3, <3>2 DEF ST!Sample
      <3> QED
        BY <1>1, <2>3, <3>1, <3>2, PastMoves
    <2> QED
      BY <2>2, <2>3
  <1> QED
    BY <1>4, <1>5, <1>6, <1>7, <1>8, <1>9 DEF StatsInv

LEMMA StatsStart ==
  ASSUME ST!AtomicStatsAssumption, ST!Init
  PROVE  StatsInv
  <1>1. /\ stProgram \in ST!Programs /\ IsFiniteSet(StThread) /\ StMaxU64 \in Nat
        /\ stValue = ST!NewStats /\ stGuarded = ST!NewStats
        /\ stAt = [t \in StThread |-> [record |-> 1, step |-> 1]]
        /\ stSeen = [t \in StThread |-> 0] /\ stRead = [t \in StThread |-> FALSE]
    BY StatsConstants DEF ST!Init
  <1>2. ST!NewStats \in [ST!Field -> Nat]
    BY <1>1 DEF ST!NewStats, ST!Field
  <1>3. \A t \in StThread : \A s : ~ PastStep(t, s)
    BY <1>1 DEF PastStep
  <1>4. StatsTypes
    <2>1. Len(ST!Steps) \in Nat /\ Len(ST!Steps) > 1
      BY <1>1, StatsSteps
    <2>2. \A t \in StThread : Len(StRecords[t]) \in Nat
      BY DEF ST!AtomicStatsAssumption
    <2> QED
      BY <1>1, <1>2, <2>1, <2>2 DEF StatsTypes
  <1>5. StatsCounted
    <2> SUFFICES ASSUME NEW f \in Counter
                 PROVE  stValue[f] = stGuarded[f] + SumOf([t \in StThread |-> Ahead(t, f)], StThread)
      BY DEF StatsCounted
    <2>1. [t \in StThread |-> Ahead(t, f)] = [t \in StThread |-> 0]
      BY <1>3 DEF Ahead
    <2>2. SumOf([t \in StThread |-> Ahead(t, f)], StThread) = 0
      BY <1>1, <2>1, SumOfZeros
    <2>3. stValue[f] \in Nat
      BY <1>1, <1>2 DEF Counter, ST!Field
    <2> QED
      BY <1>1, <2>2, <2>3
  <1>6. MaxOK /\ MinOK
    <2>1. stValue["max"] \in Nat /\ stValue["min"] \in Nat
      BY <1>1, <1>2 DEF ST!Field
    <2> QED
      BY <1>1, <1>3, <2>1 DEF MaxOK, MinOK
  <1>7. SeenBehind
    BY <1>1 DEF SeenBehind
  <1>8. ST!ExtremesCover
    <2>1. \A t \in StThread : \A f : ST!Past(t, f) = {}
      BY <1>1 DEF ST!Past
    <2> QED
      BY <2>1 DEF ST!ExtremesCover
  <1> QED
    BY <1>4, <1>5, <1>6, <1>7, <1>8 DEF StatsInv

\* fetch_add.
LEMMA AddStep ==
  ASSUME ST!AtomicStatsAssumption, StatsInv, NEW t \in StThread, ST!FetchAdd(t)
  PROVE  StatsInv'
  <1> DEFINE r == ST!Sample(t)
             s == ST!Step(t)
  <1>1. StatsTypes
    BY DEF StatsInv
  <1>2. ~ ST!Done(t)
    BY DEF ST!FetchAdd, ST!Step
  <1>3. r \in StSample /\ r.latency \in Nat /\ r.ok \in BOOLEAN
    BY <1>1, <1>2, SampleTyped DEF StSample
  <1>4. PICK f \in {"total", "success", "failed", "sum"}, n \in Nat :
          /\ ST!Add(t, f, n) /\ s \in {"total", "outcome", "sum"}
          /\ \A g \in {"total", "success", "failed", "sum"} :
               (IF StepOf(g) = s THEN Amount(r, g) ELSE 0) = IF g = f THEN n ELSE 0
    <2>1. CASE s = "total" /\ ST!Add(t, "total", 1)
      BY <2>1 DEF StepOf, Amount
    <2>2. CASE s = "outcome" /\ ST!Add(t, ST!Outcome(r), 1)
      <3>1. CASE r.ok
        BY <2>2, <3>1 DEF StepOf, Amount, ST!Outcome
      <3>2. CASE ~ r.ok
        BY <2>2, <3>2 DEF StepOf, Amount, ST!Outcome
      <3> QED
        BY <3>1, <3>2
    <2>3. CASE s = "sum" /\ ST!Add(t, "sum", r.latency)
      BY <1>3, <2>3 DEF StepOf, Amount
    <2> QED
      BY <2>1, <2>2, <2>3 DEF ST!FetchAdd
  <1>5. /\ stValue' = [stValue EXCEPT ![f] = stValue[f] + n] /\ ST!Advance(t)
        /\ UNCHANGED stProgram /\ stSeen' = stSeen /\ stRead' = stRead
    BY <1>4 DEF ST!Add
  <1>6. /\ stValue' \in [ST!Field -> Nat]
        /\ \A g \in {"total", "success", "failed", "sum"} :
             stValue'[g] = stValue[g] + (IF g = f THEN n ELSE 0)
        /\ stValue'["max"] = stValue["max"] /\ stValue'["min"] = stValue["min"]
    <2> DEFINE F == {"total", "success", "failed", "sum", "min", "max"}
    <2>1. stValue \in [F -> Nat] /\ ST!Field = F
      BY <1>1 DEF StatsTypes, ST!Field
    <2>2. /\ f \in F /\ stValue' = [stValue EXCEPT ![f] = stValue[f] + n]
          /\ f # "max" /\ f # "min"
      BY <1>5
    <2>3. stValue' \in [F -> Nat] /\ \A g \in F : stValue'[g] = stValue[g] + (IF g = f THEN n ELSE 0)
      BY <2>1, <2>2
    <2> QED
      BY <2>1, <2>2, <2>3
  <1>7. \A g \in Counter : stValue'[g] = stValue[g] + (IF StepOf(g) = s THEN Amount(r, g) ELSE 0)
    BY <1>4, <1>6 DEF Counter
  <1>8. s # "max" /\ s # "min"
    BY <1>4
  <1>9. stRead' = [stRead EXCEPT ![t] = FALSE]
    <2>1. stRead \in [StThread -> BOOLEAN] /\ ~ stRead[t]
      BY <1>1, <1>8 DEF StatsTypes
    <2> QED
      BY <1>5, <2>1
  <1> QED
    BY <1>2, <1>5, <1>6, <1>7, <1>8, <1>9, RecordStep

\* atomic_max and atomic_min return.
LEMMA ExtremeStep ==
  ASSUME ST!AtomicStatsAssumption, StatsInv, NEW t \in StThread, ST!GiveUp(t) \/ ST!Exchange(t)
  PROVE  StatsInv'
  <1> DEFINE r == ST!Sample(t)
             s == ST!Step(t)
             x == r.latency
  <1>1. StatsTypes /\ SeenBehind
    BY DEF StatsInv
  <1>2. /\ ~ ST!Done(t) /\ s \in {"min", "max"} /\ stRead[t]
        /\ ST!Advance(t) /\ stSeen' = stSeen /\ UNCHANGED stProgram
        /\ stRead' = [stRead EXCEPT ![t] = FALSE]
    BY DEF ST!GiveUp, ST!Exchange, ST!Loaded, ST!Leave, ST!Step
  <1>3. r \in StSample /\ x \in Nat
    BY <1>1, <1>2, SampleTyped
  <1>4. /\ s = "max" => stSeen[t] =< stValue["max"]
        /\ s = "min" => stSeen[t] >= stValue["min"]
    BY <1>1, <1>2 DEF SeenBehind
  <1>5. /\ stValue \in [ST!Field -> Nat] /\ stSeen[t] \in Nat
        /\ stValue["max"] \in Nat /\ stValue["min"] \in Nat
    BY <1>1 DEF StatsTypes, ST!Field
  <1>6. /\ stValue' \in [ST!Field -> Nat]
        /\ \A f \in Counter : stValue'[f] = stValue[f]
        /\ \A m \in {"min", "max"} \ {s} : stValue'[m] = stValue[m]
        /\ stValue'[s] = stValue[s] \/ stValue'[s] = x
    <2>1. stValue' = stValue \/ stValue' = [stValue EXCEPT ![s] = x]
      BY DEF ST!GiveUp, ST!Exchange
    <2> QED
      BY <1>2, <1>3, <1>5, <2>1 DEF Counter, ST!Field
  <1>7. s = "max" => /\ x =< stValue'["max"]
                     /\ \/ stValue'["max"] = stValue["max"]
                        \/ stValue["max"] =< stValue'["max"] /\ stValue'["max"] = x
    <2> SUFFICES ASSUME s = "max"
                 PROVE  /\ x =< stValue'["max"]
                        /\ \/ stValue'["max"] = stValue["max"]
                           \/ stValue["max"] =< stValue'["max"] /\ stValue'["max"] = x
      OBVIOUS
    <2>1. CASE ST!GiveUp(t)
      BY <1>3, <1>4, <1>5, <2>1 DEF ST!GiveUp, ST!Improves
    <2>2. CASE ST!Exchange(t)
      <3>1. x > stSeen[t] /\ stValue["max"] = stSeen[t] /\ stValue'["max"] = x
        BY <1>5, <2>2 DEF ST!Exchange, ST!Improves, ST!Field
      <3> QED
        BY <1>3, <1>5, <3>1
    <2> QED
      BY <2>1, <2>2
  <1>8. s = "min" => /\ x >= stValue'["min"]
                     /\ \/ stValue'["min"] = stValue["min"]
                        \/ stValue["min"] >= stValue'["min"] /\ stValue'["min"] = x
    <2> SUFFICES ASSUME s = "min"
                 PROVE  /\ x >= stValue'["min"]
                        /\ \/ stValue'["min"] = stValue["min"]
                           \/ stValue["min"] >= stValue'["min"] /\ stValue'["min"] = x
      OBVIOUS
    <2>1. CASE ST!GiveUp(t)
      BY <1>3, <1>4, <1>5, <2>1 DEF ST!GiveUp, ST!Improves
    <2>2. CASE ST!Exchange(t)
      <3>1. x < stSeen[t] /\ stValue["min"] = stSeen[t] /\ stValue'["min"] = x
        BY <1>5, <2>2 DEF ST!Exchange, ST!Improves, ST!Field
      <3> QED
        BY <1>3, <1>5, <3>1
    <2> QED
      BY <2>1, <2>2
  <1>9. \A f \in Counter :
          stValue'[f] = stValue[f] + (IF StepOf(f) = s THEN Amount(r, f) ELSE 0)
    <2> SUFFICES ASSUME NEW f \in Counter
                 PROVE  stValue'[f] = stValue[f] + (IF StepOf(f) = s THEN Amount(r, f) ELSE 0)
      OBVIOUS
    <2>1. StepOf(f) # s /\ stValue[f] \in Nat
      BY <1>2, <1>5 DEF Counter, StepOf, ST!Field
    <2> QED
      BY <1>6, <2>1
  <1>10. /\ s = "max" => stValue'["min"] = stValue["min"]
         /\ s = "min" => stValue'["max"] = stValue["max"]
    BY <1>6
  <1> HIDE DEF r, s, x
  <1>11. \/ s # "max" /\ stValue'["max"] = stValue["max"]
         \/ /\ s = "max" /\ x =< stValue'["max"]
            /\ \/ stValue'["max"] = stValue["max"]
               \/ stValue["max"] =< stValue'["max"] /\ stValue'["max"] = x
    BY <1>2, <1>7, <1>10
  <1>12. \/ s # "min" /\ stValue'["min"] = stValue["min"]
         \/ /\ s = "min" /\ x >= stValue'["min"]
            /\ \/ stValue'["min"] = stValue["min"]
               \/ stValue["min"] >= stValue'["min"] /\ stValue'["min"] = x
    BY <1>2, <1>8, <1>10
  <1> QED
    BY <1>2, <1>6, <1>9, <1>11, <1>12, RecordStep DEF r, s, x

\* Nothing moves but what a thread has seen.
LEMMA LookStep ==
  ASSUME ST!AtomicStatsAssumption, StatsInv, NEW t \in StThread, ST!Load(t) \/ ST!ExchangeFails(t)
  PROVE  StatsInv'
  <1>1. /\ stProgram' = stProgram /\ stValue' = stValue /\ stAt' = stAt /\ stGuarded' = stGuarded
        /\ ST!Step(t) \in {"min", "max"}
        /\ stSeen' = [stSeen EXCEPT ![t] = stValue[ST!Step(t)]]
        /\ stRead' = [stRead EXCEPT ![t] = TRUE] \/ stRead' = stRead
    BY DEF ST!Load, ST!ExchangeFails, ST!Loaded
  <1>2. StatsTypes /\ StatsCounted /\ MaxOK /\ MinOK /\ SeenBehind /\ ST!ExtremesCover
    BY DEF StatsInv
  <1>3. /\ \A u \in StThread : ST!Step(u)' = ST!Step(u) /\ ST!Sample(u)' = ST!Sample(u)
        /\ \A u \in StThread : \A s : PastStep(u, s)' <=> PastStep(u, s)
        /\ \A u \in StThread : \A f : Ahead(u, f)' = Ahead(u, f)
    BY <1>1, OthersStay
  <1>4. StatsTypes'
    <2>1. stValue[ST!Step(t)] \in Nat /\ ST!Steps' = ST!Steps
      BY <1>1, <1>2 DEF StatsTypes, ST!Field, ST!Steps
    <2>2. stSeen' \in [StThread -> Nat] /\ stRead' \in [StThread -> BOOLEAN]
      BY <1>1, <1>2, <2>1 DEF StatsTypes
    <2>3. \A u \in StThread : stRead'[u] => ST!Step(u)' \in {"min", "max"}
      BY <1>1, <1>2, <1>3 DEF StatsTypes
    <2> QED
      BY <1>1, <1>2, <2>1, <2>2, <2>3 DEF StatsTypes
  <1>5. StatsCounted'
    <2>1. \A f : [u \in StThread |-> Ahead(u, f)'] = [u \in StThread |-> Ahead(u, f)]
      BY <1>3
    <2> QED
      BY <1>1, <1>2, <2>1 DEF StatsCounted, Counter
  <1>6. MaxOK' /\ MinOK'
    BY <1>1, <1>2, <1>3 DEF MaxOK, MinOK
  <1>7. SeenBehind'
    <2>1. ASSUME NEW u \in StThread, stRead'[u]
          PROVE  /\ ST!Step(u) = "max" => stSeen'[u] =< stValue["max"]
                 /\ ST!Step(u) = "min" => stSeen'[u] >= stValue["min"]
      <3>1. CASE u = t
        <4>1. stSeen'[u] = stValue[ST!Step(t)]
          BY <1>1, <1>2, <3>1 DEF StatsTypes
        <4>2. stValue["max"] \in Nat /\ stValue["min"] \in Nat
          BY <1>2 DEF StatsTypes, ST!Field
        <4> QED
          BY <3>1, <4>1, <4>2
      <3>2. CASE u # t
        <4>1. stSeen'[u] = stSeen[u] /\ stRead[u]
          BY <1>1, <1>2, <2>1, <3>2 DEF StatsTypes
        <4> QED
          BY <1>2, <4>1 DEF SeenBehind
      <3> QED
        BY <3>1, <3>2
    <2> QED
      BY <1>1, <1>3, <2>1 DEF SeenBehind
  <1>8. ST!ExtremesCover'
    <2>1. \A u \in StThread : \A f : ST!Past(u, f)' = ST!Past(u, f)
      BY <1>1 DEF ST!Past, ST!Steps
    <2> QED
      BY <1>1, <1>2, <2>1 DEF ST!ExtremesCover
  <1> QED
    BY <1>4, <1>5, <1>6, <1>7, <1>8 DEF StatsInv

LEMMA StatsInvariant ==
  ASSUME ST!AtomicStatsAssumption
  PROVE  ST!Spec => []StatsInv
  <1>1. StatsInv /\ [ST!Next]_(ST!vars) => StatsInv'
    <2> SUFFICES ASSUME StatsInv, [ST!Next]_(ST!vars)
                 PROVE  StatsInv'
      OBVIOUS
    <2>1. CASE UNCHANGED ST!vars
      <3>1. /\ stProgram' = stProgram /\ stValue' = stValue /\ stAt' = stAt
            /\ stGuarded' = stGuarded /\ stSeen' = stSeen /\ stRead' = stRead
        BY <2>1 DEF ST!vars
      <3>2. StatsTypes /\ StatsCounted /\ MaxOK /\ MinOK /\ SeenBehind /\ ST!ExtremesCover
        BY DEF StatsInv
      <3>3. /\ \A u \in StThread : ST!Step(u)' = ST!Step(u) /\ ST!Sample(u)' = ST!Sample(u)
            /\ \A u \in StThread : \A s : PastStep(u, s)' <=> PastStep(u, s)
            /\ \A u \in StThread : \A f : Ahead(u, f)' = Ahead(u, f)
        BY <3>1, OthersStay
      <3>4. StatsTypes'
        BY <3>1, <3>2, <3>3 DEF StatsTypes, ST!Steps
      <3>5. StatsCounted'
        <4>1. \A f : [u \in StThread |-> Ahead(u, f)'] = [u \in StThread |-> Ahead(u, f)]
          BY <3>3
        <4> QED
          BY <3>1, <3>2, <4>1 DEF StatsCounted, Counter
      <3>6. MaxOK' /\ MinOK' /\ SeenBehind'
        BY <3>1, <3>2, <3>3 DEF MaxOK, MinOK, SeenBehind
      <3>7. ST!ExtremesCover'
        <4>1. \A u \in StThread : \A f : ST!Past(u, f)' = ST!Past(u, f)
          BY <3>1 DEF ST!Past, ST!Steps
        <4> QED
          BY <3>1, <3>2, <4>1 DEF ST!ExtremesCover
      <3> QED
        BY <3>4, <3>5, <3>6, <3>7 DEF StatsInv
    <2>2. ASSUME NEW t \in StThread, ST!Run(t)
          PROVE  StatsInv'
      BY <2>2, AddStep, ExtremeStep, LookStep DEF ST!Run
    <2> QED
      BY <2>1, <2>2 DEF ST!Next
  <1> QED
    BY <1>1, StatsStart, PTL DEF ST!Spec

\* What a thread has gone through it has gone through: the step it takes adds the one
\* it was at.
LEMMA PastStays ==
  ASSUME ST!AtomicStatsAssumption, StatsTypes, UNCHANGED stProgram,
         NEW t \in StThread, ~ ST!Done(t), ST!Advance(t), NEW f \in {"min", "max"}
  PROVE  /\ \A u \in StThread : ST!Past(u, f) \subseteq ST!Past(u, f)'
         /\ ST!Step(t) = f => stAt[t].record \in ST!Past(t, f)'
  <1> DEFINE r == stAt[t].record
             n == Len(StRecords[t])
             k == stAt[t].step
  <1>1. /\ r \in Nat \ {0} /\ k \in Nat \ {0} /\ n \in Nat /\ r =< n
        /\ stAt \in [StThread -> [record : Nat \ {0}, step : Nat \ {0}]]
    <2>1. StRecords[t] \in Seq(StSample)
      BY DEF ST!AtomicStatsAssumption, StSample
    <2> QED
      BY <2>1 DEF StatsTypes, ST!Done
  <1>2. /\ \A u \in StThread \ {t} : stAt'[u] = stAt[u]
        /\ \/ stAt'[t].record = r /\ stAt'[t].step = k + 1
           \/ stAt'[t].record = r + 1
    BY <1>1 DEF ST!Advance
  <1>3. ST!Steps' = ST!Steps /\ (ST!Step(t) = f => ST!Steps[k] = f)
    BY DEF ST!Steps, ST!Step
  <1>4. ASSUME NEW u \in StThread, NEW i \in ST!Past(u, f) PROVE i \in ST!Past(u, f)'
    <2>1. CASE u # t
      BY <1>2, <1>3, <1>4, <2>1 DEF ST!Past
    <2>2. CASE u = t
      <3>1. /\ i \in 1 .. n
            /\ i < r \/ (i = r /\ \E j \in 1 .. k - 1 : ST!Steps[j] = f)
        BY <1>4, <2>2 DEF ST!Past
      <3>2. CASE stAt'[t].record = r + 1
        <4>1. i < r + 1
          BY <1>1, <3>1
        <4> QED
          BY <2>2, <3>1, <3>2, <4>1 DEF ST!Past
      <3>3. CASE stAt'[t].record = r /\ stAt'[t].step = k + 1
        <4>1. ASSUME NEW j \in 1 .. k - 1 PROVE j \in 1 .. (k + 1) - 1
          BY <1>1
        <4>2. i < r \/ (i = r /\ \E j \in 1 .. (k + 1) - 1 : ST!Steps[j] = f)
          BY <3>1, <4>1
        <4> QED
          BY <1>3, <2>2, <3>1, <3>3, <4>2 DEF ST!Past
      <3> QED
        BY <1>2, <3>2, <3>3
    <2> QED
      BY <2>1, <2>2
  <1>5. ASSUME ST!Step(t) = f PROVE r \in ST!Past(t, f)'
    <2>1. r \in 1 .. n
      BY <1>1
    <2>2. CASE stAt'[t].record = r + 1
      <3>1. r < r + 1
        BY <1>1
      <3> QED
        BY <2>1, <2>2, <3>1 DEF ST!Past
    <2>3. CASE stAt'[t].record = r /\ stAt'[t].step = k + 1
      <3>1. k \in 1 .. (k + 1) - 1 /\ ST!Steps'[k] = f
        BY <1>1, <1>3, <1>5
      <3> QED
        BY <2>1, <2>3, <3>1 DEF ST!Past
    <2> QED
      BY <1>2, <2>2, <2>3
  <1> QED
    BY <1>4, <1>5

\* An extreme that an exchange stores is the latency of the record it is part of.
LEMMA ExtremesStep ==
  ASSUME ST!AtomicStatsAssumption, StatsTypes, ST!ExtremesTaken, [ST!Next]_(ST!vars)
  PROVE  ST!ExtremesTaken'
  <1> SUFFICES ASSUME NEW f \in {"min", "max"}
               PROVE  \/ stValue'[f] = ST!NewStats[f]
                      \/ \E t \in StThread : \E i \in ST!Past(t, f)' :
                           stValue'[f] = StRecords[t][i].latency
    BY DEF ST!ExtremesTaken, ST!NewStats
  <1>1. \/ stValue[f] = ST!NewStats[f]
        \/ \E t \in StThread : \E i \in ST!Past(t, f) : stValue[f] = StRecords[t][i].latency
    BY DEF ST!ExtremesTaken
  <1>2. CASE UNCHANGED <<stProgram, stAt, stValue>>
    <2>1. \A t \in StThread : ST!Past(t, f)' = ST!Past(t, f)
      BY <1>2 DEF ST!Past, ST!Steps
    <2> QED
      BY <1>1, <1>2, <2>1
  <1>3. ASSUME NEW t \in StThread, ~ ST!Done(t), ST!Advance(t), UNCHANGED stProgram,
               \/ stValue'[f] = stValue[f]
               \/ ST!Step(t) = f /\ stValue'[f] = ST!Sample(t).latency
        PROVE  \/ stValue'[f] = ST!NewStats[f]
               \/ \E u \in StThread : \E i \in ST!Past(u, f)' :
                    stValue'[f] = StRecords[u][i].latency
    <2>1. /\ \A u \in StThread : ST!Past(u, f) \subseteq ST!Past(u, f)'
          /\ ST!Step(t) = f => stAt[t].record \in ST!Past(t, f)'
      BY <1>3, PastStays
    <2>2. CASE stValue'[f] = stValue[f]
      BY <1>1, <2>1, <2>2
    <2>3. CASE ST!Step(t) = f /\ stValue'[f] = ST!Sample(t).latency
      BY <2>1, <2>3 DEF ST!Sample
    <2> QED
      BY <1>3, <2>2, <2>3
  <1>4. f \in DOMAIN stValue
    BY DEF StatsTypes, ST!Field
  <1>5. ASSUME NEW t \in StThread, ST!FetchAdd(t)
        PROVE  /\ ~ ST!Done(t) /\ ST!Advance(t) /\ UNCHANGED stProgram
               /\ stValue'[f] = stValue[f]
    <2>1. PICK g, n : ST!Add(t, g, n) /\ g \notin {"min", "max"}
      BY <1>5 DEF ST!FetchAdd, ST!Outcome
    <2>2. ~ ST!Done(t)
      BY <1>5 DEF ST!FetchAdd, ST!Step
    <2> QED
      BY <1>4, <2>1, <2>2 DEF ST!Add
  <1>6. ASSUME NEW t \in StThread, ST!GiveUp(t) \/ ST!Exchange(t)
        PROVE  /\ ~ ST!Done(t) /\ ST!Advance(t) /\ UNCHANGED stProgram
               /\ \/ stValue'[f] = stValue[f]
                  \/ ST!Step(t) = f /\ stValue'[f] = ST!Sample(t).latency
    <2>1. ~ ST!Done(t) /\ ST!Advance(t) /\ UNCHANGED stProgram
      BY <1>6 DEF ST!GiveUp, ST!Exchange, ST!Leave, ST!Loaded, ST!Step
    <2>2. stValue' = stValue \/ stValue' = [stValue EXCEPT ![ST!Step(t)] = ST!Sample(t).latency]
      BY <1>6 DEF ST!GiveUp, ST!Exchange
    <2> QED
      BY <1>4, <2>1, <2>2
  <1>7. ASSUME NEW t \in StThread, ST!Load(t) \/ ST!ExchangeFails(t)
        PROVE  UNCHANGED <<stProgram, stAt, stValue>>
    BY <1>7 DEF ST!Load, ST!ExchangeFails
  <1>8. UNCHANGED ST!vars => UNCHANGED <<stProgram, stAt, stValue>>
    BY DEF ST!vars
  <1> QED
    BY <1>2, <1>3, <1>5, <1>6, <1>7, <1>8 DEF ST!Next, ST!Run

\* Once the threads are joined the atomics hold what the mutex holds, and at any time
\* the extremes cover the latencies that went through and are among them, however the
\* exchanges of the threads race (exo06_stats.rs:67-95, 215-218,
\* demo06_atomics_cas.rs:101-138).
THEOREM StatsAsUnderLock ==
  ASSUME ST!AtomicStatsAssumption
  PROVE  ST!Spec =>
           [](ST!TypeOK /\ ST!JoinedAsUnderLock /\ ST!ExtremesCover /\ ST!ExtremesTaken)
  <1>1. StatsInv => ST!TypeOK
    <2> SUFFICES ASSUME StatsInv PROVE ST!TypeOK
      OBVIOUS
    <2>1. StatsTypes
      BY DEF StatsInv
    <2>2. Len(ST!Steps) \in Nat /\ \A t \in StThread : Len(StRecords[t]) \in Nat
      BY <2>1, StatsSteps DEF StatsTypes, ST!AtomicStatsAssumption
    <2> QED
      BY <2>1, <2>2 DEF StatsTypes, ST!TypeOK
  <1>2. StatsInv => ST!JoinedAsUnderLock
    <2> SUFFICES ASSUME StatsInv, \A t \in StThread : ST!Done(t),
                        NEW f \in ST!Field, f = "sum" => stProgram # "demo06"
                 PROVE  stValue[f] = stGuarded[f]
      BY DEF ST!JoinedAsUnderLock, ST!Joined
    <2>1. \A t \in StThread : \A s : ~ PastStep(t, s)
      BY DEF PastStep
    <2>2. StatsTypes /\ StatsCounted /\ MaxOK /\ MinOK
      BY DEF StatsInv
    <2>3. CASE f \in {"min", "max"}
      BY <2>1, <2>2, <2>3 DEF MaxOK, MinOK
    <2>4. CASE f \notin {"min", "max"}
      <3>1. f \in Counter
        BY <2>2, <2>4 DEF ST!Field, Counter, StatsTypes, ST!Programs
      <3>2. [t \in StThread |-> Ahead(t, f)] = [t \in StThread |-> 0]
        BY <2>1 DEF Ahead
      <3>3. SumOf([t \in StThread |-> Ahead(t, f)], StThread) = 0
        BY <3>2, StatsConstants, SumOfZeros
      <3>4. stValue[f] = stGuarded[f] + 0 /\ stGuarded[f] \in Nat
        BY <2>2, <3>1, <3>3 DEF StatsCounted, StatsTypes
      <3> QED
        BY <3>4
    <2> QED
      BY <2>3, <2>4
  <1>3. StatsInv => ST!ExtremesCover /\ StatsTypes
    BY DEF StatsInv
  <1>4. ST!Init => ST!ExtremesTaken
    BY DEF ST!Init, ST!ExtremesTaken
  <1>5. StatsTypes /\ ST!ExtremesTaken /\ [ST!Next]_(ST!vars) => ST!ExtremesTaken'
    BY ExtremesStep
  <1> QED
    BY <1>1, <1>2, <1>3, <1>4, <1>5, StatsInvariant, PTL DEF ST!Spec

(***************************************************************************)
(* The parts side by side.                                                 *)
(***************************************************************************)

\* Every part starts as its module says, and takes its own steps or none.
LEMMA PartsStart ==
  Init => /\ RB!Init /\ BQ!Init /\ DI!Init /\ WS!Init /\ ST!Init /\ PU!Init /\ PN!Init /\ OR!Init
          /\ RF!Init /\ CB!Init /\ RT!Init /\ WA!Init /\ RI!Init /\ NO!Init /\ ME!Init /\ RP!Init
  BY DEF Init

\* What the parts leave alone.
LEMMA PartsUnchanged ==
  /\ UNCHANGED rb => UNCHANGED RB!vars
  /\ UNCHANGED bq => UNCHANGED BQ!vars
  /\ UNCHANGED di => UNCHANGED DI!vars
  /\ UNCHANGED ws => UNCHANGED WS!vars
  /\ UNCHANGED st => UNCHANGED ST!vars
  /\ UNCHANGED pu => UNCHANGED PU!vars
  /\ UNCHANGED pn => UNCHANGED PN!vars
  /\ UNCHANGED or => UNCHANGED OR!vars
  /\ UNCHANGED rf => UNCHANGED RF!vars
  /\ UNCHANGED cb => UNCHANGED CB!vars
  /\ UNCHANGED rt => UNCHANGED RT!vars
  /\ UNCHANGED wa => UNCHANGED WA!vars
  /\ UNCHANGED ri => UNCHANGED RI!vars
  /\ UNCHANGED no => UNCHANGED NO!vars
  /\ UNCHANGED me => UNCHANGED ME!vars
  /\ UNCHANGED rp => UNCHANGED RP!vars
  <1>1. UNCHANGED rb => UNCHANGED RB!vars
    BY DEF rb, RB!vars
  <1>2. UNCHANGED bq => UNCHANGED BQ!vars
    BY DEF bq, BQ!vars
  <1>3. UNCHANGED di => UNCHANGED DI!vars
    BY DEF di, DI!vars
  <1>4. UNCHANGED ws => UNCHANGED WS!vars
    BY DEF ws, WS!vars
  <1>5. UNCHANGED st => UNCHANGED ST!vars
    BY DEF st, ST!vars
  <1>6. UNCHANGED pu => UNCHANGED PU!vars
    BY DEF pu, PU!vars
  <1>7. UNCHANGED pn => UNCHANGED PN!vars
    BY DEF pn, PN!vars
  <1>8. UNCHANGED or => UNCHANGED OR!vars
    BY DEF or, OR!vars
  <1>9. UNCHANGED rf => UNCHANGED RF!vars
    BY DEF rf, RF!vars
  <1>10. UNCHANGED cb => UNCHANGED CB!vars
    BY DEF cb, CB!vars
  <1>11. UNCHANGED rt => UNCHANGED RT!vars
    BY DEF rt, RT!vars
  <1>12. UNCHANGED wa => UNCHANGED WA!vars
    BY DEF wa, WA!vars
  <1>13. UNCHANGED ri => UNCHANGED RI!vars
    BY DEF ri, RI!vars
  <1>14. UNCHANGED no => UNCHANGED NO!vars
    BY DEF no, NO!vars
  <1>15. UNCHANGED me => UNCHANGED ME!vars
    BY DEF me, ME!vars
  <1>16. UNCHANGED rp => UNCHANGED RP!vars
    BY DEF rp, RP!vars
  <1> QED
    BY <1>1, <1>2, <1>3, <1>4, <1>5, <1>6, <1>7, <1>8, <1>9, <1>10, <1>11, <1>12, <1>13, <1>14,
       <1>15, <1>16

LEMMA PartsStep ==
  ASSUME [Next]_vars
  PROVE  /\ [RB!Next]_(RB!vars) /\ [BQ!Next]_(BQ!vars) /\ [DI!Next]_(DI!vars)
         /\ [WS!Next]_(WS!vars) /\ [ST!Next]_(ST!vars) /\ [PU!Next]_(PU!vars)
         /\ [PN!Next]_(PN!vars) /\ [OR!Next]_(OR!vars) /\ [RF!Next]_(RF!vars)
         /\ [CB!Next]_(CB!vars) /\ [RT!Next]_(RT!vars) /\ [WA!Next]_(WA!vars)
         /\ [RI!Next]_(RI!vars) /\ [NO!Next]_(NO!vars) /\ [ME!Next]_(ME!vars)
         /\ [RP!Next]_(RP!vars)
  <1> DEFINE Same == /\ UNCHANGED rb /\ UNCHANGED bq /\ UNCHANGED di /\ UNCHANGED ws
                     /\ UNCHANGED st /\ UNCHANGED pu /\ UNCHANGED pn /\ UNCHANGED or
                     /\ UNCHANGED rf /\ UNCHANGED cb /\ UNCHANGED rt /\ UNCHANGED wa
                     /\ UNCHANGED ri /\ UNCHANGED no /\ UNCHANGED me /\ UNCHANGED rp
  <1>1. UNCHANGED vars => Same
    BY DEF vars
  <1>2. Next => /\ RB!Next \/ UNCHANGED rb
                /\ BQ!Next \/ UNCHANGED bq
                /\ DI!Next \/ UNCHANGED di
                /\ WS!Next \/ UNCHANGED ws
                /\ ST!Next \/ UNCHANGED st
                /\ PU!Next \/ UNCHANGED pu
                /\ PN!Next \/ UNCHANGED pn
                /\ OR!Next \/ UNCHANGED or
                /\ RF!Next \/ UNCHANGED rf
                /\ CB!Next \/ UNCHANGED cb
                /\ RT!Next \/ UNCHANGED rt
                /\ WA!Next \/ UNCHANGED wa
                /\ RI!Next \/ UNCHANGED ri
                /\ NO!Next \/ UNCHANGED no
                /\ ME!Next \/ UNCHANGED me
                /\ RP!Next \/ UNCHANGED rp
    BY DEF Next, Others, RunRingBuffer, RunBoundedQueue, RunDispatcher, RunWorkStealing,
       RunAtomicStats, RunPublication, RunPNCounter, RunOrSet, RunRaftDemo, RunCircuitBreaker,
       RunRetryBackoff, RunWatchServer, RunKvRing, RunKvNode, RunKvMetrics, RunKvReplication
  <1> QED
    BY <1>1, <1>2, PartsUnchanged

\* A behaviour of the parts side by side is a behaviour of each: what is proved of a
\* part holds in the composition.
THEOREM PartsRun ==
  Spec => /\ RB!Spec /\ BQ!Spec /\ DI!Spec /\ WS!Spec /\ ST!Spec /\ PU!Spec /\ PN!Spec /\ OR!Spec
          /\ RF!Spec /\ CB!Spec /\ RT!Spec /\ WA!Spec /\ RI!Spec /\ NO!Spec /\ ME!Spec /\ RP!Spec
  <1> QED
    BY PartsStart, PartsStep, PTL
    DEF Spec, RB!Spec, BQ!Spec, DI!Spec, WS!Spec, ST!Spec, PU!Spec, PN!Spec, OR!Spec, RF!Spec,
        CB!Spec, RT!Spec, WA!Spec, RI!Spec, NO!Spec, ME!Spec, RP!Spec

\* What the dispatcher leaves behind was submitted after every worker's last look at
\* the queue (exo07_dispatcher.rs:66-75).
THEOREM AlwaysLeftBehindUnseen == Spec => []LeftBehindUnseen
  <1>1. DI!Spec => []DI!LeftBehindUnseen
    BY TasksCountedOnce, DispatcherConstants, PTL
  <1>2. DI!LeftBehindUnseen => LeftBehindUnseen
    BY DEF LeftBehindUnseen
  <1> QED
    BY <1>1, <1>2, PartsRun, PTL

\* Whatever replicas exchange, a counter counts an update once and an add survives the
\* removes of the others (demo_3_3b_crdt.rs:7-17, 38-40, 119-121).
THEOREM AlwaysUpdatesAreKept == Spec => []UpdatesAreKept
  <1>1. PN!Spec => [](PN!NeverOvercounts /\ PN!SyncCountsAll)
    BY CountersCountOnce, PNCounterConstants, PTL
  <1>2. OR!Spec => []OR!AddWins
    BY SetAddWins, OrSetConstants, PTL
  <1>3. PN!NeverOvercounts /\ PN!SyncCountsAll /\ OR!AddWins => UpdatesAreKept
    BY DEF UpdatesAreKept
  <1> QED
    BY <1>1, <1>2, <1>3, PartsRun, PTL

\* However nodes crash and come back between elections, a term has one leader and an
\* election leaves one leader alive (demo_3_3c_raft.rs:11-12, 100-164).
THEOREM AlwaysOneLeader == Spec => OneLeaderPerTerm
  <1>1. UNCHANGED vars => UNCHANGED RF!vars
    BY PartsUnchanged DEF vars
  <1>2. RF!OneLeaderPerTerm' /\ [RF!ElectionLeavesOne]_(RF!vars)
        => [On("raft") => RF!OneLeaderPerTerm' /\ RF!ElectionLeavesOne]_vars
    BY DEF RF!ElectionLeavesOne, RF!vars
  <1> QED
    BY <1>1, <1>2, AlwaysOneLeaderPerTerm, AlwaysElectionLeavesOne, RaftDemoConstants, PartsRun, PTL
    DEF OneLeaderPerTerm

\* Nothing that was handed over is lost or done twice: the queues are empty when their
\* threads have ended, a task is waiting, in work, counted or reported as dropped, and a
\* thief leaves when all the deques are dry (exo05_ringbuffer.rs:149-163,
\* demo05_mutex_rwlock.rs:250-301, exo07_dispatcher.rs:66-75,
\* demo07_lockfree_crossbeam.rs:170-220).
THEOREM AlwaysWorkIsDone == Spec => []WorkIsDone
  <1>1. RB!Spec => []RB!Drained
    BY AlwaysDrained, RingBufferConstants, PTL
  <1>2. BQ!Spec => []BQ!EndsEmpty
    BY QueueEndsEmpty, BoundedQueueConstants, PTL
  <1>3. DI!Spec => []DI!CountedOnce
    BY TasksCountedOnce, DispatcherConstants, PTL
  <1>4. WS!Spec => [](WS!AllProcessed /\ WS!LeavesWhenDry)
    BY StealersLeaveWhenDry, WorkStealingConstants, PTL
  <1>5. RB!Drained /\ BQ!EndsEmpty /\ DI!CountedOnce /\ WS!AllProcessed /\ WS!LeavesWhenDry
        => WorkIsDone
    BY DEF WorkIsDone
  <1> QED
    BY <1>1, <1>2, <1>3, <1>4, <1>5, PartsRun, PTL

\* Every change of the gRPC store is published once, and a watcher hears the channel in
\* order or is told how much it lost (app-tokio-tonic/src/bin/server.rs:64-167).
THEOREM AlwaysChangesAreHeard == Spec => []ChangesAreHeard
  <1>1. WA!Spec => [](WA!ChangesPublished /\ WA!HeardInOrder)
    BY ChangesArePublished, WatchersHearInOrder, WatchServerConstants, PTL
  <1>2. WA!ChangesPublished /\ WA!HeardInOrder => ChangesAreHeard
    BY DEF ChangesAreHeard
  <1> QED
    BY <1>1, <1>2, PartsRun, PTL

\* The atomics agree with the mutex, the published value with the one stored before the
\* flag, the gauges and averages of a node with its tasks and samples
\* (exo06_stats.rs:67-95, demo06_atomics_cas.rs:61-93, metrics.rs:66-77,
\* server.rs:59-66).
THEOREM AlwaysCountersAgree == Spec => []CountersAgree
  <1>1. ST!Spec => [](ST!JoinedAsUnderLock /\ ST!ExtremesCover /\ ST!ExtremesTaken)
    BY StatsAsUnderLock, AtomicStatsConstants, PTL
  <1>2. PU!Spec => []PU!PublishedIsRead
    BY WhatIsPublishedIsRead, PublicationConstants, PTL
  <1>3. ME!Spec => [](ME!ConnectionsCounted /\ ME!LagWithinSamples /\ ME!OpsCoverKinds)
    BY MetricsAreRight, KvMetricsConstants, PTL
  <1>4. /\ ST!JoinedAsUnderLock /\ ST!ExtremesCover /\ ST!ExtremesTaken /\ PU!PublishedIsRead
        /\ ME!ConnectionsCounted /\ ME!LagWithinSamples /\ ME!OpsCoverKinds
        => CountersAgree
    BY DEF CountersAgree
  <1> QED
    BY <1>1, <1>2, <1>3, <1>4, PartsRun, PTL

\* The ring gives distinct nodes, the nearest first, after any additions and removals
\* and whatever positions collide; these move the keys of one node only
\* (consistent_hash.rs:43-103).
THEOREM AlwaysPlacementHolds == Spec => PlacementHolds
  <1>1. RI!Spec => /\ []RI!ReplicasAreNearest /\ []RI!RingOfMembers
                   /\ [][RI!MovesAreMinimal]_(RI!vars)
    BY AlwaysReplicasAreNearest, AlwaysRingOfMembers, AlwaysMovesAreMinimal, KvRingConstants, PTL
  <1>2. ASSUME UNCHANGED RI!vars
        PROVE  RI!MovesAreMinimal
    BY <1>2 DEF RI!MovesAreMinimal, RI!vars
  <1>3. RI!ReplicasAreNearest /\ RI!RingOfMembers /\ [RI!MovesAreMinimal]_(RI!vars)
        => [On("ring") => RI!ReplicasAreNearest /\ RI!RingOfMembers /\ RI!MovesAreMinimal]_vars
    BY <1>2
  <1> QED
    BY <1>1, <1>3, PartsRun, PTL DEF PlacementHolds

\* A circuit that opens stays open for its timeout whatever late calls report, and
\* closes on fresh successes; a retry gives up in turn and waits as its policy says
\* (demo_3_4a_circuit_breaker.rs:69-155, demo_3_4b_retry_backoff.rs:34-135).
THEOREM AlwaysCallsAreHeldBack == Spec => CallsAreHeldBack
  <1>1. CB!Spec => []CB!StaysOpen /\ [][CB!ClosesOnSuccesses]_(CB!vars)
    BY BreakerStaysOpen, CircuitBreakerConstants, PTL
  <1>2. RT!Spec => [](RT!GivesUpInTurn /\ RT!BacksOff)
    BY RetriesBackOff, RetryBackoffConstants, PTL
  <1>3. ASSUME UNCHANGED CB!vars
        PROVE  CB!ClosesOnSuccesses
    BY <1>3 DEF CB!ClosesOnSuccesses, CB!vars
  <1>4. /\ CB!StaysOpen' /\ [CB!ClosesOnSuccesses]_(CB!vars)
        /\ RT!GivesUpInTurn' /\ RT!BacksOff'
        => [/\ On("breaker") => CB!StaysOpen' /\ CB!ClosesOnSuccesses
            /\ On("retry") => RT!GivesUpInTurn' /\ RT!BacksOff']_vars
    BY <1>3
  <1> QED
    BY <1>1, <1>2, <1>4, PartsRun, PTL DEF CallsAreHeldBack

\* Every part keeps its type, in every state of the composition.
THEOREM TypeCorrect == Spec => []TypeOK
  <1>1. RB!Spec /\ BQ!Spec /\ DI!Spec /\ WS!Spec
        => [](RB!TypeOK /\ BQ!TypeOK /\ DI!TypeOK /\ WS!TypeOK)
    BY BufferTypes, LockedQueueIsFifo, TasksCountedOnce, StealersLeaveWhenDry,
       RingBufferConstants, BoundedQueueConstants, DispatcherConstants, WorkStealingConstants, PTL
  <1>2. ST!Spec /\ PN!Spec /\ OR!Spec /\ RF!Spec
        => [](ST!TypeOK /\ PN!TypeOK /\ OR!TypeOK /\ RF!TypeOK)
    BY StatsAsUnderLock, CountersCountOnce, SetAddWins, RaftTypeCorrect,
       AtomicStatsConstants, PNCounterConstants, OrSetConstants, RaftDemoConstants, PTL
  <1>3. CB!Spec /\ RT!Spec /\ WA!Spec
        => [](CB!TypeOK /\ RT!TypeOK /\ WA!TypeOK)
    BY BreakerStaysOpen, RetriesBackOff, WatchersHearInOrder,
       CircuitBreakerConstants, RetryBackoffConstants, WatchServerConstants, PTL
  <1>4. RI!Spec /\ NO!Spec /\ ME!Spec
        => [](RI!TypeOK /\ NO!TypeOK /\ ME!TypeOK)
    BY RingTypes, NodesCountTheirPeers, MetricsAreRight,
       KvRingConstants, KvNodeConstants, KvMetricsConstants, PTL
  <1>5. /\ RB!TypeOK /\ BQ!TypeOK /\ DI!TypeOK /\ WS!TypeOK
        /\ ST!TypeOK /\ PN!TypeOK /\ OR!TypeOK /\ RF!TypeOK
        /\ CB!TypeOK /\ RT!TypeOK /\ WA!TypeOK
        /\ RI!TypeOK /\ NO!TypeOK /\ ME!TypeOK
        => TypeOK
    BY DEF TypeOK
  <1> QED
    BY <1>1, <1>2, <1>3, <1>4, <1>5, PartsRun, PTL

\* The nodes agree on the ring and its names when their lists are in order, and only
\* then (main.rs:138-162).
THEOREM AlwaysNamesAgree == Spec => []NamesAgree
  <1>1. NO!Spec => []NO!NamesAgree
    BY NodesCountTheirPeers, KvNodeConstants, PTL
  <1>2. NO!NamesAgree => NamesAgree
    BY DEF NamesAgree
  <1> QED
    BY <1>1, <1>2, PartsRun, PTL

=============================================================================
