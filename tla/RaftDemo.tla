------------------------------- MODULE RaftDemo -------------------------------
(***************************************************************************)
(* The in-memory Raft of demo_3_3c_raft.rs: elections and client requests  *)
(* are method calls that run to their end; between them nodes crash and    *)
(* come back, with all they had, their role included.  A crashed node is   *)
(* skipped: nothing is sent to it later, and a follower appends what it is *)
(* sent wherever its log ends.                                             *)
(***************************************************************************)
EXTENDS Naturals, Sequences, FiniteSets, FiniteSetsExt

CONSTANTS
  Nodes,      \* the nodes are 0 .. Nodes - 1
  MaxTerm,    \* bound: an election starts below this term only
  MaxLog      \* bound: how many requests there are

RaftDemoAssumption == Nodes \in Nat \ {0} /\ MaxTerm \in Nat /\ MaxLog \in Nat

Node == 0 .. Nodes - 1
Nobody == Nodes

VARIABLES
  role, current_term, voted_for, log, commit_index, alive,
  elected     \* the pairs <<term, node>> of the elections won (history)

vars == <<role, current_term, voted_for, log, commit_index, alive, elected>>

Init ==
  /\ role = [i \in Node |-> "Follower"]
  /\ current_term = [i \in Node |-> 0]
  /\ voted_for = [i \in Node |-> Nobody]
  /\ log = [i \in Node |-> <<>>]
  /\ commit_index = [i \in Node |-> 0]
  /\ alive = [i \in Node |-> TRUE]
  /\ elected = {}

quorum == Nodes \div 2 + 1

Alive == {i \in Node : alive[i]}
LastTerm(l) == IF l = <<>> THEN 0 ELSE l[Len(l)].term

UpToDate(l, m) ==
  \/ LastTerm(l) > LastTerm(m)
  \/ LastTerm(l) = LastTerm(m) /\ Len(l) >= Len(m)

\* Mutant: a node votes twice in a term.
VotersAgain(c) ==
  {i \in Alive \ {c} : current_term[c] + 1 >= current_term[i] /\ UpToDate(log[c], log[i])}

\* The nodes that grant their vote to candidate c, whose term has just grown.
Voters(c) ==
  {i \in Alive \ {c} : current_term[c] + 1 > current_term[i] /\ UpToDate(log[c], log[i])}

run_election(c) ==
  LET term == current_term[c] + 1
      votes == Voters(c) \cup {c}
      won == Cardinality(votes) >= quorum
  IN
  /\ alive[c] /\ term =< MaxTerm
  /\ current_term' = [i \in Node |-> IF i \in votes THEN term ELSE current_term[i]]
  /\ voted_for' = [i \in Node |-> IF i \in votes THEN c ELSE voted_for[i]]
  /\ role' = [i \in Node |->
       IF i = c /\ won THEN "Leader"
       ELSE IF i \in votes \/ (won /\ alive[i]) THEN "Follower" ELSE role[i]]
  /\ elected' = IF won THEN elected \cup {<<term, c>>} ELSE elected
  /\ UNCHANGED <<log, commit_index, alive>>

Leaders == {i \in Alive : role[i] = "Leader"}

\* The first living node that holds itself to be leader.
leader == Min(Leaders)

Requests == UNION {{log[i][k].command : k \in DOMAIN log[i]} : i \in Node}

client_request ==
  LET entry == [term |-> current_term[leader], command |-> Cardinality(Requests) + 1]
      target == Len(log[leader]) + 1
      done == Cardinality(Alive) >= quorum
  IN
  /\ Leaders # {} /\ Cardinality(Requests) < MaxLog
  /\ log' = [i \in Node |-> IF i \in Alive THEN Append(log[i], entry) ELSE log[i]]
  /\ commit_index' = [i \in Node |->
       IF done /\ alive[i] /\ Len(log'[i]) >= target
         THEN Max({commit_index[i], target}) ELSE commit_index[i]]
  /\ UNCHANGED <<role, current_term, voted_for, alive, elected>>

\* The scenario of main() sets alive by hand.
CrashOrRevive(i) ==
  /\ alive' = [alive EXCEPT ![i] = ~ @]
  /\ UNCHANGED <<role, current_term, voted_for, log, commit_index, elected>>

Next ==
  \/ client_request
  \/ \E i \in Node : run_election(i) \/ CrashOrRevive(i)

Spec == Init /\ [][Next]_vars

-----------------------------------------------------------------------------
(* Properties. *)

TypeOK ==
  /\ role \in [Node -> {"Follower", "Leader"}]
  /\ current_term \in [Node -> 0 .. MaxTerm]
  /\ \A i \in Node :
       /\ voted_for[i] = Nobody <=> current_term[i] = 0
       /\ commit_index[i] =< Len(log[i])

\* One leader per term at most, whatever crashed and came back in between
\* (demo_3_3c_raft.rs:11-12, 295).
OneLeaderPerTerm ==
  \A e, f \in elected : e[1] = f[1] => e = f

\* A step that ends an election leaves one leader among the living, although an old
\* leader that came back stayed leader until then (demo_3_3c_raft.rs:149-154).
ElectionLeavesOne ==
  elected' # elected => Cardinality(Leaders') = 1

\* What two nodes hold as committed at a position is one entry: the logs never
\* diverge, and a leader that comes back steps down (demo_3_3c_raft.rs:7-8, 279, 295).
CommittedAgree ==
  \A i, j \in Node : \A k \in 1 .. commit_index[i] :
    k =< commit_index[j] => log[i][k] = log[j][k]
=============================================================================
