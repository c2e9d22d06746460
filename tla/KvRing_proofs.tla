---------------------------- MODULE KvRing_proofs ----------------------------
(***************************************************************************)
(* Proofs about KvRing: the types, who holds a position, and what a change *)
(* of the members moves.                                                   *)
(***************************************************************************)
EXTENDS Parts, Data_proofs

-----------------------------------------------------------------------------
(* The operators of the instance on sets and lists are those of the library. *)

LEMMA RingSets ==
  ASSUME NEW S
  PROVE  /\ RI!Min(S) = Min(S) /\ RI!Max(S) = Max(S)
         /\ RI!Cardinality(S) = Cardinality(S)
         /\ RI!ToSet(S) = ToSet(S) /\ (RI!IsInjective(S) <=> IsInjective(S))
  BY DEF RI!Min, Min, RI!Max, Max, RI!Cardinality, Cardinality, RI!IsFiniteSet, IsFiniteSet,
         RI!ToSet, ToSet, RI!IsInjective, IsInjective

LEMMA MinOfPositions ==
  ASSUME NEW S \in SUBSET Nat, S # {}
  PROVE  RI!Min(S) \in S /\ \A x \in S : RI!Min(S) =< x
  BY LeastOf, RingSets

LEMMA MaxOfIndices ==
  ASSUME NEW N \in Nat, NEW S \in SUBSET (1 .. N), S # {}
  PROVE  RI!Max(S) \in S /\ \A x \in S : RI!Max(S) >= x
<1>1. S \in SUBSET (0 .. N)
  OBVIOUS
<1>2. QED BY <1>1, GreatestOf, RingSets

LEMMA RingJoining ==
  ASSUME NEW T, NEW q \in Seq(T), NEW t \in T, t \notin RI!ToSet(q), RI!IsInjective(q)
  PROVE  /\ Append(q, t) \in Seq(T)
         /\ RI!IsInjective(Append(q, t))
         /\ RI!ToSet(Append(q, t)) = RI!ToSet(q) \cup {t}
  BY Joining, RingSets

LEMMA RingLeaving ==
  ASSUME NEW T, NEW q \in Seq(T), NEW t, RI!IsInjective(q)
  PROVE  /\ RI!Leave(q, t) \in Seq(T)
         /\ RI!IsInjective(RI!Leave(q, t))
         /\ RI!ToSet(RI!Leave(q, t)) = RI!ToSet(q) \ {t}
<1>1. RI!Leave(q, t) = Leave(q, t)
  BY RingSets DEF RI!Leave, Leave, RI!RemoveAt, RemoveAt, RI!ToSet, ToSet
<1>2. QED BY <1>1, Leaving, RingSets

-----------------------------------------------------------------------------
(* Types. *)

LEMMA Positive ==
  ASSUME RI!KvRingAssumption, RI!TypeOK
  PROVE  /\ RI!Position \subseteq Nat
         /\ riLayout \in [RiNode -> SUBSET RI!Position]
         /\ RI!ToSet(riNodes) \subseteq RiNode
         /\ DOMAIN riNodes = 1 .. Len(riNodes) /\ Len(riNodes) \in Nat
BY DEF RI!KvRingAssumption, RI!TypeOK, RI!Position, RI!ToSet

LEMMA AddTypes ==
  ASSUME RI!KvRingAssumption, RI!TypeOK, NEW n \in RiNode, RI!add_node(n)
  PROVE  RI!TypeOK'
<1>1. CASE n \in RI!ToSet(riNodes)
  <2>1. UNCHANGED RI!vars
    BY <1>1 DEF RI!add_node, RI!vars
  <2>2. QED BY <2>1 DEF RI!TypeOK, RI!vars
<1>2. CASE n \notin RI!ToSet(riNodes)
  <2>1. /\ riNodes' = Append(riNodes, n) /\ riLayout' = riLayout /\ riRemoved' = riRemoved
        /\ riRing' = RI!Inserted(riRing, riLayout[n], n)
    BY <1>2 DEF RI!add_node
  <2>2. /\ riNodes' \in Seq(RiNode) /\ RI!IsInjective(riNodes')
        /\ RI!ToSet(riNodes') = RI!ToSet(riNodes) \cup {n}
    BY <1>2, <2>1, RingJoining DEF RI!TypeOK
  <2>3. riLayout[n] \subseteq RI!Position
    BY Positive
  <2>4. /\ DOMAIN riRing' = DOMAIN riRing \cup riLayout[n]
        /\ \A p \in DOMAIN riRing' : riRing'[p] = IF p \in riLayout[n] THEN n ELSE riRing[p]
        /\ riRing' = [p \in DOMAIN riRing' |-> riRing'[p]]
    BY <2>1 DEF RI!Inserted
  <2>5. \A p \in DOMAIN riRing' : riRing'[p] \in RI!ToSet(riNodes') /\ p \in riLayout[riRing'[p]]
    BY <2>2, <2>4 DEF RI!TypeOK
  <2>6. QED BY <2>1, <2>2, <2>3, <2>4, <2>5 DEF RI!TypeOK
<1>3. QED BY <1>1, <1>2

LEMMA RemoveTypes ==
  ASSUME RI!KvRingAssumption, RI!TypeOK, NEW n \in RiNode, RI!remove_node(n)
  PROVE  RI!TypeOK' /\ RI!ToSet(riNodes') = RI!ToSet(riNodes) \ {n}
<1>1. /\ riNodes' \in Seq(RiNode) /\ RI!IsInjective(riNodes')
      /\ RI!ToSet(riNodes') = RI!ToSet(riNodes) \ {n}
  BY RingLeaving DEF RI!TypeOK, RI!remove_node
<1>2. /\ DOMAIN riRing' = {p \in DOMAIN riRing : riRing[p] # n}
      /\ \A p \in DOMAIN riRing' : riRing'[p] = riRing[p]
      /\ riRing' = [p \in DOMAIN riRing' |-> riRing'[p]]
  BY DEF RI!remove_node, RI!Kept
<1>3. \A p \in DOMAIN riRing' : riRing'[p] \in RI!ToSet(riNodes') /\ p \in riLayout[riRing'[p]]
  BY <1>1, <1>2 DEF RI!TypeOK
<1>4. riLayout' = riLayout /\ riRemoved' = TRUE
  BY DEF RI!remove_node
<1>5. QED BY <1>1, <1>2, <1>3, <1>4 DEF RI!TypeOK

LEMMA InitTypes ==
  ASSUME RI!Init
  PROVE  RI!TypeOK
<1>1. DOMAIN riRing = {} /\ riRing = [p \in {} |-> p]
  BY DEF RI!Init
<1>2. riNodes \in Seq(RiNode) /\ RI!IsInjective(riNodes)
  BY DEF RI!Init, RI!IsInjective
<1>3. riRing \in [DOMAIN riRing -> RI!ToSet(riNodes)]
  BY <1>1
<1>4. QED BY <1>1, <1>2, <1>3 DEF RI!Init, RI!TypeOK

\* A position on the ring is held by a member that has a virtual node there, and no
\* member is listed twice, whatever nodes come, go and come back
\* (consistent_hash.rs:43-61).
THEOREM RingTypes ==
  RI!KvRingAssumption => (RI!Spec => []RI!TypeOK)
<1> SUFFICES ASSUME RI!KvRingAssumption PROVE RI!Spec => []RI!TypeOK
  OBVIOUS
<1>1. RI!Init => RI!TypeOK
  BY InitTypes
<1>2. RI!TypeOK /\ [RI!Next]_(RI!vars) => RI!TypeOK'
  <2> SUFFICES ASSUME RI!TypeOK, [RI!Next]_(RI!vars) PROVE RI!TypeOK'
    OBVIOUS
  <2>1. CASE UNCHANGED RI!vars
    BY <2>1 DEF RI!TypeOK, RI!vars
  <2>2. CASE RI!Next
    BY <2>2, AddTypes, RemoveTypes DEF RI!Next
  <2>3. QED BY <2>1, <2>2
<1>3. QED BY <1>1, <1>2, PTL DEF RI!Spec

-----------------------------------------------------------------------------
(***************************************************************************)
(* Who holds a position.  That the ring covers the virtual nodes of its    *)
(* members fails when a removal takes out a position that several nodes    *)
(* share, so it is kept under the hypothesis that none is shared or none   *)
(* was removed.  The last to come holds a position until a removal.        *)
(***************************************************************************)

Covered == UNION {riLayout[n] : n \in RI!ToSet(riNodes)}

Covers == RI!CollisionFree \/ ~ riRemoved => DOMAIN riRing = Covered

Places(p) == {i \in DOMAIN riNodes : p \in riLayout[riNodes[i]]}

LastWins == ~ riRemoved => \A p \in DOMAIN riRing : riRing[p] = riNodes[RI!Max(Places(p))]

RingInv == RI!TypeOK /\ Covers /\ LastWins

LEMMA AddRing ==
  ASSUME RI!KvRingAssumption, RingInv, NEW n \in RiNode, RI!add_node(n)
  PROVE  RingInv'
<1>1. RI!TypeOK /\ RI!TypeOK'
  BY AddTypes DEF RingInv
<1>2. CASE n \in RI!ToSet(riNodes)
  <2>1. UNCHANGED RI!vars
    BY <1>2 DEF RI!add_node, RI!vars
  <2>2. QED
    BY <2>1, <1>1 DEF RingInv, Covers, Covered, RI!CollisionFree, LastWins, Places, RI!vars
<1>3. CASE n \notin RI!ToSet(riNodes)
  <2>1. /\ riNodes' = Append(riNodes, n) /\ riLayout' = riLayout /\ riRemoved' = riRemoved
        /\ riRing' = RI!Inserted(riRing, riLayout[n], n)
    BY <1>3 DEF RI!add_node
  <2>2. RI!ToSet(riNodes') = RI!ToSet(riNodes) \cup {n}
    BY <1>1, <1>3, <2>1, RingJoining DEF RI!TypeOK
  <2>3. /\ DOMAIN riRing' = DOMAIN riRing \cup riLayout[n]
        /\ \A p \in DOMAIN riRing' : riRing'[p] = IF p \in riLayout[n] THEN n ELSE riRing[p]
    BY <2>1 DEF RI!Inserted
  <2>4. Covers'
    BY <2>1, <2>2, <2>3 DEF RingInv, Covers, Covered, RI!CollisionFree
  <2>5. /\ Len(riNodes) \in Nat /\ DOMAIN riNodes = 1 .. Len(riNodes)
        /\ DOMAIN riNodes' = 1 .. Len(riNodes) + 1 /\ riNodes'[Len(riNodes) + 1] = n
        /\ \A i \in 1 .. Len(riNodes) : riNodes'[i] = riNodes[i]
    BY <1>1, <2>1 DEF RI!TypeOK
  <2>6. LastWins'
    <3> SUFFICES ASSUME ~ riRemoved, NEW p \in DOMAIN riRing'
                 PROVE  riRing'[p] = riNodes'[RI!Max(Places(p)')]
      BY <2>1 DEF LastWins
    <3>1. Places(p)' = {i \in DOMAIN riNodes' : p \in riLayout[riNodes'[i]]}
      BY <2>1 DEF Places
    <3>2. CASE p \in riLayout[n]
      <4>1. Len(riNodes) + 1 \in Places(p)' /\ Places(p)' \in SUBSET (1 .. Len(riNodes) + 1)
        BY <2>5, <3>1, <3>2
      <4>2. RI!Max(Places(p)') \in 1 .. Len(riNodes) + 1 /\ RI!Max(Places(p)') >= Len(riNodes) + 1
        <5> DEFINE S == Places(p)'
        <5>1. S \in SUBSET (1 .. Len(riNodes) + 1) /\ Len(riNodes) + 1 \in S
          BY <4>1
        <5>2. Len(riNodes) + 1 \in Nat
          BY <2>5
        <5> HIDE DEF S
        <5>3. RI!Max(S) \in S /\ RI!Max(S) >= Len(riNodes) + 1
          BY <5>1, <5>2, MaxOfIndices
        <5>4. QED BY <5>1, <5>3 DEF S
      <4>3. RI!Max(Places(p)') = Len(riNodes) + 1
        BY <2>5, <4>2
      <4>4. QED BY <2>3, <2>5, <3>2, <4>3
    <3>3. CASE p \notin riLayout[n]
      <4>1. p \in DOMAIN riRing /\ riRing'[p] = riRing[p]
        BY <2>3, <3>3
      <4>2. Places(p)' = Places(p)
        BY <2>5, <3>1, <3>3 DEF Places
      <4>3. Places(p) # {} /\ Places(p) \in SUBSET (1 .. Len(riNodes))
        BY <1>1, <2>5, <4>1 DEF RI!TypeOK, RI!ToSet, Places
      <4>4. RI!Max(Places(p)) \in 1 .. Len(riNodes)
        BY <2>5, <4>3, MaxOfIndices
      <4>5. riNodes'[RI!Max(Places(p))] = riNodes[RI!Max(Places(p))]
        BY <2>5, <4>4
      <4>6. QED BY <4>1, <4>2, <4>5 DEF RingInv, LastWins
    <3>4. QED BY <3>2, <3>3
  <2>7. QED BY <1>1, <2>4, <2>6 DEF RingInv
<1>4. QED BY <1>2, <1>3

LEMMA RemoveRing ==
  ASSUME RI!KvRingAssumption, RingInv, NEW n \in RiNode, RI!remove_node(n)
  PROVE  RingInv'
<1>1. RI!TypeOK /\ RI!TypeOK' /\ RI!ToSet(riNodes') = RI!ToSet(riNodes) \ {n}
  BY RemoveTypes DEF RingInv
<1>2. /\ riRemoved' = TRUE /\ riLayout' = riLayout
      /\ DOMAIN riRing' = {p \in DOMAIN riRing : riRing[p] # n}
  BY DEF RI!remove_node, RI!Kept
<1>3. RI!ToSet(riNodes) \subseteq RiNode
  BY <1>1, Positive
<1>4. Covers'
  <2> SUFFICES ASSUME RI!CollisionFree PROVE DOMAIN riRing' = Covered'
    BY <1>2 DEF Covers, RI!CollisionFree
  <2>1. DOMAIN riRing = Covered
    BY DEF RingInv, Covers
  <2>2. \A p \in DOMAIN riRing, m \in RiNode : p \in riLayout[m] => riRing[p] = m
    BY <1>1, <1>3 DEF RI!CollisionFree, RI!TypeOK
  <2>3. ASSUME NEW p \in DOMAIN riRing' PROVE p \in Covered'
    <3>1. riRing[p] \in RI!ToSet(riNodes') /\ p \in riLayout[riRing[p]]
      BY <1>1, <1>2 DEF RI!TypeOK
    <3>2. QED BY <1>2, <3>1 DEF Covered
  <2>4. ASSUME NEW p \in Covered' PROVE p \in DOMAIN riRing'
    <3>1. PICK m \in RI!ToSet(riNodes') : p \in riLayout[m]
      BY <1>2 DEF Covered
    <3>2. m \in RI!ToSet(riNodes) /\ m # n
      BY <1>1
    <3>3. p \in DOMAIN riRing
      BY <2>1, <3>1, <3>2 DEF Covered
    <3>4. QED BY <1>2, <1>3, <2>2, <3>1, <3>2, <3>3
  <2>5. QED BY <2>3, <2>4
<1>5. LastWins'
  BY <1>2 DEF LastWins
<1>6. QED BY <1>1, <1>4, <1>5 DEF RingInv

LEMMA RingInvariant ==
  ASSUME RI!KvRingAssumption
  PROVE  RI!Spec => []RingInv
<1>1. RI!Init => RingInv
  <2> SUFFICES ASSUME RI!Init PROVE RingInv
    OBVIOUS
  <2>1. DOMAIN riRing = {} /\ RI!ToSet(riNodes) = {}
    BY DEF RI!Init, RI!ToSet
  <2>2. Covers /\ LastWins
    BY <2>1 DEF Covers, Covered, LastWins
  <2>3. QED BY <2>2, InitTypes DEF RingInv
<1>2. RingInv /\ [RI!Next]_(RI!vars) => RingInv'
  <2> SUFFICES ASSUME RingInv, [RI!Next]_(RI!vars) PROVE RingInv'
    OBVIOUS
  <2>1. CASE UNCHANGED RI!vars
    BY <2>1 DEF RingInv, RI!TypeOK, Covers, Covered, RI!CollisionFree, LastWins, Places, RI!vars
  <2>2. CASE RI!Next
    BY <2>2, AddRing, RemoveRing DEF RI!Next
  <2>3. QED BY <2>1, <2>2
<1>3. QED BY <1>1, <1>2, PTL DEF RI!Spec

\* Without collisions the ring depends on who is on it and not on the order in which
\* nodes came and went, so nodes that know the same members place keys alike; with
\* them, the last to come holds a shared position until a node is removed
\* (consistent_hash.rs:43-61).
THEOREM AlwaysRingOfMembers ==
  RI!KvRingAssumption => (RI!Spec => []RI!RingOfMembers)
<1> SUFFICES ASSUME RI!KvRingAssumption PROVE RI!Spec => []RI!RingOfMembers
  OBVIOUS
<1>1. RingInv => RI!RingOfMembers
  <2> SUFFICES ASSUME RingInv PROVE RI!RingOfMembers
    OBVIOUS
  <2>1. /\ RI!TypeOK /\ RI!ToSet(riNodes) \subseteq RiNode
        /\ riRing = [p \in DOMAIN riRing |-> riRing[p]]
    BY Positive DEF RingInv, RI!TypeOK
  <2>2. CASE RI!CollisionFree
    <3>1. DOMAIN riRing = Covered
      BY <2>2 DEF RingInv, Covers
    <3>2. ASSUME NEW p \in DOMAIN riRing
          PROVE  riRing[p] = CHOOSE n \in RI!ToSet(riNodes) : p \in riLayout[n]
      <4>1. riRing[p] \in RI!ToSet(riNodes) /\ p \in riLayout[riRing[p]]
        BY <2>1 DEF RI!TypeOK
      <4>2. \A n \in RI!ToSet(riNodes) : p \in riLayout[n] => n = riRing[p]
        BY <2>1, <2>2, <4>1 DEF RI!CollisionFree
      <4>3. QED BY <4>1, <4>2
    <3>3. riRing = [p \in Covered |-> CHOOSE n \in RI!ToSet(riNodes) : p \in riLayout[n]]
      BY <2>1, <3>1, <3>2
    <3>4. QED BY <2>2, <3>3 DEF RI!RingOfMembers, Covered
  <2>3. CASE ~ RI!CollisionFree /\ ~ riRemoved
    <3>1. /\ DOMAIN riRing = Covered
          /\ \A p \in DOMAIN riRing : riRing[p] = riNodes[RI!Max(Places(p))]
      BY <2>3 DEF RingInv, Covers, LastWins
    <3>2. riRing = [p \in Covered |-> riNodes[RI!Max(Places(p))]]
      BY <2>1, <3>1
    <3>3. QED BY <2>3, <3>2 DEF RI!RingOfMembers, Covered, Places
  <2>4. CASE ~ RI!CollisionFree /\ riRemoved
    BY <2>4 DEF RI!RingOfMembers
  <2>5. QED BY <2>2, <2>3, <2>4
<1>2. QED BY <1>1, RingInvariant, PTL

-----------------------------------------------------------------------------
(* Lookups. *)

\* A key belongs to the first position from its hash on, or to the first of all.
LEMMA FirstPosition ==
  ASSUME NEW r, DOMAIN r \in SUBSET Nat, DOMAIN r # {}, NEW h \in Nat
  PROVE  /\ RI!FirstFrom(r, h) \in DOMAIN r
         /\ \A p \in DOMAIN r : p >= h =>
              RI!FirstFrom(r, h) >= h /\ RI!FirstFrom(r, h) =< p
         /\ (\A p \in DOMAIN r : p < h) => \A p \in DOMAIN r : RI!FirstFrom(r, h) =< p
<1> DEFINE after == {p \in DOMAIN r : p >= h}
<1>1. CASE after # {}
  <2>1. RI!Min(after) \in after /\ \A x \in after : RI!Min(after) =< x
    BY <1>1, MinOfPositions
  <2>2. RI!FirstFrom(r, h) = RI!Min(after)
    BY <1>1 DEF RI!FirstFrom
  <2>3. ~ \A p \in DOMAIN r : p < h
    BY <1>1
  <2>4. QED BY <2>1, <2>2, <2>3
<1>2. CASE after = {}
  <2>1. RI!Min(DOMAIN r) \in DOMAIN r /\ \A x \in DOMAIN r : RI!Min(DOMAIN r) =< x
    BY MinOfPositions
  <2>2. RI!FirstFrom(r, h) = RI!Min(DOMAIN r)
    BY <1>2 DEF RI!FirstFrom
  <2>3. QED BY <1>2, <2>1, <2>2
<1>3. QED BY <1>1, <1>2

\* When positions are added to a ring, a lookup that still ends at an old position
\* ends where it did.
LEMMA SameFirst ==
  ASSUME NEW r, NEW s, DOMAIN s \in SUBSET Nat, DOMAIN r \subseteq DOMAIN s,
         DOMAIN r # {}, NEW h \in Nat, RI!FirstFrom(s, h) \in DOMAIN r
  PROVE  RI!FirstFrom(r, h) = RI!FirstFrom(s, h)
<1> DEFINE p == RI!FirstFrom(r, h)
           q == RI!FirstFrom(s, h)
<1>1. /\ p \in DOMAIN r
      /\ \A x \in DOMAIN r : x >= h => p >= h /\ p =< x
      /\ (\A x \in DOMAIN r : x < h) => \A x \in DOMAIN r : p =< x
  BY FirstPosition
<1>2. /\ \A x \in DOMAIN s : x >= h => q >= h /\ q =< x
      /\ (\A x \in DOMAIN s : x < h) => \A x \in DOMAIN s : q =< x
  BY FirstPosition
<1> HIDE DEF p, q
<1>3. /\ q \in DOMAIN r /\ q \in DOMAIN s /\ p \in DOMAIN s /\ p \in Nat /\ q \in Nat
  BY <1>1 DEF q
<1>4. CASE q >= h
  <2>1. p >= h /\ p =< q
    BY <1>1, <1>3, <1>4
  <2>2. q =< p
    BY <1>2, <1>3, <2>1
  <2>3. QED BY <1>3, <2>1, <2>2 DEF p, q
<1>5. CASE q < h
  <2>1. \A x \in DOMAIN s : x < h
    <3>1. ASSUME NEW x \in DOMAIN s, x >= h PROVE FALSE
      BY <1>2, <1>3, <1>5, <3>1
    <3>2. ASSUME NEW x \in DOMAIN s PROVE x < h
      BY <3>1, <3>2
    <3>3. QED BY <3>2
  <2>2. p =< q /\ q =< p
    BY <1>1, <1>2, <1>3, <2>1
  <2>3. QED BY <1>3, <2>2 DEF p, q
<1>6. QED BY <1>3, <1>4, <1>5

LEMMA NextMovesLittle ==
  ASSUME RI!KvRingAssumption, RI!TypeOK, RI!TypeOK', RI!Next
  PROVE  RI!MovesAreMinimal
<1> SUFFICES ASSUME riRing # <<>>, riRing' # <<>>, NEW h \in RI!Position,
                    RI!get_node(riRing, h) # RI!get_node(riRing', h)
             PROVE  \/ RI!get_node(riRing', h) \notin RI!ToSet(riNodes)
                    \/ RI!get_node(riRing, h) \notin RI!ToSet(riNodes')
  BY DEF RI!MovesAreMinimal
<1>1. /\ h \in Nat /\ riLayout \in [RiNode -> SUBSET RI!Position]
      /\ DOMAIN riRing \in SUBSET Nat /\ DOMAIN riRing' \in SUBSET Nat
  BY Positive DEF RI!TypeOK
<1>2. DOMAIN riRing # {} /\ DOMAIN riRing' # {}
  <2>1. <<>> = [p \in {} |-> p]
    OBVIOUS
  <2>2. ASSUME NEW r, r = [p \in DOMAIN r |-> r[p]], DOMAIN r = {}
        PROVE  r = <<>>
    BY <2>1, <2>2
  <2>3. /\ riRing = [p \in DOMAIN riRing |-> riRing[p]]
        /\ riRing' = [p \in DOMAIN riRing' |-> riRing'[p]]
    BY DEF RI!TypeOK
  <2>4. QED BY <2>2, <2>3
<1>3. /\ RI!FirstFrom(riRing, h) \in DOMAIN riRing
      /\ RI!FirstFrom(riRing', h) \in DOMAIN riRing'
  BY <1>1, <1>2, FirstPosition
<1>4. CASE \E n \in RiNode : RI!add_node(n)
  <2>1. PICK n \in RiNode : RI!add_node(n)
    BY <1>4
  <2>2. n \notin RI!ToSet(riNodes) /\ riRing' = RI!Inserted(riRing, riLayout[n], n)
    BY <2>1 DEF RI!add_node
  <2>3. /\ DOMAIN riRing' = DOMAIN riRing \cup riLayout[n]
        /\ \A p \in DOMAIN riRing' : riRing'[p] = IF p \in riLayout[n] THEN n ELSE riRing[p]
    BY <2>2 DEF RI!Inserted
  <2>4. CASE RI!FirstFrom(riRing', h) \in riLayout[n]
    BY <1>3, <2>2, <2>3, <2>4 DEF RI!get_node
  <2>5. CASE RI!FirstFrom(riRing', h) \notin riLayout[n]
    <3>1. RI!FirstFrom(riRing, h) = RI!FirstFrom(riRing', h)
      BY <1>1, <1>2, <1>3, <2>3, <2>5, SameFirst
    <3>2. QED BY <1>3, <2>3, <2>5, <3>1 DEF RI!get_node
  <2>6. QED BY <2>4, <2>5
<1>5. CASE \E n \in RiNode : RI!remove_node(n)
  <2>1. PICK n \in RiNode : RI!remove_node(n)
    BY <1>5
  <2>2. /\ n \notin RI!ToSet(riNodes')
        /\ DOMAIN riRing' = {p \in DOMAIN riRing : riRing[p] # n}
        /\ \A p \in DOMAIN riRing' : riRing'[p] = riRing[p]
    BY <2>1, RemoveTypes DEF RI!remove_node, RI!Kept
  <2>3. CASE riRing[RI!FirstFrom(riRing, h)] = n
    BY <2>2, <2>3 DEF RI!get_node
  <2>4. CASE riRing[RI!FirstFrom(riRing, h)] # n
    <3>1. RI!FirstFrom(riRing, h) \in DOMAIN riRing'
      BY <1>3, <2>2, <2>4
    <3>2. RI!FirstFrom(riRing', h) = RI!FirstFrom(riRing, h)
      BY <1>1, <1>2, <2>2, <3>1, SameFirst
    <3>3. QED BY <2>2, <3>1, <3>2 DEF RI!get_node
  <2>5. QED BY <2>3, <2>4
<1>6. QED BY <1>4, <1>5 DEF RI!Next

\* A node that joins takes keys over and no other key moves; a node that leaves
\* gives its keys away and no other key moves, shared positions included
\* (consistent_hash.rs:6-7, demo_3_3a_consistent_hashing.rs:200-201).
THEOREM AlwaysMovesAreMinimal ==
  RI!KvRingAssumption => (RI!Spec => [][RI!MovesAreMinimal]_(RI!vars))
<1> SUFFICES ASSUME RI!KvRingAssumption PROVE RI!Spec => [][RI!MovesAreMinimal]_(RI!vars)
  OBVIOUS
<1>1. RI!TypeOK /\ RI!TypeOK' /\ [RI!Next]_(RI!vars) => [RI!MovesAreMinimal]_(RI!vars)
  BY NextMovesLittle
<1>2. QED BY <1>1, RingTypes, PTL DEF RI!Spec

-----------------------------------------------------------------------------
(***************************************************************************)
(* The replicas of a key.  The walk passes the positions from the key on,  *)
(* then all of them again from the start.  What it meets for the first     *)
(* time is nearer than all it has not met.                                 *)
(***************************************************************************)

Held == {riRing[p] : p \in DOMAIN riRing}

From(h) == {p \in DOMAIN riRing : p >= h}

\* The nodes of the first i positions of a walk w.
Met(w, i) == {riRing[w[j]] : j \in 1 .. i}

\* How far clockwise p is from h.
Way(h, p) == (p + RiPositions - h) % RiPositions

IsWalk(w, h, a, k) ==
  /\ a \in Nat /\ k \in Nat
  /\ w \in [1 .. a + k -> DOMAIN riRing]
  /\ \A i \in 1 .. a : w[i] >= h
  /\ \A i, j \in 1 .. a : i < j => w[i] < w[j]
  /\ \A i, j \in a + 1 .. a + k : i < j => w[i] < w[j]
  /\ \A p \in From(h) : \E i \in 1 .. a : w[i] = p
  /\ \A p \in DOMAIN riRing : \E i \in a + 1 .. a + k : w[i] = p

LEMMA InOrder ==
  ASSUME NEW P \in SUBSET Nat, IsFiniteSet(P)
  PROVE  /\ Cardinality(P) \in Nat
         /\ RI!Ascending(P) \in [1 .. Cardinality(P) -> P]
         /\ \A i, j \in 1 .. Cardinality(P) :
              i < j => RI!Ascending(P)[i] < RI!Ascending(P)[j]
         /\ \A p \in P : \E i \in 1 .. Cardinality(P) : RI!Ascending(P)[i] = p
<1>1. RI!Ascending(P) = Ranking(P)
  BY Zenon DEF RI!Ascending, Ranking, RI!Cardinality, Cardinality, RI!IsFiniteSet, IsFiniteSet
<1>2. QED BY <1>1, Ranks

LEMMA WalkFound ==
  ASSUME RI!KvRingAssumption, RI!TypeOK, NEW h \in RI!Position
  PROVE  \E a, k : IsWalk(RI!Walk(h), h, a, k) /\ Len(RI!Walk(h)) = a + k
<1> DEFINE a == Cardinality(From(h))
           k == Cardinality(DOMAIN riRing)
           A == RI!Ascending(From(h))
           B == RI!Ascending(DOMAIN riRing)
<1>1. /\ IsFiniteSet(DOMAIN riRing) /\ DOMAIN riRing \in SUBSET Nat
      /\ IsFiniteSet(From(h)) /\ From(h) \in SUBSET Nat
  <2>1. DOMAIN riRing \in SUBSET RI!Position /\ RI!Position \subseteq Nat
    BY Positive DEF RI!TypeOK
  <2>2. IsFiniteSet(RI!Position)
    BY FS_Interval DEF RI!Position, RI!KvRingAssumption
  <2>3. From(h) \in SUBSET DOMAIN riRing
    BY DEF From
  <2>4. QED BY <2>1, <2>2, <2>3, FS_Subset
<1>2. /\ a \in Nat /\ A \in [1 .. a -> From(h)]
      /\ \A i, j \in 1 .. a : i < j => A[i] < A[j]
      /\ \A p \in From(h) : \E i \in 1 .. a : A[i] = p
  BY <1>1, InOrder
<1>3. /\ k \in Nat /\ B \in [1 .. k -> DOMAIN riRing]
      /\ \A i, j \in 1 .. k : i < j => B[i] < B[j]
      /\ \A p \in DOMAIN riRing : \E i \in 1 .. k : B[i] = p
  BY <1>1, InOrder
<1>4. RI!Walk(h) = A \o B
  BY DEF RI!Walk, From
<1> HIDE DEF a, k, A, B
<1>5. PICK w : w = A \o B
  OBVIOUS
<1>6. A \in Seq(DOMAIN riRing) /\ B \in Seq(DOMAIN riRing) /\ Len(A) = a /\ Len(B) = k
  BY <1>2, <1>3 DEF From
<1>7. /\ w \in Seq(DOMAIN riRing) /\ Len(w) = a + k
      /\ \A i \in 1 .. a : w[i] = A[i]
      /\ \A i \in a + 1 .. a + k : w[i] = B[i - a]
  <2>1. w \in Seq(DOMAIN riRing)
    BY <1>5, <1>6
  <2>2. Len(w) = a + k
    <3>1. Len(A \o B) = Len(A) + Len(B)
      BY <1>6
    <3>2. QED BY <1>5, <1>6, <3>1
  <2>3. ASSUME NEW i \in 1 .. a
        PROVE  w[i] = A[i]
    BY <1>2, <1>5, <1>6, <2>3
  <2>4. ASSUME NEW i \in a + 1 .. a + k
        PROVE  w[i] = B[i - a]
    BY <1>2, <1>3, <1>5, <1>6, <2>4
  <2>5. QED BY <2>1, <2>2, <2>3, <2>4
<1>8. w \in [1 .. a + k -> DOMAIN riRing]
  BY <1>7
<1>9. \A i \in 1 .. a : w[i] >= h
  BY <1>2, <1>7 DEF From
<1>10. \A i, j \in 1 .. a : i < j => w[i] < w[j]
  BY <1>2, <1>7
<1>11. ASSUME NEW i \in a + 1 .. a + k, NEW j \in a + 1 .. a + k, i < j
       PROVE  w[i] < w[j]
  <2>1. i - a \in 1 .. k /\ j - a \in 1 .. k /\ i - a < j - a
    BY <1>2, <1>3, <1>11
  <2>2. QED BY <1>3, <1>7, <2>1
<1>12. \A p \in From(h) : \E i \in 1 .. a : w[i] = p
  BY <1>2, <1>7
<1>13. ASSUME NEW p \in DOMAIN riRing
       PROVE  \E i \in a + 1 .. a + k : w[i] = p
  <2>1. PICK i \in 1 .. k : B[i] = p
    BY <1>3
  <2>2. i + a \in a + 1 .. a + k /\ (i + a) - a = i
    BY <1>2, <1>3
  <2>3. QED BY <1>7, <2>1, <2>2
<1>14. IsWalk(w, h, a, k)
  BY <1>2, <1>3, <1>8, <1>9, <1>10, <1>11, <1>12, <1>13 DEF IsWalk
<1>15. QED BY <1>4, <1>5, <1>7, <1>14

LEMMA Ways ==
  ASSUME RI!KvRingAssumption, NEW h \in RI!Position, NEW p \in RI!Position
  PROVE  /\ Way(h, p) \in Nat
         /\ p >= h => Way(h, p) = p - h
         /\ p < h => Way(h, p) = p + RiPositions - h
<1>1. /\ RiPositions \in Nat /\ p \in Nat /\ h \in Nat
      /\ p < RiPositions /\ h < RiPositions
  BY DEF RI!KvRingAssumption, RI!Position
<1>2. ASSUME NEW x \in Nat, NEW y \in Nat, y > 0, y =< x, x < y + y
      PROVE  x % y = x - y
  BY <1>2
<1>3. ASSUME NEW x \in Nat, NEW y \in Nat, x < y
      PROVE  x % y = x
  BY <1>3
<1>4. CASE p >= h
  BY <1>1, <1>2, <1>4 DEF Way
<1>5. CASE p < h
  BY <1>1, <1>3, <1>5 DEF Way
<1>6. QED BY <1>1, <1>4, <1>5

\* A node that the walk meets for the first time is nearer than those it has not met.
LEMMA FirstMetIsNearest ==
  ASSUME RI!KvRingAssumption, RI!TypeOK, NEW h \in RI!Position,
         NEW w, NEW a, NEW k, IsWalk(w, h, a, k), NEW i \in 1 .. a + k,
         riRing[w[i]] \notin Met(w, i - 1), NEW m \in Held \ Met(w, i)
  PROVE  RI!Distance(h, riRing[w[i]]) < RI!Distance(h, m)
<1> DEFINE At(n) == {q \in DOMAIN riRing : riRing[q] = n}
           Ds(n) == {Way(h, p) : p \in At(n)}
<1>1. /\ a \in Nat /\ k \in Nat /\ w \in [1 .. a + k -> DOMAIN riRing] /\ i \in Nat
      /\ DOMAIN riRing \subseteq RI!Position /\ RI!Position \subseteq Nat /\ h \in Nat
  BY Positive DEF IsWalk, RI!TypeOK
<1>2. \A n : RI!Distance(h, n) = RI!Min(Ds(n))
  BY DEF RI!Distance, Way
<1>3. ASSUME NEW p \in DOMAIN riRing
      PROVE  /\ RI!Distance(h, riRing[p]) \in Nat
             /\ RI!Distance(h, riRing[p]) =< Way(h, p)
             /\ \E q \in DOMAIN riRing : /\ riRing[q] = riRing[p]
                                         /\ RI!Distance(h, riRing[p]) = Way(h, q)
  <2>1. p \in At(riRing[p]) /\ \A q \in At(riRing[p]) : Way(h, q) \in Nat
    BY <1>1, Ways
  <2>2. Ds(riRing[p]) \in SUBSET Nat /\ Way(h, p) \in Ds(riRing[p])
    BY <2>1
  <2> HIDE DEF Ds
  <2>3. /\ RI!Min(Ds(riRing[p])) \in Ds(riRing[p])
        /\ RI!Min(Ds(riRing[p])) =< Way(h, p)
    BY <2>2, MinOfPositions
  <2>4. RI!Min(Ds(riRing[p])) \in Nat
    BY <2>2, <2>3
  <2>5. PICK q \in At(riRing[p]) : RI!Min(Ds(riRing[p])) = Way(h, q)
    BY <2>3 DEF Ds
  <2>6. QED BY <1>2, <2>3, <2>4, <2>5
<1> HIDE DEF Ds, At
<1>4. PICK q \in DOMAIN riRing : riRing[q] = m /\ RI!Distance(h, m) = Way(h, q)
  BY <1>3 DEF Held
<1>5. PICK p \in DOMAIN riRing : p = w[i]
  BY <1>1
<1>6. \A j \in 1 .. i : w[j] # q
  BY <1>4 DEF Met
<1>7. /\ p \in RI!Position /\ q \in RI!Position /\ p \in Nat /\ q \in Nat
      /\ RiPositions \in Nat /\ p < RiPositions
  BY <1>1 DEF RI!Position, RI!KvRingAssumption
<1>8. /\ Way(h, p) \in Nat /\ Way(h, q) \in Nat
      /\ p >= h => Way(h, p) = p - h
      /\ p < h => Way(h, p) = p + RiPositions - h
      /\ q >= h => Way(h, q) = q - h
      /\ q < h => Way(h, q) = q + RiPositions - h
  BY <1>7, Ways
<1>9. Way(h, p) < Way(h, q)
  <2>1. CASE i =< a
    <3>1. i \in 1 .. a /\ p >= h
      BY <1>1, <1>5, <2>1 DEF IsWalk
    <3>2. CASE q >= h
      <4>1. PICK j \in 1 .. a : w[j] = q
        BY <3>2 DEF IsWalk, From
      <4>2. i < j
        BY <1>1, <1>6, <4>1
      <4>3. p < q
        BY <1>5, <3>1, <4>1, <4>2 DEF IsWalk
      <4>4. QED BY <1>1, <1>7, <1>8, <3>1, <3>2, <4>3
    <3>3. CASE q < h
      BY <1>1, <1>7, <1>8, <3>1, <3>3
    <3>4. QED BY <1>1, <1>7, <3>2, <3>3
  <2>2. CASE i > a
    <3>1. ASSUME NEW r \in DOMAIN riRing, r >= h
          PROVE  riRing[r] \in Met(w, i - 1)
      <4>1. PICK j \in 1 .. a : w[j] = r
        BY <3>1 DEF IsWalk, From
      <4>2. j \in 1 .. i - 1
        BY <1>1, <2>2
      <4>3. QED BY <4>1, <4>2 DEF Met
    <3>2. p < h
      BY <1>1, <1>5, <1>7, <3>1
    <3>3. q < h
      <4>1. Met(w, i - 1) \subseteq Met(w, i)
        BY <1>1 DEF Met
      <4>2. ~ (q >= h)
        BY <1>4, <3>1, <4>1
      <4>3. QED BY <1>1, <1>7, <4>2
    <3>4. PICK j \in a + 1 .. a + k : w[j] = q
      BY DEF IsWalk
    <3>5. i < j
      BY <1>1, <1>6, <3>4
    <3>6. p < q
      <4>1. i \in a + 1 .. a + k
        BY <1>1, <2>2
      <4>2. QED BY <1>5, <3>4, <3>5, <4>1 DEF IsWalk
    <3>7. QED BY <1>1, <1>7, <1>8, <3>2, <3>3, <3>6
  <2>3. QED BY <1>1, <2>1, <2>2
<1>10. RI!Distance(h, riRing[w[i]]) \in Nat /\ RI!Distance(h, riRing[w[i]]) =< Way(h, p)
  BY <1>3, <1>5
<1>11. QED BY <1>4, <1>8, <1>9, <1>10
-----------------------------------------------------------------------------
(* The replicas of a key: what get_nodes has after each position of the walk. *)

TakeStep(w, count, g, s) ==
  IF s = {} THEN <<>>
  ELSE RI!Take(g[s \ {RI!Max(s)}], riRing[w[RI!Max(s)]], count)

IsTaking(w, count, g) == g = [s \in SUBSET DOMAIN w |-> TakeStep(w, count, g, s)]

Taking(w, count) == CHOOSE g : IsTaking(w, count, g)

LEMMA TakingIs ==
  ASSUME NEW h, NEW count
  PROVE  RI!get_nodes(h, count) = Taking(RI!Walk(h), count)[DOMAIN RI!Walk(h)]
BY Zenon DEF RI!get_nodes, RI!FoldLeft, RI!MapThenFoldSet, Taking, IsTaking, TakeStep

LEMMA TakeTypes ==
  ASSUME NEW acc \in Seq(Held), NEW n \in Held, NEW count
  PROVE  RI!Take(acc, n, count) \in Seq(Held)
BY DEF RI!Take

LEMMA TakingExists ==
  ASSUME NEW w \in Seq(DOMAIN riRing), NEW count
  PROVE  \E g : IsTaking(w, count, g) /\ g \in [SUBSET DOMAIN w -> Seq(Held)]
<1> DEFINE D == DOMAIN w
<1>1. D = 1 .. Len(w) /\ Len(w) \in Nat /\ IsFiniteSet(D)
  BY FS_Interval
<1>2. \A x \in D : riRing[w[x]] \in Held
  BY DEF Held
<1>3. PICK c : \A s \in SUBSET D : c[s] = RI!Max(s)
  <2>1. \A s \in SUBSET D : [r \in SUBSET D |-> RI!Max(r)][s] = RI!Max(s)
    OBVIOUS
  <2>2. QED BY <2>1, Zenon
<1>4. PICK T : \A x \in D : \A v \in Seq(Held) : T[x][v] = RI!Take(v, riRing[w[x]], count)
  <2>1. \A x \in D : \A v \in Seq(Held) :
          [y \in D |-> [u \in Seq(Held) |-> RI!Take(u, riRing[w[y]], count)]][x][v]
            = RI!Take(v, riRing[w[x]], count)
    OBVIOUS
  <2>2. QED BY <2>1, Zenon
<1>5. ASSUME NEW s \in SUBSET D, s # {}
      PROVE  c[s] = RI!Max(s) /\ c[s] \in s
  BY <1>1, <1>3, <1>5, MaxOfIndices
<1>6. PICK g \in [SUBSET D -> Seq(Held)] : IsFold(c, T, <<>>, D, g)
  <2>1. <<>> \in Seq(Held)
    OBVIOUS
  <2>2. \A x \in D : \A v \in Seq(Held) : T[x][v] \in Seq(Held)
    BY <1>2, <1>4, TakeTypes
  <2>3. \A s \in SUBSET D : s # {} => c[s] \in s
    BY <1>5
  <2> HIDE DEF D
  <2>4. QED BY <1>1, <2>1, <2>2, <2>3, FoldExists
<1>7. ASSUME NEW s \in SUBSET D
      PROVE  g[s] = TakeStep(w, count, g, s)
  <2>1. CASE s = {}
    BY <1>6, <2>1 DEF IsFold, TakeStep
  <2>2. CASE s # {}
    <3>1. c[s] = RI!Max(s) /\ c[s] \in D /\ s \ {c[s]} \in SUBSET D
      BY <1>5, <2>2
    <3>2. g[s] = T[c[s]][g[s \ {c[s]}]]
      BY <1>6, <2>2 DEF IsFold
    <3>3. g[s \ {c[s]}] \in Seq(Held)
      BY <1>6, <3>1
    <3>4. g[s] = RI!Take(g[s \ {c[s]}], riRing[w[c[s]]], count)
      BY <1>4, <3>1, <3>2, <3>3
    <3>5. QED BY <2>2, <3>1, <3>4 DEF TakeStep
  <2>3. QED BY <2>1, <2>2
<1>8. IsTaking(w, count, g)
  BY <1>6, <1>7 DEF IsTaking
<1>9. QED BY <1>6, <1>8

InTurn(h, count, w) ==
  \E acc \in [0 .. Len(w) -> Seq(Held)] :
    /\ acc[0] = <<>>
    /\ \A i \in 1 .. Len(w) : acc[i] = RI!Take(acc[i - 1], riRing[w[i]], count)
    /\ RI!get_nodes(h, count) = acc[Len(w)]

LEMMA TakenInTurn ==
  ASSUME NEW h, NEW count, NEW w \in Seq(DOMAIN riRing), w = RI!Walk(h)
  PROVE  InTurn(h, count, w)
<1>1. PICK g : g = Taking(w, count)
  OBVIOUS
<1>2. IsTaking(w, count, g)
  BY <1>1, TakingExists, Zenon DEF Taking
<1>3. g \in [SUBSET DOMAIN w -> Seq(Held)]
  <2> DEFINE S == {s \in SUBSET DOMAIN w : g[s] \in Seq(Held)}
  <2>1. /\ DOMAIN w = 1 .. Len(w) /\ Len(w) \in Nat /\ IsFiniteSet(DOMAIN w)
        /\ \A x \in DOMAIN w : riRing[w[x]] \in Held
    BY FS_Interval DEF Held
  <2>2. \A s \in SUBSET DOMAIN w : g[s] = TakeStep(w, count, g, s)
    BY <1>2 DEF IsTaking
  <2>3. {} \in S
    <3>1. {} \in SUBSET DOMAIN w /\ <<>> \in Seq(Held)
      OBVIOUS
    <3>2. g[{}] = TakeStep(w, count, g, {})
      BY <2>2, <3>1
    <3>3. TakeStep(w, count, g, {}) = <<>>
      BY DEF TakeStep
    <3>4. g[{}] \in Seq(Held)
      BY <3>1, <3>2, <3>3
    <3>5. QED BY <3>1, <3>4
  <2>4. ASSUME NEW s \in SUBSET DOMAIN w, s # {}, \A x \in s : s \ {x} \in S
        PROVE  s \in S
    <3>1. RI!Max(s) \in s
      BY <2>1, <2>4, MaxOfIndices
    <3>2. g[s \ {RI!Max(s)}] \in Seq(Held)
      BY <2>4, <3>1
    <3>3. g[s] = RI!Take(g[s \ {RI!Max(s)}], riRing[w[RI!Max(s)]], count)
      BY <2>2, <2>4 DEF TakeStep
    <3>4. QED BY <2>1, <3>1, <3>2, <3>3, TakeTypes
  <2> HIDE DEF S
  <2>5. SUBSET DOMAIN w \subseteq S
    BY <2>1, <2>3, <2>4, SubsetsReached
  <2>6. \A s \in SUBSET DOMAIN w : g[s] \in Seq(Held)
    BY <2>5 DEF S
  <2>7. g = [s \in SUBSET DOMAIN w |-> g[s]]
    BY <1>2 DEF IsTaking
  <2>8. QED BY <2>6, <2>7
<1> DEFINE acc == [i \in 0 .. Len(w) |-> g[1 .. i]]
<1>4. Len(w) \in Nat /\ DOMAIN w = 1 .. Len(w)
  OBVIOUS
<1>5. \A i \in 0 .. Len(w) : 1 .. i \in SUBSET DOMAIN w
  BY <1>4
<1>6. acc \in [0 .. Len(w) -> Seq(Held)]
  BY <1>3, <1>5
<1>7. acc[0] = <<>>
  <2>1. 1 .. 0 = {} /\ 0 \in 0 .. Len(w) /\ {} \in SUBSET DOMAIN w
    BY <1>4
  <2>2. g[{}] = <<>>
    BY <1>2, <2>1 DEF IsTaking, TakeStep
  <2>3. QED BY <2>1, <2>2
<1>8. ASSUME NEW i \in 1 .. Len(w)
      PROVE  acc[i] = RI!Take(acc[i - 1], riRing[w[i]], count)
  <2>1. i \in Nat \ {0} /\ i \in 0 .. Len(w) /\ i - 1 \in 0 .. Len(w)
    BY <1>4
  <2>2. 1 .. i # {} /\ RI!Max(1 .. i) = i /\ (1 .. i) \ {i} = 1 .. (i - 1)
    BY <2>1, LastUpto, RingSets
  <2>3. g[1 .. i] = TakeStep(w, count, g, 1 .. i)
    BY <1>2, <1>5, <2>1 DEF IsTaking
  <2>4. g[1 .. i] = RI!Take(g[1 .. (i - 1)], riRing[w[i]], count)
    BY <2>2, <2>3 DEF TakeStep
  <2>5. QED BY <2>1, <2>4
<1>9. RI!get_nodes(h, count) = acc[Len(w)]
  <2>1. RI!get_nodes(h, count) = g[DOMAIN w]
    BY <1>1, TakingIs
  <2>2. QED BY <1>4, <2>1
<1> HIDE DEF acc
<1>10. QED BY <1>6, <1>7, <1>8, <1>9 DEF InTurn

LEMMA SizeOfDistinct ==
  ASSUME NEW T, NEW s \in Seq(T), RI!IsInjective(s)
  PROVE  IsFiniteSet(RI!ToSet(s)) /\ Cardinality(RI!ToSet(s)) = Len(s)
<1>1. Len(s) \in Nat /\ DOMAIN s = 1 .. Len(s) /\ s \in [1 .. Len(s) -> T]
  OBVIOUS
<1>2. /\ RI!ToSet(s) = {s[i] : i \in DOMAIN s}
      /\ \A i, j \in DOMAIN s : s[i] = s[j] => i = j
  BY DEF RI!ToSet, RI!IsInjective
<1>3. s \in [1 .. Len(s) -> RI!ToSet(s)]
  BY <1>1, <1>2
<1>4. s \in Bijection(1 .. Len(s), RI!ToSet(s))
  BY <1>1, <1>2, <1>3 DEF Bijection, Injection, Surjection, IsInjective
<1>5. IsFiniteSet(1 .. Len(s)) /\ Cardinality(1 .. Len(s)) = Len(s)
  <2>1. \A m \in Nat : IsFiniteSet(1 .. m) /\ Cardinality(1 .. m) = m
    BY FS_Interval
  <2>2. QED BY <1>1, <2>1
<1>6. ExistsBijection(1 .. Len(s), RI!ToSet(s))
  BY <1>4 DEF ExistsBijection
<1>7. QED BY <1>5, <1>6, FS_Bijection

\* The entries of s up to x.
Upto(s, x) == {s[j] : j \in 1 .. x}

\* What get_nodes has taken after i positions of the walk.
Chosen(h, count, w, i, s) ==
  /\ s \in Seq(Held) /\ RI!IsInjective(s) /\ RI!ToSet(s) \subseteq Met(w, i)
  /\ Len(s) =< count
  /\ Len(s) >= count \/ Len(s) = Len(riNodes) \/ Met(w, i) \subseteq RI!ToSet(s)
  /\ \A x \in 1 .. Len(s) : \A n \in Held \ Upto(s, x) :
       RI!Distance(h, s[x]) < RI!Distance(h, n)
  /\ Len(s) > 0 => s[1] = riRing[w[1]]

LEMMA ChosenNext ==
  ASSUME RI!KvRingAssumption, RI!TypeOK, NEW h \in RI!Position, NEW count \in Nat,
         NEW w, NEW a, NEW k, IsWalk(w, h, a, k), NEW i \in 1 .. a + k,
         NEW s, Chosen(h, count, w, i - 1, s)
  PROVE  Chosen(h, count, w, i, RI!Take(s, riRing[w[i]], count))
<1> DEFINE n == riRing[w[i]]
           t == Append(s, n)
<1>1. /\ a \in Nat /\ k \in Nat /\ w \in [1 .. a + k -> DOMAIN riRing] /\ i \in Nat /\ i > 0
      /\ Len(s) \in Nat /\ s \in Seq(Held) /\ RI!IsInjective(s) /\ n \in Held
  BY DEF IsWalk, Chosen, Held
<1>2. Met(w, i) = Met(w, i - 1) \cup {n}
  BY <1>1 DEF Met
<1>3. CASE Len(s) >= count \/ Len(s) = Len(riNodes) \/ n \in RI!ToSet(s)
  <2>1. RI!Take(s, n, count) = s
    BY <1>3 DEF RI!Take
  <2>2. RI!ToSet(s) \subseteq Met(w, i)
    BY <1>2 DEF Chosen
  <2>3. Len(s) >= count \/ Len(s) = Len(riNodes) \/ Met(w, i) \subseteq RI!ToSet(s)
    BY <1>2, <1>3 DEF Chosen
  <2> HIDE DEF n
  <2>4. QED BY <2>1, <2>2, <2>3 DEF Chosen, n
<1>4. CASE ~ (Len(s) >= count \/ Len(s) = Len(riNodes) \/ n \in RI!ToSet(s))
  <2>1. RI!Take(s, n, count) = t
    BY <1>4 DEF RI!Take
  <2>2. Met(w, i - 1) = RI!ToSet(s)
    BY <1>4 DEF Chosen
  <2> HIDE DEF n
  <2>3. t \in Seq(Held) /\ RI!IsInjective(t) /\ RI!ToSet(t) = RI!ToSet(s) \cup {n}
    BY <1>1, <1>4, RingJoining
  <2>4. RI!ToSet(t) = Met(w, i)
    BY <1>2, <2>2, <2>3
  <2>5. /\ Len(t) = Len(s) + 1 /\ t[Len(s) + 1] = n
        /\ \A x \in 1 .. Len(s) : t[x] = s[x]
    BY <1>1
  <2>6. ASSUME NEW x \in 1 .. Len(t), NEW m \in Held \ Upto(t, x)
        PROVE  RI!Distance(h, t[x]) < RI!Distance(h, m)
    <3>1. CASE x \in 1 .. Len(s)
      <4>1. Upto(t, x) = Upto(s, x) /\ t[x] = s[x]
        BY <1>1, <2>5, <3>1 DEF Upto
      <4>2. QED BY <2>6, <3>1, <4>1 DEF Chosen
    <3>2. CASE x = Len(s) + 1
      <4>1. Upto(t, x) = RI!ToSet(t)
        BY <1>1, <2>3, <2>5, <3>2 DEF Upto, RI!ToSet
      <4>2. m \in Held \ Met(w, i) /\ n \notin Met(w, i - 1)
        BY <1>4, <2>2, <2>4, <2>6, <4>1
      <4>3. RI!Distance(h, n) < RI!Distance(h, m)
        BY <4>2, FirstMetIsNearest DEF n
      <4>4. QED BY <2>5, <3>2, <4>3
    <3>3. QED BY <1>1, <2>5, <3>1, <3>2
  <2>7. t[1] = riRing[w[1]]
    <3>1. CASE Len(s) > 0
      BY <1>1, <2>5, <3>1 DEF Chosen
    <3>2. CASE Len(s) = 0
      <4>1. RI!ToSet(s) = {}
        BY <1>1, <3>2 DEF RI!ToSet
      <4>2. i = 1
        <5>1. \A j \in 1 .. i - 1 : riRing[w[j]] \in Met(w, i - 1)
          BY DEF Met
        <5>2. 1 .. i - 1 = {}
          BY <2>2, <4>1, <5>1
        <5>3. QED BY <1>1, <5>2
      <4>3. QED BY <2>5, <3>2, <4>2 DEF n
    <3>3. QED BY <1>1, <3>1, <3>2
  <2>8. Len(t) =< count
    BY <1>1, <1>4, <2>5
  <2> HIDE DEF t
  <2>9. Chosen(h, count, w, i, t)
    BY <2>3, <2>4, <2>6, <2>7, <2>8 DEF Chosen
  <2>10. QED BY <2>1, <2>9 DEF n
<1>5. QED BY <1>3, <1>4

LEMMA ChosenAtLast ==
  ASSUME RI!KvRingAssumption, RI!TypeOK, NEW h \in RI!Position, NEW count \in Nat
  PROVE  \E w, a, k : /\ IsWalk(w, h, a, k)
                      /\ Chosen(h, count, w, a + k, RI!get_nodes(h, count))
<1>1. PICK a, k : IsWalk(RI!Walk(h), h, a, k) /\ Len(RI!Walk(h)) = a + k
  BY WalkFound
<1>2. PICK w : w = RI!Walk(h)
  OBVIOUS
<1>3. IsWalk(w, h, a, k) /\ a \in Nat /\ k \in Nat /\ Len(w) = a + k
  BY <1>1, <1>2 DEF IsWalk
<1>4. w \in Seq(DOMAIN riRing)
  BY <1>3 DEF IsWalk
<1>5. PICK acc \in [0 .. a + k -> Seq(Held)] :
        /\ acc[0] = <<>>
        /\ \A i \in 1 .. a + k : acc[i] = RI!Take(acc[i - 1], riRing[w[i]], count)
        /\ RI!get_nodes(h, count) = acc[a + k]
  <2>1. InTurn(h, count, w)
    BY <1>2, <1>4, TakenInTurn
  <2>2. QED BY <1>3, <2>1 DEF InTurn
<1> DEFINE S == {i \in Nat : i =< a + k => Chosen(h, count, w, i, acc[i])}
<1>6. 0 \in S
  <2>1. Chosen(h, count, w, 0, <<>>)
    BY DEF Chosen, Met, Upto, RI!ToSet, RI!IsInjective
  <2>2. QED BY <1>5, <2>1
<1>7. ASSUME NEW i \in Nat, i \in S
      PROVE  i + 1 \in S
  <2>1. CASE i + 1 =< a + k
    <3>1. i + 1 \in 1 .. a + k /\ (i + 1) - 1 = i
      BY <1>3, <2>1
    <3>2. Chosen(h, count, w, (i + 1) - 1, acc[i])
      BY <1>3, <1>7, <2>1, <3>1
    <3>3. acc[i + 1] = RI!Take(acc[i], riRing[w[i + 1]], count)
      BY <1>5, <3>1
    <3> HIDE DEF S
    <3>4. Chosen(h, count, w, i + 1, acc[i + 1])
      BY <1>3, <3>1, <3>2, <3>3, ChosenNext
    <3>5. QED BY <3>4 DEF S
  <2>2. QED BY <2>1
<1> HIDE DEF S
<1>8. a + k \in S
  <2>1. Nat \subseteq S
    BY <1>6, <1>7, NumbersAll
  <2>2. QED BY <1>3, <2>1
<1>9. Chosen(h, count, w, a + k, acc[a + k])
  BY <1>3, <1>8 DEF S
<1>10. QED BY <1>3, <1>5, <1>9

LEMMA FirstOfWalk ==
  ASSUME RI!KvRingAssumption, RI!TypeOK, NEW h \in RI!Position,
         NEW w, NEW a, NEW k, IsWalk(w, h, a, k), DOMAIN riRing # {}
  PROVE  1 \in 1 .. a + k /\ w[1] = RI!FirstFrom(riRing, h)
<1> DEFINE f == RI!FirstFrom(riRing, h)
<1>1. /\ a \in Nat /\ k \in Nat /\ w \in [1 .. a + k -> DOMAIN riRing]
      /\ DOMAIN riRing \in SUBSET Nat /\ h \in Nat /\ \A p \in DOMAIN riRing : p \in Nat
  BY Positive DEF IsWalk, RI!TypeOK
<1>2. /\ f \in DOMAIN riRing
      /\ \A p \in DOMAIN riRing : p >= h => f >= h /\ f =< p
      /\ (\A p \in DOMAIN riRing : p < h) => \A p \in DOMAIN riRing : f =< p
  BY <1>1, FirstPosition
<1> HIDE DEF f
<1>3. CASE f >= h
  <2>1. PICK i \in 1 .. a : w[i] = f
    BY <1>2, <1>3 DEF IsWalk, From
  <2>2. 1 \in 1 .. a /\ 1 \in 1 .. a + k
    BY <1>1
  <2>3. w[1] \in DOMAIN riRing /\ w[1] >= h
    BY <1>1, <2>2 DEF IsWalk
  <2>4. f =< w[1]
    BY <1>2, <2>3
  <2>5. 1 < i => w[1] < w[i]
    BY <2>2 DEF IsWalk
  <2>6. w[1] \in Nat /\ f \in Nat /\ i \in Nat
    BY <1>1, <1>2, <2>3
  <2>7. i = 1
    BY <2>1, <2>4, <2>5, <2>6
  <2>8. QED BY <2>1, <2>2, <2>7 DEF f
<1>4. CASE ~ (f >= h)
  <2>1. \A p \in DOMAIN riRing : ~ (p >= h)
    BY <1>2, <1>4
  <2>2. \A p \in DOMAIN riRing : p < h /\ f =< p
    BY <1>1, <1>2, <2>1
  <2>3. a = 0
    <3>1. ASSUME a > 0 PROVE FALSE
      <4>1. 1 \in 1 .. a /\ w[1] \in DOMAIN riRing
        BY <1>1, <3>1
      <4>2. QED BY <2>1, <4>1 DEF IsWalk
    <3>2. QED BY <1>1, <3>1
  <2>4. PICK i \in 1 .. k : w[i] = f
    BY <1>1, <1>2, <2>3 DEF IsWalk
  <2>5. 1 \in 1 .. k /\ w[1] \in DOMAIN riRing
    BY <1>1, <2>3
  <2>6. 1 < i => w[1] < w[i]
    BY <1>1, <2>3, <2>5 DEF IsWalk
  <2>7. f =< w[1] /\ w[1] \in Nat /\ f \in Nat /\ i \in Nat
    BY <1>1, <1>2, <2>2, <2>5
  <2>8. i = 1
    BY <2>4, <2>6, <2>7
  <2>9. QED BY <1>1, <2>3, <2>4, <2>5, <2>8 DEF f
<1>5. QED BY <1>3, <1>4

LEMMA ReplicasFound ==
  ASSUME RI!KvRingAssumption, RI!TypeOK
  PROVE  RI!ReplicasAreNearest
<1>1. /\ IsFiniteSet(Held) /\ Cardinality(Held) \in Nat /\ Cardinality(Held) =< Len(riNodes)
      /\ Len(riNodes) \in Nat
  <2>1. riNodes \in Seq(RiNode) /\ RI!IsInjective(riNodes) /\ Held \in SUBSET RI!ToSet(riNodes)
    BY DEF RI!TypeOK, Held
  <2>2. /\ IsFiniteSet(RI!ToSet(riNodes)) /\ Cardinality(RI!ToSet(riNodes)) = Len(riNodes)
        /\ Len(riNodes) \in Nat
    BY <2>1, SizeOfDistinct
  <2>3. QED BY <2>1, <2>2, FS_Subset, FS_CardinalityType
<1>2. ASSUME NEW h \in RI!Position, NEW count \in Nat, NEW s, s = RI!get_nodes(h, count)
      PROVE  /\ Len(s) = RI!Min({count, Cardinality(Held)})
             /\ \A i \in DOMAIN s : \A n \in Held \ Upto(s, i) :
                  RI!Distance(h, s[i]) < RI!Distance(h, n)
             /\ s # <<>> => RI!get_node(riRing, h) = s[1]
  <2>1. PICK w, a, k : IsWalk(w, h, a, k) /\ Chosen(h, count, w, a + k, s)
    BY <1>2, ChosenAtLast
  <2>2. /\ s \in Seq(Held) /\ RI!IsInjective(s) /\ Len(s) \in Nat /\ DOMAIN s = 1 .. Len(s)
        /\ a \in Nat /\ k \in Nat /\ w \in [1 .. a + k -> DOMAIN riRing]
    BY <2>1 DEF Chosen, IsWalk
  <2>3. Met(w, a + k) = Held
    <3>1. ASSUME NEW p \in DOMAIN riRing PROVE riRing[p] \in Met(w, a + k)
      <4>1. PICK i \in a + 1 .. a + k : w[i] = p
        BY <2>1 DEF IsWalk
      <4>2. i \in 1 .. a + k
        BY <2>2
      <4>3. QED BY <4>1, <4>2 DEF Met
    <3>2. Met(w, a + k) \subseteq Held
      BY <2>2 DEF Met, Held
    <3>3. QED BY <3>1, <3>2 DEF Held
  <2>4. /\ IsFiniteSet(RI!ToSet(s)) /\ Cardinality(RI!ToSet(s)) = Len(s)
        /\ RI!ToSet(s) \in SUBSET Held
    BY <2>1, <2>2, <2>3, SizeOfDistinct DEF Chosen
  <2>5. /\ Len(s) =< Cardinality(Held)
        /\ RI!ToSet(s) = Held => Len(s) = Cardinality(Held)
    BY <1>1, <2>4, FS_Subset
  <2>6. Len(s) =< count /\ (Len(s) = count \/ Len(s) = Cardinality(Held))
    <3>1. Len(s) =< count /\
            (Len(s) >= count \/ Len(s) = Len(riNodes) \/ Held \subseteq RI!ToSet(s))
      BY <2>1, <2>3 DEF Chosen
    <3>2. Held \subseteq RI!ToSet(s) => Len(s) = Cardinality(Held)
      BY <2>4, <2>5
    <3>3. \A l, c, m \in Nat :
            /\ l =< c /\ c =< m /\ l =< count /\ (l >= count \/ l = m \/ l = c)
            => l =< count /\ (l = count \/ l = c)
      OBVIOUS
    <3>4. /\ Len(s) \in Nat /\ Cardinality(Held) \in Nat /\ Len(riNodes) \in Nat
          /\ Len(s) =< Cardinality(Held) /\ Cardinality(Held) =< Len(riNodes)
      BY <1>1, <2>2, <2>5
    <3>5. QED BY <3>1, <3>2, <3>3, <3>4, Zenon
  <2>7. Len(s) = RI!Min({count, Cardinality(Held)})
    <3>1. {count, Cardinality(Held)} \in SUBSET Nat
      BY <1>1
    <3>2. /\ RI!Min({count, Cardinality(Held)}) \in {count, Cardinality(Held)}
          /\ RI!Min({count, Cardinality(Held)}) =< count
          /\ RI!Min({count, Cardinality(Held)}) =< Cardinality(Held)
      BY <3>1, MinOfPositions
    <3>3. \A l, c, z \in Nat :
            /\ l =< c /\ l =< count /\ (l = count \/ l = c)
            /\ z = count \/ z = c
            /\ z =< count /\ z =< c
            => l = z
      OBVIOUS
    <3>4. /\ RI!Min({count, Cardinality(Held)}) \in Nat
          /\ \/ RI!Min({count, Cardinality(Held)}) = count
             \/ RI!Min({count, Cardinality(Held)}) = Cardinality(Held)
      BY <1>1, <3>2
    <3>5. Len(s) \in Nat /\ Cardinality(Held) \in Nat /\ Len(s) =< Cardinality(Held)
      BY <1>1, <2>2, <2>5
    <3>6. QED BY <2>6, <3>2, <3>3, <3>4, <3>5, Zenon
  <2>8. \A i \in DOMAIN s : \A n \in Held \ Upto(s, i) :
          RI!Distance(h, s[i]) < RI!Distance(h, n)
    BY <2>1, <2>2 DEF Chosen
  <2>9. ASSUME s # <<>> PROVE RI!get_node(riRing, h) = s[1]
    <3>1. Len(s) > 0 /\ s[1] = riRing[w[1]]
      BY <2>1, <2>2, <2>9 DEF Chosen
    <3>2. DOMAIN riRing # {}
      <4>1. s[1] \in Held
        BY <2>2, <3>1
      <4>2. QED BY <4>1 DEF Held
    <3>3. w[1] = RI!FirstFrom(riRing, h)
      BY <2>1, <3>2, FirstOfWalk
    <3>4. QED BY <3>1, <3>3 DEF RI!get_node
  <2>10. QED BY <2>7, <2>8, <2>9
<1>3. ASSUME NEW h \in RI!Position, NEW count \in 0 .. RI!Cardinality(RiNode)
      PROVE  LET placed == {riRing[p] : p \in DOMAIN riRing}
                 result == RI!get_nodes(h, count)
             IN /\ Len(result) = RI!Min({count, RI!Cardinality(placed)})
                /\ \A i \in DOMAIN result : \A n \in placed \ {result[j] : j \in 1 .. i} :
                     RI!Distance(h, result[i]) < RI!Distance(h, n)
                /\ result # <<>> => RI!get_node(riRing, h) = result[1]
  <2>1. count \in Nat
    OBVIOUS
  <2>2. PICK s : s = RI!get_nodes(h, count)
    OBVIOUS
  <2>3. RI!Cardinality({riRing[p] : p \in DOMAIN riRing}) = Cardinality(Held)
    BY RingSets DEF Held
  <2>4. /\ Len(s) = RI!Min({count, Cardinality(Held)})
        /\ \A i \in DOMAIN s : \A n \in Held \ Upto(s, i) :
             RI!Distance(h, s[i]) < RI!Distance(h, n)
        /\ s # <<>> => RI!get_node(riRing, h) = s[1]
    BY <1>2, <2>1, <2>2
  <2>5. QED BY <2>2, <2>3, <2>4 DEF Held, Upto
<1>4. QED BY <1>3 DEF RI!ReplicasAreNearest

\* get_nodes returns distinct nodes, the nearest clockwise first, as many as asked or
\* as there are, and the first is the one that get_node returns, on every ring that
\* adding and removing nodes can make.
THEOREM AlwaysReplicasAreNearest ==
  ASSUME RI!KvRingAssumption
  PROVE  RI!Spec => []RI!ReplicasAreNearest
<1>1. RI!TypeOK => RI!ReplicasAreNearest
  BY ReplicasFound
<1>2. QED BY <1>1, RingTypes, PTL

=============================================================================
