------------------------------ MODULE Data_proofs ------------------------------
(***************************************************************************)
(* Lemmas about the data that the modules share, for the theorems about    *)
(* them: lists without repetitions, minima and maxima, induction over      *)
(* numbers and finite sets, and the sums FoldSet computes.                 *)
(*                                                                         *)
(* The induction is over sets (the set of the numbers, or of the subsets,  *)
(* for which a claim holds), so that the lemmas are of first order.        *)
(***************************************************************************)
EXTENDS DistinctSeq, Naturals, FiniteSets, FiniteSetsExt, FiniteSetTheorems,
        SequenceTheorems, WellFoundedInduction, TLAPS

\* A task that joins a queue takes one place, at its end.
LEMMA Joining ==
  ASSUME NEW T, NEW q \in Seq(T), NEW t \in T, t \notin ToSet(q), IsInjective(q)
  PROVE  /\ Append(q, t) \in Seq(T)
         /\ IsInjective(Append(q, t))
         /\ ToSet(Append(q, t)) = ToSet(q) \cup {t}
         /\ q # <<>> => Head(Append(q, t)) = Head(q)
  <1> DEFINE p == Append(q, t)
  <1>1. /\ p \in Seq(T) /\ Len(p) = Len(q) + 1 /\ p[Len(q) + 1] = t
        /\ \A i \in 1 .. Len(q) : p[i] = q[i]
        /\ DOMAIN p = 1 .. Len(q) + 1 /\ DOMAIN q = 1 .. Len(q) /\ Len(q) \in Nat
    OBVIOUS
  <1>2. \A i \in 1 .. Len(q) : q[i] # t
    BY <1>1 DEF ToSet
  <1>3. IsInjective(p)
    BY <1>1, <1>2 DEF IsInjective
  <1>4. ToSet(p) = ToSet(q) \cup {t}
    <2>1. ASSUME NEW x \in ToSet(p)
          PROVE  x \in ToSet(q) \cup {t}
      BY <1>1, <2>1 DEF ToSet
    <2>2. ASSUME NEW x \in ToSet(q)
          PROVE  x \in ToSet(p)
      BY <1>1, <2>2 DEF ToSet
    <2>3. t \in ToSet(p)
      BY <1>1 DEF ToSet
    <2> QED
      BY <2>1, <2>2, <2>3
  <1>5. q # <<>> => Head(p) = Head(q)
    BY <1>1
  <1> QED
    BY <1>1, <1>3, <1>4, <1>5

\* A task that leaves a queue leaves no place behind, and no other task moves out.
LEMMA Leaving ==
  ASSUME NEW T, NEW q \in Seq(T), NEW t, IsInjective(q)
  PROVE  /\ Leave(q, t) \in Seq(T)
         /\ IsInjective(Leave(q, t))
         /\ ToSet(Leave(q, t)) = ToSet(q) \ {t}
  <1> SUFFICES ASSUME t \in ToSet(q)
               PROVE  /\ Leave(q, t) \in Seq(T)
                      /\ IsInjective(Leave(q, t))
                      /\ ToSet(Leave(q, t)) = ToSet(q) \ {t}
    BY DEF Leave
  <1> DEFINE k == CHOOSE i \in DOMAIN q : q[i] = t
             p == Leave(q, t)
             n == Len(q)
  <1>1. n \in Nat /\ DOMAIN q = 1 .. n /\ k \in 1 .. n /\ q[k] = t
    BY DEF ToSet
  <1>2. p = SubSeq(q, 1, k - 1) \o SubSeq(q, k + 1, n)
    BY DEF Leave, RemoveAt
  <1> HIDE DEF k, p, n
  <1>3. /\ p \in Seq(T) /\ Len(p) = n - 1 /\ DOMAIN p = 1 .. n - 1
        /\ \A i \in 1 .. n - 1 : p[i] = IF i < k THEN q[i] ELSE q[i + 1]
    <2> DEFINE a == SubSeq(q, 1, k - 1)
               b == SubSeq(q, k + 1, n)
    <2>1. /\ a \in Seq(T) /\ Len(a) = k - 1
          /\ \A i \in 1 .. k - 1 : a[i] = q[i]
      BY <1>1 DEF n
    <2>2. /\ b \in Seq(T) /\ Len(b) = n - k
          /\ \A i \in 1 .. n - k : b[i] = q[i + k]
      <3>1. \A i \in k + 1 .. n : q[i] \in T
        BY <1>1 DEF n
      <3>2. /\ b \in Seq(T) /\ Len(b) = IF k + 1 =< n THEN n - (k + 1) + 1 ELSE 0
            /\ \A i \in 1 .. n - (k + 1) + 1 : b[i] = q[(k + 1) + i - 1]
        <4> HIDE DEF b
        <4>1. k + 1 \in Int /\ n \in Int
          BY <1>1
        <4> QED
          BY <3>1, <4>1, SubSeqProperties DEF b
      <3>3. /\ Len(b) = n - k
            /\ \A i \in 1 .. n - k : (k + 1) + i - 1 = i + k
            /\ n - (k + 1) + 1 = n - k
        BY <1>1, <3>2
      <3> QED
        BY <3>2, <3>3
    <2> HIDE DEF a, b
    <2>3. /\ a \o b \in Seq(T) /\ Len(a \o b) = n - 1
          /\ \A i \in 1 .. n - 1 :
               (a \o b)[i] = IF i < k THEN a[i] ELSE b[i - (k - 1)]
      <3>1. /\ a \o b \in Seq(T) /\ Len(a \o b) = Len(a) + Len(b)
            /\ \A i \in 1 .. Len(a) + Len(b) :
                 (a \o b)[i] = IF i <= Len(a) THEN a[i] ELSE b[i - Len(a)]
        BY <2>1, <2>2, ConcatProperties
      <3>2. Len(a) + Len(b) = n - 1
        BY <1>1, <2>1, <2>2
      <3>3. \A i \in 1 .. n - 1 : i <= Len(a) <=> i < k
        BY <1>1, <2>1
      <3> QED
        BY <2>1, <3>1, <3>2, <3>3
    <2>4. p = a \o b
      BY <1>2 DEF a, b
    <2>5. ASSUME NEW i \in 1 .. n - 1
          PROVE  p[i] = IF i < k THEN q[i] ELSE q[i + 1]
      <3>1. CASE i < k
        BY <1>1, <2>1, <2>3, <2>4, <3>1
      <3>2. CASE ~ (i < k)
        <4>1. i - (k - 1) \in 1 .. n - k /\ (i - (k - 1)) + k = i + 1
          BY <1>1, <3>2
        <4>2. b[i - (k - 1)] = q[i + 1]
          BY <2>2, <4>1
        <4> QED
          BY <2>3, <2>4, <3>2, <4>2
      <3> QED
        BY <3>1, <3>2
    <2>6. DOMAIN p = 1 .. n - 1
      BY <2>3, <2>4
    <2> QED
      BY <2>3, <2>4, <2>5, <2>6
  <1>4. IsInjective(p)
    <2> SUFFICES ASSUME NEW i \in 1 .. n - 1, NEW j \in 1 .. n - 1, p[i] = p[j]
                 PROVE  i = j
      BY <1>3 DEF IsInjective
    <2> DEFINE at(m) == IF m < k THEN m ELSE m + 1
    <2>1. at(i) \in 1 .. n /\ at(j) \in 1 .. n
      BY <1>1
    <2>2. q[at(i)] = q[at(j)]
      BY <1>3
    <2>3. at(i) = at(j)
      BY <1>1, <2>1, <2>2 DEF IsInjective
    <2> QED
      BY <1>1, <2>3
  <1>5. ASSUME NEW x \in ToSet(p)
        PROVE  x \in ToSet(q) \ {t}
    <2>1. PICK i \in 1 .. n - 1 : p[i] = x
      BY <1>3 DEF ToSet
    <2>2. PICK j \in 1 .. n : q[j] = x /\ j # k
      BY <1>1, <1>3, <2>1
    <2>3. x # t
      BY <1>1, <2>2 DEF IsInjective
    <2> QED
      BY <1>1, <2>2, <2>3 DEF ToSet
  <1>6. ASSUME NEW x \in ToSet(q) \ {t}
        PROVE  x \in ToSet(p)
    <2>1. PICK i \in 1 .. n : q[i] = x /\ i # k
      BY <1>1 DEF ToSet
    <2>2. CASE i < k
      BY <1>1, <1>3, <2>1, <2>2 DEF ToSet
    <2>3. CASE i > k
      <3>1. i - 1 \in 1 .. n - 1 /\ p[i - 1] = x
        BY <1>1, <1>3, <2>1, <2>3
      <3> QED
        BY <1>3, <3>1 DEF ToSet
    <2> QED
      BY <1>1, <2>1, <2>2, <2>3
  <1>7. ToSet(p) = ToSet(q) \ {t}
    BY <1>5, <1>6
  <1> QED
    BY <1>3, <1>4, <1>7 DEF p

\* The rest of a list without repetitions lacks its first element.
LEMMA Advancing ==
  ASSUME NEW T, NEW q \in Seq(T), q # <<>>, IsInjective(q)
  PROVE  /\ Head(q) \in T /\ Tail(q) \in Seq(T)
         /\ IsInjective(Tail(q))
         /\ Head(q) \in ToSet(q)
         /\ ToSet(Tail(q)) = ToSet(q) \ {Head(q)}
  <1> DEFINE p == Tail(q)
  <1>1. /\ p \in Seq(T) /\ Len(p) = Len(q) - 1 /\ Len(q) \in Nat \ {0}
        /\ DOMAIN p = 1 .. Len(q) - 1 /\ DOMAIN q = 1 .. Len(q)
        /\ \A i \in 1 .. Len(q) - 1 : p[i] = q[i + 1]
        /\ Head(q) = q[1] /\ Head(q) \in T
    OBVIOUS
  <1>2. IsInjective(p)
    BY <1>1 DEF IsInjective
  <1>3. ASSUME NEW x \in ToSet(p)
        PROVE  x \in ToSet(q) \ {Head(q)}
    BY <1>1, <1>3 DEF ToSet, IsInjective
  <1>4. ASSUME NEW x \in ToSet(q) \ {Head(q)}
        PROVE  x \in ToSet(p)
    <2>1. PICK i \in 2 .. Len(q) : q[i] = x
      BY <1>1 DEF ToSet
    <2>2. i - 1 \in 1 .. Len(q) - 1 /\ p[i - 1] = x
      BY <1>1, <2>1
    <2> QED
      BY <1>1, <2>2 DEF ToSet
  <1>5. Head(q) \in ToSet(q)
    BY <1>1 DEF ToSet
  <1> QED
    BY <1>1, <1>2, <1>3, <1>4, <1>5

(***************************************************************************)
(* Numbers.                                                                *)
(***************************************************************************)

\* A set of numbers has a least one.
LEMMA LeastIn ==
  ASSUME NEW S \in SUBSET Nat, S # {}
  PROVE  \E m \in S : \A x \in S : m =< x
  <1>1. PICK m \in S : \A x \in S : ~ (<<x, m>> \in OpToRel(<, Nat))
    BY NatLessThanWellFounded, WFMin
  <1>2. ASSUME NEW x \in S PROVE m =< x
    <2>1. ~ (x < m)
      BY <1>1 DEF OpToRel
    <2> QED
      BY <2>1
  <1> QED
    BY <1>2

\* Induction over the numbers: S is the set of those for which the claim holds.
LEMMA NumbersAll ==
  ASSUME NEW S, 0 \in S, \A n \in Nat : n \in S => n + 1 \in S
  PROVE  Nat \subseteq S
  <1> DEFINE bad == Nat \ S
  <1> SUFFICES ASSUME bad # {} PROVE FALSE
    OBVIOUS
  <1>1. PICK m \in bad : \A x \in bad : m =< x
    BY LeastIn
  <1>2. m \in Nat /\ m # 0
    OBVIOUS
  <1>3. m - 1 \in Nat /\ (m - 1) + 1 = m /\ ~ (m =< m - 1)
    BY <1>2
  <1> QED
    BY <1>1, <1>3

IsIteration(base, T, g) == g = [n \in Nat |-> IF n = 0 THEN base ELSE T[g[n - 1]]]

\* A function on the numbers may be defined by its first value and a step T.
LEMMA IterationExists ==
  ASSUME NEW V, NEW base \in V, NEW T, \A v \in V : T[v] \in V
  PROVE  \E g \in [Nat -> V] : IsIteration(base, T, g)
  <1> DEFINE Upto(n, f) == /\ f \in [0 .. n -> V] /\ f[0] = base
                           /\ \A k \in 1 .. n : f[k] = T[f[k - 1]]
             Good == {n \in Nat : \E f : Upto(n, f)}
             Same == {k \in Nat : \A n, p \in Nat : \A f, g :
                        Upto(n, f) /\ Upto(p, g) /\ k =< n /\ k =< p => f[k] = g[k]}
  <1>1. Upto(0, [k \in 0 .. 0 |-> base])
    OBVIOUS
  <1>2. ASSUME NEW n \in Nat, NEW f, Upto(n, f)
        PROVE  \E g : Upto(n + 1, g)
    <2> DEFINE g == [k \in 0 .. n + 1 |-> IF k = n + 1 THEN T[f[n]] ELSE f[k]]
    <2>1. g \in [0 .. n + 1 -> V]
      BY <1>2
    <2>2. g[0] = base
      BY <1>2
    <2>3. \A k \in 1 .. n + 1 : g[k] = T[g[k - 1]]
      BY <1>2
    <2> QED
      BY <2>1, <2>2, <2>3
  <1>3. Nat \subseteq Good
    <2>1. 0 \in Good
      BY <1>1
    <2>2. \A n \in Nat : n \in Good => n + 1 \in Good
      BY <1>2
    <2> HIDE DEF Good
    <2> QED
      BY <2>1, <2>2, NumbersAll
  <1>4. Nat \subseteq Same
    <2>1. 0 \in Same
      OBVIOUS
    <2>2. ASSUME NEW k \in Nat, k \in Same PROVE k + 1 \in Same
      <3> SUFFICES ASSUME NEW n \in Nat, NEW p \in Nat, NEW f, NEW g,
                          Upto(n, f), Upto(p, g), k + 1 =< n, k + 1 =< p
                   PROVE  f[k + 1] = g[k + 1]
        OBVIOUS
      <3>1. f[k] = g[k]
        <4>1. k =< n /\ k =< p
          OBVIOUS
        <4> HIDE DEF Upto
        <4> QED
          BY <2>2, <4>1
      <3>2. k + 1 \in 1 .. n /\ k + 1 \in 1 .. p /\ (k + 1) - 1 = k
        OBVIOUS
      <3>3. f[k + 1] = T[f[k]] /\ g[k + 1] = T[g[k]]
        BY <3>2
      <3> QED
        BY <3>1, <3>3
    <2> HIDE DEF Same
    <2> QED
      BY <2>1, <2>2, NumbersAll
  <1> DEFINE at(n) == CHOOSE f : Upto(n, f)
             g == [n \in Nat |-> at(n)[n]]
  <1>5. \A n \in Nat : Upto(n, at(n))
    BY <1>3
  <1> HIDE DEF Good, at
  <1>6. g \in [Nat -> V]
    BY <1>5
  <1>7. ASSUME NEW n \in Nat PROVE g[n] = IF n = 0 THEN base ELSE T[g[n - 1]]
    <2>1. CASE n = 0
      BY <1>5, <2>1
    <2>2. CASE n # 0
      <3>1. n - 1 \in Nat /\ n - 1 =< n /\ n \in 1 .. n
        BY <2>2
      <3>2. Upto(n, at(n)) /\ Upto(n - 1, at(n - 1))
        BY <1>5, <3>1
      <3>3. at(n)[n - 1] = at(n - 1)[n - 1]
        <4>1. n - 1 \in Same
          BY <1>4, <3>1
        <4> QED
          BY <3>1, <3>2, <4>1
      <3>4. at(n)[n] = T[at(n)[n - 1]]
        BY <3>1, <3>2
      <3> QED
        BY <2>2, <3>1, <3>3, <3>4
    <2> QED
      BY <2>1, <2>2
  <1>8. IsIteration(base, T, g)
    <2> HIDE DEF g
    <2> QED
      BY <1>6, <1>7 DEF IsIteration
  <1> QED
    BY <1>6, <1>8

\* The minimum and the maximum of a bounded set of numbers.
LEMMA LeastOf ==
  ASSUME NEW S \in SUBSET Nat, S # {}
  PROVE  Min(S) \in S /\ \A x \in S : Min(S) =< x
  BY LeastIn DEF Min

LEMMA GreatestOf ==
  ASSUME NEW n \in Nat, NEW S \in SUBSET (0 .. n), S # {}
  PROVE  Max(S) \in S /\ \A x \in S : Max(S) >= x
  <1> DEFINE R == {n - x : x \in S}
  <1>1. R \in SUBSET Nat /\ R # {}
    <2>1. \A x \in S : n - x \in Nat
      OBVIOUS
    <2> QED
      BY <2>1
  <1>2. Min(R) \in R /\ \A y \in R : Min(R) =< y
    BY <1>1, LeastOf
  <1>3. PICK m \in S : Min(R) = n - m
    BY <1>2
  <1>4. ASSUME NEW x \in S
        PROVE  m >= x
    <2>1. n - m =< n - x
      BY <1>2, <1>3
    <2>2. m \in Nat /\ x \in Nat
      OBVIOUS
    <2> QED
      BY <2>1, <2>2
  <1> QED
    BY <1>4 DEF Max

\* The last of the first i numbers.
LEMMA LastUpto ==
  ASSUME NEW i \in Nat \ {0}
  PROVE  1 .. i # {} /\ Max(1 .. i) = i /\ (1 .. i) \ {i} = 1 .. (i - 1)
  <1>1. 1 .. i \in SUBSET (0 .. i) /\ i \in 1 .. i
    OBVIOUS
  <1>2. Max(1 .. i) \in 1 .. i /\ Max(1 .. i) >= i
    BY <1>1, GreatestOf
  <1> QED
    BY <1>2

(***************************************************************************)
(* Finite sets.                                                            *)
(***************************************************************************)

\* The element that a fold takes out of a set.
First(s) == CHOOSE x \in s : TRUE

\* The subsets of D with at most n elements.
Small(D, n) == {s \in SUBSET D : Cardinality(s) =< n}

LEMMA FirstOut ==
  ASSUME NEW D, IsFiniteSet(D), NEW s \in SUBSET D, s # {}
  PROVE  /\ First(s) \in s /\ s \ {First(s)} \in SUBSET D
         /\ Cardinality(s) \in Nat /\ Cardinality(s) > 0
         /\ Cardinality(s \ {First(s)}) = Cardinality(s) - 1
  <1>1. First(s) \in s
    BY DEF First
  <1>2. IsFiniteSet(s)
    BY FS_Subset
  <1>3. Cardinality(s) \in Nat /\ Cardinality(s) # 0
    BY <1>2, FS_CardinalityType, FS_EmptySet
  <1>4. Cardinality(s \ {First(s)}) = Cardinality(s) - 1
    BY <1>1, <1>2, FS_RemoveElement
  <1> QED
    BY <1>1, <1>3, <1>4

\* The i-th element of a finite set of numbers is the one with i - 1 below it.
Ranking(P) ==
  [i \in 1 .. Cardinality(P) |-> CHOOSE p \in P : Cardinality({q \in P : q < p}) = i - 1]

\* It lists the set in order.
LEMMA Ranks ==
  ASSUME NEW P \in SUBSET Nat, IsFiniteSet(P), NEW A, A = Ranking(P)
  PROVE  /\ Cardinality(P) \in Nat
         /\ A \in [1 .. Cardinality(P) -> P]
         /\ \A i, j \in 1 .. Cardinality(P) : i < j => A[i] < A[j]
         /\ \A p \in P : \E i \in 1 .. Cardinality(P) : A[i] = p
  <1> DEFINE Below(p) == {q \in P : q < p}
             N == Cardinality(P)
             rank == [p \in P |-> Cardinality(Below(p)) + 1]
  <1>1. N \in Nat
    BY FS_CardinalityType
  <1>2. ASSUME NEW p \in P
        PROVE  /\ Cardinality(Below(p)) \in Nat /\ Cardinality(Below(p)) < N
               /\ IsFiniteSet(Below(p))
    <2>1. Below(p) \in SUBSET P /\ Below(p) # P
      <3>1. p \notin Below(p)
        OBVIOUS
      <3> QED
        BY <3>1
    <2> HIDE DEF Below
    <2>2. IsFiniteSet(Below(p)) /\ Cardinality(Below(p)) =< N /\ Cardinality(Below(p)) # N
      BY <2>1, FS_Subset
    <2>3. Cardinality(Below(p)) \in Nat
      BY <2>2, FS_CardinalityType
    <2> HIDE DEF N
    <2> QED
      BY <1>1, <2>2, <2>3
  <1>3. ASSUME NEW p \in P, NEW r \in P, p < r
        PROVE  rank[p] < rank[r]
    <2>1. Below(p) \in SUBSET Below(r) /\ p \in Below(r) /\ p \notin Below(p)
      <3>1. p \in Nat /\ r \in Nat /\ \A q \in P : q \in Nat
        OBVIOUS
      <3>2. \A q \in P : q < p => q < r
        BY <1>3, <3>1
      <3>3. \A q : q \in Below(p) => q \in Below(r)
        BY <3>2
      <3>4. p \in Below(r)
        BY <1>3
      <3>5. p \notin Below(p)
        <4>1. ~ (p < p)
          BY <3>1
        <4> QED
          BY <4>1
      <3> HIDE DEF Below
      <3> QED
        BY <3>3, <3>4, <3>5
    <2>2. IsFiniteSet(Below(r)) /\ Cardinality(Below(p)) \in Nat /\ Cardinality(Below(r)) \in Nat
      BY <1>2
    <2> HIDE DEF Below
    <2>3. Cardinality(Below(p)) =< Cardinality(Below(r)) /\ Cardinality(Below(p)) # Cardinality(Below(r))
      BY <2>1, <2>2, FS_Subset
    <2> QED
      BY <2>2, <2>3
  <1>4. \A p \in P : rank[p] \in 1 .. N
    <2> HIDE DEF Below, N
    <2> QED
      BY <1>1, <1>2
  <1>5. rank \in [P -> 1 .. N] /\ \A p, r \in P : rank[p] = rank[r] => p = r
    <2>1. \A p, r \in P : p < r \/ r < p \/ p = r
      OBVIOUS
    <2>2. rank = [p \in P |-> rank[p]]
      OBVIOUS
    <2> HIDE DEF rank, N
    <2>3. rank \in [P -> 1 .. N]
      BY <1>4, <2>2
    <2>4. \A p \in P : rank[p] \in Nat
      BY <1>4
    <2> QED
      BY <1>3, <2>1, <2>3, <2>4
  <1>6. rank \in Surjection(P, 1 .. N)
    <2>1. IsFiniteSet(1 .. N) /\ Cardinality(1 .. N) = N
      BY <1>1, FS_Interval
    <2> HIDE DEF rank
    <2>2. rank \in Injection(P, 1 .. N)
      BY <1>5 DEF Injection, IsInjective
    <2> QED
      BY <2>1, <2>2, FS_Injection
  <1>7. ASSUME NEW i \in 1 .. N
        PROVE  A[i] \in P /\ rank[A[i]] = i
    <2>1. PICK p \in P : rank[p] = i
      BY <1>6 DEF Surjection
    <2>2. Cardinality(Below(p)) = i - 1
      BY <1>2, <2>1
    <2>3. A[i] \in P /\ Cardinality(Below(A[i])) = i - 1
      BY <2>2 DEF Ranking
    <2>4. rank[A[i]] = (i - 1) + 1
      BY <2>3
    <2> QED
      BY <2>3, <2>4
  <1> HIDE DEF rank, N
  <1>8. \A p \in P : rank[p] \in 1 .. N /\ A[rank[p]] = p
    BY <1>4, <1>5, <1>7
  <1>9. ASSUME NEW i \in 1 .. N, NEW j \in 1 .. N, i < j
        PROVE  A[i] < A[j]
    <2>1. A[i] \in P /\ A[j] \in P /\ rank[A[i]] = i /\ rank[A[j]] = j
      BY <1>7
    <2>2. A[i] \in Nat /\ A[j] \in Nat
      BY <2>1
    <2>3. i \in Nat /\ j \in Nat
      BY <1>1
    <2>4. ~ (A[j] < A[i])
      <3>1. A[j] < A[i] => j < i
        BY <1>3, <2>1
      <3> QED
        BY <1>9, <2>3, <3>1
    <2>5. A[i] # A[j]
      BY <1>9, <2>1, <2>3
    <2> QED
      BY <2>2, <2>4, <2>5
  <1>10. A \in [1 .. N -> P]
    BY <1>7 DEF N, Ranking
  <1> QED
    BY <1>1, <1>8, <1>9, <1>10 DEF N

\* Two lists of one set of numbers, both in order, are the same list.
Listing(k, p, T) ==
  /\ k \in Nat /\ p \in [1 .. k -> Nat]
  /\ \A i, j \in 1 .. k : i < j => p[i] < p[j]
  /\ {p[i] : i \in 1 .. k} = T

LEMMA ListingsAgree ==
  ASSUME NEW T, NEW k, NEW p, NEW l, NEW q, Listing(k, p, T), Listing(l, q, T),
         NEW i \in 1 .. k, \A j \in 1 .. i - 1 : j \in 1 .. l /\ p[j] = q[j]
  PROVE  i \in 1 .. l /\ p[i] = q[i]
  <1>1. /\ k \in Nat /\ p \in [1 .. k -> Nat] /\ l \in Nat /\ q \in [1 .. l -> Nat]
        /\ i \in Nat /\ i > 0
    BY DEF Listing
  <1>2. PICK y \in 1 .. l : q[y] = p[i]
    BY DEF Listing
  <1>3. y >= i
    <2> SUFFICES ASSUME y < i PROVE FALSE
      BY <1>1
    <2>1. y \in 1 .. i - 1 /\ y \in 1 .. k
      BY <1>1
    <2>2. p[y] = p[i] /\ p[y] < p[i]
      BY <1>2, <2>1 DEF Listing
    <2>3. p[y] \in Nat /\ p[i] \in Nat
      BY <1>1, <2>1
    <2> QED
      BY <2>2, <2>3
  <1>4. i \in 1 .. l
    BY <1>1, <1>3
  <1>5. PICK x \in 1 .. k : p[x] = q[i]
    BY <1>4 DEF Listing
  <1>6. x >= i
    <2> SUFFICES ASSUME x < i PROVE FALSE
      BY <1>1
    <2>1. x \in 1 .. i - 1 /\ x \in 1 .. l /\ p[x] = q[x]
      BY <1>1
    <2>2. q[x] = q[i] /\ q[x] < q[i]
      BY <1>4, <1>5, <2>1 DEF Listing
    <2>3. q[x] \in Nat /\ q[i] \in Nat
      BY <1>1, <1>4, <2>1
    <2> QED
      BY <2>2, <2>3
  <1>7. p[i] \in Nat /\ q[i] \in Nat /\ p[x] \in Nat /\ q[y] \in Nat
    BY <1>1, <1>4
  <1>8. q[i] =< p[i]
    <2>1. i < y => q[i] < q[y]
      BY <1>4 DEF Listing
    <2> QED
      BY <1>1, <1>2, <1>3, <1>7, <2>1
  <1>9. p[i] =< q[i]
    <2>1. i < x => p[i] < p[x]
      BY DEF Listing
    <2> QED
      BY <1>1, <1>5, <1>6, <1>7, <2>1
  <1> QED
    BY <1>4, <1>7, <1>8, <1>9

LEMMA OneListing ==
  ASSUME NEW T, NEW k, NEW p, NEW l, NEW q, Listing(k, p, T), Listing(l, q, T)
  PROVE  k = l /\ \A i \in 1 .. k : p[i] = q[i]
  <1> DEFINE S == {n \in Nat : \A i \in 1 .. n : i =< k => i \in 1 .. l /\ p[i] = q[i]}
             Q == {n \in Nat : \A i \in 1 .. n : i =< l => i \in 1 .. k /\ q[i] = p[i]}
  <1>1. k \in Nat /\ l \in Nat
    BY DEF Listing
  <1>2. 0 \in S /\ 0 \in Q
    OBVIOUS
  <1>3. ASSUME NEW n \in Nat, n \in S
        PROVE  n + 1 \in S
    <2>1. CASE n + 1 =< k
      <3>1. n + 1 \in 1 .. k
        BY <1>1, <2>1
      <3>2. \A j \in 1 .. (n + 1) - 1 : j \in 1 .. l /\ p[j] = q[j]
        BY <1>1, <1>3, <2>1
      <3>3. n + 1 \in 1 .. l /\ p[n + 1] = q[n + 1]
        BY <3>1, <3>2, ListingsAgree
      <3>4. \A i \in 1 .. n + 1 : i \in 1 .. n \/ i = n + 1
        OBVIOUS
      <3> QED
        BY <1>3, <3>3, <3>4
    <2>2. CASE ~ (n + 1 =< k)
      <3>1. \A i \in 1 .. n + 1 : i =< k => i \in 1 .. n
        BY <1>1, <2>2
      <3> QED
        BY <1>3, <3>1
    <2> QED
      BY <2>1, <2>2
  <1>4. ASSUME NEW n \in Nat, n \in Q
        PROVE  n + 1 \in Q
    <2>1. CASE n + 1 =< l
      <3>1. n + 1 \in 1 .. l
        BY <1>1, <2>1
      <3>2. \A j \in 1 .. (n + 1) - 1 : j \in 1 .. k /\ q[j] = p[j]
        BY <1>1, <1>4, <2>1
      <3>3. n + 1 \in 1 .. k /\ q[n + 1] = p[n + 1]
        BY <3>1, <3>2, ListingsAgree
      <3>4. \A i \in 1 .. n + 1 : i \in 1 .. n \/ i = n + 1
        OBVIOUS
      <3> QED
        BY <1>4, <3>3, <3>4
    <2>2. CASE ~ (n + 1 =< l)
      <3>1. \A i \in 1 .. n + 1 : i =< l => i \in 1 .. n
        BY <1>1, <2>2
      <3> QED
        BY <1>4, <3>1
    <2> QED
      BY <2>1, <2>2
  <1> HIDE DEF S, Q
  <1>5. Nat \subseteq S /\ Nat \subseteq Q
    BY <1>2, <1>3, <1>4, NumbersAll
  <1>6. \A i \in 1 .. k : i \in 1 .. l /\ p[i] = q[i]
    <2>1. k \in S
      BY <1>1, <1>5
    <2> QED
      BY <1>1, <2>1 DEF S
  <1>7. \A i \in 1 .. l : i \in 1 .. k
    <2>1. l \in Q
      BY <1>1, <1>5
    <2> QED
      BY <1>1, <2>1 DEF Q
  <1>8. k = l
    <2>1. ~ (k < l)
      BY <1>1, <1>7
    <2>2. ~ (l < k)
      BY <1>1, <1>6
    <2> QED
      BY <1>1, <2>1, <2>2
  <1> QED
    BY <1>6, <1>8

\* Induction over the subsets of a finite set: S is the set of those for which the
\* claim holds.
LEMMA SubsetsReached ==
  ASSUME NEW D, IsFiniteSet(D), NEW S, {} \in S,
         \A s \in SUBSET D : s # {} /\ (\A x \in s : s \ {x} \in S) => s \in S
  PROVE  SUBSET D \subseteq S
  <1> DEFINE bad == {Cardinality(s) : s \in (SUBSET D) \ S}
  <1> SUFFICES ASSUME bad # {} PROVE FALSE
    OBVIOUS
  <1>1. bad \subseteq Nat
    BY FS_Subset, FS_CardinalityType
  <1>2. PICK m \in bad : \A x \in bad : m =< x
    BY <1>1, LeastIn
  <1>3. PICK s \in (SUBSET D) \ S : m = Cardinality(s)
    BY <1>2
  <1>4. s # {} /\ IsFiniteSet(s) /\ m \in Nat
    BY <1>1, <1>3, FS_Subset
  <1>5. PICK x \in s : s \ {x} \notin S
    BY <1>3, <1>4
  <1>6. Cardinality(s \ {x}) = m - 1
    BY <1>3, <1>4, FS_RemoveElement
  <1>7. m =< m - 1
    BY <1>2, <1>5, <1>6
  <1> QED
    BY <1>4, <1>7

LEMMA SubsetsAll ==
  ASSUME NEW D, IsFiniteSet(D), NEW S, {} \in S,
         \A s \in SUBSET D : s # {} /\ s \ {First(s)} \in S => s \in S
  PROVE  SUBSET D \subseteq S
  <1>1. ASSUME NEW s \in SUBSET D, s # {}, \A x \in s : s \ {x} \in S
        PROVE  s \in S
    BY <1>1, FirstOut
  <1> QED
    BY <1>1, SubsetsReached

IsFold(c, T, base, D, g) ==
  \A s \in SUBSET D : g[s] = IF s = {} THEN base ELSE T[c[s]][g[s \ {c[s]}]]

\* A fold over a finite set exists: one over the small subsets extends to the larger
\* ones. c[s] is the element that is taken out of s, T one step.
LEMMA FoldExists ==
  ASSUME NEW D, IsFiniteSet(D), NEW V, NEW base \in V,
         NEW c, \A s \in SUBSET D : s # {} => c[s] \in s,
         NEW T, \A x \in D : \A v \in V : T[x][v] \in V
  PROVE  \E g \in [SUBSET D -> V] : IsFold(c, T, base, D, g)
  <1> DEFINE Step(g, s) == IF s = {} THEN base ELSE T[c[s]][g[s \ {c[s]}]]
             Upto(n) == \E g \in [Small(D, n) -> V] : \A s \in Small(D, n) : g[s] = Step(g, s)
             Good == {n \in Nat : Upto(n)}
  <1>1. ASSUME NEW s \in SUBSET D, s # {}
        PROVE  /\ c[s] \in D /\ s \ {c[s]} \in SUBSET D
               /\ Cardinality(s) \in Nat /\ Cardinality(s) > 0
               /\ Cardinality(s \ {c[s]}) = Cardinality(s) - 1
    <2>1. c[s] \in s /\ IsFiniteSet(s)
      BY <1>1, FS_Subset
    <2>2. Cardinality(s) \in Nat /\ Cardinality(s) # 0
      BY <1>1, <2>1, FS_CardinalityType, FS_EmptySet
    <2>3. Cardinality(s \ {c[s]}) = Cardinality(s) - 1
      BY <2>1, FS_RemoveElement
    <2> QED
      BY <2>1, <2>2, <2>3
  <1>2. Upto(0)
    <2> DEFINE g == [s \in Small(D, 0) |-> base]
    <2>1. ASSUME NEW s \in Small(D, 0) PROVE s = {}
      <3>1. Cardinality(s) =< 0 /\ s \in SUBSET D
        BY DEF Small
      <3>2. s # {} => Cardinality(s) \in Nat /\ Cardinality(s) > 0
        BY <1>1, <3>1
      <3> QED
        BY <3>1, <3>2
    <2>2. g \in [Small(D, 0) -> V] /\ \A s \in Small(D, 0) : g[s] = Step(g, s)
      BY <2>1
    <2> QED
      BY <2>2
  <1>3. ASSUME NEW n \in Nat, Upto(n) PROVE Upto(n + 1)
    <2>1. PICK h \in [Small(D, n) -> V] : \A s \in Small(D, n) : h[s] = Step(h, s)
      BY <1>3
    <2> DEFINE g == [s \in Small(D, n + 1) |-> Step(h, s)]
    <2>2. ASSUME NEW s \in Small(D, n + 1), s # {}
          PROVE  c[s] \in D /\ s \ {c[s]} \in Small(D, n)
      BY <1>1, <2>2 DEF Small
    <2>3. g \in [Small(D, n + 1) -> V]
      <3>1. ASSUME NEW s \in Small(D, n + 1) PROVE Step(h, s) \in V
        BY <2>2
      <3> QED
        BY <3>1
    <2>4. ASSUME NEW s \in Small(D, n) PROVE s \in Small(D, n + 1) /\ g[s] = h[s]
      <3>1. s \in Small(D, n + 1)
        <4>1. Cardinality(s) \in Nat /\ Cardinality(s) =< n
          BY FS_Subset, FS_CardinalityType DEF Small
        <4> QED
          BY <4>1 DEF Small
      <3> QED
        BY <2>1, <3>1
    <2>5. ASSUME NEW s \in Small(D, n + 1) PROVE g[s] = Step(g, s)
      BY <2>2, <2>4
    <2> QED
      BY <2>3, <2>5
  <1>4. Nat \subseteq Good
    <2>1. 0 \in Good /\ \A n \in Nat : n \in Good => n + 1 \in Good
      BY <1>2, <1>3, 0 \in Nat, \A n \in Nat : n + 1 \in Nat, Zenon
    <2> HIDE DEF Good
    <2> QED
      BY <2>1, NumbersAll
  <1>5. Upto(Cardinality(D))
    BY <1>4, FS_CardinalityType
  <1>6. Small(D, Cardinality(D)) = SUBSET D
    <2>1. ASSUME NEW s \in SUBSET D PROVE Cardinality(s) =< Cardinality(D)
      BY FS_Subset
    <2> QED
      BY <2>1 DEF Small
  <1> QED
    BY <1>5, <1>6 DEF IsFold

(***************************************************************************)
(* Sums.                                                                   *)
(***************************************************************************)

\* The function on the subsets of D that FoldSet defines, and its value on D.
SumStep(f, g, s) == IF s = {} THEN 0 ELSE f[First(s)] + g[s \ {First(s)}]
IsSum(f, D, g) == g = [s \in SUBSET D |-> SumStep(f, g, s)]
SumFcn(f, D) == CHOOSE g : IsSum(f, D, g)
SumOf(f, D) == FoldSet(LAMBDA x, y : f[x] + y, 0, D)

LEMMA SumIs ==
  ASSUME NEW f, NEW D
  PROVE  SumOf(f, D) = SumFcn(f, D)[D]
  BY Zenon DEF SumOf, FoldSet, MapThenFoldSet, SumFcn, IsSum, SumStep, First

\* The sum of a finite set exists, is a number, and each term adds to it.
LEMMA SumExists ==
  ASSUME NEW D, IsFiniteSet(D), NEW f \in [D -> Nat]
  PROVE  \E g : IsSum(f, D, g)
  <1>1. PICK c : \A s \in SUBSET D : c[s] = First(s)
    <2>1. \A s \in SUBSET D : [r \in SUBSET D |-> First(r)][s] = First(s)
      OBVIOUS
    <2> QED
      BY <2>1, Zenon
  <1>2. PICK T : \A x \in D : \A v \in Nat : T[x][v] = f[x] + v
    <2>1. \A x \in D : \A v \in Nat : [y \in D |-> [w \in Nat |-> f[y] + w]][x][v] = f[x] + v
      OBVIOUS
    <2> QED
      BY <2>1, Zenon
  <1>3. PICK g \in [SUBSET D -> Nat] : IsFold(c, T, 0, D, g)
    <2>1. \A s \in SUBSET D : s # {} => c[s] \in s
      BY <1>1, FirstOut
    <2>2. 0 \in Nat /\ \A x \in D : \A v \in Nat : T[x][v] \in Nat
      BY <1>2
    <2> QED
      BY <2>1, <2>2, FoldExists, Zenon
  <1>4. ASSUME NEW s \in SUBSET D
        PROVE  g[s] = SumStep(f, g, s)
    <2>1. CASE s = {}
      BY <1>3, <2>1 DEF IsFold, SumStep
    <2>2. CASE s # {}
      <3>1. /\ First(s) \in D /\ s \ {First(s)} \in SUBSET D
            /\ c[s] = First(s)
        BY <1>1, <2>2, FirstOut
      <3>2. g[s] = T[First(s)][g[s \ {First(s)}]]
        BY <1>3, <2>2, <3>1 DEF IsFold
      <3>3. g[s] = f[First(s)] + g[s \ {First(s)}]
        BY <1>2, <3>1, <3>2
      <3> QED
        BY <2>2, <3>3 DEF SumStep
    <2> QED
      BY <2>1, <2>2
  <1> QED
    BY <1>4 DEF IsSum

LEMMA SumFacts ==
  ASSUME NEW D, IsFiniteSet(D), NEW f \in [D -> Nat]
  PROVE  /\ SumFcn(f, D) \in [SUBSET D -> Nat]
         /\ \A s \in SUBSET D : SumFcn(f, D)[s] = SumStep(f, SumFcn(f, D), s)
  <1> DEFINE g == SumFcn(f, D)
             S == {s \in SUBSET D : g[s] \in Nat}
  <1>1. IsSum(f, D, g)
    BY SumExists DEF SumFcn
  <1> HIDE DEF g
  <1>2. \A s \in SUBSET D : g[s] = SumStep(f, g, s)
    BY <1>1 DEF IsSum
  <1>3. {} \in S
    BY <1>2 DEF SumStep
  <1>4. ASSUME NEW s \in SUBSET D, s # {}, s \ {First(s)} \in S
        PROVE  s \in S
    <2>1. First(s) \in D
      BY <1>4, FirstOut
    <2>2. g[s] = f[First(s)] + g[s \ {First(s)}]
      BY <1>2, <1>4 DEF SumStep
    <2> QED
      BY <1>4, <2>1, <2>2
  <1>5. SUBSET D \subseteq S
    <2> HIDE DEF S
    <2> QED
      BY <1>3, <1>4, SubsetsAll
  <1>6. DOMAIN g = SUBSET D /\ g = [s \in SUBSET D |-> g[s]]
    BY <1>1 DEF IsSum
  <1>7. g \in [SUBSET D -> Nat]
    BY <1>5, <1>6
  <1> QED
    BY <1>2, <1>7 DEF g

LEMMA SumInNat ==
  ASSUME NEW D, IsFiniteSet(D), NEW f \in [D -> Nat]
  PROVE  SumOf(f, D) \in Nat
  <1> DEFINE F == SumFcn(f, D)
  <1>1. F[D] \in Nat
    <2>1. F \in [SUBSET D -> Nat] /\ D \in SUBSET D
      BY SumFacts
    <2> HIDE DEF F
    <2> QED
      BY <2>1
  <1> QED
    BY <1>1, SumIs

\* The sum follows one of its terms.
LEMMA SumChanges ==
  ASSUME NEW D, IsFiniteSet(D), NEW f \in [D -> Nat], NEW d \in D, NEW k \in Nat,
         NEW h, h = [f EXCEPT ![d] = f[d] + k]
  PROVE  SumOf(h, D) = SumOf(f, D) + k
  <1> DEFINE F == SumFcn(f, D)
             H == SumFcn(h, D)
             S == {s \in SUBSET D : H[s] = IF d \in s THEN F[s] + k ELSE F[s]}
  <1>1. h \in [D -> Nat] /\ h[d] = f[d] + k /\ \A x \in D \ {d} : h[x] = f[x]
    OBVIOUS
  <1>2. /\ F \in [SUBSET D -> Nat] /\ \A s \in SUBSET D : F[s] = SumStep(f, F, s)
        /\ H \in [SUBSET D -> Nat] /\ \A s \in SUBSET D : H[s] = SumStep(h, H, s)
    BY <1>1, SumFacts
  <1> HIDE DEF F, H
  <1>3. {} \in S
    BY <1>2 DEF SumStep
  <1>4. ASSUME NEW s \in SUBSET D, s # {}, s \ {First(s)} \in S
        PROVE  s \in S
    <2> DEFINE x == First(s)
               r == s \ {x}
    <2>1. x \in s /\ x \in D /\ r \in SUBSET D
      BY <1>4, FirstOut
    <2>2. F[s] = f[x] + F[r] /\ H[s] = h[x] + H[r]
      BY <1>2, <1>4 DEF SumStep
    <2>3. H[r] = IF d \in r THEN F[r] + k ELSE F[r]
      BY <1>4
    <2>4. F[r] \in Nat /\ f[x] \in Nat
      BY <1>2, <2>1
    <2> HIDE DEF x, r
    <2>5. CASE d = x
      <3>1. d \in s /\ d \notin r
        BY <2>1, <2>5 DEF r
      <3> QED
        BY <1>1, <2>2, <2>3, <2>4, <2>5, <3>1
    <2>6. CASE d # x
      <3>1. d \in s <=> d \in r
        BY <2>6 DEF r
      <3> QED
        BY <1>1, <2>1, <2>2, <2>3, <2>4, <2>6, <3>1
    <2> QED
      BY <2>5, <2>6
  <1>5. D \in S
    <2> HIDE DEF S
    <2> QED
      BY <1>3, <1>4, SubsetsAll
  <1>6. H[D] = F[D] + k
    BY <1>5
  <1> QED
    BY <1>6, SumIs DEF F, H

LEMMA SumChangesAny ==
  ASSUME NEW D, IsFiniteSet(D), NEW d \in D
  PROVE  \A f \in [D -> Nat], k \in Nat :
           SumOf([f EXCEPT ![d] = f[d] + k], D) = SumOf(f, D) + k
  BY SumChanges, Zenon

LEMMA SumCountsOn ==
  ASSUME NEW D, IsFiniteSet(D), NEW f \in [D -> Nat], NEW d \in D,
         NEW h, h = [f EXCEPT ![d] = f[d] + 1]
  PROVE  SumOf(h, D) = SumOf(f, D) + 1
  BY SumChanges, 1 \in Nat, Zenon

\* Larger terms, larger sum.
LEMMA SumGrows ==
  ASSUME NEW D, IsFiniteSet(D), NEW f \in [D -> Nat], NEW h \in [D -> Nat],
         \A x \in D : f[x] =< h[x]
  PROVE  SumOf(f, D) =< SumOf(h, D)
  <1> DEFINE F == SumFcn(f, D)
             H == SumFcn(h, D)
             S == {s \in SUBSET D : F[s] =< H[s]}
  <1>2. /\ F \in [SUBSET D -> Nat] /\ \A s \in SUBSET D : F[s] = SumStep(f, F, s)
        /\ H \in [SUBSET D -> Nat] /\ \A s \in SUBSET D : H[s] = SumStep(h, H, s)
    BY SumFacts
  <1> HIDE DEF F, H
  <1>3. {} \in S
    <2>1. F[{}] = 0 /\ H[{}] = 0
      BY <1>2 DEF SumStep
    <2> QED
      BY <2>1
  <1>4. ASSUME NEW s \in SUBSET D, s # {}, s \ {First(s)} \in S
        PROVE  s \in S
    <2> DEFINE x == First(s)
               r == s \ {x}
    <2>1. x \in D /\ r \in SUBSET D
      BY <1>4, FirstOut
    <2>2. F[s] = f[x] + F[r] /\ H[s] = h[x] + H[r]
      BY <1>2, <1>4 DEF SumStep
    <2>4. F[r] \in Nat /\ f[x] \in Nat /\ H[r] \in Nat /\ h[x] \in Nat /\ F[r] =< H[r]
      BY <1>2, <1>4, <2>1
    <2> HIDE DEF x, r
    <2> QED
      BY <2>1, <2>2, <2>4
  <1>5. D \in S
    <2> HIDE DEF S
    <2> QED
      BY <1>3, <1>4, SubsetsAll
  <1> QED
    BY <1>5, SumIs DEF F, H

\* No term exceeds k.
LEMMA SumAtMost ==
  ASSUME NEW D, IsFiniteSet(D), NEW f \in [D -> Nat], NEW k \in Nat,
         \A x \in D : f[x] =< k
  PROVE  SumOf(f, D) =< Cardinality(D) * k
  <1> DEFINE F == SumFcn(f, D)
             S == {s \in SUBSET D : F[s] =< Cardinality(s) * k}
  <1>2. F \in [SUBSET D -> Nat] /\ \A s \in SUBSET D : F[s] = SumStep(f, F, s)
    BY SumFacts
  <1> HIDE DEF F
  <1>3. {} \in S
    BY <1>2, FS_EmptySet DEF SumStep
  <1>4. ASSUME NEW s \in SUBSET D, s # {}, s \ {First(s)} \in S
        PROVE  s \in S
    <2> DEFINE x == First(s)
               r == s \ {x}
               n == Cardinality(s)
    <2>1. x \in D /\ r \in SUBSET D /\ n \in Nat /\ Cardinality(r) = n - 1
      BY <1>4, FirstOut
    <2>2. F[s] = f[x] + F[r]
      BY <1>2, <1>4 DEF SumStep
    <2>4. F[r] \in Nat /\ f[x] \in Nat /\ F[r] =< (n - 1) * k
      BY <1>2, <1>4, <2>1
    <2> HIDE DEF x, r, n
    <2>5. (n - 1) * k + k = n * k
      BY <2>1
    <2>6. F[s] =< n * k
      BY <2>1, <2>2, <2>4, <2>5
    <2> QED
      BY <2>6 DEF n
  <1>5. D \in S
    <2> HIDE DEF S
    <2> QED
      BY <1>3, <1>4, SubsetsAll
  <1> QED
    BY <1>5, SumIs DEF F

\* A term never exceeds the sum.
LEMMA SumCovers ==
  ASSUME NEW D, IsFiniteSet(D), NEW f \in [D -> Nat], NEW d \in D
  PROVE  f[d] =< SumOf(f, D)
  <1> DEFINE g == [f EXCEPT ![d] = 0]
             k == f[d]
  <1>1. g \in [D -> Nat] /\ k \in Nat /\ f = [g EXCEPT ![d] = g[d] + k]
    <2>1. g \in [D -> Nat] /\ k \in Nat /\ g[d] + k = f[d]
      OBVIOUS
    <2> DEFINE h == [g EXCEPT ![d] = g[d] + k]
    <2>2. h \in [D -> Nat] /\ \A x \in D : f[x] = h[x]
      BY <2>1
    <2> HIDE DEF h
    <2>3. f = h
      BY <2>2
    <2> QED
      BY <2>1, <2>3 DEF h
  <1> HIDE DEF g, k
  <1>2. SumOf(f, D) = SumOf(g, D) + k
    <2>1. g \in [D -> Nat] /\ k \in Nat
      BY <1>1
    <2>2. SumOf([g EXCEPT ![d] = g[d] + k], D) = SumOf(g, D) + k
      BY <2>1, SumChangesAny, Zenon
    <2> QED
      BY <1>1, <2>2, Zenon
  <1>3. SumOf(g, D) \in Nat
    BY <1>1, SumInNat
  <1>4. k =< SumOf(g, D) + k
    BY <1>1, <1>3
  <1> QED
    BY <1>2, <1>4 DEF k

LEMMA SumOfZeros ==
  ASSUME NEW D, IsFiniteSet(D)
  PROVE  SumOf([x \in D |-> 0], D) = 0
  <1> DEFINE f == [x \in D |-> 0]
  <1>1. f \in [D -> Nat] /\ \A x \in D : f[x] =< 0
    OBVIOUS
  <1> HIDE DEF f
  <1>2. SumOf(f, D) =< Cardinality(D) * 0 /\ SumOf(f, D) \in Nat
    BY <1>1, SumAtMost, SumInNat
  <1>3. Cardinality(D) \in Nat
    BY FS_CardinalityType
  <1>4. SumOf(f, D) = 0
    BY <1>2, <1>3
  <1> QED
    BY <1>4 DEF f

\* Only the terms count: what the function is outside of D does not matter.
LEMMA SumSame ==
  ASSUME NEW D, NEW f, NEW h, \A x \in D : f[x] = h[x]
  PROVE  SumOf(f, D) = SumOf(h, D)
  <1>1. ASSUME NEW g
        PROVE  IsSum(f, D, g) <=> IsSum(h, D, g)
    <2>1. ASSUME NEW s \in SUBSET D
          PROVE  SumStep(f, g, s) = SumStep(h, g, s)
      <3>1. s # {} => First(s) \in D
        BY DEF First
      <3> QED
        BY <3>1 DEF SumStep
    <2>2. [s \in SUBSET D |-> SumStep(f, g, s)] = [s \in SUBSET D |-> SumStep(h, g, s)]
      BY <2>1
    <2> QED
      BY <2>2 DEF IsSum
  <1>2. SumFcn(f, D) = SumFcn(h, D)
    BY <1>1, Zenon DEF SumFcn
  <1> QED
    BY <1>2, SumIs

LEMMA SumOfNumbers ==
  ASSUME NEW D, IsFiniteSet(D), NEW f, \A x \in D : f[x] \in Nat
  PROVE  SumOf(f, D) \in Nat /\ \A x \in D : f[x] =< SumOf(f, D)
  <1> DEFINE r == [x \in D |-> f[x]]
  <1>1. r \in [D -> Nat] /\ \A x \in D : r[x] = f[x]
    OBVIOUS
  <1> HIDE DEF r
  <1>2. SumOf(f, D) = SumOf(r, D)
    BY <1>1, SumSame
  <1> QED
    BY <1>1, <1>2, SumInNat, SumCovers

\* Equal terms.
LEMMA SumOfEqual ==
  ASSUME NEW D, IsFiniteSet(D), NEW k \in Nat
  PROVE  SumOf([x \in D |-> k], D) = Cardinality(D) * k
  <1> DEFINE f == [x \in D |-> k]
             F == SumFcn(f, D)
             S == {s \in SUBSET D : F[s] = Cardinality(s) * k}
  <1>1. f \in [D -> Nat] /\ \A x \in D : f[x] = k
    OBVIOUS
  <1> HIDE DEF f
  <1>2. F \in [SUBSET D -> Nat] /\ \A s \in SUBSET D : F[s] = SumStep(f, F, s)
    BY <1>1, SumFacts
  <1> HIDE DEF F
  <1>3. {} \in S
    BY <1>2, FS_EmptySet DEF SumStep
  <1>4. ASSUME NEW s \in SUBSET D, s # {}, s \ {First(s)} \in S
        PROVE  s \in S
    <2> DEFINE x == First(s)
               r == s \ {x}
               n == Cardinality(s)
    <2>1. x \in D /\ r \in SUBSET D /\ n \in Nat /\ Cardinality(r) = n - 1
      BY <1>4, FirstOut
    <2>2. F[s] = k + F[r]
      BY <1>1, <1>2, <1>4, <2>1 DEF SumStep
    <2>3. F[r] = (n - 1) * k
      BY <1>4, <2>1
    <2> HIDE DEF x, r, n
    <2>4. (n - 1) * k + k = n * k /\ (n - 1) * k \in Int
      BY <2>1
    <2>5. F[s] = n * k
      BY <2>2, <2>3, <2>4
    <2> QED
      BY <2>5 DEF n
  <1>5. D \in S
    <2> HIDE DEF S
    <2> QED
      BY <1>3, <1>4, SubsetsAll
  <1> QED
    BY <1>5, SumIs DEF F, f

LEMMA SumCounts ==
  ASSUME NEW D, IsFiniteSet(D), NEW f, \A x \in D : f[x] \in Nat, NEW h, NEW d \in D,
         h[d] = f[d] + 1, \A x \in D \ {d} : h[x] = f[x]
  PROVE  SumOf(h, D) = SumOf(f, D) + 1
  <1> DEFINE r == [x \in D |-> f[x]]
             q == [r EXCEPT ![d] = r[d] + 1]
  <1>1. r \in [D -> Nat] /\ (\A x \in D : r[x] = f[x]) /\ \A x \in D : q[x] = h[x]
    OBVIOUS
  <1>2. SumOf(q, D) = SumOf(r, D) + 1
    <2> HIDE DEF r
    <2> QED
      BY <1>1, SumCountsOn, Zenon
  <1> HIDE DEF r, q
  <1>3. SumOf(f, D) = SumOf(r, D) /\ SumOf(h, D) = SumOf(q, D)
    BY <1>1, SumSame
  <1> QED
    BY <1>2, <1>3

\* A sum may be taken in any order.
LEMMA SumTakesOut ==
  ASSUME NEW D, IsFiniteSet(D), NEW f \in [D -> Nat]
  PROVE  \A s \in SUBSET D : \A x \in s : SumFcn(f, D)[s] = f[x] + SumFcn(f, D)[s \ {x}]
  <1> DEFINE F == SumFcn(f, D)
             Claim(t) == \A y \in t : F[t] = f[y] + F[t \ {y}]
             S == {t \in SUBSET D : Claim(t)}
  <1>1. F \in [SUBSET D -> Nat] /\ \A t \in SUBSET D : F[t] = SumStep(f, F, t)
    BY SumFacts
  <1> HIDE DEF F
  <1>2. {} \in S
    OBVIOUS
  <1>3. ASSUME NEW t \in SUBSET D, t # {}, \A y \in t : t \ {y} \in S
        PROVE  t \in S
    <2> DEFINE a == First(t)
    <2>1. a \in t /\ F[t] = f[a] + F[t \ {a}]
      BY <1>1, <1>3, FirstOut DEF SumStep
    <2> HIDE DEF a
    <2>2. ASSUME NEW y \in t
          PROVE  F[t] = f[y] + F[t \ {y}]
      <3>1. CASE y = a
        BY <2>1, <3>1
      <3>2. CASE y # a
        <4> DEFINE r == (t \ {a}) \ {y}
        <4>1. r = (t \ {y}) \ {a} /\ r \in SUBSET D /\ y \in t \ {a} /\ a \in t \ {y}
          BY <2>1, <3>2
        <4>2. F[t \ {a}] = f[y] + F[r] /\ F[t \ {y}] = f[a] + F[r]
          <5>1. Claim(t \ {a}) /\ Claim(t \ {y})
            BY <1>3, <2>1
          <5> QED
            BY <4>1, <5>1
        <4>3. F[r] \in Nat /\ f[a] \in Nat /\ f[y] \in Nat
          BY <1>1, <2>1, <4>1
        <4> HIDE DEF r
        <4> QED
          BY <2>1, <4>2, <4>3
      <3> QED
        BY <3>1, <3>2
    <2> QED
      BY <2>2
  <1>4. SUBSET D \subseteq S
    <2> HIDE DEF S
    <2> QED
      BY <1>2, <1>3, SubsetsReached
  <1>5. ASSUME NEW s \in SUBSET D, NEW x \in s
        PROVE  F[s] = f[x] + F[s \ {x}]
    <2>1. s \in S
      BY <1>4
    <2> QED
      BY <2>1
  <1> QED
    BY <1>5, Zenon DEF F

\* The sums that a recursion over 0 .. k computes end with the sum over 1 .. k.
LEMMA SumsUpto ==
  ASSUME NEW k \in Nat, NEW f \in [1 .. k -> Nat], NEW g,
         g = CHOOSE h : h = [n \in 0 .. k |-> IF n = 0 THEN 0 ELSE h[n - 1] + f[n]]
  PROVE  g[k] = SumOf(f, 1 .. k)
  <1> DEFINE D == 1 .. k
             F == SumFcn(f, D)
             e == [n \in 0 .. k |-> F[1 .. n]]
  <1>1. IsFiniteSet(D)
    BY FS_Interval
  <1>2. F \in [SUBSET D -> Nat] /\ F[{}] = 0
    <2>1. F \in [SUBSET D -> Nat] /\ \A s \in SUBSET D : F[s] = SumStep(f, F, s)
      BY <1>1, SumFacts
    <2> QED
      BY <2>1 DEF SumStep
  <1>out. \A s \in SUBSET D : \A x \in s : F[s] = f[x] + F[s \ {x}]
    <2> HIDE DEF D
    <2>1. f \in [D -> Nat]
      BY DEF D
    <2> QED
      BY <1>1, <2>1, SumTakesOut, Zenon
  <1> HIDE DEF F
  <1>3. ASSUME NEW n \in 1 .. k
        PROVE  F[1 .. n] = F[1 .. n - 1] + f[n]
    <2>1. 1 .. n \in SUBSET D /\ n \in 1 .. n /\ (1 .. n) \ {n} = 1 .. n - 1
      OBVIOUS
    <2>2. F[1 .. n] = f[n] + F[1 .. n - 1]
      <3>1. F[1 .. n] = f[n] + F[(1 .. n) \ {n}]
        BY <1>out, <2>1
      <3> QED
        BY <2>1, <3>1
    <2>3. f[n] \in Nat /\ F[1 .. n - 1] \in Nat
      BY <1>2
    <2> QED
      BY <2>2, <2>3
  <1>4. e = [n \in 0 .. k |-> IF n = 0 THEN 0 ELSE e[n - 1] + f[n]]
    <2>1. 1 .. 0 = {}
      OBVIOUS
    <2>2. ASSUME NEW n \in 0 .. k
          PROVE  e[n] = IF n = 0 THEN 0 ELSE e[n - 1] + f[n]
      BY <1>2, <1>3, <2>1
    <2> QED
      BY <2>2
  <1>5. g = [n \in 0 .. k |-> IF n = 0 THEN 0 ELSE g[n - 1] + f[n]]
    <2> HIDE DEF e
    <2> QED
      BY <1>4, Zenon
  <1> DEFINE S == {n \in Nat : n =< k => g[n] = e[n]}
  <1>6. Nat \subseteq S
    <2>1. 0 \in S
      <3>1. g[0] = 0
        <4> DEFINE r == [n \in 0 .. k |-> IF n = 0 THEN 0 ELSE g[n - 1] + f[n]]
        <4>1. r[0] = 0
          OBVIOUS
        <4>2. g = r
          BY <1>5
        <4> HIDE DEF r
        <4> QED
          BY <4>1, <4>2, Zenon
      <3>2. e[0] = F[1 .. 0] /\ 1 .. 0 = {}
        OBVIOUS
      <3> QED
        BY <1>2, <3>1, <3>2
    <2>2. ASSUME NEW n \in Nat, n \in S
          PROVE  n + 1 \in S
      <3>1. CASE n + 1 =< k
        <4>1. n + 1 \in 0 .. k /\ n + 1 # 0 /\ (n + 1) - 1 = n /\ n =< k
          BY <3>1
        <4>2. g[n + 1] = g[n] + f[n + 1] /\ e[n + 1] = e[n] + f[n + 1]
          <5> HIDE DEF e
          <5> QED
            BY <1>4, <1>5, <4>1
        <4> QED
          BY <2>2, <4>1, <4>2
      <3> QED
        BY <3>1
    <2> HIDE DEF S
    <2> QED
      BY <2>1, <2>2, NumbersAll
  <1>7. g[k] = e[k]
    <2>1. k \in S
      BY <1>6
    <2> QED
      BY <2>1
  <1>8. e[k] = F[D]
    OBVIOUS
  <1> QED
    BY <1>7, <1>8, SumIs DEF F
===============================================================================
