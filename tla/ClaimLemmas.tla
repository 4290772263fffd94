---------------------------- MODULE ClaimLemmas ----------------------------
(* Induction over the naturals as a fact about sets, recursive claims over *)
(* the ports, and the n-th element of a finite set of naturals.            *)
EXTENDS Integers, FiniteSets, FiniteSetTheorems, WellFoundedInduction, TLAPS

\* A set of naturals has a least element.
LEMMA LeastNatural ==
    ASSUME NEW S \in SUBSET Nat, S # {}
    PROVE  \E n \in S : \A m \in S : n <= m
<1>1. PICK n \in S : \A m \in S : ~(<<m, n>> \in OpToRel(<, Nat))
  BY NatLessThanWellFounded, WFMin
<1>2. ASSUME NEW m \in S PROVE n <= m
  <2>1. m \in Nat /\ n \in Nat
    OBVIOUS
  <2>2. m < n => <<m, n>> \in OpToRel(<, Nat)
    BY <2>1, Zenon DEF OpToRel
  <2>3. ~(m < n)
    BY <1>1, <2>2, Zenon
  <2> QED BY <2>1, <2>3
<1> QED BY <1>2

\* Induction, with the set of the numbers that have the property for the property.
LEMMA SetInduction ==
    ASSUME NEW S \in SUBSET Nat, 0 \in S, \A n \in S : n + 1 \in S
    PROVE  \A n \in Nat : n \in S
<1> SUFFICES ASSUME Nat \ S # {} PROVE FALSE
  OBVIOUS
<1>1. PICK n \in Nat \ S : \A m \in Nat \ S : n <= m
  BY LeastNatural
<1>2. n # 0 /\ n - 1 \in Nat
  BY <1>1
<1>3. n - 1 \in S
  BY <1>1, <1>2
<1> QED BY <1>1, <1>2, <1>3

\* What the ports below p have claimed.
Below(claim, p) == {claim[q] : q \in 0 .. p - 1}

\* What each of N ports takes of X, given what the ports below it have taken.
Picks(N, X) == [(0 .. N - 1) \X SUBSET X -> X]
Obeys(claim, N, X, pick) ==
    /\ claim \in [0 .. N - 1 -> X]
    /\ \A p \in 0 .. N - 1 : claim[p] = pick[<<p, Below(claim, p)>>]

\* Whoever picks after, and knowing, those before it picks something: the recursion of
\* the claims over the ports has a solution.
LEMMA ClaimsExist ==
    ASSUME NEW N \in Nat, NEW X, NEW pick \in Picks(N, X)
    PROVE  \E claim : Obeys(claim, N, X, pick)
<1> USE DEF Below, Picks
<1> DEFINE Solves(f, n) == \A p \in 0 .. n - 1 : f[p] = pick[<<p, {f[q] : q \in 0 .. p - 1}>>]
           Solvable(n) == \E f \in [0 .. n - 1 -> X] : Solves(f, n)
           Good == {n \in Nat : n <= N => Solvable(n)}
<1>1. Solvable(0)
  <2>1. [p \in {} |-> p] \in [0 .. 0 - 1 -> X] /\ 0 .. 0 - 1 = {}
    OBVIOUS
  <2> QED BY <2>1
<1>2. ASSUME NEW n \in Nat, Solvable(n), n + 1 <= N PROVE Solvable(n + 1)
  <2>1. PICK f \in [0 .. n - 1 -> X] : Solves(f, n)
    BY <1>2
  <2> DEFINE g == [p \in 0 .. n |-> IF p = n THEN pick[<<n, {f[q] : q \in 0 .. n - 1}>>] ELSE f[p]]
  <2>2. n \in 0 .. N - 1 /\ {f[q] : q \in 0 .. n - 1} \in SUBSET X
    BY <1>2
  <2>3. g \in [0 .. n -> X]
    BY <2>2
  <2>4. ASSUME NEW p \in 0 .. n PROVE {g[q] : q \in 0 .. p - 1} = {f[q] : q \in 0 .. p - 1}
    <3>1. \A q \in 0 .. p - 1 : g[q] = f[q]
      OBVIOUS
    <3> HIDE DEF g
    <3> QED BY <3>1
  <2>5. ASSUME NEW p \in 0 .. n PROVE g[p] = pick[<<p, {g[q] : q \in 0 .. p - 1}>>]
    <3>1. CASE p = n
      BY <3>1, <2>4
    <3>2. CASE p # n
      <4>1. p \in 0 .. n - 1
        BY <3>2
      <4>2. g[p] = f[p]
        BY <3>2
      <4>3. f[p] = pick[<<p, {f[q] : q \in 0 .. p - 1}>>]
        BY <2>1, <4>1
      <4> HIDE DEF g
      <4> QED BY <2>4, <4>2, <4>3
    <3> QED BY <3>1, <3>2
  <2>6. (n + 1) - 1 = n
    OBVIOUS
  <2>7. Solves(g, n + 1)
    <3> HIDE DEF g
    <3> QED BY <2>5, <2>6
  <2> HIDE DEF g, Solves
  <2> QED BY <2>3, <2>6, <2>7
<1>3. N \in Good
  <2> HIDE DEF Solvable
  <2>1. Good \in SUBSET Nat /\ 0 \in Good
    BY <1>1
  <2>2. \A n \in Good : n + 1 \in Good
    BY <1>2
  <2> HIDE DEF Good
  <2> QED BY <2>1, <2>2, SetInduction
<1>4. Solvable(N)
  <2> HIDE DEF Solvable
  <2> QED BY <1>3
<1> QED BY <1>4 DEF Obeys

\* The rank of an element is how many there are below it; it grows with the element.
LEMMA RanksGrow ==
    ASSUME NEW S \in SUBSET Nat, IsFiniteSet(S), NEW x \in S, NEW z \in S, x < z
    PROVE  Cardinality({y \in S : y < x}) # Cardinality({y \in S : y < z})
<1> DEFINE A == {y \in S : y < x}
           B == {y \in S : y < z}
<1>1. \A y \in S : y \in Nat
  OBVIOUS
<1>2. A \subseteq B
  <2>1. ASSUME NEW y \in S, y < x PROVE y < z
    BY <1>1, <2>1
  <2> QED BY <2>1
<1>3. x \in B /\ x \notin A /\ B \subseteq S
  BY <1>1
<1> HIDE DEF A, B
<1>4. IsFiniteSet(B)
  BY <1>3, FS_Subset
<1>5. Cardinality(A) # Cardinality(B)
  BY <1>2, <1>3, <1>4, FS_Subset
<1> QED BY <1>5 DEF A, B

\* The elements of a finite set of naturals are ranked 0, 1, ... without a gap.
LEMMA RanksAreDense ==
    ASSUME NEW S \in SUBSET Nat, IsFiniteSet(S),
           NEW n \in Nat, n < Cardinality(S)
    PROVE  \E x \in S : Cardinality({y \in S : y < x}) = n
<1> DEFINE Lower(x) == {y \in S : y < x}
           rank == [x \in S |-> Cardinality(Lower(x))]
           C == Cardinality(S)
<1>1. C \in Nat
  BY FS_CardinalityType
<1>2. ASSUME NEW x \in S PROVE IsFiniteSet(Lower(x)) /\ rank[x] \in 0 .. C - 1
  <2>1. Lower(x) \in SUBSET S /\ Lower(x) # S
    OBVIOUS
  <2>2. /\ IsFiniteSet(Lower(x)) /\ Cardinality(Lower(x)) <= C
        /\ C = Cardinality(Lower(x)) => S = Lower(x)
    BY <2>1, FS_Subset
  <2>3. Cardinality(Lower(x)) \in Nat
    BY <2>2, FS_CardinalityType
  <2> QED BY <1>1, <2>1, <2>2, <2>3
<1>3. ASSUME NEW x \in S, NEW z \in S, x < z PROVE rank[x] # rank[z]
  BY <1>3, RanksGrow
<1>4. rank \in Injection(S, 0 .. C - 1)
  <2>1. rank \in [S -> 0 .. C - 1]
    BY <1>2
  <2>2. ASSUME NEW x \in S, NEW z \in S, rank[x] = rank[z] PROVE x = z
    <3> HIDE DEF rank
    <3> QED BY <1>3, <2>2
  <2> HIDE DEF rank
  <2> QED BY <2>1, <2>2 DEF Injection, IsInjective
<1>5. IsFiniteSet(0 .. C - 1) /\ Cardinality(0 .. C - 1) = C
  <2>1. 0 \in Int /\ C - 1 \in Int
    BY <1>1
  <2>2. /\ IsFiniteSet(0 .. C - 1)
        /\ Cardinality(0 .. C - 1) = IF 0 > C - 1 THEN 0 ELSE (C - 1) - 0 + 1
    BY <2>1, FS_Interval
  <2> QED BY <1>1, <2>2
<1>6. rank \in Surjection(S, 0 .. C - 1)
  <2> HIDE DEF rank
  <2> QED BY <1>4, <1>5, FS_Injection
<1>7. n \in 0 .. C - 1
  BY <1>1
<1>8. PICK x \in S : rank[x] = n
  <2> HIDE DEF rank
  <2> QED BY <1>6, <1>7 DEF Surjection
<1> QED BY <1>8

\* No two have one rank.
LEMMA RanksDiffer ==
    ASSUME NEW S \in SUBSET Nat, IsFiniteSet(S), NEW x \in S, NEW z \in S,
           Cardinality({y \in S : y < x}) = Cardinality({y \in S : y < z})
    PROVE  x = z
<1>1. x \in Nat /\ z \in Nat
  OBVIOUS
<1> QED BY <1>1, RanksGrow
=============================================================================
