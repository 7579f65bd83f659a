------------------------------- MODULE SumsProof -------------------------------
(***************************************************************************)
(* Facts about natural numbers that the other proofs need in place of      *)
(* induction: the least element of a set, a set closed under successor,    *)
(* the functions that a recursion over 0..n, or one whose argument gets    *)
(* smaller, defines, the ranks of an ordered set; and from these what the  *)
(* sums of module Sums are.                                                *)
(***************************************************************************)
EXTENDS Sums, FiniteSetTheorems, WellFoundedInduction, TLAPS

(* Every non-empty set of natural numbers has a least element: the least   *)
(* of the intervals 0..k under strict inclusion.                           *)
LEMMA LeastNat ==
  ASSUME NEW S \in SUBSET Nat, S # {}
  PROVE  \E m \in S : \A k \in S : m <= k
<1> DEFINE T == {0..k : k \in S}
<1>1. T \subseteq FiniteSubsetsOf(Nat)
  <2>1. \A k \in S : (0..k) \in SUBSET Nat /\ IsFiniteSet(0..k)
    BY FS_Interval
  <2> QED BY <2>1 DEF FiniteSubsetsOf
<1>2. T # {}
  OBVIOUS
<1>3. IsWellFoundedOn(StrictSubsetOrdering(Nat), FiniteSubsetsOf(Nat))
  BY FS_StrictSubsetOrderingWellFounded
<1>4. PICK x \in T : \A y \in T : ~ (<<y, x>> \in StrictSubsetOrdering(Nat))
  <2> HIDE DEF T
  <2> QED BY <1>1, <1>2, <1>3, WFMin
<1>5. PICK m \in S : x = 0..m
  OBVIOUS
<1>6. ASSUME NEW k \in S, k < m PROVE FALSE
  <2>1. 0..k \in T
    OBVIOUS
  <2>2. 0..k \in SUBSET Nat /\ 0..m \in SUBSET Nat /\ 0..k \subseteq 0..m /\ 0..k # 0..m
    BY <1>6
  <2>3. <<0..k, x>> \in StrictSubsetOrdering(Nat)
    BY <1>5, <2>2 DEF StrictSubsetOrdering
  <2> QED BY <1>4, <2>1, <2>3
<1> QED
  BY <1>6


(* A set that holds 0 and the successor of each of its members, up to N,   *)
(* holds every number up to N.                                             *)
LEMMA NatClosed ==
  ASSUME NEW N \in Nat, NEW S, 0 \in S,
         \A n \in 1..N : n-1 \in S => n \in S
  PROVE  0..N \subseteq S
<1> SUFFICES ASSUME (0..N) \ S # {} PROVE FALSE
  OBVIOUS
<1> DEFINE Missing == (0..N) \ S
<1>1. Missing \in SUBSET Nat /\ Missing # {}
  OBVIOUS
<1>2. PICK m \in Missing : \A k \in Missing : m <= k
  <2> HIDE DEF Missing
  <2> QED BY <1>1, LeastNat
<1>3. m \in 1..N /\ m-1 \in 0..N
  <2>1. m # 0 /\ m \in 0..N
    BY <1>2
  <2> QED BY <2>1
<1>4. m-1 \notin Missing
  <2>1. ~ (m <= m-1)
    BY <1>3
  <2> QED BY <1>2, <2>1
<1> QED BY <1>2, <1>3, <1>4

-----------------------------------------------------------------------------
(* A recursion over 0..N whose step is the function h defines a function.  *)
IsStep(h, N, V) == h \in [(1..N) \X V -> V]

Follows(f, h, N, base) == f[0] = base /\ \A k \in 1..N : f[k] = h[<<k, f[k-1]>>]

LEMMA RecursionExists ==
  ASSUME NEW N \in Nat, NEW V, NEW base \in V, NEW h, IsStep(h, N, V)
  PROVE  \E f \in [0..N -> V] : Follows(f, h, N, base)
<1> USE DEF IsStep, Follows
<1> DEFINE Upto(n, f) == /\ f \in [0..n -> V] /\ f[0] = base
                         /\ \A k \in 1..n : f[k] = h[<<k, f[k-1]>>]
           S == {n \in 0..N : \E f : Upto(n, f)}
<1>1. 0 \in S
  <2> DEFINE f == [k \in 0..0 |-> base]
  <2>1. Upto(0, f)
    OBVIOUS
  <2> HIDE DEF f, Upto
  <2> QED BY <2>1
<1>2. ASSUME NEW n \in 1..N, n-1 \in S PROVE n \in S
  <2>1. PICK f : Upto(n-1, f)
    BY <1>2
  <2> DEFINE g == [k \in 0..n |-> IF k = n THEN h[<<n, f[n-1]>>] ELSE f[k]]
  <2>2. f[n-1] \in V /\ h[<<n, f[n-1]>>] \in V
    BY <2>1
  <2>3. g \in [0..n -> V] /\ g[0] = base
    <3>1. \A k \in 0..n : k = n \/ k \in 0..(n-1)
      OBVIOUS
    <3>2. \A k \in 0..n : g[k] \in V
      BY <2>1, <2>2, <3>1
    <3> QED BY <2>1, <3>2
  <2>4. ASSUME NEW k \in 1..n PROVE g[k] = h[<<k, g[k-1]>>]
    <3>1. k-1 \in 0..n /\ k-1 # n /\ k \in 0..n
      OBVIOUS
    <3>2. g[k-1] = f[k-1]
      BY <3>1
    <3>3. CASE k = n
      BY <3>1, <3>2, <3>3
    <3>4. CASE k # n
      <4>1. k \in 1..(n-1)
        BY <3>4
      <4>2. g[k] = f[k]
        BY <3>1, <3>4
      <4> QED BY <2>1, <3>2, <4>1, <4>2
    <3> QED BY <3>3, <3>4
  <2>5. Upto(n, g)
    <3> HIDE DEF g
    <3> QED BY <2>3, <2>4
  <2> HIDE DEF Upto
  <2> QED BY <2>5
<1>3. N \in S
  <2> HIDE DEF S
  <2>1. 0..N \subseteq S
    BY <1>1, <1>2, NatClosed
  <2> QED BY <2>1
<1> QED BY <1>3

(* What a recursion over 0..N starts with and each step keeps, it has.     *)
LEMMA RecursionStays ==
  ASSUME NEW N \in Nat, NEW V, NEW f, f[0] \in V,
         \A k \in 1..N : f[k-1] \in V => f[k] \in V
  PROVE  \A k \in 0..N : f[k] \in V
<1> DEFINE S == {k \in Int : f[k] \in V}
<1>1. 0 \in S /\ \A n \in 1..N : n-1 \in S => n \in S
  OBVIOUS
<1>2. 0..N \subseteq S
  <2> HIDE DEF S
  <2> QED BY <1>1, NatClosed
<1> QED BY <1>2

(* A recursion whose argument gets smaller, by the measure mu, at each     *)
(* step that does not stop defines a function on D.                        *)
Shrinks(D, stop, next, mu) ==
  /\ \A x \in D : mu[x] \in Nat
  /\ \A x \in D \ stop : next[x] \in D /\ mu[next[x]] < mu[x]

(* What holds where it stops and, at each other step, if it holds at the   *)
(* next one, holds everywhere.                                             *)
LEMMA MeasuredInduction ==
  ASSUME NEW D, NEW stop, NEW next, NEW mu, Shrinks(D, stop, next, mu),
         NEW S, \A x \in D : x \in stop => x \in S,
         \A x \in D \ stop : next[x] \in S => x \in S
  PROVE  D \subseteq S
<1> DEFINE Missing == D \ S
           Measures == {mu[x] : x \in Missing}
<1> SUFFICES ASSUME Missing # {} PROVE FALSE
  OBVIOUS
<1>1. Measures \in SUBSET Nat /\ Measures # {}
  BY DEF Shrinks
<1>2. PICK k \in Measures : \A j \in Measures : k <= j
  <2> HIDE DEF Measures
  <2> QED BY <1>1, LeastNat
<1>3. PICK x \in Missing : k = mu[x]
  OBVIOUS
<1>4. next[x] \in D /\ mu[next[x]] < mu[x] /\ mu[x] \in Nat /\ mu[next[x]] \in Nat
  BY DEF Shrinks
<1>5. next[x] \notin Missing
  <2>1. ~ (mu[x] <= mu[next[x]])
    BY <1>4
  <2> QED BY <1>2, <1>3, <2>1
<1> QED BY <1>4, <1>5

Recurses(f, D, stop, next, base, op) ==
  \A x \in D : f[x] = IF x \in stop THEN base[x] ELSE op[<<x, f[next[x]]>>]

LEMMA MeasuredRecursion ==
  ASSUME NEW D, NEW stop, NEW next, NEW mu, Shrinks(D, stop, next, mu),
         NEW V, NEW base, \A x \in D : base[x] \in V,
         NEW op, \A x \in D, v \in V : op[<<x, v>>] \in V
  PROVE  \E f \in [D -> V] : Recurses(f, D, stop, next, base, op)
<1> DEFINE Level(n) == {x \in D : mu[x] < n}
           On(n, f) == /\ f \in [Level(n) -> V]
                       /\ \A x \in Level(n) :
                            f[x] = IF x \in stop THEN base[x] ELSE op[<<x, f[next[x]]>>]
<1>1. ASSUME NEW N \in Nat PROVE \E f : On(N, f)
  <2> DEFINE S == {n \in Nat : \E f : On(n, f)}
  <2>1. 0 \in S
    <3>1. Level(0) = {}
      BY DEF Shrinks
    <3>2. On(0, [x \in {} |-> 0])
      BY <3>1
    <3> HIDE DEF On
    <3> QED BY <3>2
  <2>2. ASSUME NEW n \in 1..N, n-1 \in S PROVE n \in S
    <3>1. PICK f : On(n-1, f)
      BY <2>2
    <3> DEFINE g == [x \in Level(n) |-> IF x \in stop THEN base[x] ELSE op[<<x, f[next[x]]>>]]
    <3>2. ASSUME NEW x \in Level(n), x \notin stop
          PROVE  /\ next[x] \in Level(n-1) /\ next[x] \in Level(n)
                 /\ f[next[x]] \in V /\ g[next[x]] = f[next[x]]
      <4>1. x \in D /\ mu[x] \in Nat /\ mu[x] < n /\ next[x] \in D
        BY <3>2 DEF Shrinks
      <4>2. mu[next[x]] \in Nat /\ mu[next[x]] < mu[x]
        BY <3>2, <4>1 DEF Shrinks
      <4>3. mu[next[x]] < n-1 /\ mu[next[x]] < n
        BY <4>1, <4>2
      <4>4. next[x] \in Level(n-1) /\ next[x] \in Level(n)
        BY <4>1, <4>3
      <4> HIDE DEF Level
      <4> QED BY <3>1, <4>4
    <3>3. \A x \in Level(n) : g[x] \in V
      BY <3>2
    <3>4. \A x \in Level(n) :
            g[x] = IF x \in stop THEN base[x] ELSE op[<<x, g[next[x]]>>]
      <4> TAKE x \in Level(n)
      <4>1. g[x] = IF x \in stop THEN base[x] ELSE op[<<x, f[next[x]]>>]
        OBVIOUS
      <4>2. x \notin stop => g[next[x]] = f[next[x]]
        BY <3>2
      <4> HIDE DEF g
      <4> QED BY <4>1, <4>2
    <3>5. On(n, g)
      <4>1. g \in [Level(n) -> V]
        <5> HIDE DEF Level
        <5> QED BY <3>3
      <4> HIDE DEF g, Level
      <4> QED BY <3>4, <4>1
    <3> HIDE DEF On
    <3> QED BY <3>5
  <2>3. 0..N \subseteq S
    <3> HIDE DEF S
    <3> QED BY <2>1, <2>2, NatClosed
  <2> HIDE DEF On
  <2> QED BY <2>3
<1>2. ASSUME NEW n \in Nat, NEW m \in Nat, NEW f, NEW g, On(n, f), On(m, g),
             NEW y \in Level(n), y \in Level(m)
      PROVE  f[y] = g[y]
  <2> DEFINE Differ == {x \in Level(n) \cap Level(m) : f[x] # g[x]}
             Measures(S) == {mu[x] : x \in S}
  <2> SUFFICES ASSUME Differ # {} PROVE FALSE
    BY <1>2
  <2>1. Measures(Differ) \in SUBSET Nat /\ Measures(Differ) # {}
    BY DEF Shrinks
  <2>2. PICK k \in Measures(Differ) : \A j \in Measures(Differ) : k <= j
    <3> HIDE DEF Differ, Measures
    <3> QED BY <2>1, LeastNat
  <2>3. PICK x \in Differ : k = mu[x]
    OBVIOUS
  <2>4. x \in D /\ x \in Level(n) /\ x \in Level(m) /\ mu[x] \in Nat /\ mu[x] < n /\ mu[x] < m
    BY DEF Shrinks
  <2>5. x \notin stop
    BY <1>2, <2>4
  <2>6. next[x] \in D /\ mu[next[x]] < mu[x] /\ mu[next[x]] \in Nat
    BY <2>4, <2>5 DEF Shrinks
  <2>7. next[x] \in Level(n) /\ next[x] \in Level(m)
    BY <2>4, <2>6
  <2>8. next[x] \notin Differ
    <3>1. ~ (mu[x] <= mu[next[x]])
      BY <2>4, <2>6
    <3> QED BY <2>2, <2>3, <3>1
  <2>9. f[next[x]] = g[next[x]]
    BY <2>7, <2>8
  <2>10. /\ f[x] = op[<<x, f[next[x]]>>] /\ g[x] = op[<<x, g[next[x]]>>]
    BY <1>2, <2>4, <2>5
  <2> QED BY <2>9, <2>10
<1> DEFINE F(n) == CHOOSE f : On(n, f)
           h == [x \in D |-> F(mu[x] + 1)[x]]
<1>3. \A n \in Nat : On(n, F(n))
  <2> HIDE DEF On
  <2> QED BY <1>1
<1>4. ASSUME NEW x \in D
      PROVE  h[x] \in V /\ h[x] = IF x \in stop THEN base[x] ELSE op[<<x, h[next[x]]>>]
  <2>1. mu[x] \in Nat /\ mu[x] + 1 \in Nat /\ x \in Level(mu[x] + 1)
    BY DEF Shrinks
  <2>2. /\ h[x] = F(mu[x] + 1)[x] /\ h[x] \in V
        /\ h[x] = IF x \in stop THEN base[x] ELSE op[<<x, F(mu[x] + 1)[next[x]]>>]
    <3>1. h[x] = F(mu[x] + 1)[x]
      OBVIOUS
    <3> HIDE DEF F, h, Level
    <3> QED BY <1>3, <2>1, <3>1
  <2>3. CASE x \in stop
    BY <2>2, <2>3
  <2>4. CASE x \notin stop
    <3>1. next[x] \in D /\ mu[next[x]] < mu[x] /\ mu[next[x]] \in Nat
      BY <2>4 DEF Shrinks
    <3>2. next[x] \in Level(mu[x] + 1) /\ next[x] \in Level(mu[next[x]] + 1)
      BY <2>1, <3>1
    <3>3. mu[next[x]] + 1 \in Nat
      BY <3>1
    <3>4. F(mu[x] + 1)[next[x]] = F(mu[next[x]] + 1)[next[x]]
      <4> HIDE DEF F, h, Level, On
      <4> QED BY <1>2, <1>3, <2>1, <3>2, <3>3
    <3>5. h[next[x]] = F(mu[next[x]] + 1)[next[x]]
      BY <3>1
    <3> HIDE DEF F, h
    <3> QED BY <2>2, <2>4, <3>4, <3>5
  <2> QED BY <2>3, <2>4
<1>5. h \in [D -> V]
  <2>1. \A x \in D : h[x] \in V
    BY <1>4
  <2> QED BY <2>1
<1> HIDE DEF h
<1> QED BY <1>4, <1>5 DEF Recurses

-----------------------------------------------------------------------------
(* below[c] is what comes before c in a strict order of all of S.          *)
OrdersAll(S, below) ==
  /\ \A c \in S : below[c] \in SUBSET S /\ c \notin below[c]
  /\ \A c, d \in S : c = d \/ c \in below[d] \/ d \in below[c]
  /\ \A c, d \in S : c \in below[d] => below[c] \subseteq below[d]

(* In a finite set each number up to its size is the rank of one element.  *)
RanksAll(S, below) ==
  /\ Cardinality(S) \in Nat
  /\ \A c \in S : Cardinality(below[c]) \in 0..(Cardinality(S)-1)
  /\ \A k \in 0..(Cardinality(S)-1) : \E c \in S : Cardinality(below[c]) = k
  /\ \A c, d \in S : c \in below[d] <=> Cardinality(below[c]) < Cardinality(below[d])
  /\ \A c, d \in S : Cardinality(below[c]) = Cardinality(below[d]) => c = d

LEMMA Ranks ==
  ASSUME NEW S, IsFiniteSet(S), NEW below, OrdersAll(S, below)
  PROVE  RanksAll(S, below)
<1> DEFINE n == Cardinality(S)
           rank == [c \in S |-> Cardinality(below[c])]
<1>1. n \in Nat
  BY FS_CardinalityType
<1>2. ASSUME NEW c \in S
      PROVE  /\ IsFiniteSet(below[c]) /\ Cardinality(below[c]) \in Nat
             /\ Cardinality(below[c]) \in 0..(n-1)
  <2>1. below[c] \in SUBSET (S \ {c})
    BY DEF OrdersAll
  <2>2. IsFiniteSet(S \ {c}) /\ Cardinality(S \ {c}) = n - 1
    BY FS_RemoveElement
  <2>3. IsFiniteSet(below[c]) /\ Cardinality(below[c]) <= n - 1
    BY <2>1, <2>2, FS_Subset
  <2>4. Cardinality(below[c]) \in Nat
    BY <2>3, FS_CardinalityType
  <2> QED BY <1>1, <2>3, <2>4
<1>3. ASSUME NEW c \in S, NEW d \in S, c \in below[d]
      PROVE  Cardinality(below[c]) < Cardinality(below[d])
  <2>1. below[c] \in SUBSET below[d] /\ c \notin below[c]
    BY <1>3 DEF OrdersAll
  <2>2. /\ Cardinality(below[c]) <= Cardinality(below[d])
        /\ Cardinality(below[d]) = Cardinality(below[c]) => below[d] = below[c]
    BY <1>2, <2>1, FS_Subset
  <2>3. Cardinality(below[d]) # Cardinality(below[c])
    BY <1>3, <2>1, <2>2
  <2> QED BY <1>2, <2>2, <2>3
<1>4. \A c, d \in S : c \in below[d] <=> Cardinality(below[c]) < Cardinality(below[d])
  <2>1. \A a, b \in Nat : a < b => ~ (b < a) /\ a # b
    OBVIOUS
  <2>2. \A c \in S : Cardinality(below[c]) \in Nat
    BY <1>2
  <2>3. \A c, d \in S : c = d \/ c \in below[d] \/ d \in below[c]
    BY DEF OrdersAll
  <2> QED BY <1>3, <2>1, <2>2, <2>3
<1>5. \A c, d \in S : Cardinality(below[c]) = Cardinality(below[d]) => c = d
  <2>1. \A a, b \in Nat : a < b => a # b
    OBVIOUS
  <2>2. \A c \in S : Cardinality(below[c]) \in Nat
    BY <1>2
  <2>3. \A c, d \in S : c = d \/ c \in below[d] \/ d \in below[c]
    BY DEF OrdersAll
  <2> QED BY <1>4, <2>1, <2>2, <2>3
<1>6. rank \in Injection(S, 0..(n-1))
  <2>1. rank \in [S -> 0..(n-1)] /\ DOMAIN rank = S
    BY <1>2
  <2>2. \A c, d \in S : rank[c] = rank[d] => c = d
    BY <1>5
  <2> HIDE DEF rank
  <2> QED BY <2>1, <2>2 DEF Injection, IsInjective
<1>7. IsFiniteSet(0..(n-1)) /\ Cardinality(0..(n-1)) = n
  <2>1. 0 \in Int /\ n-1 \in Int
    BY <1>1
  <2>2. IsFiniteSet(0..(n-1)) /\ Cardinality(0..(n-1)) = IF 0 > n-1 THEN 0 ELSE (n-1)-0+1
    BY <2>1, FS_Interval
  <2> HIDE DEF n
  <2> QED BY <1>1, <2>2
<1>8. rank \in Surjection(S, 0..(n-1))
  <2> HIDE DEF rank
  <2> QED BY <1>6, <1>7, FS_Injection
<1>9. \A k \in 0..(n-1) : \E c \in S : Cardinality(below[c]) = k
  <2>1. \A k \in 0..(n-1) : \E c \in S : rank[c] = k
    <3> HIDE DEF rank
    <3> QED BY <1>8 DEF Surjection
  <2> QED BY <2>1
<1>10. \A c \in S : Cardinality(below[c]) \in 0..(n-1)
  BY <1>2
<1> QED BY <1>1, <1>4, <1>5, <1>9, <1>10 DEF RanksAll

-----------------------------------------------------------------------------
(* Partial sums satisfy their recursion.                                   *)
LEMMA PartialSumsStep ==
  ASSUME NEW s \in Seq(Int)
  PROVE  /\ PartialSums(s) \in [0..Len(s) -> Int]
         /\ PartialSums(s)[0] = 0
         /\ \A n \in 1..Len(s) : PartialSums(s)[n] = PartialSums(s)[n-1] + s[n]
<1> DEFINE Body(f) == [n \in 0..Len(s) |-> IF n = 0 THEN 0 ELSE f[n-1] + s[n]]
           F == CHOOSE f : f = Body(f)
<1>1. Len(s) \in Nat /\ \A n \in 1..Len(s) : s[n] \in Int
  OBVIOUS
<1>2. PartialSums(s) = F
  BY DEF PartialSums
<1>3. \E f : f = Body(f)
  <2> DEFINE h == [p \in (1..Len(s)) \X Int |-> p[2] + s[p[1]]]
  <2>1. h \in [(1..Len(s)) \X Int -> Int]
    BY <1>1
  <2>2. \A k \in 1..Len(s), v \in Int : h[<<k, v>>] = v + s[k]
    OBVIOUS
  <2> HIDE DEF h
  <2>3. PICK f \in [0..Len(s) -> Int] :
          f[0] = 0 /\ \A k \in 1..Len(s) : f[k] = h[<<k, f[k-1]>>]
    <3>1. 0 \in Int /\ IsStep(h, Len(s), Int)
      BY <2>1 DEF IsStep
    <3>2. \E f \in [0..Len(s) -> Int] : Follows(f, h, Len(s), 0)
      BY <1>1, <3>1, RecursionExists
    <3> QED BY <3>2 DEF Follows
  <2>4. \A n \in 0..Len(s) : f[n] = IF n = 0 THEN 0 ELSE f[n-1] + s[n]
    <3> TAKE n \in 0..Len(s)
    <3>1. n # 0 => n \in 1..Len(s) /\ n-1 \in 0..Len(s)
      BY <1>1
    <3> QED BY <2>2, <2>3, <3>1
  <2>5. f = Body(f)
    BY <2>3, <2>4
  <2> QED BY <2>5
<1>4. F = Body(F)
  <2> HIDE DEF Body
  <2> QED BY <1>3
<1> HIDE DEF F
<1>5. /\ DOMAIN F = 0..Len(s) /\ F[0] = 0
      /\ \A n \in 1..Len(s) : F[n] = F[n-1] + s[n]
  <2>1. DOMAIN F = 0..Len(s) /\ \A n \in 0..Len(s) : F[n] = IF n = 0 THEN 0 ELSE F[n-1] + s[n]
    BY <1>4
  <2>2. F[0] = 0
    BY <1>1, <2>1
  <2>3. ASSUME NEW n \in 1..Len(s) PROVE F[n] = F[n-1] + s[n]
    <3>1. n \in 0..Len(s) /\ n # 0
      BY <1>1
    <3> QED BY <2>1, <3>1
  <2> QED BY <2>1, <2>2, <2>3
<1>6. \A n \in 0..Len(s) : F[n] \in Int
  <2>1. F[0] \in Int /\ \A k \in 1..Len(s) : F[k-1] \in Int => F[k] \in Int
    BY <1>1, <1>5
  <2> QED BY <1>1, <2>1, RecursionStays, Zenon
<1>7. F \in [0..Len(s) -> Int]
  <2>1. F = [n \in 0..Len(s) |-> F[n]]
    BY <1>4
  <2> QED BY <1>6, <2>1
<1> QED BY <1>2, <1>5, <1>7

(* Sums of natural numbers are natural numbers.                            *)
LEMMA PartialSumsNat ==
  ASSUME NEW s \in Seq(Nat)
  PROVE  \A n \in 0..Len(s) : PartialSums(s)[n] \in Nat
<1>1. s \in Seq(Int) /\ Len(s) \in Nat /\ \A n \in 1..Len(s) : s[n] \in Nat
  OBVIOUS
<1> DEFINE P == PartialSums(s)
<1>2. P[0] = 0 /\ \A n \in 1..Len(s) : P[n] = P[n-1] + s[n]
  BY <1>1, PartialSumsStep
<1> HIDE DEF P
<1>3. P[0] \in Nat /\ \A n \in 1..Len(s) : P[n-1] \in Nat => P[n] \in Nat
  <2>1. ASSUME NEW n \in 1..Len(s), P[n-1] \in Nat PROVE P[n] \in Nat
    <3>1. PICK u, v : u = P[n-1] /\ v = s[n]
      OBVIOUS
    <3>2. u + v \in Nat
      BY <1>1, <2>1, <3>1
    <3> QED BY <1>2, <3>1, <3>2
  <2> QED BY <1>2, <2>1
<1>4. \A n \in 0..Len(s) : P[n] \in Nat
  BY <1>1, <1>3, RecursionStays, Zenon
<1> QED BY <1>4 DEF P

LEMMA SumSeqNat ==
  ASSUME NEW s \in Seq(Nat)
  PROVE  SumSeq(s) \in Nat
<1>1. Len(s) \in 0..Len(s)
  OBVIOUS
<1> QED BY <1>1, PartialSumsNat DEF SumSeq

(* No summand gets larger: neither does the sum.                           *)
LEMMA SumSeqMonotone ==
  ASSUME NEW s \in Seq(Int), NEW u \in Seq(Int), Len(u) = Len(s),
         \A n \in 1..Len(s) : u[n] <= s[n]
  PROVE  SumSeq(u) <= SumSeq(s)
<1> DEFINE N == Len(s)
           S == {n \in 0..N : PartialSums(u)[n] <= PartialSums(s)[n]}
<1>1. N \in Nat /\ \A n \in 1..N : s[n] \in Int /\ u[n] \in Int /\ u[n] <= s[n]
  OBVIOUS
<1>2. /\ \A n \in 0..N : PartialSums(u)[n] \in Int /\ PartialSums(s)[n] \in Int
      /\ PartialSums(u)[0] = 0 /\ PartialSums(s)[0] = 0
      /\ \A n \in 1..N : /\ PartialSums(u)[n] = PartialSums(u)[n-1] + u[n]
                         /\ PartialSums(s)[n] = PartialSums(s)[n-1] + s[n]
  BY PartialSumsStep
<1>3. 0 \in S
  BY <1>1, <1>2
<1>4. ASSUME NEW n \in 1..N, n-1 \in S PROVE n \in S
  <2>1. n \in 0..N /\ n-1 \in 0..N
    BY <1>1
  <2>2. /\ PartialSums(u)[n-1] <= PartialSums(s)[n-1] /\ u[n] <= s[n]
        /\ PartialSums(u)[n-1] \in Int /\ PartialSums(s)[n-1] \in Int
        /\ u[n] \in Int /\ s[n] \in Int
    BY <1>1, <1>2, <1>4, <2>1
  <2>3. /\ PartialSums(u)[n] = PartialSums(u)[n-1] + u[n]
        /\ PartialSums(s)[n] = PartialSums(s)[n-1] + s[n]
    BY <1>2
  <2>4. PartialSums(u)[n] <= PartialSums(s)[n]
    BY <2>2, <2>3
  <2> QED BY <2>1, <2>4
<1>5. N \in S
  <2> HIDE DEF S
  <2>1. 0..N \subseteq S
    BY <1>1, <1>3, <1>4, NatClosed
  <2> QED BY <1>1, <2>1
<1> QED BY <1>5 DEF SumSeq

(* If one gets smaller and none larger, the sum gets smaller.              *)
LEMMA SumSeqStrict ==
  ASSUME NEW s \in Seq(Int), NEW u \in Seq(Int), Len(u) = Len(s),
         \A n \in 1..Len(s) : u[n] <= s[n],
         NEW k \in 1..Len(s), u[k] < s[k]
  PROVE  SumSeq(u) < SumSeq(s)
<1> DEFINE N == Len(s)
           S == {n \in 0..N : /\ PartialSums(u)[n] <= PartialSums(s)[n]
                              /\ n >= k => PartialSums(u)[n] < PartialSums(s)[n]}
<1>1. N \in Nat /\ k \in 1..N /\ \A n \in 1..N : s[n] \in Int /\ u[n] \in Int /\ u[n] <= s[n]
  OBVIOUS
<1>2. /\ \A n \in 0..N : PartialSums(u)[n] \in Int /\ PartialSums(s)[n] \in Int
      /\ PartialSums(u)[0] = 0 /\ PartialSums(s)[0] = 0
      /\ \A n \in 1..N : /\ PartialSums(u)[n] = PartialSums(u)[n-1] + u[n]
                         /\ PartialSums(s)[n] = PartialSums(s)[n-1] + s[n]
  BY PartialSumsStep
<1>3. 0 \in S
  BY <1>1, <1>2
<1>4. ASSUME NEW n \in 1..N, n-1 \in S PROVE n \in S
  <2>1. n \in 0..N /\ n-1 \in 0..N
    BY <1>1
  <2>2. /\ PartialSums(u)[n-1] <= PartialSums(s)[n-1] /\ u[n] <= s[n]
        /\ n-1 >= k => PartialSums(u)[n-1] < PartialSums(s)[n-1]
        /\ n = k => u[n] < s[n]
        /\ PartialSums(u)[n-1] \in Int /\ PartialSums(s)[n-1] \in Int
        /\ u[n] \in Int /\ s[n] \in Int
    BY <1>1, <1>2, <1>4, <2>1
  <2>3. n >= k => n = k \/ n-1 >= k
    BY <1>1
  <2>4. /\ PartialSums(u)[n] <= PartialSums(s)[n]
        /\ n >= k => PartialSums(u)[n] < PartialSums(s)[n]
    <3>1. /\ PartialSums(u)[n] = PartialSums(u)[n-1] + u[n]
          /\ PartialSums(s)[n] = PartialSums(s)[n-1] + s[n]
      BY <1>2
    <3> DEFINE a == PartialSums(u)[n-1]
               b == PartialSums(s)[n-1]
               c == u[n]
               d == s[n]
    <3>2. /\ a <= b /\ c <= d /\ a \in Int /\ b \in Int /\ c \in Int /\ d \in Int
          /\ n >= k => a < b \/ c < d
      BY <2>2, <2>3
    <3>3. PartialSums(u)[n] = a+c /\ PartialSums(s)[n] = b+d
      BY <3>1
    <3> HIDE DEF a, b, c, d
    <3>4. a+c <= b+d /\ (n >= k => a+c < b+d)
      BY <3>2
    <3> QED BY <3>3, <3>4
  <2> QED BY <2>1, <2>4
<1>5. N \in S
  <2> HIDE DEF S
  <2>1. 0..N \subseteq S
    BY <1>1, <1>3, <1>4, NatClosed
  <2> QED BY <1>1, <2>1
<1> QED BY <1>1, <1>5 DEF SumSeq

(* A sum of natural numbers is not below any of them.                      *)
LEMMA SumSeqMember ==
  ASSUME NEW s \in Seq(Nat), NEW k \in 1..Len(s)
  PROVE  s[k] <= SumSeq(s)
<1> DEFINE N == Len(s)
           P == PartialSums(s)
           S == {n \in 0..N : n >= k => s[k] <= P[n]}
<1>1. s \in Seq(Int) /\ N \in Nat /\ k \in 1..N /\ \A n \in 1..N : s[n] \in Nat
  OBVIOUS
<1>2. P[0] = 0 /\ (\A n \in 1..N : P[n] = P[n-1] + s[n]) /\ \A n \in 0..N : P[n] \in Nat
  BY <1>1, PartialSumsStep, PartialSumsNat
<1> HIDE DEF P, N
<1>3. 0 \in S
  BY <1>1
<1>4. ASSUME NEW n \in 1..N, n-1 \in S PROVE n \in S
  <2>1. n \in 0..N /\ n-1 \in 0..N /\ P[n] = P[n-1] + s[n] /\ P[n-1] \in Nat /\ s[n] \in Nat
    BY <1>1, <1>2
  <2>2. n >= k => n = k \/ n-1 >= k
    BY <1>1
  <2>3. n-1 >= k => s[k] <= P[n-1]
    BY <1>4
  <2>4. s[k] \in Nat
    BY <1>1
  <2> QED BY <2>1, <2>2, <2>3, <2>4
<1>5. N \in S
  <2> HIDE DEF S
  <2>1. 0..N \subseteq S
    BY <1>1, <1>3, <1>4, NatClosed
  <2> QED BY <1>1, <2>1
<1> QED BY <1>1, <1>5 DEF SumSeq, P, N

(* The sum of what comes after the first n.                                *)
LEMMA SumSeqSuffix ==
  ASSUME NEW s \in Seq(Int), NEW n \in 0..Len(s), NEW u \in Seq(Int),
         Len(u) = Len(s) - n, \A m \in 1..(Len(s) - n) : u[m] = s[n+m]
  PROVE  SumSeq(u) = SumSeq(s) - PartialSums(s)[n]
<1> DEFINE N == Len(s)
           P == PartialSums(s)
           Q == PartialSums(u)
           S == {m \in 0..(N-n) : Q[m] + P[n] = P[n+m]}
<1>1. N \in Nat /\ n \in 0..N /\ \A m \in 1..N : s[m] \in Int
  OBVIOUS
<1>2. /\ P[0] = 0 /\ \A m \in 1..N : P[m] = P[m-1] + s[m]
      /\ \A m \in 0..N : P[m] \in Int
  BY PartialSumsStep
<1>3. /\ Q[0] = 0 /\ \A m \in 1..(N-n) : Q[m] = Q[m-1] + u[m]
      /\ \A m \in 0..(N-n) : Q[m] \in Int
  BY PartialSumsStep
<1>4. \A m \in 1..(N-n) : u[m] = s[n+m]
  OBVIOUS
<1>5. Len(u) = N-n
  OBVIOUS
<1> HIDE DEF P, Q, N
<1>6. 0 \in S
  BY <1>1, <1>2, <1>3
<1>7. ASSUME NEW m \in 1..(N-n), m-1 \in S PROVE m \in S
  <2>1. m \in 0..(N-n) /\ m-1 \in 0..(N-n) /\ n+m \in 1..N /\ n+(m-1) = (n+m)-1
    BY <1>1
  <2>2. Q[m] = Q[m-1] + u[m] /\ Q[m-1] \in Int /\ u[m] = s[n+m] /\ s[n+m] \in Int
    BY <1>1, <1>3, <1>4, <2>1
  <2>3. P[n+m] = P[n+(m-1)] + s[n+m] /\ Q[m-1] + P[n] = P[n+(m-1)] /\ P[n] \in Int
    BY <1>1, <1>2, <1>7, <2>1
  <2>4. Q[m] + P[n] = P[n+m]
    BY <2>2, <2>3
  <2> QED BY <2>1, <2>4
<1>8. N-n \in S
  <2> HIDE DEF S
  <2>1. N-n \in Nat
    BY <1>1
  <2>2. 0..(N-n) \subseteq S
    BY <1>6, <1>7, <2>1, NatClosed
  <2> QED BY <2>1, <2>2
<1>9. Q[N-n] + P[n] = P[N]
  <2>1. n+(N-n) = N
    BY <1>1
  <2> QED BY <1>8, <2>1
<1>10. Q[N-n] \in Int /\ P[n] \in Int
  BY <1>1, <1>2, <1>3
<1> QED BY <1>5, <1>9, <1>10 DEF SumSeq, P, Q, N

-----------------------------------------------------------------------------
(* Selections satisfy their recursion.                                     *)
LEMMA SelectionsStep ==
  ASSUME NEW V, NEW s \in Seq(V), NEW S
  PROVE  /\ Selections(s, S)[0] = <<>>
         /\ \A n \in 1..Len(s) :
              Selections(s, S)[n] = IF n \in S THEN Append(Selections(s, S)[n-1], s[n])
                                               ELSE Selections(s, S)[n-1]
         /\ \A n \in 0..Len(s) : Selections(s, S)[n] \in Seq(V)
<1> DEFINE Pick(n, t) == IF n \in S THEN Append(t, s[n]) ELSE t
           Body(f) == [n \in 0..Len(s) |-> IF n = 0 THEN <<>>
                                           ELSE IF n \in S THEN Append(f[n-1], s[n])
                                                           ELSE f[n-1]]
           F == CHOOSE f : f = Body(f)
           Q == Seq(V)
<1>1. Len(s) \in Nat /\ \A n \in 1..Len(s) : s[n] \in V
  OBVIOUS
<1>2. Selections(s, S) = F
  BY DEF Selections
<1>3. <<>> \in Q /\ \A n \in 1..Len(s) : \A t \in Q : Pick(n, t) \in Q
  BY <1>1
<1>4. \E f : f = Body(f)
  <2> DEFINE h == [p \in (1..Len(s)) \X Q |-> Pick(p[1], p[2])]
  <2> HIDE DEF Q
  <2>1. h \in [(1..Len(s)) \X Q -> Q]
    <3> HIDE DEF Pick
    <3> QED BY <1>3
  <2>2. \A k \in 1..Len(s), v \in Q : h[<<k, v>>] = Pick(k, v)
    OBVIOUS
  <2> HIDE DEF h
  <2>3. PICK f \in [0..Len(s) -> Q] :
          f[0] = <<>> /\ \A k \in 1..Len(s) : f[k] = h[<<k, f[k-1]>>]
    <3>1. <<>> \in Q /\ IsStep(h, Len(s), Q)
      BY <1>3, <2>1 DEF IsStep
    <3>2. \E f \in [0..Len(s) -> Q] : Follows(f, h, Len(s), <<>>)
      BY <1>1, <3>1, RecursionExists
    <3> QED BY <3>2 DEF Follows
  <2>4. \A n \in 0..Len(s) : f[n] = IF n = 0 THEN <<>> ELSE Pick(n, f[n-1])
    <3> HIDE DEF Pick
    <3> TAKE n \in 0..Len(s)
    <3>1. n # 0 => n \in 1..Len(s) /\ n-1 \in 0..Len(s)
      BY <1>1
    <3>2. n # 0 => f[n-1] \in Q
      BY <2>3, <3>1
    <3> QED BY <2>2, <2>3, <3>1, <3>2
  <2>5. f = Body(f)
    BY <2>3, <2>4
  <2> QED BY <2>5
<1>5. F = Body(F)
  <2> HIDE DEF Body
  <2> QED BY <1>4
<1> HIDE DEF F
<1>6. F[0] = <<>> /\ \A n \in 1..Len(s) : F[n] = Pick(n, F[n-1])
  <2>1. 0 \in 0..Len(s) /\ \A n \in 1..Len(s) : n \in 0..Len(s) /\ n # 0
    BY <1>1
  <2> QED BY <1>5, <2>1
<1>7. \A n \in 0..Len(s) : F[n] \in Q
  <2> HIDE DEF Q, Pick
  <2>1. F[0] \in Q /\ \A k \in 1..Len(s) : F[k-1] \in Q => F[k] \in Q
    BY <1>3, <1>6
  <2> QED BY <1>1, <2>1, RecursionStays, Zenon
<1> QED BY <1>2, <1>6, <1>7

(* What is selected comes from the places selected; the first places, when *)
(* they are what is selected, give the first elements.                     *)
IsSelection(u, s, S) ==
  /\ Len(u) \in 0..Len(s)
  /\ \A i \in 1..Len(u) : \E n \in 1..Len(s) : n \in S /\ u[i] = s[n]
  /\ 1 \in S /\ Len(s) > 0 => Len(u) > 0
  /\ (\A n \in 1..Len(s) : n \in S => \A m \in 1..n : m \in S) =>
       \A i \in 1..Len(u) : u[i] = s[i]

LEMMA SelectedFacts ==
  ASSUME NEW V, NEW s \in Seq(V), NEW S
  PROVE  Selected(s, S) \in Seq(V) /\ IsSelection(Selected(s, S), s, S)
<1> DEFINE P == Selections(s, S)
           N == Len(s)
           Q == Seq(V)
           First == \A n \in 1..N : n \in S => \A m \in 1..n : m \in S
           Good(n) ==
             /\ Len(P[n]) \in 0..n
             /\ \A i \in 1..Len(P[n]) : \E m \in 1..N : m \in S /\ P[n][i] = s[m]
             /\ 1 \in S /\ n > 0 => Len(P[n]) > 0
             /\ First => /\ \A i \in 1..Len(P[n]) : P[n][i] = s[i]
                         /\ n \in S => Len(P[n]) = n
<1>1. N \in Nat /\ \A n \in 1..N : s[n] \in V
  OBVIOUS
<1>2. /\ P[0] = <<>>
      /\ \A n \in 1..N : P[n] = IF n \in S THEN Append(P[n-1], s[n]) ELSE P[n-1]
      /\ \A n \in 0..N : P[n] \in Seq(V)
  BY SelectionsStep
<1> HIDE DEF P, N
<1> DEFINE G == {n \in 0..N : Good(n)}
<1>3. 0 \in G
  <2>1. Len(P[0]) = 0
    BY <1>2
  <2>2. 0 \in S /\ First => Len(P[0]) = 0
    BY <2>1
  <2> QED BY <1>1, <2>1, <2>2
<1>4. ASSUME NEW n \in 1..N, n-1 \in G PROVE n \in G
  <2>1. Good(n-1) /\ n-1 \in 0..N /\ n \in Nat
    <3> HIDE DEF Good
    <3> QED BY <1>1, <1>4
  <2> DEFINE t == P[n-1]
             u == P[n]
             L == Len(t)
  <2>2. t \in Seq(V) /\ s[n] \in V
    BY <1>1, <1>2, <2>1
  <2>3. L \in Nat /\ L <= n-1
    BY <1>1, <2>1
  <2>4. CASE n \notin S
    <3>1. u = t
      BY <1>2, <2>4
    <3>2. Len(u) \in 0..n
      BY <2>3, <3>1
    <3>3. \A i \in 1..Len(u) : \E m \in 1..N : m \in S /\ u[i] = s[m]
      BY <2>1, <3>1
    <3>4. 1 \in S => n-1 > 0
      BY <1>1, <2>4
    <3>5. 1 \in S /\ n > 0 => Len(u) > 0
      BY <2>1, <3>1, <3>4
    <3>6. First => \A i \in 1..Len(u) : u[i] = s[i]
      BY <2>1, <3>1
    <3> QED BY <2>4, <3>2, <3>3, <3>5, <3>6
  <2>5. CASE n \in S
    <3>1. u = Append(t, s[n])
      BY <1>2, <2>5
    <3>2. /\ Len(u) = L+1 /\ u[L+1] = s[n]
          /\ \A i \in 1..L : u[i] = t[i]
      <4> HIDE DEF t, u
      <4> QED BY <2>2, <3>1
    <3>3. \A i \in 1..(L+1) : i = L+1 \/ i \in 1..L
      BY <2>3
    <3>4. \A i \in 1..L : \E m \in 1..N : m \in S /\ t[i] = s[m]
      BY <2>1
    <3>5. First => L = n-1 /\ \A i \in 1..L : t[i] = s[i]
      <4> SUFFICES ASSUME First PROVE L = n-1 /\ \A i \in 1..L : t[i] = s[i]
        OBVIOUS
      <4>1. \A m \in 1..n : m \in S
        BY <2>5
      <4>2. \A i \in 1..L : t[i] = s[i]
        BY <2>1
      <4>3. CASE n = 1
        BY <1>2, <2>3, <4>2, <4>3
      <4>4. CASE n # 1
        <5>1. n-1 \in 1..n
          BY <2>1, <4>4
        <5> QED BY <2>1, <4>1, <4>2, <5>1
      <4> QED BY <4>3, <4>4
    <3> HIDE DEF t, u, L, First
    <3>6. Len(u) \in 0..n /\ Len(u) > 0
      BY <2>1, <2>3, <3>2
    <3>7. \A i \in 1..Len(u) : \E m \in 1..N : m \in S /\ u[i] = s[m]
      BY <2>5, <3>2, <3>3, <3>4
    <3>8. First => Len(u) = n /\ \A i \in 1..Len(u) : u[i] = s[i]
      BY <2>1, <3>2, <3>3, <3>5
    <3> QED BY <1>4, <1>1, <3>6, <3>7, <3>8 DEF u
  <2> QED BY <2>4, <2>5
<1>5. N \in G
  <2> HIDE DEF G
  <2>1. 0..N \subseteq G
    BY <1>1, <1>3, <1>4, NatClosed
  <2> QED BY <1>1, <2>1
<1>6. P[N] \in Seq(V) /\ Selected(s, S) = P[N]
  BY <1>1, <1>2 DEF Selected, P, N
<1>7. IsSelection(P[N], s, S)
  BY <1>5, <1>1 DEF IsSelection, N
<1> QED BY <1>6, <1>7
=============================================================================
