--------------------------- MODULE LeftFoldProofs ---------------------------
(***************************************************************************)
(* What a loop over a sequence holds, and the members of a finite set of   *)
(* numbers in order: the facts that the proofs about the migrations and    *)
(* about the start of a process use.  A module instantiates this one with  *)
(* the body of its loop.                                                   *)
(***************************************************************************)
EXTENDS LeftFold, Increasing, WellFoundedInduction, FiniteSetTheorems, TLAPS

-----------------------------------------------------------------------------
(* Induction                                                               *)

\* A set of natural numbers has a least member.
LEMMA Smallest ==
    ASSUME NEW T, T \subseteq Nat, T # {}
    PROVE  \E x \in T : \A y \in T : x <= y
<1>1. IsWellFoundedOn(OpToRel(<, Nat), Nat)
  BY NatLessThanWellFounded
<1>2. \E x \in T : \A y \in T : ~ (<<y, x>> \in OpToRel(<, Nat))
  BY <1>1, WFMin
<1>3. PICK x \in T : \A y \in T : ~ (<<y, x>> \in OpToRel(<, Nat))
  BY <1>2
<1>4. \A y \in T : ~ (y < x)
  BY <1>3 DEF OpToRel
<1> QED
  BY <1>4

\* What holds of 0, and of a number when it does of the one before it, holds up to m.
LEMMA Reaches ==
    ASSUME NEW m \in Nat, NEW Good, 0 \in Good, \A n \in 1 .. m : n - 1 \in Good => n \in Good
    PROVE  \A n \in 0 .. m : n \in Good
<1> DEFINE T == {n \in 0 .. m : n \notin Good}
<1> SUFFICES ASSUME T # {} PROVE FALSE
  OBVIOUS
<1>1. T \subseteq Nat /\ \A n \in T : n \in 1 .. m /\ n \notin Good
  OBVIOUS
<1>2. \A n \in 0 .. m : n \notin T => n \in Good
  OBVIOUS
<1> HIDE DEF T
<1>3. PICK n \in T : \A k \in T : n <= k
  BY <1>1, Smallest
<1>4. n - 1 \in 0 .. m /\ n - 1 < n
  BY <1>1
<1>5. n - 1 \notin T
  BY <1>1, <1>3, <1>4
<1> QED
  BY <1>1, <1>2, <1>4, <1>5

-----------------------------------------------------------------------------
(* The loop                                                                *)

\* f solves the recursion that defines Held, up to position m.
Solution(f, base, s, m) ==
    f = [n \in 0 .. m |-> IF n = 0 THEN base ELSE Step(f[n - 1], s[n])]

LEMMA HeldSolvable ==
    ASSUME NEW base, NEW s, NEW m \in Nat
    PROVE  \E f : Solution(f, base, s, m)
<1> USE DEF Solution
<1> DEFINE Solves(f, k) ==
             f = [n \in 0 .. k |-> IF n = 0 THEN base ELSE Step(f[n - 1], s[n])]
           Unsolved == {k \in Nat : ~ \E f : Solves(f, k)}
<1> SUFFICES ASSUME Unsolved # {} PROVE FALSE
  OBVIOUS
<1>1. PICK k \in Unsolved : \A j \in Unsolved : k <= j
  <2>1. Unsolved \subseteq Nat
    OBVIOUS
  <2> HIDE DEF Unsolved
  <2> QED
    BY <2>1, Smallest
<1>2. k \in Nat /\ ~ \E f : Solves(f, k)
  OBVIOUS
<1>3. CASE k = 0
  <2> DEFINE f == [n \in 0 .. k |-> base]
  <2>1. f = [n \in 0 .. k |-> IF n = 0 THEN base ELSE Step(f[n - 1], s[n])]
    BY <1>3
  <2>2. Solves(f, k)
    BY <2>1
  <2> QED
    BY <1>2, <2>2
<1>4. CASE k # 0
  <2>1. k - 1 \in Nat /\ k - 1 < k /\ (k - 1) + 1 = k
    BY <1>2, <1>4
  <2>2. k - 1 \notin Unsolved
    <3>1. \A j \in Unsolved : j \in Nat /\ k <= j
      BY <1>1
    <3> HIDE DEF Unsolved
    <3> QED
      BY <1>2, <2>1, <3>1
  <2>3. PICK f : Solves(f, k - 1)
    BY <2>1, <2>2
  <2> DEFINE g == [n \in 0 .. k |-> IF n = k THEN Step(f[k - 1], s[k]) ELSE f[n]]
  <2>4. ASSUME NEW n \in 0 .. k
        PROVE  g[n] = IF n = 0 THEN base ELSE Step(g[n - 1], s[n])
    <3>1. CASE n = k
      <4>1. k - 1 \in 0 .. k /\ k - 1 # k
        BY <2>1
      <4>2. g[k - 1] = f[k - 1]
        BY <4>1
      <4>3. g[n] = Step(f[k - 1], s[k])
        BY <3>1
      <4> QED
        BY <1>4, <3>1, <4>2, <4>3
    <3>2. CASE n # k
      <4>1. n \in 0 .. k - 1
        BY <1>2, <3>2
      <4>2. f[n] = IF n = 0 THEN base ELSE Step(f[n - 1], s[n])
        BY <2>3, <4>1
      <4>3. g[n] = f[n]
        BY <3>2
      <4>4. n # 0 => n - 1 \in 0 .. k /\ n - 1 # k
        BY <4>1, <2>1
      <4>5. n # 0 => g[n - 1] = f[n - 1]
        BY <4>4
      <4> QED
        BY <4>2, <4>3, <4>5
    <3> QED
      BY <3>1, <3>2
  <2>5. g = [n \in 0 .. k |-> IF n = 0 THEN base ELSE Step(g[n - 1], s[n])]
    BY <2>4
  <2>6. Solves(g, k)
    BY <2>5
  <2> QED
    BY <1>2, <2>6
<1> QED
  BY <1>3, <1>4

\* What the loop holds at first, and what one more turn makes of it.
LEMMA HeldSteps ==
    ASSUME NEW base, NEW s, Len(s) \in Nat
    PROVE  /\ Held(base, s)[0] = base
           /\ \A n \in 1 .. Len(s) :
                 Held(base, s)[n] = Step(Held(base, s)[n - 1], s[n])
<1> DEFINE h == CHOOSE f : Solution(f, base, s, Len(s))
<1>0. Held(base, s) = h
  BY DEF Held, Solution
<1>1. h = [n \in 0 .. Len(s) |-> IF n = 0 THEN base ELSE Step(h[n - 1], s[n])]
  <2>1. Solution(h, base, s, Len(s))
    BY HeldSolvable
  <2> HIDE DEF h
  <2> QED
    BY <2>1 DEF Solution
<1> HIDE DEF h
<1>2. h[0] = base
  BY <1>1
<1>3. ASSUME NEW n \in 1 .. Len(s)
      PROVE  h[n] = Step(h[n - 1], s[n])
  BY <1>1
<1> QED
  BY <1>0, <1>2, <1>3

\* The first turns of two loops over the same members hold the same.
LEMMA HeldAgree ==
    ASSUME NEW base, NEW s, NEW t, Len(s) \in Nat, Len(t) \in Nat,
           NEW m \in Nat, m <= Len(s), m <= Len(t),
           \A i \in 1 .. m : s[i] = t[i]
    PROVE  Held(base, s)[m] = Held(base, t)[m]
<1> DEFINE Differ == {n \in 0 .. m : Held(base, s)[n] # Held(base, t)[n]}
<1> SUFFICES ASSUME Differ # {} PROVE FALSE
  OBVIOUS
<1>1. PICK n \in Differ : \A j \in Differ : n <= j
  <2>1. Differ \subseteq Nat
    OBVIOUS
  <2> HIDE DEF Differ
  <2> QED
    BY <2>1, Smallest
<1>2. n \in 0 .. m /\ Held(base, s)[n] # Held(base, t)[n]
  OBVIOUS
<1>3. n # 0
  BY <1>2, HeldSteps
<1>4. n - 1 \in 0 .. m /\ n - 1 < n /\ n \in 1 .. Len(s) /\ n \in 1 .. Len(t) /\ n \in 1 .. m
  BY <1>2, <1>3
<1>5. n - 1 \notin Differ
  <2> HIDE DEF Differ
  <2> QED
    BY <1>1, <1>2, <1>4
<1>6. Held(base, s)[n - 1] = Held(base, t)[n - 1]
  BY <1>4, <1>5
<1>7. Held(base, s)[n] = Held(base, t)[n]
  BY <1>4, <1>6, HeldSteps
<1> QED
  BY <1>2, <1>7

\* Whatever takes the same steps holds the same.
LEMMA HeldUnique ==
    ASSUME NEW base, NEW s, Len(s) \in Nat, NEW h, h[0] = base,
           \A n \in 1 .. Len(s) : h[n] = Step(h[n - 1], s[n])
    PROVE  \A n \in 0 .. Len(s) : h[n] = Held(base, s)[n]
<1> DEFINE Differ == {n \in 0 .. Len(s) : h[n] # Held(base, s)[n]}
<1> SUFFICES ASSUME Differ # {} PROVE FALSE
  OBVIOUS
<1>1. PICK n \in Differ : \A j \in Differ : n <= j
  <2>1. Differ \subseteq Nat
    OBVIOUS
  <2> HIDE DEF Differ
  <2> QED
    BY <2>1, Smallest
<1>2. n \in 0 .. Len(s) /\ h[n] # Held(base, s)[n]
  OBVIOUS
<1>3. n # 0
  BY <1>2, HeldSteps
<1>4. n \in 1 .. Len(s) /\ n - 1 \in 0 .. Len(s) /\ n - 1 < n
  BY <1>2, <1>3
<1>5. n - 1 \notin Differ
  <2> HIDE DEF Differ
  <2> QED
    BY <1>1, <1>2, <1>4
<1>6. h[n - 1] = Held(base, s)[n - 1]
  BY <1>4, <1>5
<1>7. h[n] = Held(base, s)[n]
  BY <1>4, <1>6, HeldSteps
<1> QED
  BY <1>2, <1>7

\* A loop over nothing, and a loop over one more.
LEMMA FoldEmpty ==
    ASSUME NEW base, NEW s, Len(s) = 0
    PROVE  Fold(base, s) = base
  BY HeldSteps DEF Fold

LEMMA FoldOneMore ==
    ASSUME NEW base, NEW s, NEW t, Len(s) \in Nat, Len(t) = Len(s) + 1,
           \A i \in 1 .. Len(s) : s[i] = t[i]
    PROVE  Fold(base, t) = Step(Fold(base, s), t[Len(t)])
<1>1. Len(t) \in Nat /\ Len(t) \in 1 .. Len(t) /\ Len(t) - 1 = Len(s)
  OBVIOUS
<1>2. Held(base, t)[Len(t)] = Step(Held(base, t)[Len(s)], t[Len(t)])
  BY <1>1, HeldSteps
<1>3. Held(base, s)[Len(s)] = Held(base, t)[Len(s)]
  BY <1>1, HeldAgree
<1> QED
  BY <1>2, <1>3 DEF Fold

-----------------------------------------------------------------------------
(* A finite set of numbers in order                                        *)

\* The members of S up to i.
UpTo(S, i) == {j \in S : j <= i}

Increases(f, n) == \A i, j \in 1 .. n : i < j => f[i] < f[j]

\* A member has a place of its own among the members.
LEMMA Rank ==
    ASSUME NEW S, S \subseteq Nat, IsFiniteSet(S)
    PROVE  /\ Cardinality(S) \in Nat
           /\ \A i \in S : Cardinality(UpTo(S, i)) \in 1 .. Cardinality(S)
           /\ \A i, j \in S :
                 i < j => Cardinality(UpTo(S, i)) < Cardinality(UpTo(S, j))
           /\ \A i, j \in S :
                 Cardinality(UpTo(S, i)) = Cardinality(UpTo(S, j)) => i = j
<1>1. Cardinality(S) \in Nat
  BY FS_CardinalityType
<1>2. ASSUME NEW i \in S
      PROVE  /\ IsFiniteSet(UpTo(S, i)) /\ Cardinality(UpTo(S, i)) \in Nat
             /\ Cardinality(UpTo(S, i)) \in 1 .. Cardinality(S)
  <2>1. UpTo(S, i) \in SUBSET S /\ i \in UpTo(S, i)
    BY DEF UpTo
  <2>2. /\ IsFiniteSet(UpTo(S, i)) /\ Cardinality(UpTo(S, i)) \in Nat
        /\ Cardinality(UpTo(S, i)) <= Cardinality(S)
    BY <2>1, FS_Subset, FS_CardinalityType
  <2>3. Cardinality(UpTo(S, i)) # 0
    BY <2>1, <2>2, FS_EmptySet
  <2> QED
    BY <1>1, <2>2, <2>3
<1>3. ASSUME NEW i \in S, NEW j \in S, i < j
      PROVE  Cardinality(UpTo(S, i)) < Cardinality(UpTo(S, j))
  <2>1. UpTo(S, i) \in SUBSET UpTo(S, j) /\ j \in UpTo(S, j) /\ j \notin UpTo(S, i)
    <3>1. i \in Nat /\ j \in Nat /\ UpTo(S, i) \subseteq S
      BY DEF UpTo
    <3>2. \A x \in S : x \in Nat /\ (x <= i => x <= j)
      BY <1>3, <3>1
    <3>3. j <= j /\ ~ (j <= i)
      BY <1>3, <3>1
    <3> QED
      BY <3>1, <3>2, <3>3 DEF UpTo
  <2>2. /\ Cardinality(UpTo(S, i)) <= Cardinality(UpTo(S, j))
        /\ Cardinality(UpTo(S, j)) = Cardinality(UpTo(S, i)) => UpTo(S, j) = UpTo(S, i)
    BY <1>2, <2>1, FS_Subset
  <2>3. Cardinality(UpTo(S, i)) # Cardinality(UpTo(S, j))
    BY <2>1, <2>2
  <2>4. Cardinality(UpTo(S, i)) \in Nat /\ Cardinality(UpTo(S, j)) \in Nat
    BY <1>2
  <2> QED
    BY <2>2, <2>3, <2>4
<1>4. ASSUME NEW i \in S, NEW j \in S, Cardinality(UpTo(S, i)) = Cardinality(UpTo(S, j))
      PROVE  i = j
  <2>1. i \in Nat /\ j \in Nat /\ Cardinality(UpTo(S, i)) \in Nat
    BY <1>2
  <2>2. ~ (i < j) /\ ~ (j < i)
    BY <1>3, <1>4, <2>1
  <2> QED
    BY <2>1, <2>2
<1> QED
  BY <1>1, <1>2, <1>3, <1>4

\* InOrder(S) lists S: each member at its place.
LEMMA InOrderLists ==
    ASSUME NEW S, S \subseteq Nat, IsFiniteSet(S)
    PROVE  /\ Cardinality(S) \in Nat
           /\ InOrder(S) \in [1 .. Cardinality(S) -> S]
           /\ Increases(InOrder(S), Cardinality(S))
           /\ \A i \in S : \E k \in 1 .. Cardinality(S) : InOrder(S)[k] = i
<1> DEFINE n == Cardinality(S)
           rank == [i \in S |-> Cardinality(UpTo(S, i))]
<1>1. /\ n \in Nat /\ \A i \in S : rank[i] \in 1 .. n
      /\ \A i, j \in S : i < j => rank[i] < rank[j]
      /\ \A i, j \in S : rank[i] = rank[j] => i = j
  BY Rank
<1>2. rank \in [S -> 1 .. n]
  BY <1>1
<1>3. rank \in Injection(S, 1 .. n)
  <2> HIDE DEF rank, n
  <2> QED
    BY <1>1, <1>2 DEF Injection, IsInjective
<1>4. IsFiniteSet(1 .. n) /\ Cardinality(1 .. n) = n
  BY <1>1, FS_Interval
<1>5. rank \in Surjection(S, 1 .. n)
  BY <1>3, <1>4, FS_Injection
<1>6. \A k \in 1 .. n : \E i \in S : rank[i] = k
  BY <1>5 DEF Surjection
<1>7. ASSUME NEW k \in 1 .. n
      PROVE  InOrder(S)[k] \in S /\ rank[InOrder(S)[k]] = k
  <2>1. \E i \in S : Cardinality(UpTo(S, i)) = k
    BY <1>6
  <2>2. InOrder(S)[k] = CHOOSE i \in S : Cardinality(UpTo(S, i)) = k
    BY DEF InOrder, UpTo
  <2>3. InOrder(S)[k] \in S /\ Cardinality(UpTo(S, InOrder(S)[k])) = k
    BY <2>1, <2>2
  <2> QED
    BY <2>3
<1>8. InOrder(S) \in [1 .. n -> S]
  <2>1. \E g : InOrder(S) = [k \in 1 .. n |-> g[k]]
    <3>1. InOrder(S) = [k \in 1 .. n |-> CHOOSE i \in S : Cardinality(UpTo(S, i)) = k]
      BY DEF InOrder, UpTo
    <3>2. InOrder(S) = [k \in 1 .. n |-> InOrder(S)[k]]
      BY <3>1
    <3> QED
      BY <3>2
  <2> QED
    BY <1>7, <2>1
<1> HIDE DEF n, rank
<1>9. ASSUME NEW k \in 1 .. n, NEW l \in 1 .. n, k < l
      PROVE  InOrder(S)[k] < InOrder(S)[l]
  <2>1. InOrder(S)[k] \in S /\ InOrder(S)[l] \in S
        /\ rank[InOrder(S)[k]] = k /\ rank[InOrder(S)[l]] = l
    BY <1>7
  <2>2. k \in Nat /\ l \in Nat
    BY <1>1
  <2>4. InOrder(S)[k] \in Nat /\ InOrder(S)[l] \in Nat
    BY <2>1
  <2>3. ~ (InOrder(S)[l] < InOrder(S)[k]) /\ InOrder(S)[l] # InOrder(S)[k]
    <3>1. InOrder(S)[l] < InOrder(S)[k] => l < k
      BY <1>1, <2>1
    <3> QED
      BY <1>9, <2>1, <2>2, <3>1
  <2> QED
    BY <2>3, <2>4
<1>10. ASSUME NEW i \in S
       PROVE  \E k \in 1 .. n : InOrder(S)[k] = i
  <2>1. rank[i] \in 1 .. n
    BY <1>1
  <2>2. InOrder(S)[rank[i]] \in S /\ rank[InOrder(S)[rank[i]]] = rank[i]
    BY <1>7, <2>1
  <2> QED
    BY <1>1, <2>1, <2>2
<1> QED
  BY <1>1, <1>8, <1>9, <1>10 DEF Increases, n

\* Whatever lists S in order is InOrder(S).
LEMMA InOrderUnique ==
    ASSUME NEW S, S \subseteq Nat, NEW n \in Nat, NEW f \in [1 .. n -> S],
           Increases(f, n), \A i \in S : \E k \in 1 .. n : f[k] = i
    PROVE  /\ IsFiniteSet(S) /\ n = Cardinality(S)
           /\ f = InOrder(S)
<1>1. IsFiniteSet(1 .. n) /\ Cardinality(1 .. n) = n
  BY FS_Interval
<1>0. \A k \in 1 .. n : k \in Nat /\ f[k] \in Nat
  <2> TAKE k \in 1 .. n
  <2>1. f[k] \in S
    OBVIOUS
  <2>2. f[k] \in Nat
    BY <2>1
  <2>3. k \in Nat
    OBVIOUS
  <2> QED
    BY <2>2, <2>3
<1>2. ASSUME NEW k \in 1 .. n, NEW l \in 1 .. n, f[k] <= f[l]
      PROVE  k <= l
  <2>1. k \in Nat /\ l \in Nat /\ f[k] \in Nat /\ f[l] \in Nat
    BY <1>0
  <2>2. ~ (l < k)
    BY <1>2, <2>1 DEF Increases
  <2> QED
    BY <2>1, <2>2
<1>3. ASSUME NEW k \in 1 .. n, NEW l \in 1 .. n, k <= l
      PROVE  f[k] <= f[l]
  <2>1. k \in Nat /\ l \in Nat /\ f[k] \in Nat /\ f[l] \in Nat
    BY <1>0
  <2>2. k = l \/ k < l
    BY <1>3, <2>1
  <2> QED
    BY <2>1, <2>2 DEF Increases
<1>4. ASSUME NEW k \in 1 .. n, NEW l \in 1 .. n, f[k] = f[l]
      PROVE  k = l
  <2>1. k \in Nat /\ l \in Nat /\ f[k] \in Nat /\ f[l] \in Nat
    BY <1>0
  <2>2. k <= l /\ l <= k
    BY <1>2, <1>4, <2>1
  <2> QED
    BY <2>1, <2>2
<1>5. f \in Surjection(1 .. n, S) /\ f \in Injection(1 .. n, S)
  BY <1>4 DEF Surjection, Injection, IsInjective
<1>6. IsFiniteSet(S) /\ Cardinality(S) = n
  BY <1>1, <1>5, FS_Surjection
<1>7. ASSUME NEW k \in 1 .. n
      PROVE  Cardinality(UpTo(S, f[k])) = k
  <2> DEFINE g == [i \in 1 .. k |-> f[i]]
  <2>1. ASSUME NEW i \in 1 .. k
        PROVE  i \in 1 .. n /\ g[i] \in UpTo(S, f[k]) /\ g[i] = f[i]
    <3>1. i \in 1 .. n /\ i <= k
      OBVIOUS
    <3>2. f[i] <= f[k]
      BY <1>3, <3>1
    <3> QED
      BY <3>1, <3>2 DEF UpTo
  <2>2. \A x \in UpTo(S, f[k]) : \E i \in 1 .. k : g[i] = x
    <3> SUFFICES ASSUME NEW x \in UpTo(S, f[k]) PROVE \E i \in 1 .. k : g[i] = x
      OBVIOUS
    <3>1. x \in S /\ x <= f[k]
      BY DEF UpTo
    <3>2. PICK i \in 1 .. n : f[i] = x
      BY <3>1
    <3>3. i <= k
      BY <1>2, <3>1, <3>2
    <3>4. i \in 1 .. k
      BY <3>3
    <3> QED
      BY <3>2, <3>4
  <2>3. g \in [1 .. k -> UpTo(S, f[k])]
    BY <2>1
  <2>4. \A i, j \in 1 .. k : g[i] = g[j] => i = j
    BY <1>4, <2>1
  <2>5. g \in Surjection(1 .. k, UpTo(S, f[k])) /\ g \in Injection(1 .. k, UpTo(S, f[k]))
    <3> HIDE DEF g
    <3> QED
      BY <2>2, <2>3, <2>4 DEF Surjection, Injection, IsInjective
  <2>6. IsFiniteSet(1 .. k) /\ Cardinality(1 .. k) = k
    BY FS_Interval
  <2> HIDE DEF g
  <2> QED
    BY <2>5, <2>6, FS_Surjection
<1>8. ASSUME NEW k \in 1 .. n
      PROVE  InOrder(S)[k] = f[k]
  <2>1. k \in 1 .. Cardinality(S)
    BY <1>6
  <2>2. InOrder(S)[k] = CHOOSE i \in S : Cardinality(UpTo(S, i)) = k
    BY <2>1 DEF InOrder, UpTo
  <2>3. f[k] \in S /\ Cardinality(UpTo(S, f[k])) = k
    BY <1>7
  <2>4. \A i \in S : Cardinality(UpTo(S, i)) = k => i = f[k]
    <3>1. \A i, j \in S : Cardinality(UpTo(S, i)) = Cardinality(UpTo(S, j)) => i = j
      BY <1>6, Rank
    <3> QED
      BY <2>3, <3>1
  <2> QED
    BY <2>2, <2>3, <2>4
<1>9. InOrder(S) \in [1 .. n -> S]
  BY <1>6, InOrderLists
<1>10. InOrder(S) = f
  BY <1>8, <1>9
<1> QED
  BY <1>6, <1>10

\* The beginning of a list in order lists what it has.
LEMMA InOrderBegins ==
    ASSUME NEW S, S \subseteq Nat, IsFiniteSet(S), NEW m \in 0 .. Cardinality(S)
    PROVE  LET B == {InOrder(S)[k] : k \in 1 .. m}
           IN  IsFiniteSet(B) /\ Cardinality(B) = m
               /\ InOrder(B) = [k \in 1 .. m |-> InOrder(S)[k]]
<1> DEFINE B == {InOrder(S)[k] : k \in 1 .. m}
           f == [k \in 1 .. m |-> InOrder(S)[k]]
<1>1. /\ Cardinality(S) \in Nat /\ InOrder(S) \in [1 .. Cardinality(S) -> S]
      /\ Increases(InOrder(S), Cardinality(S))
  BY InOrderLists
<1>2. m \in Nat /\ \A k \in 1 .. m : k \in 1 .. Cardinality(S)
  BY <1>1
<1>3. B \subseteq Nat
  BY <1>1, <1>2
<1>4. f \in [1 .. m -> B] /\ \A i \in B : \E k \in 1 .. m : f[k] = i
  OBVIOUS
<1>5. Increases(f, m)
  BY <1>1, <1>2 DEF Increases
<1> HIDE DEF B, f
<1>6. IsFiniteSet(B) /\ m = Cardinality(B) /\ f = InOrder(B)
  BY <1>2, <1>3, <1>4, <1>5, InOrderUnique
<1> QED
  BY <1>6 DEF B, f

\* a has the members of s at the c positions S, and none twice that s has once.
Lists(a, s, S, c) ==
    /\ c \in Nat /\ DOMAIN a = 1 .. c
    /\ \A k \in 1 .. c : \E i \in S : a[k] = s[i]
    /\ \A i \in S : \E k \in 1 .. c : a[k] = s[i]
    /\ (\A i, l \in S : s[i] = s[l] => i = l) => \A j, k \in 1 .. c : a[j] = a[k] => j = k

LEMMA AtLists ==
    ASSUME NEW s, Len(s) \in Nat, NEW S \in SUBSET (1 .. Len(s))
    PROVE  Lists(At(s, S), s, S, Cardinality(S))
<1> DEFINE o == InOrder(S)
           c == Cardinality(S)
<1>1. S \subseteq Nat /\ IsFiniteSet(S)
  <2>1. IsFiniteSet(1 .. Len(s))
    BY FS_Interval
  <2>2. IsFiniteSet(S)
    BY <2>1, FS_Subset
  <2> QED
    BY <2>2
<1>3. c \in Nat /\ o \in [1 .. c -> S] /\ (\A i \in S : \E k \in 1 .. c : o[k] = i)
  BY <1>1, InOrderLists
<1>4. \A j, k \in 1 .. c : o[j] = o[k] => j = k
  <2>1. Increases(o, c)
    BY <1>1, InOrderLists
  <2> HIDE DEF o, c
  <2>2. \A j \in 1 .. c : o[j] \in Nat /\ j \in Nat
    <3>1. \A j \in 1 .. c : o[j] \in S /\ j \in Nat
      BY <1>3
    <3> QED
      BY <1>1, <3>1
  <2>3. \A j, k \in 1 .. c : j < k => o[j] < o[k]
    BY <2>1 DEF Increases
  <2> QED
    BY <2>2, <2>3
<1>5. At(s, S) = [k \in 1 .. c |-> s[o[k]]]
  BY DEF At, o, c
<1> HIDE DEF o, c
<1> DEFINE a == At(s, S)
<1>6. \A k \in 1 .. c : a[k] = s[o[k]] /\ o[k] \in S
  BY <1>3, <1>5
<1> HIDE DEF a
<1>7. \A k \in 1 .. c : \E i \in S : a[k] = s[i]
  BY <1>6
<1>8. \A i \in S : \E k \in 1 .. c : a[k] = s[i]
  BY <1>3, <1>6
<1>9. ASSUME \A i, l \in S : s[i] = s[l] => i = l,
             NEW j \in 1 .. c, NEW k \in 1 .. c, a[j] = a[k]
      PROVE  j = k
  <2>1. o[j] \in S /\ o[k] \in S /\ s[o[j]] = s[o[k]]
    BY <1>6, <1>9
  <2> QED
    BY <1>4, <1>9, <2>1
<1> QED
  BY <1>3, <1>5, <1>7, <1>8, <1>9 DEF Lists, a, c

=============================================================================
