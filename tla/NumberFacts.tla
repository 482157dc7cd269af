----------------------------- MODULE NumberFacts -----------------------------
(***************************************************************************)
(* What the proofs need of the natural numbers: the order of a finite set  *)
(* of them, induction, and functions defined by recursion.  The facts are  *)
(* about sets and functions and take no operator as a parameter.           *)
(***************************************************************************)
EXTENDS Integers, FiniteSets, FiniteSetTheorems, FunctionTheorems, TLAPS

(***************************************************************************)
(* The elements of a finite set of numbers can be put in order: the rank   *)
(* of an element is the number of smaller ones.                            *)
(***************************************************************************)
Below(S, x) == {y \in S : y < x}
Rank(S) == [x \in S |-> Cardinality(Below(S, x))]

LEMMA RankIsBijection ==
    ASSUME NEW S \in SUBSET Nat, IsFiniteSet(S)
    PROVE  /\ Cardinality(S) \in Nat
           /\ Rank(S) \in Surjection(S, 0 .. Cardinality(S) - 1)
           /\ \A x, y \in S : x < y <=> Rank(S)[x] < Rank(S)[y]
  <1>1. Cardinality(S) \in Nat
    BY FS_CardinalityType
  <1>2. ASSUME NEW x \in S
        PROVE  /\ IsFiniteSet(Below(S, x)) /\ Cardinality(Below(S, x)) \in Nat
               /\ Cardinality(Below(S, x)) < Cardinality(S)
    <2>1. Below(S, x) \in SUBSET S /\ Below(S, x) # S
      BY DEF Below
    <2>2. /\ IsFiniteSet(Below(S, x)) /\ Cardinality(Below(S, x)) <= Cardinality(S)
          /\ Cardinality(S) # Cardinality(Below(S, x))
      BY <2>1, FS_Subset
    <2>3. Cardinality(Below(S, x)) \in Nat
      BY <2>2, FS_CardinalityType
    <2>4. QED
      BY <1>1, <2>2, <2>3
  <1>3. ASSUME NEW x \in S, NEW y \in S, x < y
        PROVE  Cardinality(Below(S, x)) < Cardinality(Below(S, y))
    <2>1. Below(S, x) \in SUBSET Below(S, y) /\ x \in Below(S, y) /\ x \notin Below(S, x)
      <3>1. x \in Nat /\ y \in Nat /\ ~ (x < x) /\ \A z \in S : z < x => z < y
        BY <1>3
      <3>2. QED
        BY <1>3, <3>1 DEF Below
    <2>2. /\ Cardinality(Below(S, x)) <= Cardinality(Below(S, y))
          /\ Cardinality(Below(S, x)) # Cardinality(Below(S, y))
      BY <1>2, <2>1, FS_Subset
    <2>3. QED
      BY <1>2, <2>2
  <1>4. Rank(S) \in [S -> 0 .. Cardinality(S) - 1]
    <2>1. \A x \in S : Cardinality(Below(S, x)) \in 0 .. Cardinality(S) - 1
      BY <1>1, <1>2
    <2>2. QED
      BY <2>1 DEF Rank
  <1>5. \A x, y \in S : x < y <=> Rank(S)[x] < Rank(S)[y]
    <2>1. \A x, y \in S : x < y => Rank(S)[x] < Rank(S)[y]
      BY <1>3 DEF Rank
    <2>2. \A x \in S : Rank(S)[x] \in Nat
      BY <1>2 DEF Rank
    <2>3. \A x, y \in S : x < y \/ x = y \/ y < x
      OBVIOUS
    <2>4. QED
      BY <2>1, <2>2, <2>3
  <1>6. Rank(S) \in Injection(S, 0 .. Cardinality(S) - 1)
    <2>1. \A x \in S : Rank(S)[x] \in Nat
      BY <1>2 DEF Rank
    <2>2. \A x, y \in S : Rank(S)[x] = Rank(S)[y] => x = y
      BY <1>5, <2>1
    <2>3. QED
      BY <1>4, <2>2 DEF Injection, IsInjective
  <1>7. IsFiniteSet(0 .. Cardinality(S) - 1)
        /\ Cardinality(0 .. Cardinality(S) - 1) = Cardinality(S)
    <2>1. /\ IsFiniteSet(0 .. Cardinality(S) - 1)
          /\ Cardinality(0 .. Cardinality(S) - 1) =
                 IF 0 > Cardinality(S) - 1 THEN 0 ELSE (Cardinality(S) - 1) - 0 + 1
      BY <1>1, FS_Interval
    <2>2. QED
      BY <1>1, <2>1
  <1>8. Rank(S) \in Surjection(S, 0 .. Cardinality(S) - 1)
    BY <1>6, <1>7, FS_Injection
  <1>9. QED
    BY <1>1, <1>5, <1>8

LEMMA Minimum ==
    ASSUME NEW S \in SUBSET Nat, IsFiniteSet(S), S # {}
    PROVE  \E x \in S : \A y \in S : x <= y
  <1>1. Cardinality(S) \in Nat /\ Cardinality(S) # 0
    BY FS_CardinalityType, FS_EmptySet
  <1>2. 0 \in 0 .. Cardinality(S) - 1
    BY <1>1
  <1>3. PICK x \in S : Rank(S)[x] = 0
    BY <1>2, RankIsBijection DEF Surjection
  <1>4. \A y \in S : Rank(S)[y] \in Nat
    BY <1>1, RankIsBijection DEF Surjection
  <1>5. \A y \in S : ~ (y < x)
    <2>1. SUFFICES ASSUME NEW y \in S, y < x PROVE FALSE
      OBVIOUS
    <2>2. Rank(S)[y] < Rank(S)[x]
      BY <2>1, RankIsBijection
    <2>3. QED
      BY <1>3, <1>4, <2>2
  <1>6. QED
    BY <1>5

-----------------------------------------------------------------------------
(***************************************************************************)
(* Induction.                                                              *)
(***************************************************************************)
LEMMA LeastNumber ==
    ASSUME NEW S \in SUBSET Nat, S # {}
    PROVE  \E x \in S : \A y \in S : x <= y
  <1>1. PICK n \in S : TRUE
    OBVIOUS
  <1> DEFINE T == {y \in S : y <= n}
  <1>2. T \in SUBSET Nat /\ IsFiniteSet(T) /\ T # {}
    <2>1. n \in Nat /\ n <= n /\ \A y \in S : y \in Nat /\ (y <= n => y \in 0 .. n)
      OBVIOUS
    <2>4. T \in SUBSET (0 .. n) /\ n \in T
      BY <2>1
    <2>2. IsFiniteSet(0 .. n)
      BY FS_Interval
    <2>3. QED
      BY <2>2, <2>4, FS_Subset
  <1>3. PICK x \in T : \A y \in T : x <= y
    <2> HIDE DEF T
    <2>1. QED
      BY <1>2, Minimum
  <1>4. \A y \in S : x <= y
    BY <1>3
  <1>5. QED
    BY <1>3, <1>4

(* Induction over the numbers, stated of a set of them.                    *)
LEMMA SetInduction ==
    ASSUME NEW S \in SUBSET Nat, 0 \in S, \A n \in S : n + 1 \in S
    PROVE  S = Nat
  <1>1. SUFFICES ASSUME Nat \ S # {}
                 PROVE  FALSE
    OBVIOUS
  <1>2. PICK x \in Nat \ S : \A y \in Nat \ S : x <= y
    BY <1>1, LeastNumber
  <1>3. x - 1 \in Nat /\ ~ (x <= x - 1)
    BY <1>2
  <1>4. x - 1 \in S
    BY <1>2, <1>3
  <1>5. (x - 1) + 1 = x
    BY <1>2
  <1>6. QED
    BY <1>2, <1>4, <1>5

(* The same, from all smaller numbers.                                     *)
LEMMA StrongInduction ==
    ASSUME NEW S \in SUBSET Nat, \A n \in Nat : (\A k \in 0 .. n - 1 : k \in S) => n \in S
    PROVE  S = Nat
  <1>1. SUFFICES ASSUME Nat \ S # {}
                 PROVE  FALSE
    OBVIOUS
  <1>2. PICK x \in Nat \ S : \A y \in Nat \ S : x <= y
    BY <1>1, LeastNumber
  <1>3. \A k \in 0 .. x - 1 : k \in S
    BY <1>2
  <1>4. QED
    BY <1>2, <1>3

-----------------------------------------------------------------------------
(***************************************************************************)
(* Recursion.                                                              *)
(***************************************************************************)
\* f has the values of the recursion up to n: v0 at 0, and elsewhere what
\* step makes of a value at a smaller number.
Computes(f, n, v0, step, prev) ==
    \A i \in 0 .. n : f[i] = IF i = 0 THEN v0 ELSE step[i][f[prev[i]]]

IsRecursion(f, v0, step, prev) ==
    \A n \in Nat : f[n] = IF n = 0 THEN v0 ELSE step[n][f[prev[n]]]
Descends(prev) == prev \in [Nat -> Nat] /\ \A i \in Nat \ {0} : prev[i] < i

LEMMA ComputesSame ==
    ASSUME NEW v0, NEW step, NEW prev \in [Nat -> Nat], \A i \in Nat \ {0} : prev[i] < i,
           NEW n \in Nat, NEW k \in Nat, NEW f, NEW g,
           Computes(f, n, v0, step, prev), Computes(g, k, v0, step, prev), n <= k
    PROVE  \A i \in 0 .. n : f[i] = g[i]
  <1> DEFINE S == {i \in Nat : i <= n => f[i] = g[i]}
  <1>1. ASSUME NEW i \in Nat, \A j \in 0 .. i - 1 : j \in S
        PROVE  i \in S
    <2>1. SUFFICES ASSUME i <= n
                   PROVE  f[i] = g[i]
      OBVIOUS
    <2>2. i \in 0 .. n /\ i \in 0 .. k
      BY <2>1
    <2>3. /\ f[i] = IF i = 0 THEN v0 ELSE step[i][f[prev[i]]]
          /\ g[i] = IF i = 0 THEN v0 ELSE step[i][g[prev[i]]]
      BY <2>2 DEF Computes
    <2>4. CASE i = 0
      BY <2>3, <2>4
    <2>5. CASE i # 0
      <3>1. prev[i] \in 0 .. i - 1 /\ prev[i] <= n
        BY <2>1, <2>5
      <3>2. f[prev[i]] = g[prev[i]]
        BY <1>1, <3>1
      <3>3. QED
        BY <2>3, <2>5, <3>2
    <2>6. QED
      BY <2>4, <2>5
  <1>2. S = Nat
    <2> HIDE DEF S
    <2>1. S \in SUBSET Nat
      BY DEF S
    <2>2. QED
      BY <1>1, <2>1, StrongInduction
  <1>3. QED
    BY <1>2

(* A function on the numbers may be defined by its value at 0 and by what  *)
(* it is at n in terms of its value at a number smaller than n.            *)
LEMMA RecursionExists ==
    ASSUME NEW V, NEW v0 \in V, NEW step \in [Nat -> [V -> V]],
           NEW prev, Descends(prev)
    PROVE  \E f \in [Nat -> V] : IsRecursion(f, v0, step, prev)
  <1>0. prev \in [Nat -> Nat] /\ \A i \in Nat \ {0} : prev[i] < i
    BY DEF Descends
  <1> DEFINE Good(n, f) == f \in [0 .. n -> V] /\ Computes(f, n, v0, step, prev)
             S == {n \in Nat : \E f : Good(n, f)}
  <1>1. 0 \in S
    <2> DEFINE f == [i \in 0 .. 0 |-> v0]
    <2>1. Good(0, f)
      BY DEF Computes
    <2>2. QED
      BY <2>1
  <1>2. ASSUME NEW n \in S
        PROVE  n + 1 \in S
    <2>1. n \in Nat /\ n + 1 \in Nat /\ prev[n + 1] \in 0 .. n
      BY <1>0
    <2>2. PICK f : Good(n, f)
      BY <1>2
    <2> DEFINE w == step[n + 1][f[prev[n + 1]]]
               g == [i \in 0 .. n + 1 |-> IF i = n + 1 THEN w ELSE f[i]]
    <2>3. f[prev[n + 1]] \in V
      BY <2>1, <2>2
    <2>4. w \in V
      BY <2>1, <2>3
    <2> HIDE DEF w
    <2>5. g \in [0 .. n + 1 -> V]
      BY <2>1, <2>2, <2>4
    <2>6. ASSUME NEW i \in 0 .. n + 1
          PROVE  g[i] = IF i = 0 THEN v0 ELSE step[i][g[prev[i]]]
      <3>1. CASE i = n + 1
        <4>1. g[i] = w /\ g[prev[i]] = f[prev[i]] /\ i # 0
          BY <2>1, <3>1
        <4>2. QED
          BY <3>1, <4>1 DEF w
      <3>2. CASE i # n + 1
        <4>1. i \in 0 .. n
          BY <2>1, <3>2
        <4>2. g[i] = f[i] /\ (i # 0 => g[prev[i]] = f[prev[i]])
          <5>1. i \in 0 .. n + 1 /\ i # n + 1
            BY <2>1, <4>1
          <5>2. i # 0 => prev[i] \in 0 .. n + 1 /\ prev[i] # n + 1
            BY <1>0, <2>1, <4>1
          <5>3. QED
            BY <5>1, <5>2
        <4>3. f[i] = IF i = 0 THEN v0 ELSE step[i][f[prev[i]]]
          BY <2>2, <4>1 DEF Computes
        <4>4. QED
          BY <4>2, <4>3
      <3>3. QED
        BY <3>1, <3>2
    <2>7. Good(n + 1, g)
      <3> HIDE DEF g
      <3>1. QED
        BY <2>5, <2>6 DEF Computes
    <2>8. QED
      BY <2>1, <2>7
  <1>3. S = Nat
    <2> HIDE DEF S
    <2>1. S \in SUBSET Nat
      BY DEF S
    <2>2. QED
      BY <1>1, <1>2, <2>1, SetInduction
  <1> DEFINE part == [n \in Nat |-> CHOOSE f : Good(n, f)]
             all == [n \in Nat |-> part[n][n]]
  <1>4. ASSUME NEW n \in Nat
        PROVE  Good(n, part[n])
    BY <1>3
  <1> HIDE DEF part
  <1>5. ASSUME NEW n \in Nat, NEW i \in 0 .. n
        PROVE  all[i] = part[n][i]
    <2>1. i \in Nat /\ i <= n /\ i \in 0 .. i
      OBVIOUS
    <2>2. Computes(part[i], i, v0, step, prev) /\ Computes(part[n], n, v0, step, prev)
      BY <1>4, <2>1
    <2>3. part[i][i] = part[n][i]
      <3> DEFINE g == part[i]
                 h == part[n]
      <3>1. Computes(g, i, v0, step, prev) /\ Computes(h, n, v0, step, prev)
        BY <2>2
      <3> HIDE DEF g, h
      <3>2. \A j \in 0 .. i : g[j] = h[j]
        BY <1>0, <2>1, <3>1, ComputesSame
      <3>3. g[i] = h[i]
        BY <2>1, <3>2
      <3>4. QED
        BY <3>3 DEF g, h
    <2>4. QED
      BY <2>1, <2>3
  <1>6. ASSUME NEW n \in Nat
        PROVE  all[n] \in V /\ all[n] = IF n = 0 THEN v0 ELSE step[n][all[prev[n]]]
    <2>1. n \in 0 .. n /\ (n # 0 => prev[n] \in 0 .. n)
      BY <1>0
    <2>2. all[n] = part[n][n] /\ (n # 0 => all[prev[n]] = part[n][prev[n]])
      BY <1>5, <2>1
    <2> DEFINE g == part[n]
    <2>3. g \in [0 .. n -> V]
      BY <1>4
    <2>4. g[n] = IF n = 0 THEN v0 ELSE step[n][g[prev[n]]]
      BY <1>4, <2>1 DEF Computes
    <2> HIDE DEF all, g
    <2>5. all[n] = g[n] /\ (n # 0 => all[prev[n]] = g[prev[n]])
      BY <2>2 DEF g
    <2>6. g[n] \in V
      BY <2>1, <2>3
    <2>7. QED
      BY <2>4, <2>5, <2>6
  <1>7. all \in [Nat -> V]
    BY <1>6
  <1> HIDE DEF all
  <1>8. QED
    BY <1>6, <1>7 DEF IsRecursion

=============================================================================
