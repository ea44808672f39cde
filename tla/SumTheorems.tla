----------------------------- MODULE SumTheorems -----------------------------
(***************************************************************************)
(* What several proofs need: induction over the naturals, stated about a set  *)
(* and not about a predicate, so that it can be cited; functions that apply    *)
(* step after step; and sums over finite sets, which the models take from      *)
(* Folds.                                                                  *)
(***************************************************************************)
EXTENDS Integers, FiniteSetTheorems, Folds, TLAPS

\* A set with 0 that is closed under the successor has every natural number: were m
\* missing, the successor would map the part up to m into itself without 0, and leave
\* fewer places than elements.
LEMMA NatSteps ==
    ASSUME NEW T \in SUBSET Nat, 0 \in T, \A n \in T : n + 1 \in T
    PROVE  T = Nat
<1> SUFFICES ASSUME NEW m \in Nat, m \notin T PROVE FALSE
  OBVIOUS
<1> DEFINE U == T \cap (0..m)
           f == [n \in U |-> n + 1]
<1>1. IsFiniteSet(0..m)
  BY FS_Interval
<1>2. IsFiniteSet(U)
  BY <1>1, FS_Subset
<1>3. \A n \in U : n \in Nat /\ n + 1 \in U \ {0}
  OBVIOUS
<1>4. f \in Injection(U, U \ {0})
  BY <1>3 DEF Injection, IsInjective
<1>5. IsFiniteSet(U \ {0})
  BY <1>2, FS_Subset
<1>6. Cardinality(U) <= Cardinality(U \ {0})
  BY <1>2, <1>4, <1>5, FS_Injection
<1>7. 0 \in U
  OBVIOUS
<1>8. Cardinality(U \ {0}) = Cardinality(U) - 1 /\ Cardinality(U) \in Nat
  BY <1>2, <1>7, FS_RemoveElement, FS_CardinalityType
<1> QED BY <1>6, <1>8

-----------------------------------------------------------------------------
(* A function that applies step after step has a value at every number.     *)

\* The first n steps from x: what f says of 0..n.
Walks(f, X, x, F, n) ==
    /\ f \in [0..n -> X]
    /\ f[0] = x
    /\ \A k \in 1..n : f[k] = F[k][f[k - 1]]

LEMMA WalksExist ==
    ASSUME NEW X, NEW x \in X, NEW F \in [Nat -> [X -> X]], NEW n \in Nat
    PROVE  \E f : Walks(f, X, x, F, n)
<1> DEFINE T == {k \in Nat : \E f : Walks(f, X, x, F, k)}
<1>1. 0 \in T
  <2> DEFINE f == [k \in 0..0 |-> x]
  <2>1. Walks(f, X, x, F, 0)
    BY DEF Walks
  <2> QED BY <2>1
<1>2. ASSUME NEW k \in T PROVE k + 1 \in T
  <2>0. k \in Nat
    OBVIOUS
  <2>1. PICK f : Walks(f, X, x, F, k)
    OBVIOUS
  <2> HIDE DEF T
  <2> DEFINE g == [i \in 0..(k + 1) |-> IF i = k + 1 THEN F[k + 1][f[k]] ELSE f[i]]
  <2>2. f[k] \in X /\ \A i \in 0..k : f[i] \in X
    BY <2>0, <2>1 DEF Walks
  <2>3. g \in [0..(k + 1) -> X]
    BY <2>0, <2>2
  <2>4. g[0] = x /\ \A i \in 1..(k + 1) : g[i] = F[i][g[i - 1]]
    BY <2>0, <2>1 DEF Walks
  <2>5. Walks(g, X, x, F, k + 1)
    BY <2>3, <2>4 DEF Walks
  <2> QED BY <2>0, <2>5 DEF T
<1>3. T \in SUBSET Nat
  OBVIOUS
<1> HIDE DEF T
<1>4. T = Nat
  BY <1>1, <1>2, <1>3, NatSteps
<1> QED BY <1>4 DEF T

LEMMA WalksAgree ==
    ASSUME NEW X, NEW x \in X, NEW F \in [Nat -> [X -> X]], NEW n \in Nat, NEW m \in Nat,
           NEW f, Walks(f, X, x, F, n), NEW g, Walks(g, X, x, F, m),
           NEW k \in Nat, k <= n, k <= m
    PROVE  f[k] = g[k]
<1> DEFINE T == {i \in Nat : i <= n /\ i <= m => f[i] = g[i]}
<1>1. 0 \in T
  BY DEF Walks
<1>2. ASSUME NEW i \in T PROVE i + 1 \in T
  BY DEF Walks
<1>3. T \in SUBSET Nat
  OBVIOUS
<1> HIDE DEF T
<1>4. T = Nat
  BY <1>1, <1>2, <1>3, NatSteps
<1> QED BY <1>4 DEF T

Repeats(g, x, F) == g = [k \in Nat |-> IF k = 0 THEN x ELSE F[k][g[k - 1]]]

LEMMA Iterates ==
    ASSUME NEW X, NEW x \in X, NEW F \in [Nat -> [X -> X]]
    PROVE  \E g \in [Nat -> X] : Repeats(g, x, F)
<1> DEFINE w(n) == CHOOSE f : Walks(f, X, x, F, n)
           g == [k \in Nat |-> w(k)[k]]
<1>1. \A n \in Nat : Walks(w(n), X, x, F, n)
  BY WalksExist
<1> HIDE DEF w
<1>2. g \in [Nat -> X]
  BY <1>1 DEF Walks
<1>3. g[0] = x
  BY <1>1 DEF Walks
<1>4. ASSUME NEW k \in Nat, k # 0 PROVE g[k] = F[k][g[k - 1]]
  <2>1. k - 1 \in Nat /\ k - 1 <= k /\ k \in 1..k
    BY <1>4
  <2>2. w(k)[k] = F[k][w(k)[k - 1]]
    BY <1>1, <2>1 DEF Walks
  <2>3. w(k)[k - 1] = w(k - 1)[k - 1]
    BY <1>1, <2>1, WalksAgree
  <2> QED BY <2>1, <2>2, <2>3
<1>5. g = [k \in Nat |-> IF k = 0 THEN x ELSE F[k][g[k - 1]]]
  BY <1>3, <1>4
<1> HIDE DEF g
<1> QED BY <1>2, <1>5 DEF Repeats

-----------------------------------------------------------------------------
(* Sums of a function over the subsets of a finite set.                     *)

One(s) == CHOOSE x \in s : TRUE

\* f adds up w over every subset of S, one element after another.
AddsUp(f, w, S) ==
    f = [s \in SUBSET S |-> IF s = {} THEN 0 ELSE w[One(s)] + f[s \ {One(s)}]]

Total(w, S) == (CHOOSE f : AddsUp(f, w, S))[S]

LEMMA OneIn == ASSUME NEW s, s # {} PROVE One(s) \in s
BY DEF One

LEMMA Smaller ==
    ASSUME NEW S, IsFiniteSet(S), NEW s \in SUBSET S, NEW x \in s
    PROVE  /\ IsFiniteSet(s) /\ s \ {x} \in SUBSET S
           /\ Cardinality(s) \in Nat /\ Cardinality(s \ {x}) \in Nat
           /\ Cardinality(s \ {x}) = Cardinality(s) - 1
<1>1. IsFiniteSet(s)
  BY FS_Subset
<1> QED BY <1>1, FS_RemoveElement, FS_CardinalityType

\* Such a function exists, by the size of the subsets it is defined for.
LEMMA AddsUpExists ==
    ASSUME NEW S, IsFiniteSet(S), NEW w, \A x \in S : w[x] \in Nat
    PROVE  \E f : AddsUp(f, w, S)
<1> DEFINE Upto(n) == {s \in SUBSET S : Cardinality(s) <= n}
           Partly(f, n) ==
              /\ f \in [Upto(n) -> Nat]
              /\ \A s \in Upto(n) :
                   f[s] = IF s = {} THEN 0 ELSE w[One(s)] + f[s \ {One(s)}]
           T == {n \in Nat : \E f : Partly(f, n)}
<1>1. 0 \in T
  <2> DEFINE f == [s \in Upto(0) |-> 0]
  <2>1. \A s \in Upto(0) : s = {}
    BY FS_Subset, FS_EmptySet, FS_CardinalityType
  <2>2. Partly(f, 0)
    BY <2>1
  <2> QED BY <2>2
<1>2. ASSUME NEW n \in T PROVE n + 1 \in T
  <2>1. PICK f : Partly(f, n)
    BY <1>2
  <2> DEFINE g == [s \in Upto(n + 1) |->
                     IF s = {} THEN 0 ELSE w[One(s)] + f[s \ {One(s)}]]
  <2>2. ASSUME NEW s \in Upto(n + 1), s # {}
        PROVE  One(s) \in S /\ s \ {One(s)} \in Upto(n)
    BY <2>2, OneIn, Smaller
  <2>3. ASSUME NEW s \in Upto(n)
        PROVE  s \in Upto(n + 1) /\ g[s] = f[s]
    <3>1. Cardinality(s) \in Nat
      BY FS_Subset, FS_CardinalityType
    <3> QED BY <2>1, <3>1
  <2>4. g \in [Upto(n + 1) -> Nat]
    BY <2>1, <2>2
  <2>5. Partly(g, n + 1)
    <3> SUFFICES ASSUME NEW s \in Upto(n + 1), s # {}
                 PROVE  g[s] = w[One(s)] + g[s \ {One(s)}]
      BY <2>4
    <3> QED BY <2>2, <2>3
  <2>6. n + 1 \in Nat
    OBVIOUS
  <2> HIDE DEF Partly, g
  <2> QED BY <2>5, <2>6
<1>3. Cardinality(S) \in T
  <2>1. T = Nat
    <3> HIDE DEF T
    <3>1. T \in SUBSET Nat
      BY DEF T
    <3> QED BY <1>1, <1>2, <3>1, NatSteps
  <2> QED BY <2>1, FS_CardinalityType
<1>4. PICK f : Partly(f, Cardinality(S))
  BY <1>3
<1>5. Upto(Cardinality(S)) = SUBSET S
  BY FS_Subset
<1>6. AddsUp(f, w, S)
  BY <1>4, <1>5 DEF AddsUp
<1> QED BY <1>6

\* Its sums are numbers, and agree with any other that adds up the same numbers.
LEMMA AddsUpSame ==
    ASSUME NEW S, IsFiniteSet(S), NEW w, \A x \in S : w[x] \in Nat, NEW f, AddsUp(f, w, S),
           NEW R, NEW v, NEW g, AddsUp(g, v, R),
           NEW u \in SUBSET S, u \in SUBSET R, \A x \in u : v[x] = w[x]
    PROVE  f[u] \in Nat /\ g[u] = f[u]
<1> DEFINE Agrees(s) == f[s] \in Nat /\ g[s] = f[s]
           T == {n \in Nat : \A s \in SUBSET u : Cardinality(s) = n => Agrees(s)}
<1>1. 0 \in T
  <2>1. \A s \in SUBSET u : Cardinality(s) = 0 => s = {}
    BY FS_Subset, FS_EmptySet
  <2>2. Agrees({})
    BY DEF AddsUp
  <2> QED BY <2>1, <2>2
<1>2. ASSUME NEW n \in T PROVE n + 1 \in T
  <2> SUFFICES ASSUME NEW s \in SUBSET u, Cardinality(s) = n + 1 PROVE Agrees(s)
    OBVIOUS
  <2>0. n \in Nat
    OBVIOUS
  <2> HIDE DEF T
  <2>1. s # {}
    <3>1. n + 1 # 0
      BY <2>0
    <3> QED BY <3>1, FS_EmptySet
  <2> DEFINE x == One(s)
  <2>2. x \in s
    BY <2>1, OneIn
  <2>3. s \ {x} \in SUBSET u /\ Cardinality(s \ {x}) = n
    BY <2>0, <2>2, Smaller
  <2>4. Agrees(s \ {x})
    BY <2>3 DEF T
  <2>5. f[s] = w[x] + f[s \ {x}] /\ g[s] = v[x] + g[s \ {x}]
    BY <2>1 DEF AddsUp
  <2> QED BY <2>2, <2>4, <2>5
<1>3. T = Nat
  <2> HIDE DEF T
  <2>1. T \in SUBSET Nat
    BY DEF T
  <2> QED BY <1>1, <1>2, <2>1, NatSteps
<1>4. Cardinality(u) \in T
  BY <1>3, FS_Subset, FS_CardinalityType
<1> QED BY <1>4

\* The order in which elements are taken does not matter.
LEMMA AddsUpPut ==
    ASSUME NEW S, IsFiniteSet(S), NEW w, \A x \in S : w[x] \in Nat, NEW f, AddsUp(f, w, S),
           NEW u \in SUBSET S, NEW q \in S, q \notin u
    PROVE  f[u \cup {q}] = w[q] + f[u]
<1> DEFINE Put(s) == \A y \in S : y \notin s => f[s \cup {y}] = w[y] + f[s]
           T == {n \in Nat : \A s \in SUBSET S : Cardinality(s) = n => Put(s)}
<1>0. \A s \in SUBSET S : f[s] \in Nat
  BY AddsUpSame
<1>f. ASSUME NEW s \in SUBSET S, s # {}
      PROVE  f[s] = w[One(s)] + f[s \ {One(s)}]
  BY <1>f DEF AddsUp
<1>1. 0 \in T
  <2>1. \A s \in SUBSET S : Cardinality(s) = 0 => s = {}
    BY FS_Subset, FS_EmptySet
  <2>2. ASSUME NEW y \in S PROVE f[{y}] = w[y] + f[{}]
    <3>1. One({y}) = y /\ {y} \ {y} = {}
      BY OneIn
    <3> QED BY <1>f, <3>1
  <2>3. \A y \in S : {} \cup {y} = {y}
    OBVIOUS
  <2> QED BY <2>1, <2>2, <2>3
<1>2. ASSUME NEW n \in T PROVE n + 1 \in T
  <2> SUFFICES ASSUME NEW s \in SUBSET S, Cardinality(s) = n + 1, NEW y \in S, y \notin s
               PROVE  f[s \cup {y}] = w[y] + f[s]
    OBVIOUS
  <2> DEFINE r == s \cup {y}
             x == One(r)
  <2>1. x \in r /\ f[r] = w[x] + f[r \ {x}]
    BY <1>f, OneIn
  <2>2. CASE x = y
    <3>1. r \ {x} = s
      BY <2>2
    <3> QED BY <2>1, <2>2, <3>1
  <2>3. CASE x # y
    <3>1. x \in s /\ r \ {x} = (s \ {x}) \cup {y}
      BY <2>1, <2>3
    <3>2. s \ {x} \in SUBSET S /\ Cardinality(s \ {x}) = n
      <4>1. n \in Nat
        OBVIOUS
      <4> HIDE DEF T, x
      <4> QED BY <3>1, <4>1, Smaller
    <3>3. Put(s \ {x})
      BY <3>2
    <3>4. f[(s \ {x}) \cup {y}] = w[y] + f[s \ {x}]
      BY <3>3
    <3>5. f[(s \ {x}) \cup {x}] = w[x] + f[s \ {x}]
      BY <3>1, <3>3
    <3>6. (s \ {x}) \cup {x} = s
      BY <3>1
    <3>7. w[x] \in Nat /\ w[y] \in Nat /\ f[s \ {x}] \in Nat
      BY <1>0, <3>1, <3>2
    <3> HIDE DEF r, x
    <3>8. f[r] = w[x] + (w[y] + f[s \ {x}])
      BY <2>1, <3>1, <3>4
    <3>9. f[s] = w[x] + f[s \ {x}]
      BY <3>5, <3>6
    <3>10. f[r] = w[y] + f[s]
      BY <3>7, <3>8, <3>9
    <3> QED BY <3>10 DEF r
  <2> QED BY <2>2, <2>3
<1>3. T = Nat
  <2> HIDE DEF T
  <2>1. T \in SUBSET Nat
    BY DEF T
  <2> QED BY <1>1, <1>2, <2>1, NatSteps
<1>4. Cardinality(u) \in T
  BY <1>3, FS_Subset, FS_CardinalityType
<1> QED BY <1>4

-----------------------------------------------------------------------------
(* The total of w over S, whichever function adds it up.                    *)

LEMMA TotalIs ==
    ASSUME NEW S, IsFiniteSet(S), NEW w, \A x \in S : w[x] \in Nat, NEW f, AddsUp(f, w, S)
    PROVE  Total(w, S) = f[S] /\ Total(w, S) \in Nat
<1>1. AddsUp(CHOOSE g : AddsUp(g, w, S), w, S)
  OBVIOUS
<1> QED BY <1>1, AddsUpSame DEF Total

LEMMA TotalEmpty == ASSUME NEW w PROVE Total(w, {}) = 0
<1>1. PICK f : AddsUp(f, w, {})
  BY AddsUpExists, FS_EmptySet
<1>2. f[{}] = 0
  BY <1>1 DEF AddsUp
<1> QED BY <1>1, <1>2, TotalIs, FS_EmptySet

\* The total depends on the numbers that are added only.
LEMMA TotalSame ==
    ASSUME NEW S, IsFiniteSet(S), NEW w, NEW v, \A x \in S : w[x] \in Nat /\ v[x] = w[x]
    PROVE  Total(w, S) \in Nat /\ Total(v, S) = Total(w, S)
<1>1. PICK f : AddsUp(f, w, S)
  BY AddsUpExists
<1>2. PICK g : AddsUp(g, v, S)
  BY AddsUpExists
<1>3. g[S] = f[S]
  BY <1>1, <1>2, AddsUpSame
<1> QED BY <1>1, <1>2, <1>3, TotalIs

\* One more element adds its number.
LEMMA TotalPut ==
    ASSUME NEW S, IsFiniteSet(S), NEW q, q \notin S, NEW w, \A x \in S \cup {q} : w[x] \in Nat
    PROVE  Total(w, S \cup {q}) = Total(w, S) + w[q]
<1>1. IsFiniteSet(S \cup {q})
  BY FS_AddElement
<1>2. PICK f : AddsUp(f, w, S \cup {q})
  BY <1>1, AddsUpExists
<1>3. PICK g : AddsUp(g, w, S)
  BY AddsUpExists
<1>4. f[S \cup {q}] = w[q] + f[S]
  BY <1>1, <1>2, AddsUpPut
<1>5. f[S] = g[S] /\ f[S] \in Nat
  BY <1>1, <1>2, <1>3, AddsUpSame
<1>6. Total(w, S \cup {q}) = f[S \cup {q}] /\ Total(w, S) = g[S]
  BY <1>1, <1>2, <1>3, TotalIs
<1> QED BY <1>4, <1>5, <1>6

\* What Folds computes from left to right is the total.
LEMMA FoldIsTotal ==
    ASSUME NEW S, IsFiniteSet(S), NEW w, \A x \in S : w[x] \in Nat
    PROVE  MapThenFoldSet(+, 0, LAMBDA x : w[x], LAMBDA s : CHOOSE x \in s : TRUE, S)
             = Total(w, S)
<1> DEFINE Iter(f) == f = [s \in SUBSET S |->
                              IF s = {} THEN 0
                              ELSE w[CHOOSE x \in s : TRUE] + f[s \ {CHOOSE x \in s : TRUE}]]
<1>1. \A f : Iter(f) <=> AddsUp(f, w, S)
  BY DEF AddsUp, One
<1>2. Iter(CHOOSE f : Iter(f))
  <2> PICK f : AddsUp(f, w, S)
    BY AddsUpExists
  <2> HIDE DEF Iter
  <2>1. Iter(f)
    BY <1>1
  <2> QED BY <2>1
<1>3. Total(w, S) = (CHOOSE f : Iter(f))[S]
  BY <1>1, <1>2, TotalIs
<1> QED BY <1>3 DEF MapThenFoldSet
=============================================================================
