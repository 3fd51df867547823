---------------------------- MODULE InductionLemmas ----------------------------
(***************************************************************************)
(* Induction stated with sets instead of predicates, and what it gives for *)
(* the folds of the community modules that the models use: that the        *)
(* recursive definitions have a solution, and the laws of finite sums.     *)
(*                                                                         *)
(* A predicate to be proved by induction is given as the set G of what     *)
(* satisfies it.                                                           *)
(***************************************************************************)
EXTENDS FiniteSetsExt, SequencesExt, FiniteSetTheorems, SequenceTheorems, TLAPS

-----------------------------------------------------------------------------
(* The least element of a set of natural numbers.                          *)
LEMMA LeastNumber ==
  ASSUME NEW T \in SUBSET Nat, T # {}
  PROVE  \E n \in T : \A k \in T : n <= k
<1> DEFINE R == OpToRel(<, Nat)
<1>1. IsWellFoundedOn(R, Nat)
  BY NatLessThanWellFounded
<1> HIDE DEF R
<1>2. PICK n \in T : \A k \in T : ~(<<k, n>> \in R)
  BY <1>1, WFMin
<1>3. \A k \in T : ~(k < n)
  BY <1>2 DEF R, OpToRel
<1>4. QED
  BY <1>3

(* The least and the greatest number of a bounded set.                     *)
LEMMA MinMaxOf ==
  ASSUME NEW n \in Nat, NEW T \in SUBSET (0..n), T # {}
  PROVE  /\ Min(T) \in T /\ \A k \in T : Min(T) <= k
         /\ Max(T) \in T /\ \A k \in T : k <= Max(T)
<1>1. \E x \in T : \A k \in T : x <= k
  BY LeastNumber
<1>2. \E x \in T : \A k \in T : k <= x
  <2> DEFINE D == {m \in 0..n : n - m \in T}
  <2>1. D \in SUBSET Nat /\ D # {}
    <3>1. PICK x \in T : TRUE
      OBVIOUS
    <3>2. n - x \in 0..n /\ n - (n - x) = x
      OBVIOUS
    <3>3. n - x \in D
      BY <3>1, <3>2
    <3>4. D \in SUBSET Nat
      OBVIOUS
    <3> HIDE DEF D
    <3>5. QED
      BY <3>3, <3>4
  <2>2. PICK m \in D : \A k \in D : m <= k
    <3> HIDE DEF D
    <3>1. QED
      BY <2>1, LeastNumber
  <2>3. ASSUME NEW k \in T PROVE k <= n - m
    <3>1. n - k \in 0..n /\ n - (n - k) = k
      OBVIOUS
    <3>2. n - k \in D
      BY <3>1
    <3>3. m <= n - k
      BY <2>2, <3>2
    <3>4. QED
      BY <2>2, <3>3
  <2>4. n - m \in T
    BY <2>2
  <2>5. QED
    BY <2>3, <2>4
<1>3. QED
  BY <1>1, <1>2 DEF Min, Max

(* Induction over the natural numbers.                                     *)
LEMMA NumberInduction ==
  ASSUME NEW G, 0 \in G, \A n \in Nat : n \in G => n + 1 \in G
  PROVE  \A n \in Nat : n \in G
<1> DEFINE T == {n \in Nat : n \notin G}
<1> SUFFICES ASSUME T # {} PROVE FALSE
  OBVIOUS
<1>1. PICK n \in T : \A k \in T : n <= k
  BY LeastNumber
<1>2. n # 0
  BY <1>1
<1>3. n - 1 \in Nat /\ n - 1 \notin T
  BY <1>1, <1>2
<1>4. QED
  BY <1>3

(* Induction up to a bound.                                                *)
LEMMA IntervalInduction ==
  ASSUME NEW m \in Nat, NEW G, 0 \in G,
         \A n \in 0..(m - 1) : n \in G => n + 1 \in G
  PROVE  \A n \in 0..m : n \in G
<1> DEFINE H == {n \in Nat : n <= m => n \in G}
<1>1. 0 \in H /\ \A n \in Nat : n \in H => n + 1 \in H
  OBVIOUS
<1> HIDE DEF H
<1>2. \A n \in Nat : n \in H
  BY <1>1, NumberInduction
<1>3. QED
  BY <1>2 DEF H

(* A smallest one of some subsets of a finite set.                         *)
LEMMA SmallestSubset ==
  ASSUME NEW S, IsFiniteSet(S), NEW B \in SUBSET (SUBSET S), B # {}
  PROVE  \E X \in B : \A Y \in B : Y \subseteq X => Y = X
<1>1. IsWellFoundedOn(StrictSubsetOrdering(S), SUBSET S)
  BY FS_StrictSubsetOrderingWellFounded, FS_FiniteSubsetsOfFinite
<1>2. PICK X \in B : \A Y \in B : ~(<<Y, X>> \in StrictSubsetOrdering(S))
  BY <1>1, WFMin
<1>3. QED
  BY <1>2 DEF StrictSubsetOrdering

(* Induction over the subsets of a finite set: a subset is in G when all   *)
(* its proper subsets are.                                                 *)
LEMMA SubsetInduction ==
  ASSUME NEW S, IsFiniteSet(S), NEW G,
         \A X \in SUBSET S : (\A Y \in SUBSET X : Y # X => Y \in G) => X \in G
  PROVE  \A X \in SUBSET S : X \in G
<1> DEFINE B == {X \in SUBSET S : X \notin G}
<1> SUFFICES ASSUME B # {} PROVE FALSE
  OBVIOUS
<1>1. B \in SUBSET (SUBSET S)
  OBVIOUS
<1>2. PICK X \in B : \A Y \in B : Y \subseteq X => Y = X
  <2> HIDE DEF B
  <2>1. QED
    BY <1>1, SmallestSubset
<1>3. X \in SUBSET S /\ X \notin G
  BY <1>2
<1>4. \A Y \in SUBSET X : Y # X => Y \in G
  BY <1>2, <1>3
<1>5. QED
  BY <1>3, <1>4

(* Induction over the subsets of a finite set, one element at a time.      *)
LEMMA ElementInduction ==
  ASSUME NEW S, IsFiniteSet(S), NEW G, {} \in G,
         \A X \in SUBSET S : \A x \in S \ X : X \in G => X \cup {x} \in G
  PROVE  S \in G
<1>1. ASSUME NEW X \in SUBSET S, \A Y \in SUBSET X : Y # X => Y \in G
      PROVE  X \in G
  <2>1. CASE X = {}
    BY <2>1
  <2>2. CASE X # {}
    <3>1. PICK x \in X : TRUE
      BY <2>2
    <3>2. X \ {x} \in G /\ x \in S \ (X \ {x}) /\ X \ {x} \in SUBSET S
      BY <1>1, <3>1
    <3>3. (X \ {x}) \cup {x} = X
      BY <3>1
    <3>4. (X \ {x}) \cup {x} \in G
      BY <3>2
    <3>5. QED
      BY <3>3, <3>4
  <2>3. QED
    BY <2>1, <2>2
<1>2. \A X \in SUBSET S : X \in G
  BY <1>1, SubsetInduction
<1>3. QED
  BY <1>2

-----------------------------------------------------------------------------
(***************************************************************************)
(* Folds over finite sets: c says which element of a set is taken first,   *)
(* step[<<x, v>>] is what element x makes of the value v of the others.    *)
(***************************************************************************)
IsChoice(c, S) == \A s \in SUBSET S : s # {} => c[s] \in s

IsFold(g, S, base, step, c) ==
  g = [s \in SUBSET S |-> IF s = {} THEN base ELSE step[<<c[s], g[s \ {c[s]}]>>]]

(* A fold has its value at each subset.                                    *)
LEMMA FoldAt ==
  ASSUME NEW S, NEW base, NEW step, NEW c, NEW g, IsFold(g, S, base, step, c)
  PROVE  \A s \in SUBSET S :
           g[s] = IF s = {} THEN base ELSE step[<<c[s], g[s \ {c[s]}]>>]
BY DEF IsFold

Part(g, T) == [s \in SUBSET T |-> g[s]]

(* The fold over a set gives those over its subsets.                       *)
LEMMA FoldRestrict ==
  ASSUME NEW S, NEW base, NEW step, NEW c, IsChoice(c, S), NEW g, IsFold(g, S, base, step, c),
         NEW T \in SUBSET S
  PROVE  IsFold(Part(g, T), T, base, step, c)
<1> DEFINE h == Part(g, T)
<1>1. \A s \in SUBSET T : h[s] = IF s = {} THEN base ELSE step[<<c[s], h[s \ {c[s]}]>>]
  <2> TAKE s \in SUBSET T
  <2>1. s \in SUBSET S /\ s \ {c[s]} \in SUBSET T
    OBVIOUS
  <2>2. QED
    BY FoldAt, <2>1 DEF Part
<1>2. QED
  BY <1>1 DEF IsFold, Part

(* There is one fold at most.                                              *)
LEMMA FoldUnique ==
  ASSUME NEW S, IsFiniteSet(S), NEW base, NEW step, NEW c, IsChoice(c, S),
         NEW g, NEW h, IsFold(g, S, base, step, c), IsFold(h, S, base, step, c)
  PROVE  g = h
<1> DEFINE G == {s \in SUBSET S : g[s] = h[s]}
<1>a. /\ \A s \in SUBSET S : g[s] = IF s = {} THEN base ELSE step[<<c[s], g[s \ {c[s]}]>>]
      /\ \A s \in SUBSET S : h[s] = IF s = {} THEN base ELSE step[<<c[s], h[s \ {c[s]}]>>]
  BY DEF IsFold
<1>1. ASSUME NEW X \in SUBSET S, \A Y \in SUBSET X : Y # X => Y \in G
      PROVE  X \in G
  <2>1. CASE X = {}
    BY <1>a, <2>1
  <2>2. CASE X # {}
    <3>1. c[X] \in X
      BY <2>2 DEF IsChoice
    <3>2. g[X \ {c[X]}] = h[X \ {c[X]}]
      BY <1>1, <3>1
    <3>3. QED
      BY <1>a, <2>2, <3>2
  <2>3. QED
    BY <2>1, <2>2
<1>2. \A X \in SUBSET S : X \in G
  <2> HIDE DEF G
  <2>1. QED
    BY <1>1, SubsetInduction
<1>3. g = [s \in SUBSET S |-> g[s]] /\ h = [s \in SUBSET S |-> h[s]]
  BY DEF IsFold
<1>4. QED
  BY <1>2, <1>3

(* Every fold over a finite set exists.                                    *)
LEMMA FoldExists ==
  ASSUME NEW S, IsFiniteSet(S), NEW base, NEW step, NEW c, IsChoice(c, S)
  PROVE  \E g : IsFold(g, S, base, step, c)
<1> DEFINE G == {X \in SUBSET S : \E g : IsFold(g, X, base, step, c)}
<1>1. ASSUME NEW X \in SUBSET S, \A Y \in SUBSET X : Y # X => Y \in G
      PROVE  X \in G
  <2> DEFINE sol(T) == CHOOSE g : IsFold(g, T, base, step, c)
             top == X \ {c[X]}
             val == [T \in SUBSET X |->
                       IF T = X THEN (IF X = {} THEN base ELSE step[<<c[X], sol(top)[top]>>])
                                ELSE sol(T)[T]]
  <2>1. \A T \in SUBSET X : T # X => IsFold(sol(T), T, base, step, c)
    BY <1>1
  <2>2. \A T \in SUBSET X : T # X /\ T # {} => val[T] = step[<<c[T], val[T \ {c[T]}]>>]
    <3> SUFFICES ASSUME NEW T \in SUBSET X, T # X, T # {}
                 PROVE  val[T] = step[<<c[T], val[T \ {c[T]}]>>]
      OBVIOUS
    <3> DEFINE U == T \ {c[T]}
    <3>1. c[T] \in T /\ U \in SUBSET X /\ U # X /\ U \in SUBSET T
      BY DEF IsChoice
    <3>2. IsFold(sol(T), T, base, step, c) /\ IsFold(sol(U), U, base, step, c)
      BY <2>1, <3>1
    <3>3. IsChoice(c, T) /\ IsChoice(c, U)
      BY DEF IsChoice
    <3>4. IsFold(Part(sol(T), U), U, base, step, c)
      <4> HIDE DEF sol, U, val, top, G
      <4>1. QED
        BY <3>1, <3>2, <3>3, FoldRestrict
    <3>5. IsFiniteSet(U)
      BY FS_Subset
    <3>6. sol(U) = Part(sol(T), U)
      <4> HIDE DEF sol, U
      <4>1. QED
        BY <3>2, <3>3, <3>4, <3>5, FoldUnique
    <3>7. sol(T)[T] = step[<<c[T], sol(T)[U]>>]
      <4> HIDE DEF sol
      <4>1. QED
        BY <3>2, FoldAt
    <3>8. QED
      BY <3>1, <3>6, <3>7 DEF Part
  <2>3. val[X] = IF X = {} THEN base ELSE step[<<c[X], val[X \ {c[X]}]>>]
    <3>1. X # {} => c[X] \in X
      BY DEF IsChoice
    <3>2. QED
      BY <3>1
  <2>4. X # {} => val[{}] = base
    <3>1. X # {} => sol({})[{}] = base
      <4>1. X # {} => IsFold(sol({}), {}, base, step, c)
        BY <2>1
      <4> HIDE DEF sol
      <4>2. QED
        BY <4>1 DEF IsFold
    <3>2. QED
      BY <3>1
  <2>5. IsFold(val, X, base, step, c)
    <3>1. val = [T \in SUBSET X |-> val[T]]
      OBVIOUS
    <3> HIDE DEF val
    <3>2. \A T \in SUBSET X : val[T] = IF T = {} THEN base ELSE step[<<c[T], val[T \ {c[T]}]>>]
      BY <2>2, <2>3, <2>4
    <3>3. QED
      BY <3>1, <3>2 DEF IsFold
  <2>6. QED
    BY <2>5
<1>2. \A X \in SUBSET S : X \in G
  <2> HIDE DEF G
  <2>1. QED
    BY <1>1, SubsetInduction
<1>3. QED
  BY <1>2

-----------------------------------------------------------------------------
(***************************************************************************)
(* Sums over finite sets, of the values of a function.                     *)
(***************************************************************************)
SumOver(f, S) == SumFunctionOnSet(f, S)

IsSum(k, S, f) ==
  k = [s \in SUBSET S |-> IF s = {} THEN 0
                          ELSE f[CHOOSE x \in s : TRUE] + k[s \ {CHOOSE x \in s : TRUE}]]

(* Two recursive sums agree where both are defined.                        *)
LEMMA SumUnique ==
  ASSUME NEW S, NEW T \in SUBSET S, IsFiniteSet(T), NEW f,
         NEW k, IsSum(k, S, f), NEW h, IsSum(h, T, f)
  PROVE  \A s \in SUBSET T : k[s] = h[s]
<1> DEFINE G == {s \in SUBSET T : k[s] = h[s]}
<1>1. /\ \A s \in SUBSET T : k[s] = IF s = {} THEN 0
                        ELSE f[CHOOSE x \in s : TRUE] + k[s \ {CHOOSE x \in s : TRUE}]
      /\ \A s \in SUBSET T : h[s] = IF s = {} THEN 0
                        ELSE f[CHOOSE x \in s : TRUE] + h[s \ {CHOOSE x \in s : TRUE}]
  <2>1. \A s \in SUBSET T : s \in SUBSET S
    OBVIOUS
  <2>2. QED
    BY <2>1 DEF IsSum
<1>2. ASSUME NEW X \in SUBSET T, \A Y \in SUBSET X : Y # X => Y \in G
      PROVE  X \in G
  <2>1. CASE X = {}
    BY <1>1, <2>1
  <2>2. CASE X # {}
    <3>1. (CHOOSE x \in X : TRUE) \in X
      BY <2>2
    <3>2. k[X \ {CHOOSE x \in X : TRUE}] = h[X \ {CHOOSE x \in X : TRUE}]
      BY <1>2, <3>1
    <3>3. /\ k[X] = f[CHOOSE x \in X : TRUE] + k[X \ {CHOOSE x \in X : TRUE}]
          /\ h[X] = f[CHOOSE x \in X : TRUE] + h[X \ {CHOOSE x \in X : TRUE}]
      BY <1>1, <2>2
    <3>4. QED
      BY <3>2, <3>3
  <2>3. QED
    BY <2>1, <2>2
<1>3. \A X \in SUBSET T : X \in G
  <2> HIDE DEF G
  <2>1. QED
    BY <1>2, SubsetInduction
<1>4. QED
  BY <1>3

(* Sums of natural numbers exist.                                          *)
LEMMA SumExists ==
  ASSUME NEW S, IsFiniteSet(S), NEW f, \A x \in S : f[x] \in Nat
  PROVE  \E k : IsSum(k, S, f) /\ \A s \in SUBSET S : k[s] \in Nat
<1> DEFINE c    == [s \in SUBSET S |-> CHOOSE x \in s : TRUE]
           step == [p \in S \X Nat |-> f[p[1]] + p[2]]
<1>1. IsChoice(c, S)
  BY DEF IsChoice
<1>2. PICK k : IsFold(k, S, 0, step, c)
  <2> HIDE DEF c, step
  <2>1. QED
    BY <1>1, FoldExists
<1>3. \A s \in SUBSET S : k[s] = IF s = {} THEN 0 ELSE step[<<c[s], k[s \ {c[s]}]>>]
  BY <1>2 DEF IsFold
<1> DEFINE G == {s \in SUBSET S : k[s] \in Nat}
<1>4. \A s \in SUBSET S : s # {} => c[s] \in s
  BY <1>1 DEF IsChoice
<1>5. \A x \in S, v \in Nat : step[<<x, v>>] = f[x] + v /\ step[<<x, v>>] \in Nat
  OBVIOUS
<1>6. \A X \in SUBSET S : X \in G
  <2> HIDE DEF c, step
  <2>1. ASSUME NEW X \in SUBSET S, \A Y \in SUBSET X : Y # X => Y \in G
        PROVE  X \in G
    <3>1. CASE X = {}
      <4>1. k[{}] = 0
        BY <1>3
      <4>2. QED
        BY <3>1, <4>1
    <3>2. CASE X # {}
      <4>1. c[X] \in X /\ c[X] \in S
        BY <1>4, <3>2
      <4>2. k[X \ {c[X]}] \in Nat
        BY <2>1, <4>1
      <4>3. QED
        BY <1>3, <1>5, <3>2, <4>1, <4>2
    <3>3. QED
      BY <3>1, <3>2
  <2> HIDE DEF G
  <2>2. QED
    BY <2>1, SubsetInduction
<1>7. \A s \in SUBSET S : k[s] = IF s = {} THEN 0 ELSE f[c[s]] + k[s \ {c[s]}]
  <2> TAKE s \in SUBSET S
  <2>1. s # {} => c[s] \in S /\ k[s \ {c[s]}] \in Nat
    <3> HIDE DEF c, step
    <3>1. QED
      BY <1>4, <1>6
  <2> HIDE DEF c, step, G
  <2>2. QED
    BY <1>3, <1>5, <2>1
<1>8. IsSum(k, S, f)
  <2>1. \A s \in SUBSET S : c[s] = CHOOSE x \in s : TRUE
    OBVIOUS
  <2>2. k = [s \in SUBSET S |-> k[s]]
    BY <1>2 DEF IsFold
  <2> HIDE DEF c, step, G
  <2>3. QED
    BY <1>7, <2>1, <2>2 DEF IsSum
<1>9. QED
  BY <1>6, <1>8

(* The sum is what the recursion computes.                                 *)
LEMMA SumIs ==
  ASSUME NEW S, IsFiniteSet(S), NEW f, \A x \in S : f[x] \in Nat,
         NEW k, IsSum(k, S, f)
  PROVE  SumOver(f, S) = k[S]
<1> DEFINE h == CHOOSE g : IsSum(g, S, f)
<1>1. SumOver(f, S) = h[S]
  BY DEF SumOver, SumFunctionOnSet, FoldFunctionOnSet, MapThenFoldSet, IsSum
<1>2. IsSum(h, S, f)
  OBVIOUS
<1> HIDE DEF h
<1>3. k[S] = h[S]
  BY <1>2, SumUnique
<1>4. QED
  BY <1>1, <1>3

(* The sum over the empty set.                                             *)
LEMMA SumEmpty == \A f : SumOver(f, {}) = 0
<1> TAKE f
<1> DEFINE k == [s \in SUBSET {} |-> 0]
<1>1. IsSum(k, {}, f)
  BY DEF IsSum
<1> HIDE DEF k
<1>2. SumOver(f, {}) = k[{}]
  BY <1>1, SumIs, FS_EmptySet
<1>3. QED
  BY <1>2 DEF k

(* A sum of natural numbers is one.                                        *)
LEMMA SumType ==
  ASSUME NEW S, IsFiniteSet(S), NEW f, \A x \in S : f[x] \in Nat
  PROVE  SumOver(f, S) \in Nat
<1>1. PICK k : IsSum(k, S, f) /\ \A s \in SUBSET S : k[s] \in Nat
  BY SumExists
<1>2. QED
  BY <1>1, SumIs

(* The element that the recursion takes first.                             *)
LEMMA SumFirst ==
  ASSUME NEW S, IsFiniteSet(S), S # {}, NEW f, \A x \in S : f[x] \in Nat
  PROVE  \E x \in S : SumOver(f, S) = f[x] + SumOver(f, S \ {x})
<1>1. PICK k : IsSum(k, S, f) /\ \A s \in SUBSET S : k[s] \in Nat
  BY SumExists
<1> DEFINE x == CHOOSE y \in S : TRUE
           T == S \ {x}
<1>2. x \in S
  OBVIOUS
<1>3. k[S] = f[x] + k[T]
  BY <1>1 DEF IsSum
<1>4. PICK h : IsSum(h, T, f)
  <2>1. IsFiniteSet(T) /\ \A y \in T : f[y] \in Nat
    BY FS_RemoveElement
  <2> HIDE DEF T
  <2>2. QED
    BY <2>1, SumExists
<1>5. T \in SUBSET S /\ IsFiniteSet(T) /\ \A y \in T : f[y] \in Nat
  BY FS_RemoveElement
<1>6. k[T] = h[T]
  <2> HIDE DEF T
  <2>1. QED
    BY <1>1, <1>4, <1>5, SumUnique
<1>7. SumOver(f, T) = h[T] /\ SumOver(f, S) = k[S]
  <2> HIDE DEF T
  <2>1. QED
    BY <1>1, <1>4, <1>5, SumIs
<1>8. QED
  BY <1>2, <1>3, <1>6, <1>7

(* Any element can be taken out of a sum.                                  *)
LEMMA SumTake ==
  ASSUME NEW S, IsFiniteSet(S), NEW f, \A x \in S : f[x] \in Nat, NEW y \in S
  PROVE  SumOver(f, S) = f[y] + SumOver(f, S \ {y})
<1> DEFINE G == {X \in SUBSET S : \A z \in X : SumOver(f, X) = f[z] + SumOver(f, X \ {z})}
<1>1. ASSUME NEW X \in SUBSET S, \A Y \in SUBSET X : Y # X => Y \in G
      PROVE  X \in G
  <2> SUFFICES ASSUME NEW z \in X
               PROVE  SumOver(f, X) = f[z] + SumOver(f, X \ {z})
    OBVIOUS
  <2>1. /\ \A Y \in SUBSET X : IsFiniteSet(Y)
        /\ \A Y \in SUBSET X : SumOver(f, Y) \in Nat
    <3>1. \A Y \in SUBSET X : IsFiniteSet(Y) /\ \A x \in Y : f[x] \in Nat
      BY FS_Subset
    <3>2. QED
      BY <3>1, SumType
  <2>2. PICK x \in X : SumOver(f, X) = f[x] + SumOver(f, X \ {x})
    <3>1. IsFiniteSet(X) /\ X # {} /\ \A w \in X : f[w] \in Nat
      BY <2>1
    <3>2. QED
      BY <3>1, SumFirst
  <2>3. CASE x = z
    BY <2>2, <2>3
  <2>4. CASE x # z
    <3> DEFINE Z == (X \ {x}) \ {z}
    <3>1. SumOver(f, X \ {x}) = f[z] + SumOver(f, Z)
      <4>1. X \ {x} \in G /\ z \in X \ {x}
        BY <1>1, <2>4
      <4>2. QED
        BY <4>1
    <3>2. SumOver(f, X \ {z}) = f[x] + SumOver(f, Z)
      <4>1. X \ {z} \in G /\ x \in X \ {z} /\ (X \ {z}) \ {x} = Z
        BY <1>1, <2>4
      <4>2. QED
        BY <4>1
    <3>3. SumOver(f, Z) \in Nat /\ f[x] \in Nat /\ f[z] \in Nat
      BY <2>1
    <3> HIDE DEF Z
    <3>4. QED
      BY <2>2, <3>1, <3>2, <3>3
  <2>5. QED
    BY <2>3, <2>4
<1>2. \A X \in SUBSET S : X \in G
  <2> HIDE DEF G
  <2>1. QED
    BY <1>1, SubsetInduction
<1>3. QED
  BY <1>2

(* One element more.                                                       *)
LEMMA SumAdd ==
  ASSUME NEW S, IsFiniteSet(S), NEW f, NEW x, x \notin S,
         \A y \in S : f[y] \in Nat, f[x] \in Nat
  PROVE  SumOver(f, S \cup {x}) = SumOver(f, S) + f[x]
<1> DEFINE T == S \cup {x}
<1>1. IsFiniteSet(T) /\ x \in T /\ T \ {x} = S
  BY FS_AddElement
<1>2. SumOver(f, T) = f[x] + SumOver(f, T \ {x})
  <2> HIDE DEF T
  <2>1. \A y \in T : f[y] \in Nat
    BY DEF T
  <2>2. QED
    BY <1>1, <2>1, SumTake
<1>3. SumOver(f, S) \in Nat /\ f[x] \in Nat
  BY SumType
<1>4. SumOver(f, T) = f[x] + SumOver(f, S)
  BY <1>1, <1>2
<1>5. QED
  BY <1>3, <1>4

(* Equal summands give equal sums.                                         *)
LEMMA SumSame ==
  ASSUME NEW S, IsFiniteSet(S), NEW f, NEW g,
         \A x \in S : f[x] \in Nat /\ f[x] = g[x]
  PROVE  SumOver(f, S) = SumOver(g, S)
<1> DEFINE G == {X \in SUBSET S : SumOver(f, X) = SumOver(g, X)}
<1>1. {} \in G
  BY SumEmpty
<1>2. ASSUME NEW X \in SUBSET S, NEW x \in S \ X, X \in G
      PROVE  X \cup {x} \in G
  <2>1. /\ IsFiniteSet(X) /\ x \notin X
        /\ (\A y \in X : f[y] \in Nat) /\ f[x] \in Nat
        /\ (\A y \in X : g[y] \in Nat) /\ g[x] \in Nat
    BY FS_Subset
  <2>2. SumOver(f, X \cup {x}) = SumOver(f, X) + f[x]
    BY <2>1, SumAdd
  <2>3. SumOver(g, X \cup {x}) = SumOver(g, X) + g[x]
    BY <2>1, SumAdd
  <2>4. QED
    BY <1>2, <2>2, <2>3
<1>3. S \in G
  <2> HIDE DEF G
  <2>1. QED
    BY <1>1, <1>2, ElementInduction
<1>4. QED
  BY <1>3

(* The sum of a sum of two functions.                                      *)
LEMMA SumPlus ==
  ASSUME NEW S, IsFiniteSet(S), NEW f, NEW g, NEW h,
         \A x \in S : f[x] \in Nat /\ g[x] \in Nat /\ h[x] = f[x] + g[x]
  PROVE  SumOver(h, S) = SumOver(f, S) + SumOver(g, S)
<1> DEFINE G == {X \in SUBSET S : SumOver(h, X) = SumOver(f, X) + SumOver(g, X)}
<1>1. {} \in G
  BY SumEmpty
<1>2. ASSUME NEW X \in SUBSET S, NEW x \in S \ X, X \in G
      PROVE  X \cup {x} \in G
  <2>1. /\ IsFiniteSet(X) /\ x \notin X
        /\ (\A y \in X : f[y] \in Nat) /\ f[x] \in Nat
        /\ (\A y \in X : g[y] \in Nat) /\ g[x] \in Nat
        /\ (\A y \in X : h[y] \in Nat) /\ h[x] \in Nat
    <3>1. X \cup {x} \subseteq S
      OBVIOUS
    <3>2. QED
      BY <3>1, FS_Subset
  <2>2. SumOver(f, X \cup {x}) = SumOver(f, X) + f[x]
    BY <2>1, SumAdd
  <2>3. SumOver(g, X \cup {x}) = SumOver(g, X) + g[x]
    BY <2>1, SumAdd
  <2>4. SumOver(h, X \cup {x}) = SumOver(h, X) + h[x]
    BY <2>1, SumAdd
  <2>5. SumOver(f, X) \in Nat /\ SumOver(g, X) \in Nat
    BY <2>1, SumType
  <2>6. /\ f[x] \in Nat /\ g[x] \in Nat /\ h[x] = f[x] + g[x]
        /\ SumOver(h, X) = SumOver(f, X) + SumOver(g, X)
    BY <1>2
  <2>7. SumOver(h, X \cup {x}) = SumOver(f, X \cup {x}) + SumOver(g, X \cup {x})
    BY <2>2, <2>3, <2>4, <2>5, <2>6
  <2>8. QED
    BY <2>7
<1>3. S \in G
  <2> HIDE DEF G
  <2>1. QED
    BY <1>1, <1>2, ElementInduction
<1>4. QED
  BY <1>3

(* Elements with the summand 0 do not count.                               *)
LEMMA SumSupport ==
  ASSUME NEW S, IsFiniteSet(S), NEW f, NEW T \in SUBSET S,
         \A x \in S : f[x] \in Nat, \A x \in S \ T : f[x] = 0
  PROVE  SumOver(f, S) = SumOver(f, T)
<1> DEFINE D == S \ T
           G == {X \in SUBSET D : SumOver(f, T \cup X) = SumOver(f, T)}
<1>1. {} \in G
  OBVIOUS
<1>2. ASSUME NEW X \in SUBSET D, NEW x \in D \ X, X \in G
      PROVE  X \cup {x} \in G
  <2>1. IsFiniteSet(T \cup X) /\ x \notin T \cup X /\ T \cup (X \cup {x}) = (T \cup X) \cup {x}
    BY FS_Subset
  <2>2. SumOver(f, (T \cup X) \cup {x}) = SumOver(f, T \cup X) + f[x]
    <3> DEFINE E == T \cup X
    <3>1. f[x] \in Nat /\ (\A y \in E : f[y] \in Nat) /\ IsFiniteSet(E) /\ x \notin E
      BY <2>1
    <3> HIDE DEF E
    <3>2. SumOver(f, E \cup {x}) = SumOver(f, E) + f[x]
      BY <3>1, SumAdd
    <3>3. QED
      BY <3>2 DEF E
  <2>3. f[x] = 0 /\ SumOver(f, T) \in Nat
    <3>1. IsFiniteSet(T) /\ \A y \in T : f[y] \in Nat
      BY FS_Subset
    <3>2. QED
      BY <3>1, SumType
  <2>4. SumOver(f, T \cup (X \cup {x})) = SumOver(f, T)
    <3>1. SumOver(f, T \cup X) = SumOver(f, T)
      BY <1>2
    <3>2. SumOver(f, T \cup (X \cup {x})) = SumOver(f, (T \cup X) \cup {x})
      BY <2>1
    <3>3. QED
      BY <2>2, <2>3, <3>1, <3>2
  <2>5. QED
    BY <2>4
<1>3. D \in G
  <2>1. IsFiniteSet(D)
    BY FS_Subset
  <2> HIDE DEF G, D
  <2>2. QED
    BY <1>1, <1>2, <2>1, ElementInduction
<1>4. T \cup D = S
  OBVIOUS
<1>5. QED
  BY <1>3, <1>4

(* The sum of zeros.                                                       *)
LEMMA SumZero ==
  ASSUME NEW S, IsFiniteSet(S), NEW f, \A x \in S : f[x] = 0
  PROVE  SumOver(f, S) = 0
<1>1. SumOver(f, S) = SumOver(f, {})
  <2>1. {} \in SUBSET S
    OBVIOUS
  <2>2. QED
    BY <2>1, SumSupport
<1>2. QED
  BY <1>1, SumEmpty

(* One summand changes.                                                    *)
LEMMA SumChange ==
  ASSUME NEW S, IsFiniteSet(S), NEW f, NEW g, NEW y \in S,
         \A x \in S : f[x] \in Nat, g[y] \in Nat,
         \A x \in S : x # y => g[x] = f[x]
  PROVE  SumOver(g, S) + f[y] = SumOver(f, S) + g[y]
<1> DEFINE T == S \ {y}
<1>1. IsFiniteSet(T) /\ y \notin T
  BY FS_RemoveElement
<1>2. SumOver(f, S) = f[y] + SumOver(f, T)
  BY SumTake
<1>3. SumOver(g, S) = g[y] + SumOver(g, T)
  BY SumTake
<1>4. \A x \in T : f[x] \in Nat /\ f[x] = g[x]
  OBVIOUS
<1> HIDE DEF T
<1>5. SumOver(f, T) = SumOver(g, T)
  BY <1>1, <1>4, SumSame
<1>6. SumOver(f, T) \in Nat
  BY <1>1, <1>4, SumType
<1>7. f[y] \in Nat
  OBVIOUS
<1>8. QED
  BY <1>2, <1>3, <1>5, <1>6, <1>7

Firsts(o, n) == {o[i] : i \in 1..n}

(* A sum over the images of an injective function.                         *)
LEMMA SumImage ==
  ASSUME NEW n \in Nat, NEW o, NEW f, NEW g,
         \A i, j \in 1..n : o[i] = o[j] => i = j,
         \A i \in 1..n : f[o[i]] \in Nat /\ g[i] = f[o[i]]
  PROVE  SumOver(g, 1..n) = SumOver(f, Firsts(o, n))
<1> DEFINE G == {k \in 0..n : /\ SumOver(g, 1..k) = SumOver(f, {o[i] : i \in 1..k})
                              /\ IsFiniteSet({o[i] : i \in 1..k})}
<1>1. 0 \in G
  <2>1. 1..0 = {} /\ {o[i] : i \in 1..0} = {}
    OBVIOUS
  <2>2. QED
    BY <2>1, SumEmpty, FS_EmptySet
<1>2. ASSUME NEW k \in 0..(n - 1), k \in G
      PROVE  k + 1 \in G
  <2> DEFINE I == {o[i] : i \in 1..k}
  <2>1. /\ 1..(k + 1) = (1..k) \cup {k + 1}
        /\ {o[i] : i \in 1..(k + 1)} = I \cup {o[k + 1]}
        /\ k + 1 \notin 1..k /\ o[k + 1] \notin I
    OBVIOUS
  <2>2. IsFiniteSet(1..k) /\ IsFiniteSet(I) /\ IsFiniteSet(I \cup {o[k + 1]})
    <3>1. IsFiniteSet(1..k)
      BY FS_Interval
    <3>2. IsFiniteSet(I)
      BY <1>2
    <3> HIDE DEF I
    <3>3. QED
      BY <3>1, <3>2, FS_AddElement
  <2>3. SumOver(g, (1..k) \cup {k + 1}) = SumOver(g, 1..k) + g[k + 1]
    <3>1. \A y \in (1..k) \cup {k + 1} : g[y] \in Nat
      OBVIOUS
    <3> DEFINE K == 1..k
    <3>2. IsFiniteSet(K) /\ k + 1 \notin K /\ g[k + 1] \in Nat /\ \A y \in K : g[y] \in Nat
      BY <2>1, <2>2, <3>1
    <3> HIDE DEF K
    <3>3. SumOver(g, K \cup {k + 1}) = SumOver(g, K) + g[k + 1]
      BY <3>2, SumAdd
    <3>4. QED
      BY <3>3 DEF K
  <2>4. SumOver(f, I \cup {o[k + 1]}) = SumOver(f, I) + f[o[k + 1]]
    <3>1. \A y \in I \cup {o[k + 1]} : f[y] \in Nat
      <4>1. \A i \in 1..(k + 1) : f[o[i]] \in Nat
        OBVIOUS
      <4>2. QED
        BY <4>1
    <3> DEFINE z == o[k + 1]
    <3>2. IsFiniteSet(I) /\ z \notin I /\ f[z] \in Nat /\ \A y \in I : f[y] \in Nat
      BY <2>1, <2>2, <3>1
    <3> HIDE DEF I, z
    <3>3. SumOver(f, I \cup {z}) = SumOver(f, I) + f[z]
      BY <3>2, SumAdd
    <3>4. QED
      BY <3>3 DEF z
  <2>5. SumOver(g, 1..k) = SumOver(f, I) /\ g[k + 1] = f[o[k + 1]]
    BY <1>2
  <2>6. SumOver(g, 1..(k + 1)) = SumOver(f, {o[i] : i \in 1..(k + 1)})
    <3> HIDE DEF I
    <3>1. QED
      BY <2>1, <2>3, <2>4, <2>5
  <2>7. IsFiniteSet({o[i] : i \in 1..(k + 1)})
    <3> HIDE DEF I
    <3>1. QED
      BY <2>1, <2>2
  <2>8. QED
    BY <2>6, <2>7
<1>3. \A k \in 0..n : k \in G
  <2> HIDE DEF G
  <2>1. QED
    BY <1>1, <1>2, IntervalInduction
<1>4. n \in G
  <2>1. n \in 0..n
    OBVIOUS
  <2> HIDE DEF G
  <2>2. QED
    BY <1>3, <2>1
<1>5. SumOver(g, 1..n) = SumOver(f, {o[i] : i \in 1..n})
  BY <1>4
<1>6. QED
  BY <1>5 DEF Firsts

(* Summed by rows or by columns: g is f with its arguments swapped.        *)
LEMMA SumSwap ==
  ASSUME NEW S, IsFiniteSet(S), NEW T, IsFiniteSet(T), NEW f, NEW g,
         \A x \in S : \A y \in T : f[x][y] \in Nat,
         \A x \in S : \A y \in T : g[y][x] = f[x][y]
  PROVE  SumOver([x \in S |-> SumOver(f[x], T)], S) = SumOver([y \in T |-> SumOver(g[y], S)], T)
<1> DEFINE r == [x \in S |-> SumOver(f[x], T)]
           col(X) == [y \in T |-> SumOver(g[y], X)]
           G == {X \in SUBSET S : SumOver(r, X) = SumOver(col(X), T)}
<1>1. {} \in G
  <2>1. \A y \in T : col({})[y] = 0
    BY SumEmpty
  <2> HIDE DEF col
  <2>2. SumOver(col({}), T) = 0
    BY <2>1, SumZero
  <2>3. SumOver(r, {}) = 0
    BY SumEmpty
  <2>4. QED
    BY <2>2, <2>3
<1>r. \A x \in S : r[x] \in Nat
  <2> TAKE x \in S
  <2>1. \A y \in T : f[x][y] \in Nat
    OBVIOUS
  <2>2. SumOver(f[x], T) \in Nat
    BY <2>1, SumType
  <2>3. QED
    BY <2>2
<1>2. ASSUME NEW X \in SUBSET S, NEW x \in S \ X, X \in G
      PROVE  X \cup {x} \in G
  <2> DEFINE a == col(X)
             b == col(X \cup {x})
  <2>1. IsFiniteSet(X) /\ x \notin X
    BY FS_Subset
  <2>a. ASSUME NEW q, \A z \in X : q[z] \in Nat, q[x] \in Nat
        PROVE  SumOver(q, X \cup {x}) = SumOver(q, X) + q[x]
    <3> HIDE DEF col, G, r
    <3>1. QED
      BY <2>1, <2>a, SumAdd
  <2>2. ASSUME NEW y \in T
        PROVE  /\ SumOver(g[y], X) \in Nat
               /\ SumOver(g[y], X \cup {x}) = SumOver(g[y], X) + f[x][y]
    <3> DEFINE q == g[y]
    <3>1. (\A z \in X : q[z] \in Nat) /\ q[x] \in Nat /\ q[x] = f[x][y]
      OBVIOUS
    <3> HIDE DEF q, col, G, r
    <3>2. SumOver(q, X) \in Nat
      BY <2>1, <3>1, SumType
    <3>3. SumOver(q, X \cup {x}) = SumOver(q, X) + q[x]
      BY <2>a, <3>1
    <3>4. QED
      BY <3>1, <3>2, <3>3 DEF q
  <2>3. \A y \in T : a[y] \in Nat /\ f[x][y] \in Nat /\ b[y] = a[y] + f[x][y]
    BY <2>2
  <2>4. SumOver(r, X \cup {x}) = SumOver(r, X) + r[x]
    <3>1. (\A z \in X : r[z] \in Nat) /\ r[x] \in Nat
      BY <1>r
    <3> HIDE DEF col, G, r
    <3>2. QED
      BY <2>a, <3>1
  <2>5. SumOver(r, X) = SumOver(a, T) /\ r[x] = SumOver(f[x], T)
    BY <1>2
  <2> HIDE DEF a, b
  <2>6. SumOver(b, T) = SumOver(a, T) + SumOver(f[x], T)
    BY <2>3, SumPlus
  <2>7. SumOver(r, X \cup {x}) = SumOver(b, T)
    BY <2>4, <2>5, <2>6
  <2>8. QED
    BY <2>7 DEF b
<1>3. S \in G
  <2> HIDE DEF G
  <2>1. QED
    BY <1>1, <1>2, ElementInduction
<1>4. QED
  BY <1>3

Class(h, D, b) == {k \in D : h[k] = b}

(* A finite set counted class by class; h gives each element its class.    *)
LEMMA CountedByClass ==
  ASSUME NEW D, IsFiniteSet(D), NEW B, IsFiniteSet(B), NEW h, \A k \in D : h[k] \in B,
         NEW f, \A b \in B : f[b] = Cardinality(Class(h, D, b))
  PROVE  SumOver(f, B) = Cardinality(D)
<1> DEFINE class(X, b) == Class(h, X, b)
           sizes(X) == [b \in B |-> Cardinality(class(X, b))]
           G == {X \in SUBSET D : SumOver(sizes(X), B) = Cardinality(X)}
<1>n. \A X \in SUBSET D : \A b \in B : IsFiniteSet(class(X, b)) /\ sizes(X)[b] \in Nat
  <2> SUFFICES ASSUME NEW X \in SUBSET D, NEW b \in B
               PROVE  IsFiniteSet(class(X, b)) /\ sizes(X)[b] \in Nat
    OBVIOUS
  <2> DEFINE C == class(X, b)
  <2>1. C \in SUBSET D
    BY DEF Class
  <2>2. sizes(X)[b] = Cardinality(C)
    OBVIOUS
  <2> HIDE DEF C, G
  <2>3. IsFiniteSet(C)
    BY <2>1, FS_Subset
  <2>4. Cardinality(C) \in Nat
    BY <2>3, FS_CardinalityType
  <2>5. QED
    BY <2>2, <2>3, <2>4 DEF C
<1>1. {} \in G
  <2>1. \A b \in B : class({}, b) = {}
    BY DEF Class
  <2>2. \A b \in B : sizes({})[b] = 0
    BY <2>1, FS_EmptySet
  <2> HIDE DEF sizes
  <2>3. SumOver(sizes({}), B) = 0
    BY <2>2, SumZero
  <2>4. QED
    BY <2>3, FS_EmptySet
<1>2. ASSUME NEW X \in SUBSET D, NEW x \in D \ X, X \in G
      PROVE  X \cup {x} \in G
  <2> DEFINE a == sizes(X)
             b == sizes(X \cup {x})
             c == h[x]
  <2>1. IsFiniteSet(X) /\ Cardinality(X \cup {x}) = Cardinality(X) + 1 /\ Cardinality(X) \in Nat
    BY FS_Subset, FS_AddElement, FS_CardinalityType
  <2>2. c \in B
    OBVIOUS
  <2>3. class(X \cup {x}, c) = class(X, c) \cup {x} /\ x \notin class(X, c)
    BY DEF Class
  <2>4. \A d \in B : d # c => class(X \cup {x}, d) = class(X, d)
    BY DEF Class
  <2>5. Cardinality(class(X \cup {x}, c)) = Cardinality(class(X, c)) + 1
    <3>1. IsFiniteSet(class(X, c))
      BY <1>n, <2>2
    <3> HIDE DEF class
    <3>2. Cardinality(class(X, c) \cup {x}) = Cardinality(class(X, c)) + 1
      BY <2>3, <3>1, FS_AddElement
    <3>3. QED
      BY <2>3, <3>2
  <2>6. /\ \A d \in B : a[d] \in Nat
        /\ b[c] = a[c] + 1 /\ a[c] \in Nat /\ b[c] \in Nat
        /\ \A d \in B : d # c => b[d] = a[d]
    BY <1>n, <2>2, <2>4, <2>5
  <2>7. SumOver(a, B) = Cardinality(X)
    BY <1>2
  <2> HIDE DEF a, b, c
  <2>8. SumOver(b, B) + a[c] = SumOver(a, B) + b[c]
    BY <2>2, <2>6, SumChange
  <2>9. SumOver(a, B) \in Nat
    BY <2>6, SumType
  <2>b. SumOver(b, B) \in Nat
    <3>1. \A d \in B : b[d] \in Nat
      BY <2>6
    <3>2. QED
      BY <3>1, SumType
  <2>10. SumOver(b, B) = Cardinality(X \cup {x})
    BY <2>1, <2>6, <2>7, <2>8, <2>9, <2>b
  <2>11. QED
    BY <2>10 DEF b
<1>3. D \in G
  <2> HIDE DEF G
  <2>1. QED
    BY <1>1, <1>2, ElementInduction
<1>4. \A b \in B : sizes(D)[b] = f[b] /\ sizes(D)[b] \in Nat
  BY <1>n
<1>5. SumOver(sizes(D), B) = Cardinality(D)
  BY <1>3
<1> HIDE DEF sizes
<1>6. SumOver(sizes(D), B) = SumOver(f, B)
  BY <1>4, SumSame
<1>7. QED
  BY <1>5, <1>6

(* The sum of the first k numbers of a sequence.                           *)
LEMMA IntervalSum ==
  ASSUME NEW n \in Nat, NEW f, \A i \in 1..n : f[i] \in Nat
  PROVE  /\ SumOver(f, 1..0) = 0
         /\ \A k \in 0..n : SumOver(f, 1..k) \in Nat
         /\ \A k \in 1..n : SumOver(f, 1..k) = SumOver(f, 1..(k - 1)) + f[k]
<1>1. SumOver(f, 1..0) = 0
  BY SumEmpty
<1>2. \A k \in 0..n : SumOver(f, 1..k) \in Nat
  <2> TAKE k \in 0..n
  <2> DEFINE K == 1..k
  <2>1. IsFiniteSet(K)
    BY FS_Interval
  <2>2. \A i \in K : f[i] \in Nat
    OBVIOUS
  <2> HIDE DEF K
  <2>3. SumOver(f, K) \in Nat
    BY <2>1, <2>2, SumType
  <2>4. QED
    BY <2>3 DEF K
<1>3. \A k \in 1..n : SumOver(f, 1..k) = SumOver(f, 1..(k - 1)) + f[k]
  <2> TAKE k \in 1..n
  <2> DEFINE K == 1..(k - 1)
  <2>1. IsFiniteSet(K)
    BY FS_Interval
  <2>2. k \notin K /\ (\A i \in K : f[i] \in Nat) /\ f[k] \in Nat
    OBVIOUS
  <2>3. 1..k = K \cup {k}
    OBVIOUS
  <2> HIDE DEF K
  <2>4. SumOver(f, K \cup {k}) = SumOver(f, K) + f[k]
    BY <2>1, <2>2, SumAdd
  <2>5. QED
    BY <2>3, <2>4 DEF K
<1>4. QED
  BY <1>1, <1>2, <1>3

(* The differences of an increasing sequence add up to its growth.         *)
LEMMA Telescope ==
  ASSUME NEW n \in Nat, NEW q, NEW p, \A k \in 0..n : q[k] \in Nat, q[0] = 0,
         \A k \in 1..n : q[k - 1] <= q[k] /\ p[k] = q[k] - q[k - 1]
  PROVE  SumOver(p, 1..n) = q[n]
<1> DEFINE G == {k \in 0..n : SumOver(p, 1..k) = q[k]}
<1>1. \A k \in 1..n : p[k] \in Nat
  OBVIOUS
<1>2. /\ SumOver(p, 1..0) = 0
      /\ \A k \in 1..n : SumOver(p, 1..k) = SumOver(p, 1..(k - 1)) + p[k]
  BY <1>1, IntervalSum
<1>3. 0 \in G
  BY <1>2
<1>4. ASSUME NEW k \in 0..(n - 1), k \in G
      PROVE  k + 1 \in G
  <2>1. k + 1 \in 1..n /\ (k + 1) - 1 = k
    OBVIOUS
  <2>2. SumOver(p, 1..(k + 1)) = SumOver(p, 1..k) + p[k + 1]
    BY <1>2, <2>1
  <2>3. SumOver(p, 1..k) = q[k] /\ p[k + 1] = q[k + 1] - q[k] /\ q[k] \in Nat /\ q[k + 1] \in Nat
    BY <1>4, <2>1
  <2>4. SumOver(p, 1..(k + 1)) = q[k + 1]
    BY <2>2, <2>3
  <2>5. QED
    BY <2>1, <2>4
<1>5. \A k \in 0..n : k \in G
  <2> HIDE DEF G
  <2>1. QED
    BY <1>3, <1>4, IntervalInduction
<1>6. QED
  BY <1>5

-----------------------------------------------------------------------------
(***************************************************************************)
(* Ranks in a set of positions, and functions defined by iteration.        *)
(***************************************************************************)
(* The positions of K up to k: their number is the rank of k.              *)
Upto(K, k) == {n \in K : n <= k}

(* The members of a set of positions have ranks from 1 on.                 *)
LEMMA RankedPosition ==
  ASSUME NEW n \in Nat, NEW K \in SUBSET (1..n), NEW j \in 1..Cardinality(K)
  PROVE  \E k \in K : Cardinality(Upto(K, k)) = j
<1>0. \A x \in K : x \in Nat /\ 1 <= x /\ x <= n
  OBVIOUS
<1>1. ASSUME NEW k \in 0..n
      PROVE  IsFiniteSet(Upto(K, k)) /\ Cardinality(Upto(K, k)) \in Nat
  <2>1. Upto(K, k) \subseteq 1..n
    BY DEF Upto
  <2>2. IsFiniteSet(1..n)
    BY FS_Interval
  <2>3. QED
    BY <2>1, <2>2, FS_Subset, FS_CardinalityType
<1>2. Cardinality(Upto(K, 0)) = 0
  <2>1. \A x \in K : ~(x <= 0)
    BY <1>0
  <2>a. Upto(K, 0) = {}
    BY <2>1 DEF Upto
  <2>2. QED
    BY <2>a, FS_EmptySet
<1>3. Upto(K, n) = K
  BY <1>0 DEF Upto
<1>4. ASSUME NEW k \in 0..(n - 1)
      PROVE  \/ k + 1 \in K /\ Cardinality(Upto(K, k + 1)) = Cardinality(Upto(K, k)) + 1
             \/ Cardinality(Upto(K, k + 1)) = Cardinality(Upto(K, k))
  <2>1. CASE k + 1 \in K
    <3>1. \A x \in K : x <= k + 1 <=> x <= k \/ x = k + 1
      BY <1>0
    <3>a. ~(k + 1 <= k)
      OBVIOUS
    <3>b. Upto(K, k + 1) = Upto(K, k) \cup {k + 1} /\ k + 1 \notin Upto(K, k)
      BY <2>1, <3>1, <3>a DEF Upto
    <3>2. QED
      BY <1>1, <2>1, <3>b, FS_AddElement
  <2>2. CASE k + 1 \notin K
    <3>1. \A x \in K : x <= k + 1 <=> x <= k
      BY <1>0, <2>2
    <3>2. Upto(K, k + 1) = Upto(K, k)
      BY <3>1 DEF Upto
    <3>3. QED
      BY <3>2
  <2>3. QED
    BY <2>1, <2>2
<1> DEFINE T == {k \in 0..n : Cardinality(Upto(K, k)) >= j}
<1>5. T \in SUBSET Nat /\ n \in T
  BY <1>1, <1>3
<1>6. PICK m \in T : \A k \in T : m <= k
  BY <1>5, LeastNumber
<1>7. m \in 0..n /\ Cardinality(Upto(K, m)) >= j
  OBVIOUS
<1>8. m # 0
  BY <1>2, <1>7
<1>9. m - 1 \in 0..(n - 1) /\ (m - 1) + 1 = m /\ m - 1 \in 0..n
  BY <1>7, <1>8
<1>10. ~(m <= m - 1)
  BY <1>9
<1>11. m - 1 \notin T
  BY <1>6, <1>10
<1>12. ~(Cardinality(Upto(K, m - 1)) >= j)
  BY <1>9, <1>11
<1> HIDE DEF T
<1> DEFINE a == Cardinality(Upto(K, m - 1))
           b == Cardinality(Upto(K, m))
<1>13. a \in Nat /\ b \in Nat /\ b >= j /\ ~(a >= j)
  BY <1>1, <1>7, <1>9, <1>12
<1>14. (m \in K /\ b = a + 1) \/ b = a
  BY <1>4, <1>9
<1> HIDE DEF a, b
<1>15. m \in K /\ b = j
  BY <1>13, <1>14
<1>16. QED
  BY <1>15 DEF b

(* Two members of a set of positions with the same rank are the same.      *)
LEMMA RankUnique ==
  ASSUME NEW n \in Nat, NEW K \in SUBSET (1..n), NEW i \in K, NEW k \in K,
         Cardinality(Upto(K, i)) = Cardinality(Upto(K, k))
  PROVE  i = k
<1>1. ASSUME NEW a \in K, NEW b \in K, a < b
      PROVE  Cardinality(Upto(K, a)) # Cardinality(Upto(K, b))
  <2>0. IsFiniteSet(1..n)
    BY FS_Interval
  <2>1. IsFiniteSet(K)
    BY <2>0, FS_Subset
  <2>2. a \in Nat /\ b \in Nat /\ \A x \in K : x \in Nat
    OBVIOUS
  <2>a. \A x \in K : x <= a => x <= b
    BY <1>1, <2>2
  <2>3. Upto(K, a) \subseteq Upto(K, b) /\ Upto(K, b) \subseteq K
    BY <2>a DEF Upto
  <2>4. b \in Upto(K, b) /\ b \notin Upto(K, a)
    BY <1>1, <2>2 DEF Upto
  <2>5. IsFiniteSet(Upto(K, b))
    BY <2>1, <2>3, FS_Subset
  <2>6. QED
    BY <2>3, <2>4, <2>5, FS_Subset
<1>2. i \in Nat /\ k \in Nat
  OBVIOUS
<1>3. QED
  BY <1>1, <1>2

(* A first value, and then what a step makes of the one before.            *)
IsIteration(f, n, base, step) ==
  f = [j \in 0..n |-> IF j = 0 THEN base ELSE step[<<j, f[j - 1]>>]]

(* The definition has a solution.                                          *)
LEMMA Iteration ==
  ASSUME NEW n \in Nat, NEW base, NEW step
  PROVE  \E f : IsIteration(f, n, base, step)
<1> DEFINE Is(f, k) == IsIteration(f, k, base, step)
           G == {k \in 0..n : \E f : Is(f, k)}
<1>1. 0 \in G
  <2> DEFINE h == [j \in 0..0 |-> base]
  <2>1. \A j \in 0..0 : h[j] = IF j = 0 THEN base ELSE step[<<j, h[j - 1]>>]
    OBVIOUS
  <2>2. h = [j \in 0..0 |-> h[j]]
    OBVIOUS
  <2>3. Is(h, 0)
    <3> HIDE DEF h
    <3>1. QED
      BY <2>1, <2>2 DEF IsIteration
  <2>4. 0 \in 0..n
    OBVIOUS
  <2>5. QED
    <3> HIDE DEF Is, h
    <3>1. QED
      BY <2>3, <2>4
<1>2. ASSUME NEW k \in 0..(n - 1), k \in G
      PROVE  k + 1 \in G
  <2>1. PICK f : Is(f, k)
    BY <1>2
  <2> DEFINE h == [j \in 0..(k + 1) |-> IF j = k + 1 THEN step[<<k + 1, f[k]>>] ELSE f[j]]
  <2>2. /\ \A j \in 0..k : f[j] = IF j = 0 THEN base ELSE step[<<j, f[j - 1]>>]
        /\ \A j \in 0..k : h[j] = f[j]
        /\ h[k + 1] = step[<<k + 1, f[k]>>]
    BY <2>1 DEF IsIteration
  <2>3. ASSUME NEW j \in 0..(k + 1)
        PROVE  h[j] = IF j = 0 THEN base ELSE step[<<j, h[j - 1]>>]
    <3>1. CASE j = k + 1
      <4>1. j # 0 /\ j - 1 = k /\ k \in 0..k
        BY <3>1
      <4>2. QED
        BY <2>2, <3>1, <4>1
    <3>2. CASE j # k + 1
      <4>1. j \in 0..k /\ (j # 0 => j - 1 \in 0..k)
        BY <3>2
      <4>2. QED
        BY <2>2, <4>1
    <3>3. QED
      BY <3>1, <3>2
  <2>4. h = [j \in 0..(k + 1) |-> h[j]]
    OBVIOUS
  <2>5. Is(h, k + 1)
    <3> HIDE DEF h
    <3>1. QED
      BY <2>3, <2>4 DEF IsIteration
  <2>6. k + 1 \in 0..n
    OBVIOUS
  <2>7. QED
    <3> HIDE DEF Is
    <3>1. QED
      BY <2>5, <2>6
<1>3. \A k \in 0..n : k \in G
  <2> HIDE DEF G
  <2>1. QED
    BY <1>1, <1>2, IntervalInduction
<1>4. QED
  BY <1>3

==============================================================================
