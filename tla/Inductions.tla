----------------------------- MODULE Inductions -----------------------------
(***************************************************************************)
(* Induction, stated over sets: what the proofs about folds need.  The     *)
(* induction theorems of the library take a predicate as their parameter;  *)
(* here the predicate is the set of what satisfies it, and the theorems    *)
(* follow from the library's least elements (WFMin).                       *)
(***************************************************************************)
EXTENDS Integers, FiniteSets, FiniteSetsExt, Functions, FiniteSetTheorems, WellFoundedInduction, TLAPS

\* A set of numbers that has 0, and with every number below the bound the next
\* one, has all of them up to the bound.
LEMMA UpTo ==
  ASSUME NEW n \in Nat, NEW S, 0 \in S,
         \A k \in 0..(n - 1) : k \in S => k + 1 \in S
  PROVE  0..n \subseteq S
<1> DEFINE T == (0..n) \ S
<1> SUFFICES ASSUME T # {} PROVE FALSE
  OBVIOUS
<1>1. T \subseteq Nat
  OBVIOUS
<1>2. PICK x \in T : \A y \in T : ~(<<y, x>> \in OpToRel(<, Nat))
  <2> HIDE DEF T
  <2> QED BY <1>1, NatLessThanWellFounded, WFMin
<1>3. \A y \in T : ~(y < x)
  BY <1>1, <1>2 DEF OpToRel
<1>4. x # 0 /\ x \in 0..n
  OBVIOUS
<1>5. x - 1 \in 0..(n - 1) /\ x - 1 \in 0..n
  BY <1>4
<1>6. x - 1 \in S
  BY <1>3, <1>5
<1>7. (x - 1) + 1 \in S
  BY <1>5, <1>6
<1> QED
  BY <1>4, <1>7

\* A set of subsets of a finite set that has the empty one, and every set whose
\* parts with one element less it has, has all of them.
LEMMA AllSubsets ==
  ASSUME NEW S, IsFiniteSet(S), NEW P, {} \in P,
         \A T \in SUBSET S : (\A x \in T : T \ {x} \in P) => T \in P
  PROVE  SUBSET S \subseteq P
<1> DEFINE K == {k \in Nat : \A T \in SUBSET S : Cardinality(T) = k => T \in P}
<1>1. \A T \in SUBSET S : IsFiniteSet(T) /\ Cardinality(T) \in Nat
  BY FS_Subset, FS_CardinalityType
<1>2. 0 \in K
  <2>1. \A T \in SUBSET S : Cardinality(T) = 0 => T = {}
    BY <1>1, FS_EmptySet
  <2> QED BY <2>1
<1>3. ASSUME NEW k \in Nat, k \in K PROVE k + 1 \in K
  <2> SUFFICES ASSUME NEW T \in SUBSET S, Cardinality(T) = k + 1 PROVE T \in P
    OBVIOUS
  <2>2. \A x \in T : Cardinality(T \ {x}) = k
    BY <1>1, FS_RemoveElement
  <2>3. \A x \in T : T \ {x} \in P
    BY <1>3, <2>2
  <2> QED
    BY <2>3
<1>4. Cardinality(S) \in Nat
  BY FS_CardinalityType
<1>5. ASSUME NEW T \in SUBSET S PROVE T \in P
  <2>1. Cardinality(T) \in Nat
    BY <1>1
  <2>2. 0..Cardinality(T) \subseteq K
    <3> HIDE DEF K
    <3> QED BY <1>2, <1>3, <2>1, UpTo
  <2>3. Cardinality(T) \in K
    BY <2>1, <2>2
  <2> QED BY <2>3
<1> QED BY <1>5

-----------------------------------------------------------------------------
(* Folds from the left.  FoldLeft goes through a function over the sets of   *)
(* indices, which takes out the largest index first; step is what it does    *)
(* with an index and a value.                                                *)

\* A part of an interval has its largest element,
LEMMA MaxIs ==
  ASSUME NEW n \in Nat, NEW T \in SUBSET (1..n), T # {}
  PROVE  Max(T) \in T /\ \A y \in T : y <= Max(T)
<1> DEFINE D == {n - t : t \in T}
<1>1. D \subseteq Nat /\ D # {}
  <2>1. \A t \in T : n - t \in Nat
    OBVIOUS
  <2> QED BY <2>1
<1>2. PICK d \in D : \A e \in D : ~(<<e, d>> \in OpToRel(<, Nat))
  <2> HIDE DEF D
  <2> QED BY <1>1, NatLessThanWellFounded, WFMin
<1>3. \A e \in D : ~(e < d)
  BY <1>1, <1>2 DEF OpToRel
<1>4. PICK x \in T : d = n - x
  OBVIOUS
<1>5. \A y \in T : x >= y
  <2> TAKE y \in T
  <2>1. ~(n - y < n - x)
    BY <1>3, <1>4
  <2> QED BY <2>1
<1> QED
  BY <1>5 DEF Max

\* which for the interval up to k is k.
LEMMA MaxOfPrefix ==
  ASSUME NEW k \in Nat \ {0}
  PROVE  Max(1..k) = k /\ (1..k) \ {Max(1..k)} = 1..(k - 1)
<1>1. Max(1..k) \in 1..k /\ \A y \in 1..k : y <= Max(1..k)
  <2>1. 1..k \in SUBSET (1..k) /\ 1..k # {}
    OBVIOUS
  <2> QED BY <2>1, MaxIs
<1> QED
  BY <1>1

\* There is such a function.
LEMMA IterExists ==
  ASSUME NEW n \in Nat, NEW V, NEW base \in V, NEW step \in [(1..n) \X V -> V]
  PROVE  \E it \in [SUBSET (1..n) -> V] :
           /\ it[{}] = base
           /\ \A T \in SUBSET (1..n) : T # {} => it[T] = step[<<Max(T), it[T \ {Max(T)}]>>]
<1> DEFINE S == 1..n
           Last(it, T) == step[<<Max(T), it[T \ {Max(T)}]>>]
           Right(it, k) == \A T \in SUBSET S : T # {} /\ Cardinality(T) <= k => it[T] = Last(it, T)
           K == {k \in Nat : \E it \in [SUBSET S -> V] : it[{}] = base /\ Right(it, k)}
<1>1. IsFiniteSet(S) /\ Cardinality(S) = n
  BY FS_Interval
<1>2. \A T \in SUBSET S : IsFiniteSet(T) /\ Cardinality(T) \in Nat /\ Cardinality(T) <= n
  <2> HIDE DEF S
  <2> QED BY <1>1, FS_Subset, FS_CardinalityType
<1>3. \A T \in SUBSET S : T # {} =>
        /\ Max(T) \in T /\ T \ {Max(T)} \in SUBSET S
        /\ Cardinality(T \ {Max(T)}) = Cardinality(T) - 1
  <2> TAKE T \in SUBSET S
  <2> HAVE T # {}
  <2>1. Max(T) \in T
    BY MaxIs
  <2>2. IsFiniteSet(T)
    BY <1>2
  <2> HIDE DEF S
  <2> QED BY <2>1, <2>2, FS_RemoveElement
<1>4. \A it \in [SUBSET S -> V] : \A T \in SUBSET S : T # {} => Last(it, T) \in V
  BY <1>3
<1>5. 0 \in K
  <2> DEFINE it == [T \in SUBSET S |-> base]
  <2>1. it \in [SUBSET S -> V] /\ it[{}] = base
    OBVIOUS
  <2>2. \A T \in SUBSET S : T # {} => ~(Cardinality(T) <= 0)
    <3> HIDE DEF S
    <3> QED BY <1>2, FS_EmptySet
  <2>3. Right(it, 0)
    BY <2>2
  <2> HIDE DEF Right, it
  <2> QED BY <2>1, <2>3
<1>6. ASSUME NEW k \in Nat, k \in K PROVE k + 1 \in K
  <2>1. PICK it \in [SUBSET S -> V] : it[{}] = base /\ Right(it, k)
    BY <1>6
  <2> DEFINE new == [T \in SUBSET S |-> IF T = {} THEN base ELSE Last(it, T)]
  <2>2. new \in [SUBSET S -> V] /\ new[{}] = base
    <3> HIDE DEF Last, S
    <3> QED BY <1>4
  <2>3. \A T \in SUBSET S : Cardinality(T) <= k => new[T] = it[T]
    <3> HIDE DEF Last, S
    <3> QED BY <2>1
  <2>4. Right(new, k + 1)
    <3> SUFFICES ASSUME NEW T \in SUBSET S, T # {}, Cardinality(T) <= k + 1
                 PROVE  new[T] = Last(new, T)
      OBVIOUS
    <3>1. Cardinality(T \ {Max(T)}) <= k /\ T \ {Max(T)} \in SUBSET S
      BY <1>2, <1>3
    <3>2. new[T \ {Max(T)}] = it[T \ {Max(T)}]
      BY <2>3, <3>1
    <3>3. new[T] = Last(it, T)
      OBVIOUS
    <3> HIDE DEF new
    <3> QED BY <3>2, <3>3
  <2> HIDE DEF new, Right, S
  <2> QED BY <2>2, <2>4
<1>7. n \in K
  <2>1. 0..n \subseteq K
    <3>1. \A k \in 0..(n - 1) : k \in K => k + 1 \in K
      BY <1>6
    <3> HIDE DEF K
    <3> QED BY <1>5, <3>1, UpTo
  <2> HIDE DEF K
  <2> QED BY <2>1
<1>8. PICK it \in [SUBSET S -> V] : it[{}] = base /\ Right(it, n)
  BY <1>7
<1>9. \A T \in SUBSET S : T # {} => it[T] = Last(it, T)
  BY <1>2, <1>8
<1> QED
  BY <1>8, <1>9

\* What such a function makes of all the indices is reached index by index.
LEMMA FoldsFrom ==
  ASSUME NEW n \in Nat, NEW V, NEW base \in V, NEW step \in [(1..n) \X V -> V],
         NEW it, it[{}] = base,
         \A T \in SUBSET (1..n) : T # {} /\ it[T \ {Max(T)}] \in V =>
            it[T] = step[<<Max(T), it[T \ {Max(T)}]>>]
  PROVE  \E F \in [0..n -> V] :
           /\ F[0] = base /\ F[n] = it[1..n]
           /\ \A k \in 1..n : F[k] = step[<<k, F[k - 1]>>]
<1> DEFINE F == [k \in 0..n |-> it[1..k]]
           Reached == {k \in 0..n : F[k] \in V}
<1>1. F[0] = base
  <2>1. 1..0 = {}
    OBVIOUS
  <2> QED BY <2>1
<1>2. ASSUME NEW k \in 1..n, F[k - 1] \in V
      PROVE  F[k] = step[<<k, F[k - 1]>>]
  <2>1. 1..k \in SUBSET (1..n) /\ 1..k # {} /\ k - 1 \in 0..n
    OBVIOUS
  <2>2. Max(1..k) = k /\ (1..k) \ {Max(1..k)} = 1..(k - 1)
    BY MaxOfPrefix
  <2>3. F[k] = it[1..k] /\ F[k - 1] = it[1..(k - 1)]
    BY <2>1
  <2> HIDE DEF F
  <2> QED BY <1>2, <2>1, <2>2, <2>3
<1>3. 0..n \subseteq Reached
  <2>1. 0 \in Reached
    BY <1>1
  <2>2. ASSUME NEW k \in 0..(n - 1), k \in Reached
        PROVE  k + 1 \in Reached
    <3>1. k + 1 \in 1..n /\ (k + 1) - 1 = k /\ F[k] \in V
      BY <2>2
    <3>2. F[k + 1] = step[<<k + 1, F[k]>>]
      <4> HIDE DEF F
      <4> QED BY <1>2, <3>1
    <3> HIDE DEF F
    <3> QED BY <3>1, <3>2
  <2> HIDE DEF Reached
  <2> QED BY <2>1, <2>2, UpTo
<1>4. F \in [0..n -> V]
  <2>1. \A k \in 0..n : F[k] \in V
    <3> HIDE DEF F
    <3> QED BY <1>3
  <2> QED BY <2>1
<1>5. \A k \in 1..n : F[k] = step[<<k, F[k - 1]>>]
  <2> TAKE k \in 1..n
  <2>1. k - 1 \in 0..n
    OBVIOUS
  <2> HIDE DEF F
  <2> QED BY <1>2, <1>4, <2>1
<1>6. F[n] = it[1..n]
  OBVIOUS
<1> HIDE DEF F
<1> QED
  BY <1>1, <1>4, <1>5, <1>6

-----------------------------------------------------------------------------
(* The sum of a function's values.                                           *)

\* All of them are the same, but for the last one.
LEMMA SumAlmostFlat ==
  ASSUME NEW n \in Nat \ {0}, NEW c \in Nat, NEW f \in [1..n -> Nat],
         \A b \in 1..(n - 1) : f[b] = c
  PROVE  SumFunction(f) = (n - 1) * c + f[n]
<1> DEFINE S == 1..n
           Sum(T) == IF n \in T THEN (Cardinality(T) - 1) * c + f[n] ELSE Cardinality(T) * c
           pick(T) == CHOOSE y \in T : TRUE
           Step(iter) == [T \in SUBSET S |-> IF T = {} THEN 0
                                             ELSE f[pick(T)] + iter[T \ {pick(T)}]]
           it == CHOOSE iter : iter = Step(iter)
           sums == [T \in SUBSET S |-> Sum(T)]
<1>1. SumFunction(f) = it[S]
  BY DEF SumFunction, SumFunctionOnSet, FoldFunctionOnSet, MapThenFoldSet
<1>2. IsFiniteSet(S) /\ Cardinality(S) = n
  BY FS_Interval
<1>3. \A T \in SUBSET S : IsFiniteSet(T) /\ Cardinality(T) \in Nat
  <2> HIDE DEF S
  <2> QED BY <1>2, FS_Subset, FS_CardinalityType
<1>4. Sum({}) = 0
  BY FS_EmptySet
<1>5. ASSUME NEW T \in SUBSET S, NEW x \in T
      PROVE  Sum(T) = f[x] + Sum(T \ {x})
  <2>1. /\ Cardinality(T \ {x}) = Cardinality(T) - 1 /\ Cardinality(T) \in Nat \ {0}
        /\ Cardinality(T \ {x}) \in Nat
    <3> HIDE DEF S
    <3> QED BY <1>3, FS_RemoveElement, FS_EmptySet
  <2>2. f[x] \in Nat /\ f[n] \in Nat /\ (x # n => f[x] = c)
    OBVIOUS
  <2> DEFINE k == Cardinality(T)
             j == Cardinality(T \ {x})
  <2>3. j = k - 1 /\ k \in Nat \ {0} /\ (k - 1) * c \in Nat /\ (k - 1) * c + c = k * c
    <3>1. j = k - 1 /\ k \in Nat \ {0}
      BY <2>1
    <3> HIDE DEF k, j
    <3> QED BY <3>1
  <2>4. n \in T /\ x # n => (j - 1) * c + c = (k - 1) * c
    <3>1. n \in T /\ x # n => n \in T \ {x}
      OBVIOUS
    <3> HIDE DEF k, j
    <3> QED BY <2>3
  <2>5. CASE x = n
    BY <2>2, <2>3, <2>5
  <2>6. CASE x # n /\ n \in T
    <3>1. Sum(T) = (k - 1) * c + f[n] /\ Sum(T \ {x}) = (j - 1) * c + f[n]
      BY <2>6
    <3>2. (j - 1) * c \in Int
      <4> HIDE DEF k, j
      <4> QED BY <2>3
    <3> HIDE DEF k, j, Sum
    <3> QED BY <3>1, <3>2, <2>2, <2>3, <2>4, <2>6
  <2>7. CASE n \notin T
    BY <2>2, <2>3, <2>7
  <2> QED BY <2>5, <2>6, <2>7
<1>6. \A T \in SUBSET S : T # {} => pick(T) \in T
  OBVIOUS
<1>7. it = Step(it)
  <2>1. sums = Step(sums)
    <3> HIDE DEF Sum, S, pick
    <3>1. ASSUME NEW T \in SUBSET S, T # {}
          PROVE  T \ {pick(T)} \in SUBSET S /\ Sum(T) = f[pick(T)] + sums[T \ {pick(T)}]
      BY <1>5, <1>6, <3>1
    <3> QED BY <1>4, <3>1
  <2> HIDE DEF Step, sums
  <2> QED BY <2>1
<1>8. SUBSET S \subseteq {T \in SUBSET S : it[T] = Sum(T)}
  <2> DEFINE P == {T \in SUBSET S : it[T] = Sum(T)}
  <2> HIDE DEF it, Sum, S, pick
  <2>1. {} \in P
    BY <1>4, <1>7
  <2>2. ASSUME NEW T \in SUBSET S, \A x \in T : T \ {x} \in P
        PROVE  T \in P
    <3>1. CASE T = {}
      BY <2>1, <3>1
    <3>2. CASE T # {}
      <4>1. pick(T) \in T /\ it[T] = f[pick(T)] + it[T \ {pick(T)}]
        BY <1>6, <1>7, <3>2
      <4>2. it[T \ {pick(T)}] = Sum(T \ {pick(T)})
        BY <2>2, <4>1
      <4> QED BY <1>5, <4>1, <4>2
    <3> QED BY <3>1, <3>2
  <2>3. SUBSET S \subseteq P
    <3> HIDE DEF P
    <3> QED BY <2>1, <2>2, <1>2, AllSubsets
  <2> QED BY <2>3
<1> QED
  <2>1. it[S] = Sum(S)
    BY <1>8
  <2>2. Sum(S) = (n - 1) * c + f[n]
    BY <1>2
  <2> QED BY <1>1, <2>1, <2>2

=============================================================================
