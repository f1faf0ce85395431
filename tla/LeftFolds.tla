------------------------------ MODULE LeftFolds -----------------------------
(***************************************************************************)
(* A fold from the left of any operator, whatever its values are.  The     *)
(* community modules' folds are a function over the sets of indices, the   *)
(* one that equals its own unfolding, which takes out the largest index    *)
(* first.  That there is one is proved here by the number of the indices.  *)
(***************************************************************************)
EXTENDS Inductions

CONSTANT Op(_, _, _)    \* of a value, an index and what the fold's caller adds

\* The function that equals its own unfolding: top finds the largest of some indices.
Unfolds(it, n, base, top, ctx) ==
  it = [T \in SUBSET (1..n) |-> IF T = {} THEN base ELSE Op(it[T \ {top[T]}], top[T], ctx)]

\* The values of a fold, index by index.
Values(F, n, base, ctx) == F[0] = base /\ \A k \in 1..n : F[k] = Op(F[k - 1], k, ctx)

\* There is such a function.
LEMMA SomeUnfolds ==
  ASSUME NEW n \in Nat, NEW base, NEW top, NEW ctx,
         \A T \in SUBSET (1..n) : T # {} => top[T] \in T
  PROVE  \E it : Unfolds(it, n, base, top, ctx)
<1> DEFINE S == 1..n
           Value(it, T) == Op(it[T \ {top[T]}], top[T], ctx)
           Right(it, k) == \A T \in SUBSET S : T # {} /\ Cardinality(T) <= k => it[T] = Value(it, T)
           IsOne(it) == it = [T \in SUBSET S |-> it[T]] /\ it[{}] = base
           K == {k \in Nat : \E it : IsOne(it) /\ Right(it, k)}
<1>1. IsFiniteSet(S) /\ Cardinality(S) = n
  <2>1. /\ IsFiniteSet(1..n)
        /\ Cardinality(1..n) = IF 1 > n THEN 0 ELSE n - 1 + 1
    BY FS_Interval, SMT
  <2> QED BY <2>1
<1>2. \A T \in SUBSET S : IsFiniteSet(T) /\ Cardinality(T) \in Nat /\ Cardinality(T) <= n
  <2> HIDE DEF S
  <2> QED BY <1>1, FS_Subset, FS_CardinalityType
<1>3. \A T \in SUBSET S : T # {} =>
        /\ T \ {top[T]} \in SUBSET S
        /\ Cardinality(T \ {top[T]}) = Cardinality(T) - 1
  <2> TAKE T \in SUBSET S
  <2> HAVE T # {}
  <2>1. top[T] \in T /\ IsFiniteSet(T)
    BY <1>2
  <2> HIDE DEF S
  <2> QED BY <2>1, FS_RemoveElement
<1>4. 0 \in K
  <2> DEFINE it == [T \in SUBSET S |-> base]
  <2>1. IsOne(it)
    <3>1. {} \in SUBSET S
      OBVIOUS
    <3> HIDE DEF S
    <3> QED BY <3>1
  <2>2. \A T \in SUBSET S : T # {} => ~(Cardinality(T) <= 0)
    <3> HIDE DEF S
    <3> QED BY <1>2, FS_EmptySet
  <2>3. Right(it, 0)
    BY <2>2
  <2> HIDE DEF Right, it, IsOne
  <2> QED BY <2>1, <2>3
<1>5. ASSUME NEW k \in Nat, k \in K PROVE k + 1 \in K
  <2>1. PICK it : IsOne(it) /\ Right(it, k)
    BY <1>5
  <2> DEFINE new == [T \in SUBSET S |-> IF T = {} THEN base ELSE Value(it, T)]
  <2>2. IsOne(new)
    <3>1. {} \in SUBSET S
      OBVIOUS
    <3> HIDE DEF Value, S
    <3> QED BY <3>1
  <2>3. \A T \in SUBSET S : Cardinality(T) <= k => new[T] = it[T]
    <3> HIDE DEF Value, S
    <3> QED BY <2>1
  <2>4. Right(new, k + 1)
    <3> SUFFICES ASSUME NEW T \in SUBSET S, T # {}, Cardinality(T) <= k + 1
                 PROVE  new[T] = Value(new, T)
      OBVIOUS
    <3>1. Cardinality(T \ {top[T]}) <= k /\ T \ {top[T]} \in SUBSET S
      BY <1>2, <1>3
    <3>2. new[T \ {top[T]}] = it[T \ {top[T]}]
      BY <2>3, <3>1
    <3>3. new[T] = Value(it, T)
      OBVIOUS
    <3> HIDE DEF new
    <3> QED BY <3>2, <3>3
  <2> HIDE DEF new, Right, IsOne, S
  <2> QED BY <2>2, <2>4
<1>6. n \in K
  <2>1. \A k \in 0..(n - 1) : k \in K => k + 1 \in K
    BY <1>5
  <2> HIDE DEF K
  <2>2. 0..n \subseteq K
    BY <1>4, <2>1, UpTo
  <2> QED BY <2>2
<1>7. PICK it : IsOne(it) /\ Right(it, n)
  BY <1>6
<1>8. \A T \in SUBSET S : it[T] = IF T = {} THEN base ELSE Value(it, T)
  BY <1>2, <1>7
<1>9. it = [T \in SUBSET S |-> IF T = {} THEN base ELSE Value(it, T)]
  <2> HIDE DEF S, Value
  <2> QED BY <1>7, <1>8
<1> QED
  BY <1>9 DEF Unfolds

\* What such a function makes of all the indices is reached index by index.
LEMMA Unrolls ==
  ASSUME NEW n \in Nat, NEW base, NEW top, NEW ctx,
         \A T \in SUBSET (1..n) : T # {} => top[T] \in T /\ \A y \in T : y <= top[T],
         NEW it, Unfolds(it, n, base, top, ctx)
  PROVE  \E F : Values(F, n, base, ctx) /\ F[n] = it[1..n]
<1> DEFINE F == [k \in 0..n |-> it[1..k]]
<1>1. F[0] = base /\ F[n] = it[1..n]
  <2>1. 1..0 = {} /\ {} \in SUBSET (1..n) /\ n \in 0..n /\ 0 \in 0..n
    OBVIOUS
  <2>2. it[{}] = base
    BY <2>1 DEF Unfolds
  <2> QED BY <2>1, <2>2
<1>2. ASSUME NEW k \in 1..n PROVE F[k] = Op(F[k - 1], k, ctx)
  <2>1. 1..k \in SUBSET (1..n) /\ 1..k # {} /\ k - 1 \in 0..n /\ k \in 0..n
    OBVIOUS
  <2>2. top[1..k] = k
    <3>1. top[1..k] \in 1..k /\ \A y \in 1..k : y <= top[1..k]
      BY <2>1, Zenon
    <3>2. k \in 1..k
      OBVIOUS
    <3> QED BY <3>1, <3>2
  <2>3. (1..k) \ {k} = 1..(k - 1)
    OBVIOUS
  <2>4. F[k] = it[1..k] /\ F[k - 1] = it[1..(k - 1)]
    BY <2>1
  <2>5. it[1..k] = Op(it[1..(k - 1)], k, ctx)
    BY <2>1, <2>2, <2>3 DEF Unfolds
  <2> HIDE DEF F
  <2> QED BY <2>4, <2>5
<1> HIDE DEF F
<1>3. Values(F, n, base, ctx)
  BY <1>1, <1>2 DEF Values
<1> QED
  BY <1>1, <1>3
=============================================================================
