--------------------------- MODULE CountingLemmas ---------------------------
(* Lemmas about SumFunctionOnSet, the sum of a function over a finite set in *)
(* which the models count shares and money, and about Ranked, which lists a  *)
(* finite set in an order.                                                   *)
(*                                                                           *)
(* Induction is used in the form of least elements and of families of sets   *)
(* closed under adding an element, which need no operator parameters.        *)
EXTENDS Integers, FiniteSets, SequencesExt, Listing, FiniteSetTheorems, WellFoundedInduction, TLAPS

----------------------------------------------------------------------------
(* Induction                                                               *)

\* A set of natural numbers that is not empty has a least element.
LEMMA LeastNumber ==
    ASSUME NEW T \in SUBSET Nat, T # {}
    PROVE  \E n \in T : \A m \in T : n <= m
<1>1. \E n \in T : \A m \in T : ~(<<m, n>> \in OpToRel(<, Nat))
  BY NatLessThanWellFounded, WFMin
<1>2. \A m, n \in Nat : m < n => <<m, n>> \in OpToRel(<, Nat)
  BY DEF OpToRel
<1>3. PICK n \in T : \A m \in T : ~(<<m, n>> \in OpToRel(<, Nat))
  BY <1>1
<1>4. ASSUME NEW m \in T PROVE n <= m
  <2>1. ~(m < n) /\ m \in Nat /\ n \in Nat
    BY <1>2, <1>3
  <2> QED BY <2>1
<1> QED
  BY <1>4

\* A finite set has a least subset among those of a family that is not empty.
LEMMA LeastSubset ==
    ASSUME NEW S, IsFiniteSet(S), NEW X \in SUBSET SUBSET S, X # {}
    PROVE  \E T \in X : \A U \in SUBSET T : U # T => U \notin X
<1>1. /\ IsWellFoundedOn(StrictSubsetOrdering(S), FiniteSubsetsOf(S))
      /\ FiniteSubsetsOf(S) = SUBSET S
  BY FS_StrictSubsetOrderingWellFounded, FS_FiniteSubsetsOfFinite
<1>2. \E T \in X : \A U \in X : ~(<<U, T>> \in StrictSubsetOrdering(S))
  BY <1>1, WFMin
<1>3. \A T, U \in SUBSET S : U \subseteq T /\ U # T => <<U, T>> \in StrictSubsetOrdering(S)
  BY DEF StrictSubsetOrdering
<1> QED
  BY <1>2, <1>3

\* A family that has the empty set, and with a set every set one element
\* larger, has every subset of a finite set.
LEMMA FamilyInduction ==
    ASSUME NEW S, IsFiniteSet(S), NEW X, {} \in X,
           \A T \in SUBSET S, x \in S : T \in X /\ x \notin T => T \cup {x} \in X
    PROVE  S \in X
<1> DEFINE Missing == {T \in SUBSET S : T \notin X}
<1>1. SUFFICES ASSUME Missing # {} PROVE FALSE
  OBVIOUS
<1>2. PICK T \in Missing : \A U \in SUBSET T : U # T => U \notin Missing
  <2>1. Missing \in SUBSET SUBSET S
    OBVIOUS
  <2> HIDE DEF Missing
  <2> QED BY <1>1, <2>1, LeastSubset
<1>3. PICK x \in T : TRUE
  BY <1>2
<1>4. T \ {x} \in X /\ T = (T \ {x}) \cup {x}
  BY <1>2, <1>3
<1> QED
  BY <1>2, <1>3, <1>4

----------------------------------------------------------------------------
(* The function that SumFunctionOnSet defines by recursion                 *)

AnyOf(T) == CHOOSE x \in T : TRUE

\* One level of the recursion.
SumStep(f, g, T) == IF T = {} THEN 0 ELSE f[AnyOf(T)] + g[T \ {AnyOf(T)}]

Sums(f, S, g) == \A T \in SUBSET S : g[T] = SumStep(f, g, T)

\* The recursion has a solution up to every cardinality.
LEMMA SumsUpTo ==
    ASSUME NEW f, NEW S, IsFiniteSet(S), NEW n \in Nat
    PROVE  \E g : \A T \in SUBSET S : Cardinality(T) <= n => g[T] = SumStep(f, g, T)
<1> DEFINE Upto(m, g) == \A T \in SUBSET S : Cardinality(T) <= m => g[T] = SumStep(f, g, T)
           Open == {m \in Nat : ~ \E g : Upto(m, g)}
<1>1. SUFFICES ASSUME Open # {} PROVE FALSE
  OBVIOUS
<1>2. PICK m \in Open : \A k \in Open : m <= k
  BY <1>1, LeastNumber
<1>3. \A T \in SUBSET S : Cardinality(T) \in Nat /\ (Cardinality(T) = 0 <=> T = {})
  BY FS_Subset, FS_EmptySet, FS_CardinalityType
<1>4. m # 0
  <2>1. Upto(0, [T \in SUBSET S |-> 0])
    BY <1>3 DEF SumStep
  <2> QED BY <2>1, <1>2
<1>5. PICK g : Upto(m - 1, g)
  BY <1>2, <1>4
<1> DEFINE h == [T \in SUBSET S |-> SumStep(f, g, T)]
<1>6. Upto(m, h)
  <2>1. SUFFICES ASSUME NEW T \in SUBSET S, Cardinality(T) <= m
                 PROVE  h[T] = SumStep(f, h, T)
    OBVIOUS
  <2>2. CASE T = {}
    BY <2>2 DEF SumStep
  <2>3. CASE T # {}
    <3> DEFINE U == T \ {AnyOf(T)}
    <3>1. AnyOf(T) \in T
      BY <2>3 DEF AnyOf
    <3>2. U \in SUBSET S /\ Cardinality(U) <= m - 1
      BY <3>1, <2>1, <1>3, FS_RemoveElement, FS_Subset
    <3>3. h[U] = g[U]
      BY <3>2, <1>5
    <3>4. SumStep(f, g, T) = SumStep(f, h, T)
      BY <3>3, <2>3 DEF SumStep
    <3> QED BY <3>4
  <2> QED BY <2>2, <2>3
<1> QED
  BY <1>2, <1>6

LEMMA SumsExist ==
    ASSUME NEW f, NEW S, IsFiniteSet(S)
    PROVE  \E g : g = [T \in SUBSET S |-> SumStep(f, g, T)]
<1>1. PICK g : \A T \in SUBSET S : Cardinality(T) <= Cardinality(S) => g[T] = SumStep(f, g, T)
  <2>1. Cardinality(S) \in Nat
    BY FS_CardinalityType
  <2> QED BY <2>1, SumsUpTo
<1> DEFINE h == [T \in SUBSET S |-> SumStep(f, g, T)]
<1>2. \A T \in SUBSET S : g[T] = SumStep(f, g, T)
  BY <1>1, FS_Subset
<1>3. \A T \in SUBSET S : h[T] = g[T]
  BY <1>2
<1>4. ASSUME NEW T \in SUBSET S PROVE SumStep(f, g, T) = SumStep(f, h, T)
  <2>1. T \ {AnyOf(T)} \in SUBSET S
    OBVIOUS
  <2> QED BY <1>3, <2>1 DEF SumStep
<1>5. h = [T \in SUBSET S |-> SumStep(f, h, T)]
  BY <1>4
<1> QED
  BY <1>5

LEMMA SumUnfolds ==
    ASSUME NEW f, NEW S, IsFiniteSet(S)
    PROVE  \E g : Sums(f, S, g) /\ SumFunctionOnSet(f, S) = g[S]
<1> DEFINE g == CHOOSE g : g = [T \in SUBSET S |-> SumStep(f, g, T)]
<1>1. g = [T \in SUBSET S |-> SumStep(f, g, T)]
  BY SumsExist
<1>2. SumFunctionOnSet(f, S) = g[S]
  BY DEF SumFunctionOnSet, FoldFunctionOnSet, MapThenFoldSet, SumStep, AnyOf
<1> QED
  BY <1>1, <1>2 DEF Sums

\* The recursion has one solution.
LEMMA SumsUnique ==
    ASSUME NEW f, NEW S, IsFiniteSet(S), NEW g, NEW h, NEW U \in SUBSET S,
           Sums(f, S, g), Sums(f, U, h)
    PROVE  g[U] = h[U]
<1> DEFINE Differ == {T \in SUBSET U : g[T] # h[T]}
<1>1. SUFFICES ASSUME Differ # {} PROVE FALSE
  OBVIOUS
<1>2. IsFiniteSet(U) /\ Differ \in SUBSET SUBSET U
  BY FS_Subset
<1>3. PICK T \in Differ : \A V \in SUBSET T : V # T => V \notin Differ
  <2> HIDE DEF Differ
  <2> QED BY <1>1, <1>2, LeastSubset
<1>4. g[T] = SumStep(f, g, T) /\ h[T] = SumStep(f, h, T)
  BY <1>3 DEF Sums
<1>5. CASE T = {}
  BY <1>3, <1>4, <1>5 DEF SumStep
<1>6. CASE T # {}
  <2>1. AnyOf(T) \in T
    BY <1>6 DEF AnyOf
  <2>2. g[T \ {AnyOf(T)}] = h[T \ {AnyOf(T)}]
    BY <2>1, <1>3
  <2> QED BY <2>2, <1>3, <1>4, <1>6 DEF SumStep
<1> QED
  BY <1>5, <1>6

\* The sums over the subsets of S are one solution of the recursion.
LEMMA SumOfSubset ==
    ASSUME NEW f, NEW S, IsFiniteSet(S), NEW g, Sums(f, S, g), NEW T \in SUBSET S
    PROVE  SumFunctionOnSet(f, T) = g[T]
BY SumUnfolds, SumsUnique, FS_Subset

\* Whatever element is taken first.
LEMMA SumsTakeAny ==
    ASSUME NEW f, NEW S, IsFiniteSet(S), NEW g, Sums(f, S, g), \A x \in S : f[x] \in Int
    PROVE  \A T \in SUBSET S : g[T] \in Int /\ \A x \in T : g[T] = f[x] + g[T \ {x}]
<1> DEFINE Good(T) == g[T] \in Int /\ \A x \in T : g[T] = f[x] + g[T \ {x}]
           Bad == {T \in SUBSET S : ~Good(T)}
<1>1. SUFFICES ASSUME Bad # {} PROVE FALSE
  OBVIOUS
<1>2. PICK T \in Bad : \A V \in SUBSET T : V # T => V \notin Bad
  <2>1. Bad \in SUBSET SUBSET S
    OBVIOUS
  <2> HIDE DEF Bad
  <2> QED BY <1>1, <2>1, LeastSubset
<1>3. T # {} /\ g[T] = SumStep(f, g, T)
  BY <1>2 DEF Sums, SumStep
<1> DEFINE y == AnyOf(T)
           U == T \ {y}
<1>4. y \in T /\ g[T] = f[y] + g[U]
  BY <1>3 DEF AnyOf, SumStep
<1>5. \A V \in SUBSET T : V # T => Good(V)
  BY <1>2
<1>6. Good(U) /\ f[y] \in Int
  BY <1>4, <1>5
<1>7. g[T] \in Int
  BY <1>4, <1>6
<1>8. ASSUME NEW x \in T PROVE g[T] = f[x] + g[T \ {x}]
  <2>1. CASE x = y
    BY <2>1, <1>4
  <2>2. CASE x # y
    <3> DEFINE V == T \ {x}
               W == U \ {x}
    <3>1. Good(V) /\ Good(W) /\ W = V \ {y} /\ y \in V /\ x \in U
      BY <2>2, <1>4, <1>5
    <3>2. g[U] = f[x] + g[W] /\ g[V] = f[y] + g[W]
      BY <3>1, <1>6
    <3>3. f[x] \in Int /\ g[W] \in Int
      BY <3>1
    <3> HIDE DEF U, V, W, y
    <3>4. f[y] + g[U] = f[x] + g[V]
      BY <3>2, <3>3, <1>6
    <3> QED BY <3>4, <1>4 DEF V
  <2> QED BY <2>1, <2>2
<1>9. Good(T)
  BY <1>7, <1>8
<1> QED
  BY <1>2, <1>9

----------------------------------------------------------------------------
(* Sums                                                                    *)

LEMMA SumOfNothing ==
    ASSUME NEW f
    PROVE  SumFunctionOnSet(f, {}) = 0
<1>1. IsFiniteSet({})
  BY FS_EmptySet
<1> QED
  BY <1>1, SumUnfolds DEF Sums, SumStep

LEMMA SumAdds ==
    ASSUME NEW f, NEW S, IsFiniteSet(S), NEW x, x \notin S,
           \A y \in S \cup {x} : f[y] \in Int
    PROVE  SumFunctionOnSet(f, S \cup {x}) = f[x] + SumFunctionOnSet(f, S)
<1> DEFINE U == S \cup {x}
<1>1. IsFiniteSet(U) /\ U \ {x} = S /\ S \in SUBSET U /\ x \in U
  BY FS_AddElement
<1>2. PICK g : Sums(f, U, g) /\ SumFunctionOnSet(f, U) = g[U]
  BY <1>1, SumUnfolds
<1>3. SumFunctionOnSet(f, S) = g[S]
  BY <1>1, <1>2, SumOfSubset
<1>4. g[U] = f[x] + g[U \ {x}]
  <2> HIDE DEF U
  <2>1. \A y \in U : f[y] \in Int
    BY DEF U
  <2> QED BY <1>1, <1>2, <2>1, SumsTakeAny
<1> QED
  BY <1>1, <1>2, <1>3, <1>4

LEMMA SumIsInt ==
    ASSUME NEW f, NEW S, IsFiniteSet(S), \A y \in S : f[y] \in Int
    PROVE  SumFunctionOnSet(f, S) \in Int
<1>1. PICK g : Sums(f, S, g) /\ SumFunctionOnSet(f, S) = g[S]
  BY SumUnfolds
<1>2. \A T \in SUBSET S : g[T] \in Int
  BY <1>1, SumsTakeAny
<1> QED
  BY <1>1, <1>2

LEMMA SumTakesOut ==
    ASSUME NEW f, NEW S, IsFiniteSet(S), NEW x \in S, \A y \in S : f[y] \in Int
    PROVE  /\ SumFunctionOnSet(f, S) = f[x] + SumFunctionOnSet(f, S \ {x})
           /\ SumFunctionOnSet(f, S \ {x}) \in Int
<1>1. (S \ {x}) \cup {x} = S /\ IsFiniteSet(S \ {x})
  BY FS_RemoveElement
<1>2. \A y \in S \ {x} : f[y] \in Int
  OBVIOUS
<1> QED
  BY <1>1, <1>2, SumAdds, SumIsInt

\* Only the values on the set count.
LEMMA SumOfEqual ==
    ASSUME NEW f, NEW g, NEW S, IsFiniteSet(S),
           \A x \in S : f[x] \in Int /\ f[x] = g[x]
    PROVE  SumFunctionOnSet(f, S) = SumFunctionOnSet(g, S)
<1> DEFINE X == {T \in SUBSET S : SumFunctionOnSet(f, T) = SumFunctionOnSet(g, T)}
<1>1. {} \in X
  BY SumOfNothing
<1>2. ASSUME NEW T \in SUBSET S, NEW x \in S, T \in X, x \notin T
      PROVE  T \cup {x} \in X
  <2>1. IsFiniteSet(T) /\ T \cup {x} \in SUBSET S
    BY FS_Subset
  <2>2. \A y \in T \cup {x} : f[y] \in Int /\ g[y] \in Int
    BY <2>1
  <2>3. /\ SumFunctionOnSet(f, T \cup {x}) = f[x] + SumFunctionOnSet(f, T)
        /\ SumFunctionOnSet(g, T \cup {x}) = g[x] + SumFunctionOnSet(g, T)
    BY <2>1, <2>2, <1>2, SumAdds
  <2> QED BY <2>1, <2>3, <1>2
<1>3. S \in X
  <2> HIDE DEF X
  <2> QED BY <1>1, <1>2, FamilyInduction
<1> QED
  BY <1>3

\* The sum after one value has changed.
LEMMA SumChanges ==
    ASSUME NEW f, NEW g, NEW S, IsFiniteSet(S), NEW x \in S,
           \A y \in S : f[y] \in Int /\ g[y] \in Int,
           \A y \in S \ {x} : f[y] = g[y]
    PROVE  SumFunctionOnSet(g, S) = SumFunctionOnSet(f, S) - f[x] + g[x]
<1>1. IsFiniteSet(S \ {x})
  BY FS_RemoveElement
<1>2. SumFunctionOnSet(f, S \ {x}) = SumFunctionOnSet(g, S \ {x})
  BY <1>1, SumOfEqual
<1>3. /\ SumFunctionOnSet(f, S) = f[x] + SumFunctionOnSet(f, S \ {x})
      /\ SumFunctionOnSet(g, S) = g[x] + SumFunctionOnSet(g, S \ {x})
      /\ SumFunctionOnSet(f, S \ {x}) \in Int
  BY SumTakesOut
<1> QED
  BY <1>2, <1>3

\* Larger values, larger sums.
LEMMA SumIsMonotone ==
    ASSUME NEW f, NEW g, NEW S, IsFiniteSet(S),
           \A x \in S : f[x] \in Int /\ g[x] \in Int /\ f[x] <= g[x]
    PROVE  SumFunctionOnSet(f, S) <= SumFunctionOnSet(g, S)
<1> DEFINE X == {T \in SUBSET S : SumFunctionOnSet(f, T) <= SumFunctionOnSet(g, T)}
<1>1. {} \in X
  BY SumOfNothing
<1>2. ASSUME NEW T \in SUBSET S, NEW x \in S, T \in X, x \notin T
      PROVE  T \cup {x} \in X
  <2>1. IsFiniteSet(T) /\ T \cup {x} \in SUBSET S
    BY FS_Subset
  <2>2. \A y \in T \cup {x} : f[y] \in Int /\ g[y] \in Int
    BY <2>1
  <2>3. /\ SumFunctionOnSet(f, T \cup {x}) = f[x] + SumFunctionOnSet(f, T)
        /\ SumFunctionOnSet(g, T \cup {x}) = g[x] + SumFunctionOnSet(g, T)
    BY <2>1, <2>2, <1>2, SumAdds
  <2>4. SumFunctionOnSet(f, T) \in Int /\ SumFunctionOnSet(g, T) \in Int
    BY <2>1, <2>2, SumIsInt
  <2> QED BY <2>1, <2>3, <2>4, <1>2
<1>3. S \in X
  <2> HIDE DEF X
  <2> QED BY <1>1, <1>2, FamilyInduction
<1> QED
  BY <1>3

LEMMA SumOfZeros ==
    ASSUME NEW f, NEW S, IsFiniteSet(S), \A x \in S : f[x] = 0
    PROVE  SumFunctionOnSet(f, S) = 0
<1> DEFINE X == {T \in SUBSET S : SumFunctionOnSet(f, T) = 0}
<1>1. {} \in X
  BY SumOfNothing
<1>2. ASSUME NEW T \in SUBSET S, NEW x \in S, T \in X, x \notin T
      PROVE  T \cup {x} \in X
  <2>1. IsFiniteSet(T) /\ T \cup {x} \in SUBSET S
    BY FS_Subset
  <2>2. SumFunctionOnSet(f, T \cup {x}) = f[x] + SumFunctionOnSet(f, T)
    BY <2>1, <1>2, SumAdds
  <2> QED BY <2>1, <2>2, <1>2
<1>3. S \in X
  <2> HIDE DEF X
  <2> QED BY <1>1, <1>2, FamilyInduction
<1> QED
  BY <1>3

LEMMA SumIsNat ==
    ASSUME NEW f, NEW S, IsFiniteSet(S), \A y \in S : f[y] \in Nat
    PROVE  SumFunctionOnSet(f, S) \in Nat
<1> DEFINE zero == [y \in S |-> 0]
<1>1. SumFunctionOnSet(zero, S) <= SumFunctionOnSet(f, S)
  <2>1. \A y \in S : zero[y] \in Int /\ f[y] \in Int /\ zero[y] <= f[y]
    OBVIOUS
  <2> HIDE DEF zero
  <2> QED BY <2>1, SumIsMonotone
<1>2. SumFunctionOnSet(zero, S) = 0
  <2>1. \A y \in S : zero[y] = 0
    OBVIOUS
  <2> HIDE DEF zero
  <2> QED BY <2>1, SumOfZeros
<1>3. SumFunctionOnSet(f, S) \in Int
  BY SumIsInt
<1> QED
  BY <1>1, <1>2, <1>3

\* The sum over two sets that have nothing in common.
LEMMA SumOfUnion ==
    ASSUME NEW f, NEW S, NEW U, IsFiniteSet(S), IsFiniteSet(U), S \cap U = {},
           \A y \in S \cup U : f[y] \in Int
    PROVE  SumFunctionOnSet(f, S \cup U) = SumFunctionOnSet(f, S) + SumFunctionOnSet(f, U)
<1> DEFINE X == {T \in SUBSET U : SumFunctionOnSet(f, S \cup T)
                                     = SumFunctionOnSet(f, S) + SumFunctionOnSet(f, T)}
<1>0. SumFunctionOnSet(f, S) \in Int
  BY SumIsInt
<1>1. {} \in X
  BY <1>0, SumOfNothing
<1>2. ASSUME NEW T \in SUBSET U, NEW x \in U, T \in X, x \notin T
      PROVE  T \cup {x} \in X
  <2>1. /\ IsFiniteSet(T) /\ T \cup {x} \in SUBSET U
        /\ IsFiniteSet(S \cup T) /\ x \notin S \cup T
    BY <1>2, FS_Subset, FS_Union
  <2>2. \A y \in (S \cup T) \cup {x} : f[y] \in Int
    BY <2>1
  <2>3. SumFunctionOnSet(f, T \cup {x}) = f[x] + SumFunctionOnSet(f, T)
    BY <2>1, <2>2, SumAdds
  <2>4. SumFunctionOnSet(f, (S \cup T) \cup {x}) = f[x] + SumFunctionOnSet(f, S \cup T)
    BY <2>1, <2>2, SumAdds
  <2>5. SumFunctionOnSet(f, T) \in Int /\ f[x] \in Int /\ (S \cup T) \cup {x} = S \cup (T \cup {x})
    BY <2>1, <2>2, SumIsInt
  <2>6. SumFunctionOnSet(f, S \cup T)
            = SumFunctionOnSet(f, S) + SumFunctionOnSet(f, T)
    BY <1>2
  <2>7. SumFunctionOnSet(f, (S \cup T) \cup {x})
            = SumFunctionOnSet(f, S) + SumFunctionOnSet(f, T \cup {x})
    BY <2>3, <2>4, <2>5, <2>6, <1>0
  <2> QED BY <2>1, <2>5, <2>7
<1>3. U \in X
  <2> HIDE DEF X
  <2> QED BY <1>1, <1>2, FamilyInduction
<1> QED
  BY <1>3

\* Terms that are not negative: a part of the set has no more.
LEMMA SumOfPart ==
    ASSUME NEW f, NEW S, IsFiniteSet(S), NEW T \in SUBSET S, \A y \in S : f[y] \in Nat
    PROVE  SumFunctionOnSet(f, T) <= SumFunctionOnSet(f, S)
<1>1. IsFiniteSet(T) /\ IsFiniteSet(S \ T) /\ T \cup (S \ T) = S /\ T \cap (S \ T) = {}
  BY FS_Subset, FS_Difference
<1>2. SumFunctionOnSet(f, T) \in Nat /\ SumFunctionOnSet(f, S \ T) \in Nat
  BY <1>1, SumIsNat
<1>3. SumFunctionOnSet(f, S) = SumFunctionOnSet(f, T) + SumFunctionOnSet(f, S \ T)
  BY <1>1, SumOfUnion
<1> QED
  BY <1>2, <1>3

\* A bound on the terms bounds the sum.
LEMMA SumIsBounded ==
    ASSUME NEW f, NEW S, IsFiniteSet(S), NEW c \in Int,
           \A y \in S : f[y] \in Int /\ f[y] <= c
    PROVE  SumFunctionOnSet(f, S) <= Cardinality(S) * c
<1> DEFINE X == {T \in SUBSET S : SumFunctionOnSet(f, T) <= Cardinality(T) * c}
<1>1. {} \in X
  BY SumOfNothing, FS_EmptySet
<1>2. ASSUME NEW T \in SUBSET S, NEW x \in S, T \in X, x \notin T
      PROVE  T \cup {x} \in X
  <2>1. /\ IsFiniteSet(T) /\ T \cup {x} \in SUBSET S
        /\ Cardinality(T) \in Nat /\ Cardinality(T \cup {x}) = Cardinality(T) + 1
    BY <1>2, FS_Subset, FS_AddElement, FS_CardinalityType
  <2>2. SumFunctionOnSet(f, T \cup {x}) = f[x] + SumFunctionOnSet(f, T)
    BY <2>1, <1>2, SumAdds
  <2>3. SumFunctionOnSet(f, T) \in Int /\ f[x] \in Int /\ f[x] <= c
    BY <2>1, SumIsInt
  <2>4. \A n \in Nat : (n + 1) * c = n * c + c /\ n * c \in Int
    OBVIOUS
  <2>5. SumFunctionOnSet(f, T \cup {x}) <= (Cardinality(T) + 1) * c
    BY <2>1, <2>2, <2>3, <2>4, <1>2
  <2> QED BY <2>1, <2>5
<1>3. S \in X
  <2> HIDE DEF X
  <2> QED BY <1>1, <1>2, FamilyInduction
<1> QED
  BY <1>3

----------------------------------------------------------------------------
(* Listing                                                                 *)

\* Ranked lists every element once, in order: the number of elements up to an
\* element is an injection into an interval of the same size.
LEMMA RankedFacts ==
  ASSUME NEW S, IsFiniteSet(S), NEW R,
         \A a \in S : <<a, a>> \notin R,
         \A a, b, c \in S : <<a, b>> \in R /\ <<b, c>> \in R => <<a, c>> \in R,
         \A a, b \in S : a = b \/ <<a, b>> \in R \/ <<b, a>> \in R
  PROVE  /\ Ranked(S, R) \in Seq(S)
         /\ \A i, j \in DOMAIN Ranked(S, R) :
               i < j => <<Ranked(S, R)[i], Ranked(S, R)[j]>> \in R
         /\ ToSet(Ranked(S, R)) = S
  <1> DEFINE n == Cardinality(S)
             UpTo(b) == {a \in S : a = b \/ <<a, b>> \in R}
             rank == [b \in S |-> Cardinality(UpTo(b))]
             s == Ranked(S, R)
  <1>0. n \in Nat
    BY FS_CardinalityType
  <1>1. \A b \in S : IsFiniteSet(UpTo(b)) /\ Cardinality(UpTo(b)) \in 1 .. n
    <2> SUFFICES ASSUME NEW b \in S
                 PROVE  IsFiniteSet(UpTo(b)) /\ Cardinality(UpTo(b)) \in 1 .. n
      OBVIOUS
    <2>1. UpTo(b) \in SUBSET S /\ b \in UpTo(b)
      OBVIOUS
    <2>2. IsFiniteSet(UpTo(b)) /\ Cardinality(UpTo(b)) <= n
      BY <2>1, FS_Subset
    <2>3. Cardinality(UpTo(b)) \in Nat /\ Cardinality(UpTo(b)) # 0
      BY <2>1, <2>2, FS_CardinalityType, FS_EmptySet
    <2>. QED BY <1>0, <2>2, <2>3
  <1>2. \A b, c \in S : <<b, c>> \in R => rank[b] < rank[c]
    <2> SUFFICES ASSUME NEW b \in S, NEW c \in S, <<b, c>> \in R PROVE rank[b] < rank[c]
      OBVIOUS
    <2>1. UpTo(b) \in SUBSET UpTo(c) /\ c \in UpTo(c) /\ c \notin UpTo(b)
      OBVIOUS
    <2>2. /\ Cardinality(UpTo(b)) <= Cardinality(UpTo(c))
          /\ Cardinality(UpTo(b)) # Cardinality(UpTo(c))
      BY <1>1, <2>1, FS_Subset
    <2>3. Cardinality(UpTo(b)) \in Nat /\ Cardinality(UpTo(c)) \in Nat
      BY <1>1, FS_CardinalityType
    <2>. QED BY <2>2, <2>3
  <1>3. \A b, c \in S : rank[b] = rank[c] => b = c
    <2> SUFFICES ASSUME NEW b \in S, NEW c \in S, rank[b] = rank[c], b # c PROVE FALSE
      OBVIOUS
    <2>1. rank[b] \in Nat /\ rank[c] \in Nat
      BY <1>0, <1>1
    <2>2. <<b, c>> \in R \/ <<c, b>> \in R
      OBVIOUS
    <2>. HIDE DEF rank
    <2>. QED BY <1>2, <2>1, <2>2
  <1>4. \A i \in 1 .. n : \E b \in S : rank[b] = i
    <2>1. rank \in [S -> 1 .. n]
      BY <1>1
    <2>2. rank \in Injection(S, 1 .. n)
      BY <1>3, <2>1 DEF Injection, IsInjective
    <2>3. IsFiniteSet(1 .. n) /\ Cardinality(1 .. n) = n
      BY <1>0, FS_Interval
    <2>. HIDE DEF rank
    <2>4. rank \in Surjection(S, 1 .. n)
      BY <2>2, <2>3, FS_Injection
    <2>. QED BY <2>4 DEF Surjection
  <1>5. /\ s = [i \in 1 .. n |-> CHOOSE b \in S : Cardinality(UpTo(b)) = i]
        /\ \A i \in 1 .. n : s[i] \in S /\ rank[s[i]] = i
    BY <1>4 DEF Ranked
  <1>51. s \in [1 .. n -> S]
    BY <1>5
  <1>. HIDE DEF rank, s, n
  <1>6. DOMAIN s = 1 .. n /\ s \in Seq(S)
    BY <1>0, <1>51
  <1>7. ASSUME NEW i \in DOMAIN s, NEW j \in DOMAIN s, i < j
        PROVE  <<s[i], s[j]>> \in R
    <2>0. i \in 1 .. n /\ j \in 1 .. n
      BY <1>6
    <2>01. i \in Nat /\ j \in Nat
      BY <1>0, <2>0
    <2>02. \A k \in 1 .. n : s[k] \in S /\ rank[s[k]] = k
      BY <1>5
    <2>1. /\ s[i] \in S /\ s[j] \in S /\ rank[s[i]] = i /\ rank[s[j]] = j
          /\ i \in Nat /\ j \in Nat
      BY <2>0, <2>01, <2>02
    <2>2. ~(<<s[j], s[i]>> \in R) /\ s[i] # s[j]
      BY <1>2, <1>7, <2>1
    <2>. QED BY <2>1, <2>2
  <1>8. ToSet(s) = S
    <2>1. \A b \in S : rank[b] \in 1 .. n
      BY <1>1 DEF rank
    <2>2. \A b \in S : s[rank[b]] = b
      <3> SUFFICES ASSUME NEW b \in S PROVE s[rank[b]] = b
        OBVIOUS
      <3>1. s[rank[b]] \in S /\ rank[s[rank[b]]] = rank[b]
        BY <1>5, <2>1
      <3>. QED BY <1>3, <3>1
    <2>3. ToSet(s) \subseteq S
      BY <1>51, <1>6 DEF ToSet
    <2>4. S \subseteq ToSet(s)
      BY <1>6, <2>1, <2>2 DEF ToSet
    <2>. QED BY <2>3, <2>4
  <1>. QED
    BY <1>6, <1>7, <1>8 DEF s

\* A sequence of numbers, each greater than those before it.
Ordered(s) == \A i, j \in DOMAIN s : i < j => s[i] < s[j]

LEMMA AscendingFacts ==
  ASSUME NEW S \in SUBSET Int, IsFiniteSet(S)
  PROVE  /\ Ascending(S) \in Seq(S)
         /\ Ordered(Ascending(S))
         /\ ToSet(Ascending(S)) = S
  <1> DEFINE R == {p \in S \X S : p[1] < p[2]}
  <1>1. \A a, b \in S : <<a, b>> \in R <=> a < b
    OBVIOUS
  <1>2. \A a \in S : a \in Int
    OBVIOUS
  <1>3. Ascending(S) = Ranked(S, R)
    BY DEF Ascending
  <1>. HIDE DEF R
  <1>4. /\ \A a \in S : <<a, a>> \notin R
        /\ \A a, b, c \in S : <<a, b>> \in R /\ <<b, c>> \in R => <<a, c>> \in R
        /\ \A a, b \in S : a = b \/ <<a, b>> \in R \/ <<b, a>> \in R
    BY <1>1, <1>2
  <1>5. /\ Ranked(S, R) \in Seq(S)
        /\ \A i, j \in DOMAIN Ranked(S, R) :
              i < j => <<Ranked(S, R)[i], Ranked(S, R)[j]>> \in R
        /\ ToSet(Ranked(S, R)) = S
    BY <1>4, RankedFacts
  <1>6. \A i \in DOMAIN Ranked(S, R) : Ranked(S, R)[i] \in S
    BY <1>5 DEF ToSet
  <1>. QED
    BY <1>1, <1>3, <1>5, <1>6 DEF Ordered

\* A sequence has no more elements than places.
LEMMA ToSetIsFinite ==
  ASSUME NEW S, NEW s \in Seq(S)
  PROVE  IsFiniteSet(ToSet(s)) /\ Cardinality(ToSet(s)) <= Len(s)
  <1>1. Len(s) \in Nat /\ DOMAIN s = 1 .. Len(s)
    OBVIOUS
  <1>2. IsFiniteSet(1 .. Len(s)) /\ Cardinality(1 .. Len(s)) = Len(s)
    BY <1>1, FS_Interval
  <1>3. s \in Surjection(1 .. Len(s), ToSet(s))
    BY <1>1 DEF Surjection, ToSet
  <1>. QED
    BY <1>2, <1>3, FS_Surjection

\* A sequence of numbers in increasing order is given by its elements.
LEMMA OrderedIsUnique ==
    ASSUME NEW s \in Seq(Int), NEW t \in Seq(Int), Ordered(s), Ordered(t), ToSet(s) = ToSet(t)
    PROVE  s = t
<1> DEFINE Both == DOMAIN s \cup DOMAIN t
           Wrong == {k \in Both : ~(k \in DOMAIN s /\ k \in DOMAIN t /\ s[k] = t[k])}
<1>1. /\ DOMAIN s = 1 .. Len(s) /\ Len(s) \in Nat /\ \A k \in DOMAIN s : s[k] \in Int
      /\ DOMAIN t = 1 .. Len(t) /\ Len(t) \in Nat /\ \A k \in DOMAIN t : t[k] \in Int
  OBVIOUS
<1>2. /\ \A k \in DOMAIN s : \E q \in DOMAIN t : t[q] = s[k]
      /\ \A k \in DOMAIN t : \E q \in DOMAIN s : s[q] = t[k]
  <2>1. /\ \A k \in DOMAIN s : s[k] \in ToSet(s)
        /\ \A k \in DOMAIN t : t[k] \in ToSet(t)
    BY DEF ToSet
  <2>2. /\ \A x \in ToSet(t) : \E q \in DOMAIN t : t[q] = x
        /\ \A x \in ToSet(s) : \E q \in DOMAIN s : s[q] = x
    BY DEF ToSet
  <2> QED BY <2>1, <2>2
<1>3. Wrong = {}
  <2>1. SUFFICES ASSUME Wrong # {} PROVE FALSE
    OBVIOUS
  <2>2. Wrong \in SUBSET Nat
    BY <1>1
  <2>3. PICK k \in Wrong : \A i \in Wrong : k <= i
    <3> HIDE DEF Wrong
    <3> QED BY <2>1, <2>2, LeastNumber
  <2>4. /\ k \in Nat \ {0}
        /\ \A i \in 1 .. k - 1 : i \in DOMAIN s /\ i \in DOMAIN t /\ s[i] = t[i]
    <3>1. k \in Both /\ k \in Nat \ {0}
      BY <1>1, <2>3
    <3>2. \A i \in Nat : i < k => i \notin Wrong
      BY <2>2, <2>3
    <3>3. ASSUME NEW i \in 1 .. k - 1
          PROVE  i \in DOMAIN s /\ i \in DOMAIN t /\ s[i] = t[i]
      <4>1. i \in Both /\ i < k /\ i \in Nat
        BY <1>1, <3>1
      <4>2. i \notin Wrong
        BY <3>2, <4>1
      <4> QED BY <4>1, <4>2
    <3> QED BY <3>1, <3>3
  <2>5. CASE k \in DOMAIN s
    <3>1. PICK q \in DOMAIN t : t[q] = s[k]
      BY <1>2, <2>5
    <3>2. ~(q < k)
      <4>1. SUFFICES ASSUME q < k PROVE FALSE
        OBVIOUS
      <4>2. q \in DOMAIN s /\ s[q] = s[k]
        BY <1>1, <2>4, <3>1, <4>1
      <4> QED BY <1>1, <2>5, <4>1, <4>2 DEF Ordered
    <3>3. k \in DOMAIN t /\ s[k] # t[k]
      BY <1>1, <2>3, <2>4, <2>5, <3>1, <3>2
    <3>4. t[k] < s[k]
      BY <1>1, <3>1, <3>2, <3>3 DEF Ordered
    <3>5. PICK r \in DOMAIN s : s[r] = t[k]
      BY <1>2, <3>3
    <3>6. ~(r < k)
      <4>1. SUFFICES ASSUME r < k PROVE FALSE
        OBVIOUS
      <4>2. r \in DOMAIN t /\ t[r] = t[k]
        BY <1>1, <2>4, <3>5, <4>1
      <4> QED BY <1>1, <3>3, <4>1, <4>2 DEF Ordered
    <3>7. r \in Int /\ k \in Int /\ (k < r => s[k] < s[r])
      BY <1>1, <2>5, <3>5 DEF Ordered
    <3>8. s[r] \in Int /\ s[k] \in Int
      BY <1>1, <2>5, <3>5
    <3> HIDE DEF Wrong
    <3> QED BY <3>4, <3>5, <3>6, <3>7, <3>8
  <2>6. CASE k \notin DOMAIN s
    <3>1. k \in DOMAIN t
      BY <2>3, <2>6
    <3>2. PICK r \in DOMAIN s : s[r] = t[k]
      BY <1>2, <3>1
    <3>3. r < k
      BY <1>1, <2>6, <3>1, <3>2, <2>4
    <3>4. r \in DOMAIN t /\ t[r] = t[k]
      BY <1>1, <2>4, <3>2, <3>3
    <3> QED BY <1>1, <3>1, <3>3, <3>4 DEF Ordered
  <2> QED BY <2>5, <2>6
<1>4. DOMAIN s = DOMAIN t /\ \A k \in DOMAIN s : s[k] = t[k]
  BY <1>3
<1> QED
  BY <1>1, <1>4

\* A number greater than all of a set comes last.
LEMMA AscendingAdds ==
    ASSUME NEW S \in SUBSET Int, IsFiniteSet(S), NEW m \in Int, \A x \in S : x < m
    PROVE  /\ Len(Ascending(S)) \in Nat
           /\ Ascending(S \cup {m}) = [k \in 1 .. Len(Ascending(S)) + 1 |->
                  IF k = Len(Ascending(S)) + 1 THEN m ELSE Ascending(S)[k]]
<1> DEFINE s == Ascending(S)
           n == Len(s)
           t == [k \in 1 .. n + 1 |-> IF k = n + 1 THEN m ELSE s[k]]
           u == Ascending(S \cup {m})
<1>1. s \in Seq(S) /\ Ordered(s) /\ ToSet(s) = S
  BY AscendingFacts
<1>2. u \in Seq(S \cup {m}) /\ Ordered(u) /\ ToSet(u) = S \cup {m}
  BY AscendingFacts, FS_AddElement
<1> HIDE DEF s, u
<1>3. n \in Nat /\ DOMAIN s = 1 .. n /\ \A k \in 1 .. n : s[k] \in S
  BY <1>1
<1> HIDE DEF n
<1>4. t \in Seq(Int) /\ DOMAIN t = 1 .. n + 1
  <2>1. \A k \in 1 .. n : s[k] \in Int
    BY <1>3
  <2>2. \A k \in 1 .. n + 1 : k # n + 1 => k \in 1 .. n
    BY <1>3
  <2>3. \A k \in 1 .. n + 1 : (IF k = n + 1 THEN m ELSE s[k]) \in Int
    BY <2>1, <2>2
  <2>4. t \in [1 .. n + 1 -> Int]
    BY <2>3
  <2> QED BY <1>3, <2>4
<1>5. Ordered(t)
  <2> SUFFICES ASSUME NEW i \in 1 .. n + 1, NEW j \in 1 .. n + 1, i < j
               PROVE  t[i] < t[j]
    BY <1>4 DEF Ordered
  <2>1. i \in 1 .. n /\ t[i] = s[i]
    BY <1>3
  <2>2. CASE j = n + 1
    BY <1>3, <2>1, <2>2
  <2>3. CASE j # n + 1
    <3>1. j \in 1 .. n /\ t[j] = s[j]
      BY <1>3, <2>3
    <3> HIDE DEF t
    <3> QED BY <1>1, <1>3, <2>1, <3>1 DEF Ordered
  <2> QED BY <2>2, <2>3
<1>6. ToSet(t) = S \cup {m}
  <2>1. \A x \in S : \E k \in 1 .. n : s[k] = x
    BY <1>1, <1>3 DEF ToSet
  <2>2. ASSUME NEW x \in ToSet(t) PROVE x \in S \cup {m}
    BY <1>3, <1>4 DEF ToSet
  <2>3. ASSUME NEW x \in S PROVE x \in ToSet(t)
    <3>1. PICK k \in 1 .. n : s[k] = x
      BY <2>1
    <3>2. k \in 1 .. n + 1 /\ t[k] = x
      BY <1>3, <3>1
    <3> HIDE DEF t
    <3> QED BY <1>4, <3>2 DEF ToSet
  <2>4. m \in ToSet(t)
    <3>1. n + 1 \in 1 .. n + 1 /\ t[n + 1] = m
      BY <1>3
    <3> HIDE DEF t
    <3> QED BY <1>4, <3>1 DEF ToSet
  <2> HIDE DEF t
  <2> QED BY <2>2, <2>3, <2>4
<1>7. u = t
  <2>1. DOMAIN u = 1 .. Len(u) /\ Len(u) \in Nat /\ \A k \in DOMAIN u : u[k] \in S \cup {m}
    BY <1>2
  <2>2. u = [k \in 1 .. Len(u) |-> u[k]]
    BY <1>2
  <2>3. \A k \in 1 .. Len(u) : u[k] \in Int
    BY <2>1
  <2>4. u \in Seq(Int)
    BY <2>1, <2>2, <2>3
  <2> HIDE DEF t
  <2> QED BY <1>2, <1>4, <1>5, <1>6, <2>4, OrderedIsUnique
<1> QED
  BY <1>3, <1>7 DEF s, u, n

\* An interval is listed as itself.
LEMMA AscendingInterval ==
    ASSUME NEW n \in Nat
    PROVE  Ascending(1 .. n) = [k \in 1 .. n |-> k]
<1> DEFINE t == [k \in 1 .. n |-> k]
           u == Ascending(1 .. n)
<1>1. u \in Seq(1 .. n) /\ Ordered(u) /\ ToSet(u) = 1 .. n
  BY AscendingFacts, FS_Interval
<1>2. t \in Seq(Int) /\ DOMAIN t = 1 .. n
  <2>1. t \in [1 .. n -> Int]
    OBVIOUS
  <2> QED BY <2>1
<1>3. Ordered(t) /\ ToSet(t) = 1 .. n
  BY <1>2 DEF Ordered, ToSet
<1>4. u \in Seq(Int)
  BY <1>1
<1> HIDE DEF t, u
<1>5. u = t
  BY <1>1, <1>2, <1>3, <1>4, OrderedIsUnique
<1> QED
  BY <1>5 DEF t, u

\* The first places of a sequence are a prefix.
LEMMA ElementsAtPrefix ==
    ASSUME NEW seq, NEW n \in Nat
    PROVE  ElementsAt(seq, 1 .. n) = [k \in 1 .. n |-> seq[k]]
BY AscendingInterval DEF ElementsAt
=============================================================================
