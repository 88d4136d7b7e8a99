------------------------------ MODULE SumTheorems ------------------------------
(* Sums over finite sets, as MapThenSumSet computes them: what adding up the *)
(* values of a function gives, whatever order the fold takes them in.        *)
(*                                                                           *)
(* The library's induction theorems have a predicate as a parameter.  Here   *)
(* induction is the existence of a smallest set among those of which a fact  *)
(* fails.                                                                    *)
EXTENDS Integers, FiniteSets, FiniteSetsExt, FiniteSetTheorems, WellFoundedInduction, TLAPS

Total(f, S) == MapThenSumSet(LAMBDA x : f[x], S)

\* Of some subsets of a finite set, one has no other inside it.
LEMMA SmallestSubset ==
  ASSUME NEW S, IsFiniteSet(S), NEW X, X \subseteq SUBSET S, X # {}
  PROVE  \E T \in X : \A U \in X : U \subseteq T => U = T
  <1>1. IsWellFoundedOn(StrictSubsetOrdering(S), SUBSET S)
    BY FS_StrictSubsetOrderingWellFounded, FS_FiniteSubsetsOfFinite, Zenon
  <1>2. PICK T \in X : \A U \in X : <<U, T>> \notin StrictSubsetOrdering(S)
    BY <1>1, WFMin, Zenon
  <1>3. ASSUME NEW U \in X, U \subseteq T PROVE U = T
    BY <1>2, <1>3 DEF StrictSubsetOrdering
  <1>. QED
    BY <1>3

\* So a collection that has every subset whose proper subsets it has, has all
\* of them.
LEMMA SubsetInduction ==
  ASSUME NEW S, IsFiniteSet(S), NEW Good,
         \A T \in SUBSET S : (\A U \in SUBSET T : U # T => U \in Good) => T \in Good
  PROVE  \A T \in SUBSET S : T \in Good
  <1>. DEFINE Bad == {T \in SUBSET S : T \notin Good}
  <1>. SUFFICES ASSUME Bad # {} PROVE FALSE
    OBVIOUS
  <1>1. PICK T \in Bad : \A U \in Bad : U \subseteq T => U = T
    <2>1. Bad \subseteq SUBSET S
      OBVIOUS
    <2>. HIDE DEF Bad
    <2>2. \E T \in Bad : \A U \in Bad : U \subseteq T => U = T
      BY <2>1, SmallestSubset
    <2>. QED
      BY <2>2
  <1>. QED
    BY <1>1

------------------------------------------------------------------------------
\* The function that the fold recurs through.

First(T) == CHOOSE x \in T : TRUE

Sums(f, S, sum) ==
  sum = [T \in SUBSET S |-> IF T = {} THEN 0 ELSE f[First(T)] + sum[T \ {First(T)}]]

LEMMA TotalDef ==
  ASSUME NEW f, NEW S
  PROVE  Total(f, S) = (CHOOSE sum : Sums(f, S, sum))[S]
  BY DEF Total, MapThenSumSet, MapThenFoldSet, Sums, First

LEMMA SumsAt ==
  ASSUME NEW f, NEW S, NEW sum, Sums(f, S, sum), NEW T \in SUBSET S
  PROVE  sum[T] = IF T = {} THEN 0 ELSE f[First(T)] + sum[T \ {First(T)}]
  BY DEF Sums

LEMMA FirstIn ==
  ASSUME NEW T, T # {}
  PROVE  First(T) \in T
  BY DEF First

\* Two such functions agree where both are defined.
LEMMA SumsAgree ==
  ASSUME NEW f, NEW S, NEW R, IsFiniteSet(S), NEW sum, NEW other,
         Sums(f, S, sum), Sums(f, R, other), NEW T \in SUBSET (S \cap R)
  PROVE  sum[T] = other[T]
  <1>. DEFINE Good == {U \in SUBSET S : U \subseteq R => sum[U] = other[U]}
  <1>1. ASSUME NEW U \in SUBSET S, \A V \in SUBSET U : V # U => V \in Good PROVE U \in Good
    <2>. SUFFICES ASSUME U \subseteq R, U # {} PROVE sum[U] = other[U]
      BY SumsAt
    <2>. DEFINE V == U \ {First(U)}
    <2>1. V \in SUBSET U /\ V # U
      BY FirstIn
    <2>2. V \in Good
      BY <1>1, <2>1
    <2>3. sum[U] = f[First(U)] + sum[V]
      BY SumsAt
    <2>4. other[U] = f[First(U)] + other[V]
      BY SumsAt
    <2>. QED
      BY <2>1, <2>2, <2>3, <2>4
  <1>2. \A U \in SUBSET S : U \in Good
    <2>. HIDE DEF Good
    <2>. QED
      BY <1>1, SubsetInduction
  <1>. QED
    BY <1>2

\* Every finite set has one: of its subsets that are smaller take theirs.
LEMMA SumsExist ==
  ASSUME NEW f, NEW S, IsFiniteSet(S)
  PROVE  \E sum : Sums(f, S, sum)
  <1>. DEFINE Good == {T \in SUBSET S : \E sum : Sums(f, T, sum)}
              SumOf(U) == CHOOSE sum : Sums(f, U, sum)
              Rest(U) == U \ {First(U)}
  <1>. SUFFICES ASSUME NEW T \in SUBSET S, \A U \in SUBSET T : U # T => U \in Good
                PROVE  \E sum : Sums(f, T, sum)
    <2>1. \A T \in SUBSET S : (\A U \in SUBSET T : U # T => U \in Good) => T \in Good
      OBVIOUS
    <2>2. S \in Good
      <3>. HIDE DEF Good
      <3>. QED
        BY <2>1, SubsetInduction
    <2>. QED
      BY <2>2
  <1>1. ASSUME NEW U \in SUBSET T, U # T PROVE Sums(f, U, SumOf(U)) /\ IsFiniteSet(U)
    <2>1. U \in Good
      BY <1>1
    <2>. QED
      BY <2>1, FS_Subset
  <1>2. ASSUME NEW U \in SUBSET T, U # {}
        PROVE  Rest(U) \in SUBSET T /\ Rest(U) # T /\ Rest(U) # U
    BY <1>2, FirstIn
  <1>. DEFINE sum == [U \in SUBSET T |->
                        IF U = {} THEN 0 ELSE f[First(U)] + SumOf(Rest(U))[Rest(U)]]
  <1>. HIDE DEF Good, SumOf
  <1>3. ASSUME NEW V \in SUBSET T, V # T PROVE sum[V] = SumOf(V)[V]
    <2>1. SumOf(V)[V] = IF V = {} THEN 0 ELSE f[First(V)] + SumOf(V)[Rest(V)]
      BY <1>1, <1>3, SumsAt
    <2>2. V # {} => SumOf(V)[Rest(V)] = SumOf(Rest(V))[Rest(V)]
      <3>. SUFFICES ASSUME V # {} PROVE SumOf(V)[Rest(V)] = SumOf(Rest(V))[Rest(V)]
        OBVIOUS
      <3>1. Rest(V) \in SUBSET T /\ Rest(V) # T /\ Rest(V) \in SUBSET (V \cap Rest(V))
        BY <1>2
      <3>2. Sums(f, V, SumOf(V)) /\ IsFiniteSet(V) /\ Sums(f, Rest(V), SumOf(Rest(V)))
        BY <1>1, <1>3, <3>1
      <3>. HIDE DEF Rest
      <3>. QED
        BY <3>1, <3>2, SumsAgree
    <2>. QED
      BY <1>3, <2>1, <2>2
  <1>4. ASSUME NEW U \in SUBSET T, U # {} PROVE sum[U] = f[First(U)] + sum[Rest(U)]
    <2>1. sum[U] = f[First(U)] + SumOf(Rest(U))[Rest(U)]
      BY <1>4
    <2>2. sum[Rest(U)] = SumOf(Rest(U))[Rest(U)]
      <3>. HIDE DEF sum, Rest
      <3>. QED
        BY <1>2, <1>3, <1>4
    <2>. QED
      BY <2>1, <2>2
  <1>5. Sums(f, T, sum)
    <2>1. sum = [U \in SUBSET T |-> sum[U]] /\ sum[{}] = 0
      OBVIOUS
    <2>. HIDE DEF sum
    <2>. QED
      BY <1>4, <2>1 DEF Sums
  <1>. QED
    BY <1>5

LEMMA TotalSums ==
  ASSUME NEW f, NEW S, IsFiniteSet(S), NEW sum, Sums(f, S, sum), NEW T \in SUBSET S
  PROVE  Total(f, T) = sum[T]
  <1>. DEFINE other == CHOOSE g : Sums(f, T, g)
  <1>1. IsFiniteSet(T)
    BY FS_Subset
  <1>2. Sums(f, T, other)
    BY <1>1, SumsExist
  <1>3. Total(f, T) = other[T]
    BY TotalDef
  <1>. HIDE DEF other
  <1>4. T \in SUBSET (T \cap S)
    OBVIOUS
  <1>5. other[T] = sum[T]
    BY <1>1, <1>2, <1>4, SumsAgree
  <1>. QED
    BY <1>3, <1>5

------------------------------------------------------------------------------
\* What a total is, one element at a time.

LEMMA TotalEmpty ==
  ASSUME NEW f
  PROVE  Total(f, {}) = 0
  <1>1. IsFiniteSet({})
    BY FS_EmptySet
  <1>2. PICK sum : Sums(f, {}, sum)
    BY <1>1, SumsExist
  <1>. QED
    BY <1>1, <1>2, TotalSums, SumsAt

LEMMA TotalFirst ==
  ASSUME NEW f, NEW S, IsFiniteSet(S), S # {}
  PROVE  Total(f, S) = f[First(S)] + Total(f, S \ {First(S)})
  <1>1. PICK sum : Sums(f, S, sum)
    BY SumsExist
  <1>2. Total(f, S) = sum[S] /\ Total(f, S \ {First(S)}) = sum[S \ {First(S)}]
    BY <1>1, TotalSums
  <1>3. sum[S] = f[First(S)] + sum[S \ {First(S)}]
    BY <1>1, SumsAt
  <1>. QED
    BY <1>2, <1>3

LEMMA TotalType ==
  ASSUME NEW f, NEW S, IsFiniteSet(S), \A x \in S : f[x] \in Int
  PROVE  /\ Total(f, S) \in Int
         /\ (\A x \in S : f[x] >= 0) => Total(f, S) >= 0
  <1>. DEFINE Good == {T \in SUBSET S : /\ Total(f, T) \in Int
                                        /\ (\A x \in T : f[x] >= 0) => Total(f, T) >= 0}
  <1>1. ASSUME NEW T \in SUBSET S, \A U \in SUBSET T : U # T => U \in Good PROVE T \in Good
    <2>1. CASE T = {}
      BY <2>1, TotalEmpty
    <2>2. CASE T # {}
      <3>. DEFINE R == T \ {First(T)}
      <3>1. First(T) \in T /\ R \in SUBSET T /\ R # T
        BY <2>2, FirstIn
      <3>2. Total(f, T) = f[First(T)] + Total(f, R)
        BY <2>2, FS_Subset, TotalFirst
      <3>3. R \in Good
        BY <1>1, <3>1
      <3>. QED
        BY <3>1, <3>2, <3>3
    <2>. QED
      BY <2>1, <2>2
  <1>2. S \in Good
    <2>. HIDE DEF Good
    <2>. QED
      BY <1>1, SubsetInduction
  <1>. QED
    BY <1>2

\* Any element can be taken out of the sum.
LEMMA TotalSplit ==
  ASSUME NEW f, NEW S, IsFiniteSet(S), \A x \in S : f[x] \in Int, NEW x \in S
  PROVE  Total(f, S) = f[x] + Total(f, S \ {x})
  <1>. DEFINE Good == {T \in SUBSET S : \A y \in T : Total(f, T) = f[y] + Total(f, T \ {y})}
  <1>1. ASSUME NEW T \in SUBSET S, \A U \in SUBSET T : U # T => U \in Good, NEW y \in T
        PROVE  Total(f, T) = f[y] + Total(f, T \ {y})
    <2>. DEFINE c == First(T)
    <2>1. c \in T /\ IsFiniteSet(T) /\ Total(f, T) = f[c] + Total(f, T \ {c})
      BY FirstIn, FS_Subset, TotalFirst
    <2>. HIDE DEF c
    <2>2. CASE c # y
      <3>1. T \ {c} \in Good /\ T \ {y} \in Good
        BY <1>1, <2>1
      <3>. DEFINE R == T \ {c, y}
      <3>2. Total(f, T \ {c}) = f[y] + Total(f, R)
        <4>1. (T \ {c}) \ {y} = R /\ y \in T \ {c}
          BY <2>2
        <4>2. Total(f, T \ {c}) = f[y] + Total(f, (T \ {c}) \ {y})
          BY <3>1, <4>1
        <4>. QED
          BY <4>1, <4>2, Zenon
      <3>3. Total(f, T \ {y}) = f[c] + Total(f, R)
        <4>1. (T \ {y}) \ {c} = R /\ c \in T \ {y}
          BY <2>1, <2>2
        <4>2. Total(f, T \ {y}) = f[c] + Total(f, (T \ {y}) \ {c})
          BY <3>1, <4>1
        <4>. QED
          BY <4>1, <4>2, Zenon
      <3>4. R \in SUBSET S /\ IsFiniteSet(R)
        BY FS_Subset
      <3>5. Total(f, R) \in Int
        BY <3>4, TotalType
      <3>6. f[c] \in Int /\ f[y] \in Int
        BY <2>1
      <3>. HIDE DEF R
      <3>. QED
        BY <2>1, <3>2, <3>3, <3>5, <3>6
    <2>. QED
      BY <2>1, <2>2
  <1>2. S \in Good
    <2>1. \A T \in SUBSET S : (\A U \in SUBSET T : U # T => U \in Good) => T \in Good
      BY <1>1
    <2>. HIDE DEF Good
    <2>. QED
      BY <2>1, SubsetInduction
  <1>. QED
    BY <1>2

LEMMA TotalSame ==
  ASSUME NEW f, NEW g, NEW S, IsFiniteSet(S), \A x \in S : f[x] = g[x]
  PROVE  Total(f, S) = Total(g, S)
  <1>. DEFINE Good == {T \in SUBSET S : Total(f, T) = Total(g, T)}
  <1>1. ASSUME NEW T \in SUBSET S, \A U \in SUBSET T : U # T => U \in Good PROVE T \in Good
    <2>1. CASE T = {}
      BY <2>1, TotalEmpty
    <2>2. CASE T # {}
      <3>. DEFINE R == T \ {First(T)}
      <3>1. First(T) \in T /\ R \in SUBSET T /\ R # T /\ IsFiniteSet(T)
        BY <2>2, FirstIn, FS_Subset
      <3>2. Total(f, T) = f[First(T)] + Total(f, R)
        BY <2>2, <3>1, TotalFirst
      <3>3. Total(g, T) = g[First(T)] + Total(g, R)
        BY <2>2, <3>1, TotalFirst
      <3>4. R \in Good
        BY <1>1, <3>1
      <3>. QED
        BY <3>1, <3>2, <3>3, <3>4
    <2>. QED
      BY <2>1, <2>2
  <1>2. S \in Good
    <2>. HIDE DEF Good
    <2>. QED
      BY <1>1, SubsetInduction
  <1>. QED
    BY <1>2

LEMMA TotalZero ==
  ASSUME NEW f, NEW S, IsFiniteSet(S), \A x \in S : f[x] = 0
  PROVE  Total(f, S) = 0
  <1>. DEFINE Good == {T \in SUBSET S : Total(f, T) = 0}
  <1>1. ASSUME NEW T \in SUBSET S, \A U \in SUBSET T : U # T => U \in Good PROVE T \in Good
    <2>1. CASE T = {}
      BY <2>1, TotalEmpty
    <2>2. CASE T # {}
      <3>. DEFINE R == T \ {First(T)}
      <3>1. First(T) \in T /\ R \in SUBSET T /\ R # T /\ IsFiniteSet(T)
        BY <2>2, FirstIn, FS_Subset
      <3>2. Total(f, T) = f[First(T)] + Total(f, R)
        BY <2>2, <3>1, TotalFirst
      <3>3. R \in Good
        BY <1>1, <3>1
      <3>. QED
        BY <3>1, <3>2, <3>3
    <2>. QED
      BY <2>1, <2>2
  <1>2. S \in Good
    <2>. HIDE DEF Good
    <2>. QED
      BY <1>1, SubsetInduction
  <1>. QED
    BY <1>2

\* A total moves by what its one value that changed has moved.
LEMMA TotalChange ==
  ASSUME NEW f, NEW g, NEW S, IsFiniteSet(S), NEW x \in S,
         \A y \in S : f[y] \in Int, g[x] \in Int, \A y \in S \ {x} : g[y] = f[y]
  PROVE  Total(g, S) = Total(f, S) - f[x] + g[x]
  <1>1. Total(f, S) = f[x] + Total(f, S \ {x})
    BY TotalSplit
  <1>2. Total(g, S) = g[x] + Total(g, S \ {x})
    <2>1. \A y \in S : g[y] \in Int
      OBVIOUS
    <2>. QED
      BY <2>1, TotalSplit
  <1>3. IsFiniteSet(S \ {x})
    BY FS_Subset
  <1>4. Total(g, S \ {x}) = Total(f, S \ {x}) /\ Total(f, S \ {x}) \in Int
    BY <1>3, TotalSame, TotalType
  <1>. QED
    BY <1>1, <1>2, <1>4

\* A sum of natural numbers is no less than any one of them.
LEMMA TotalMember ==
  ASSUME NEW f, NEW S, IsFiniteSet(S), \A x \in S : f[x] \in Int /\ f[x] >= 0, NEW x \in S
  PROVE  f[x] <= Total(f, S)
  <1>1. Total(f, S) = f[x] + Total(f, S \ {x})
    BY TotalSplit
  <1>2. IsFiniteSet(S \ {x})
    BY FS_RemoveElement
  <1>3. Total(f, S \ {x}) \in Int /\ Total(f, S \ {x}) >= 0
    BY <1>2, TotalType
  <1>. QED
    BY <1>1, <1>3
=============================================================================
