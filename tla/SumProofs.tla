----------------------------- MODULE SumProofs -----------------------------
(* Sums over finite sets, which are folds: a fold is chosen as the function on *)
(* the subsets that satisfies a recursive equation.  Here is that one exists,  *)
(* that it does not matter in which order the elements are taken, and how a    *)
(* sum changes with its set and with its summands.                             *)
EXTENDS Functions, FiniteSetTheorems, TLAPS

\* Induction over the numbers, with the set of those that have the property.
LEMMA NatSetInduction ==
  ASSUME NEW P, 0 \in P, \A n \in Nat : n \in P => n + 1 \in P
  PROVE  Nat \subseteq P
<1> SUFFICES ASSUME Nat \ P # {} PROVE FALSE
  OBVIOUS
<1>1. PICK n \in Nat \ P : \A m \in Nat \ P : <<m, n>> \notin OpToRel(<, Nat)
  BY NatLessThanWellFounded, WFMin
<1>2. n # 0 /\ n - 1 \in Nat /\ n - 1 < n
  OBVIOUS
<1>3. <<n - 1, n>> \in OpToRel(<, Nat)
  BY <1>2 DEF OpToRel
<1>4. n - 1 \in P
  BY <1>1, <1>2, <1>3
<1>5. (n - 1) + 1 = n
  BY <1>2
<1> QED BY <1>1, <1>2, <1>4, <1>5

\* A property of the empty set that survives the addition of an element holds
\* of every finite set: P is the set of subsets of S that have it.
LEMMA SubsetInduction ==
  ASSUME NEW S, IsFiniteSet(S), NEW P, {} \in P,
         \A T \in SUBSET S, x \in S : T \in P => T \cup {x} \in P
  PROVE  S \in P
<1> DEFINE N == {n \in Nat : \A T \in SUBSET S : Cardinality(T) = n => T \in P}
<1>1. 0 \in N
  BY FS_Subset, FS_EmptySet
<1>2. ASSUME NEW n \in Nat, n \in N PROVE n + 1 \in N
  <2> SUFFICES ASSUME NEW T \in SUBSET S, Cardinality(T) = n + 1 PROVE T \in P
    OBVIOUS
  <2>1. IsFiniteSet(T)
    BY FS_Subset
  <2>2. T # {}
    BY <2>1, FS_EmptySet
  <2>3. PICK x \in T : TRUE
    BY <2>2
  <2>4. Cardinality(T \ {x}) = n
    <3>1. Cardinality(T \ {x}) = Cardinality(T) - 1
      BY <2>1, <2>3, FS_RemoveElement
    <3> QED BY <3>1
  <2>5. T \ {x} \in P
    BY <1>2, <2>4
  <2>6. T = (T \ {x}) \cup {x}
    BY <2>3
  <2> QED BY <2>3, <2>5, <2>6
<1> HIDE DEF N
<1>3. Cardinality(S) \in N
  BY <1>1, <1>2, NatSetInduction, FS_CardinalityType
<1> QED BY <1>3 DEF N

-----------------------------------------------------------------------------
\* One step of the fold of f, and what its iterate is.
Taken(T) == CHOOSE x \in T : TRUE
StepOf(f, g, T) == IF T = {} THEN 0 ELSE f[Taken(T)] + g[T \ {Taken(T)}]
IsIterate(f, S, g) == g = [T \in SUBSET S |-> StepOf(f, g, T)]

\* The definition of the community modules, unfolded once.
LEMMA SumIsIterate ==
  ASSUME NEW f, NEW S
  PROVE  SumFunctionOnSet(f, S) = (CHOOSE g : IsIterate(f, S, g))[S]
BY DEF SumFunctionOnSet, FoldFunctionOnSet, MapThenFoldSet, IsIterate, StepOf, Taken

\* The element that is taken first is one of the set.
LEMMA TakenIn == ASSUME NEW T, T # {} PROVE Taken(T) \in T
BY DEF Taken

\* The iterate exists: h is right on the subsets of up to n elements.
LEMMA IterateExists ==
  ASSUME NEW f, NEW S, IsFiniteSet(S)
  PROVE  \E g : IsIterate(f, S, g)
<1> DEFINE Right(h, n) == \A T \in SUBSET S : Cardinality(T) <= n => h[T] = StepOf(f, h, T)
           N == {n \in Nat : \E h : h = [T \in SUBSET S |-> h[T]] /\ Right(h, n)}
<1>1. 0 \in N
  <2> DEFINE h == [T \in SUBSET S |-> 0]
  <2>1. Right(h, 0)
    <3> SUFFICES ASSUME NEW T \in SUBSET S, Cardinality(T) <= 0
                 PROVE  h[T] = StepOf(f, h, T)
      OBVIOUS
    <3>1. T = {}
      BY FS_Subset, FS_EmptySet, FS_CardinalityType
    <3> QED BY <3>1 DEF StepOf
  <2> HIDE DEF Right
  <2> QED BY <2>1
<1>2. ASSUME NEW n \in Nat, n \in N PROVE n + 1 \in N
  <2>1. PICK h : h = [T \in SUBSET S |-> h[T]] /\ Right(h, n)
    BY <1>2
  <2> DEFINE k == [T \in SUBSET S |-> StepOf(f, h, T)]
  <2>2. ASSUME NEW T \in SUBSET S, Cardinality(T) <= n + 1
        PROVE  k[T] = StepOf(f, k, T)
    <3>1. CASE T = {}
      BY <3>1 DEF StepOf
    <3>2. CASE T # {}
      <4> DEFINE U == T \ {Taken(T)}
      <4>1. Taken(T) \in T
        BY <3>2, TakenIn
      <4>2. Cardinality(U) <= n /\ U \in SUBSET S
        BY <2>2, <4>1, FS_Subset, FS_RemoveElement, FS_CardinalityType
      <4>3. k[U] = h[U]
        BY <2>1, <4>2
      <4> QED BY <3>2, <4>2, <4>3 DEF StepOf
    <3> QED BY <3>1, <3>2
  <2>3. Right(k, n + 1)
    BY <2>2
  <2> HIDE DEF Right
  <2>4. k = [T \in SUBSET S |-> k[T]]
    OBVIOUS
  <2>5. \E g : g = [T \in SUBSET S |-> g[T]] /\ Right(g, n + 1)
    BY <2>3, <2>4
  <2> QED BY <2>5
<1> HIDE DEF N
<1>3. Cardinality(S) \in N
  BY <1>1, <1>2, NatSetInduction, FS_CardinalityType
<1>4. PICK h : h = [T \in SUBSET S |-> h[T]] /\ Right(h, Cardinality(S))
  BY <1>3 DEF N
<1>5. \A T \in SUBSET S : h[T] = StepOf(f, h, T)
  BY <1>4, FS_Subset
<1>6. h = [T \in SUBSET S |-> StepOf(f, h, T)]
  BY <1>4, <1>5
<1> QED BY <1>6 DEF IsIterate

\* Iterates over a set and over one of its subsets agree on the smaller one.
LEMMA IteratesAgree ==
  ASSUME NEW e, NEW f, NEW S, IsFiniteSet(S), NEW T \in SUBSET S,
         \A x \in T : e[x] = f[x],
         NEW g, IsIterate(e, S, g), NEW h, IsIterate(f, T, h)
  PROVE  g[T] = h[T]
<1> DEFINE N == {n \in Nat : \A U \in SUBSET T : Cardinality(U) = n => g[U] = h[U]}
<1>1. \A U \in SUBSET T : g[U] = StepOf(e, g, U) /\ h[U] = StepOf(f, h, U)
  BY DEF IsIterate
<1>2. \A U \in SUBSET T : IsFiniteSet(U)
  BY FS_Subset
<1>3. 0 \in N
  BY <1>1, <1>2, FS_EmptySet DEF StepOf
<1>4. ASSUME NEW n \in Nat, n \in N PROVE n + 1 \in N
  <2> SUFFICES ASSUME NEW U \in SUBSET T, Cardinality(U) = n + 1 PROVE g[U] = h[U]
    OBVIOUS
  <2>1. U # {}
    BY FS_EmptySet
  <2> DEFINE V == U \ {Taken(U)}
  <2>2. Taken(U) \in U
    BY <2>1, TakenIn
  <2>3. Cardinality(V) = n /\ V \in SUBSET T
    <3>1. Cardinality(V) = Cardinality(U) - 1
      BY <1>2, <2>2, FS_RemoveElement
    <3> QED BY <3>1
  <2>4. g[V] = h[V]
    BY <1>4, <2>3
  <2> QED BY <1>1, <2>1, <2>2, <2>4 DEF StepOf
<1> HIDE DEF N
<1>5. Cardinality(T) \in N
  BY <1>3, <1>4, NatSetInduction, <1>2, FS_CardinalityType
<1> QED BY <1>5 DEF N

\* The recursive equation of a sum.
LEMMA SumUnfold ==
  ASSUME NEW f, NEW S, IsFiniteSet(S)
  PROVE  /\ S = {} => SumFunctionOnSet(f, S) = 0
         /\ S # {} => SumFunctionOnSet(f, S)
                        = f[Taken(S)] + SumFunctionOnSet(f, S \ {Taken(S)})
<1> DEFINE g == CHOOSE g : IsIterate(f, S, g)
           T == S \ {Taken(S)}
           h == CHOOSE h : IsIterate(f, T, h)
<1>1. IsFiniteSet(T) /\ T \in SUBSET S
  BY FS_Subset
<1>2. IsIterate(f, S, g) /\ IsIterate(f, T, h)
  BY <1>1, IterateExists
<1>3. SumFunctionOnSet(f, S) = g[S] /\ SumFunctionOnSet(f, T) = h[T]
  BY SumIsIterate
<1> HIDE DEF g, h
<1>4. g[S] = StepOf(f, g, S)
  BY <1>2 DEF IsIterate
<1>5. g[T] = h[T]
  BY <1>1, <1>2, IteratesAgree
<1> QED BY <1>3, <1>4, <1>5 DEF StepOf

\* Only the summands count.
LEMMA SumSame ==
  ASSUME NEW e, NEW f, NEW S, IsFiniteSet(S), \A x \in S : e[x] = f[x]
  PROVE  SumFunctionOnSet(e, S) = SumFunctionOnSet(f, S)
<1> DEFINE g == CHOOSE g : IsIterate(e, S, g)
           h == CHOOSE h : IsIterate(f, S, h)
<1>1. IsIterate(e, S, g) /\ IsIterate(f, S, h)
  BY IterateExists
<1>2. SumFunctionOnSet(e, S) = g[S] /\ SumFunctionOnSet(f, S) = h[S]
  BY SumIsIterate
<1> HIDE DEF g, h
<1>3. g[S] = h[S]
  BY <1>1, IteratesAgree
<1> QED BY <1>2, <1>3

\* The sum over nothing.
LEMMA SumEmpty == ASSUME NEW f PROVE SumFunctionOnSet(f, {}) = 0
BY SumUnfold, FS_EmptySet

\* A sum of numbers is a number.
LEMMA SumInt ==
  ASSUME NEW f, NEW S, IsFiniteSet(S), \A x \in S : f[x] \in Int
  PROVE  SumFunctionOnSet(f, S) \in Int
<1> DEFINE N == {n \in Nat : \A T \in SUBSET S :
                   Cardinality(T) = n => SumFunctionOnSet(f, T) \in Int}
<1>1. \A T \in SUBSET S : IsFiniteSet(T)
  BY FS_Subset
<1>2. 0 \in N
  <2>1. \A T \in SUBSET S : Cardinality(T) = 0 => T = {}
    BY <1>1, FS_EmptySet
  <2> QED BY <2>1, SumEmpty
<1>3. ASSUME NEW n \in Nat, n \in N PROVE n + 1 \in N
  <2> SUFFICES ASSUME NEW T \in SUBSET S, Cardinality(T) = n + 1
               PROVE  SumFunctionOnSet(f, T) \in Int
    OBVIOUS
  <2>1. T # {}
    BY FS_EmptySet
  <2> DEFINE U == T \ {Taken(T)}
  <2>2. Taken(T) \in T
    BY <2>1, TakenIn
  <2>3. Cardinality(U) = Cardinality(T) - 1
    BY <1>1, <2>2, FS_RemoveElement
  <2>4. SumFunctionOnSet(f, U) \in Int
    BY <1>3, <2>3
  <2>5. SumFunctionOnSet(f, T) = f[Taken(T)] + SumFunctionOnSet(f, U)
    BY <1>1, <2>1, SumUnfold
  <2> QED BY <2>2, <2>4, <2>5
<1> HIDE DEF N
<1>4. Cardinality(S) \in N
  BY <1>2, <1>3, NatSetInduction, FS_CardinalityType
<1> QED BY <1>4 DEF N

\* Any element may be taken first.
LEMMA SumRemove ==
  ASSUME NEW f, NEW S, IsFiniteSet(S), \A x \in S : f[x] \in Int, NEW x \in S
  PROVE  SumFunctionOnSet(f, S) = f[x] + SumFunctionOnSet(f, S \ {x})
<1> DEFINE Sum(T) == SumFunctionOnSet(f, T)
           N == {n \in Nat : \A T \in SUBSET S : \A y \in T :
                   Cardinality(T) = n => Sum(T) = f[y] + Sum(T \ {y})}
<1>1. \A T \in SUBSET S : IsFiniteSet(T)
  BY FS_Subset
<1>2. 0 \in N
  BY <1>1, FS_EmptySet
<1>3. ASSUME NEW n \in Nat, n \in N PROVE n + 1 \in N
  <2> SUFFICES ASSUME NEW T \in SUBSET S, NEW y \in T, Cardinality(T) = n + 1
               PROVE  Sum(T) = f[y] + Sum(T \ {y})
    OBVIOUS
  <2> DEFINE c == Taken(T)
  <2>1. c \in T
    BY TakenIn
  <2>2. Sum(T) = f[c] + Sum(T \ {c})
    BY <1>1, SumUnfold
  <2> HIDE DEF c
  <2>3. CASE y = c
    BY <2>2, <2>3
  <2>4. CASE y # c
    <3>1. Cardinality(T \ {c}) = Cardinality(T) - 1 /\ Cardinality(T \ {y}) = Cardinality(T) - 1
      BY <1>1, <2>1, FS_RemoveElement
    <3>2. Cardinality(T \ {c}) = n /\ Cardinality(T \ {y}) = n
      BY <3>1
    <3>3. y \in T \ {c} /\ c \in T \ {y} /\ T \ {c} \in SUBSET S /\ T \ {y} \in SUBSET S
      BY <2>1, <2>4
    <3> DEFINE U == T \ {c, y}
    <3>4. (T \ {c}) \ {y} = U /\ (T \ {y}) \ {c} = U
      OBVIOUS
    <3>5. Sum(T \ {c}) = f[y] + Sum(U) /\ Sum(T \ {y}) = f[c] + Sum(U)
      BY <1>3, <3>2, <3>3, <3>4
    <3>6. Sum(U) \in Int
      <4>1. U \in SUBSET S
        OBVIOUS
      <4> QED BY <1>1, <4>1, SumInt
    <3>7. f[y] \in Int /\ f[c] \in Int
      BY <2>1
    <3> HIDE DEF Sum, U
    <3> QED BY <2>2, <3>5, <3>6, <3>7
  <2> QED BY <2>3, <2>4
<1> HIDE DEF N
<1>4. Cardinality(S) \in N
  BY <1>2, <1>3, NatSetInduction, FS_CardinalityType
<1> QED BY <1>4 DEF N

\* One element more.
LEMMA SumInsert ==
  ASSUME NEW f, NEW S, IsFiniteSet(S), NEW x, x \notin S,
         \A y \in S \cup {x} : f[y] \in Int
  PROVE  SumFunctionOnSet(f, S \cup {x}) = f[x] + SumFunctionOnSet(f, S)
<1>1. IsFiniteSet(S \cup {x})
  BY FS_AddElement
<1>2. (S \cup {x}) \ {x} = S
  OBVIOUS
<1>3. SumFunctionOnSet(f, S \cup {x}) = f[x] + SumFunctionOnSet(f, (S \cup {x}) \ {x})
  BY <1>1, SumRemove
<1> QED BY <1>2, <1>3

\* One summand changes.
LEMMA SumChange ==
  ASSUME NEW e, NEW f, NEW S, IsFiniteSet(S), NEW x \in S,
         \A y \in S : e[y] \in Int /\ f[y] \in Int,
         \A y \in S \ {x} : e[y] = f[y]
  PROVE  SumFunctionOnSet(f, S) = SumFunctionOnSet(e, S) + (f[x] - e[x])
<1>1. IsFiniteSet(S \ {x})
  BY FS_RemoveElement
<1>2. SumFunctionOnSet(f, S) = f[x] + SumFunctionOnSet(f, S \ {x})
  BY SumRemove
<1>3. SumFunctionOnSet(e, S) = e[x] + SumFunctionOnSet(e, S \ {x})
  BY SumRemove
<1>4. SumFunctionOnSet(e, S \ {x}) = SumFunctionOnSet(f, S \ {x})
  BY <1>1, SumSame
<1>5. SumFunctionOnSet(e, S \ {x}) \in Int
  BY <1>1, SumInt
<1> QED BY <1>2, <1>3, <1>4, <1>5

\* Zeros add up to zero.
LEMMA SumZero ==
  ASSUME NEW f, NEW S, IsFiniteSet(S), \A x \in S : f[x] = 0
  PROVE  SumFunctionOnSet(f, S) = 0
<1> DEFINE P == {T \in SUBSET S : SumFunctionOnSet(f, T) = 0}
<1>1. {} \in P
  BY SumEmpty
<1>2. ASSUME NEW T \in SUBSET S, NEW x \in S, T \in P PROVE T \cup {x} \in P
  <2>1. CASE x \in T
    <3>1. T \cup {x} = T
      BY <2>1
    <3> QED BY <1>2, <3>1
  <2>2. CASE x \notin T
    <3>1. SumFunctionOnSet(f, T \cup {x}) = f[x] + SumFunctionOnSet(f, T)
      BY <2>2, SumInsert, FS_Subset
    <3> QED BY <1>2, <3>1
  <2> QED BY <2>1, <2>2
<1> HIDE DEF P
<1>3. S \in P
  BY <1>1, <1>2, SubsetInduction
<1> QED BY <1>3 DEF P

\* The sum of the sums of two functions.
LEMMA SumPlus ==
  ASSUME NEW e, NEW f, NEW g, NEW S, IsFiniteSet(S),
         \A x \in S : e[x] \in Int /\ f[x] \in Int /\ g[x] = e[x] + f[x]
  PROVE  SumFunctionOnSet(g, S) = SumFunctionOnSet(e, S) + SumFunctionOnSet(f, S)
<1> DEFINE P == {T \in SUBSET S : SumFunctionOnSet(g, T) = SumFunctionOnSet(e, T) + SumFunctionOnSet(f, T)}
<1>1. {} \in P
  BY SumEmpty
<1>2. ASSUME NEW T \in SUBSET S, NEW x \in S, T \in P PROVE T \cup {x} \in P
  <2>1. CASE x \in T
    <3>1. T \cup {x} = T
      BY <2>1
    <3> QED BY <1>2, <3>1
  <2>2. CASE x \notin T
    <3>1. IsFiniteSet(T)
      BY FS_Subset
    <3>2. /\ SumFunctionOnSet(e, T \cup {x}) = e[x] + SumFunctionOnSet(e, T)
          /\ SumFunctionOnSet(f, T \cup {x}) = f[x] + SumFunctionOnSet(f, T)
          /\ SumFunctionOnSet(g, T \cup {x}) = g[x] + SumFunctionOnSet(g, T)
      BY <2>2, <3>1, SumInsert
    <3>3. SumFunctionOnSet(e, T) \in Int /\ SumFunctionOnSet(f, T) \in Int
      BY <3>1, SumInt
    <3> QED BY <1>2, <3>2, <3>3
  <2> QED BY <2>1, <2>2
<1> HIDE DEF P
<1>3. S \in P
  BY <1>1, <1>2, SubsetInduction
<1> QED BY <1>3 DEF P

\* The sum over a part and over the rest.
LEMMA SumSplit ==
  ASSUME NEW f, NEW S, IsFiniteSet(S), \A x \in S : f[x] \in Int, NEW R \in SUBSET S
  PROVE  SumFunctionOnSet(f, S) = SumFunctionOnSet(f, R) + SumFunctionOnSet(f, S \ R)
<1> DEFINE P == {T \in SUBSET S : SumFunctionOnSet(f, T)
                   = SumFunctionOnSet(f, T \cap R) + SumFunctionOnSet(f, T \ R)}
<1>1. {} \in P
  <2>1. {} \cap R = {} /\ {} \ R = {}
    OBVIOUS
  <2> QED BY <2>1, SumEmpty
<1>2. ASSUME NEW T \in SUBSET S, NEW x \in S, T \in P PROVE T \cup {x} \in P
  <2>1. CASE x \in T
    <3>1. T \cup {x} = T
      BY <2>1
    <3> QED BY <1>2, <3>1
  <2>2. CASE x \notin T
    <3>1. IsFiniteSet(T) /\ IsFiniteSet(T \cap R) /\ IsFiniteSet(T \ R)
      BY FS_Subset
    <3>2. SumFunctionOnSet(f, T \cup {x}) = f[x] + SumFunctionOnSet(f, T)
      BY <2>2, <3>1, SumInsert
    <3>3. SumFunctionOnSet(f, T \cap R) \in Int /\ SumFunctionOnSet(f, T \ R) \in Int
      BY <3>1, SumInt
    <3>4. CASE x \in R
      <4>1. (T \cup {x}) \cap R = (T \cap R) \cup {x} /\ (T \cup {x}) \ R = T \ R
        BY <3>4
      <4>2. SumFunctionOnSet(f, (T \cap R) \cup {x}) = f[x] + SumFunctionOnSet(f, T \cap R)
        BY <2>2, <3>1, SumInsert
      <4>3. /\ SumFunctionOnSet(f, (T \cup {x}) \cap R) = f[x] + SumFunctionOnSet(f, T \cap R)
            /\ SumFunctionOnSet(f, (T \cup {x}) \ R) = SumFunctionOnSet(f, T \ R)
        BY <4>1, <4>2, Zenon
      <4>4. SumFunctionOnSet(f, T \cup {x})
              = SumFunctionOnSet(f, (T \cup {x}) \cap R) + SumFunctionOnSet(f, (T \cup {x}) \ R)
        BY <1>2, <3>2, <3>3, <4>3
      <4> QED BY <4>4
    <3>5. CASE x \notin R
      <4>1. (T \cup {x}) \cap R = T \cap R /\ (T \cup {x}) \ R = (T \ R) \cup {x}
        BY <3>5
      <4>2. SumFunctionOnSet(f, (T \ R) \cup {x}) = f[x] + SumFunctionOnSet(f, T \ R)
        BY <2>2, <3>1, SumInsert
      <4>3. /\ SumFunctionOnSet(f, (T \cup {x}) \ R) = f[x] + SumFunctionOnSet(f, T \ R)
            /\ SumFunctionOnSet(f, (T \cup {x}) \cap R) = SumFunctionOnSet(f, T \cap R)
        BY <4>1, <4>2, Zenon
      <4>4. SumFunctionOnSet(f, T \cup {x})
              = SumFunctionOnSet(f, (T \cup {x}) \cap R) + SumFunctionOnSet(f, (T \cup {x}) \ R)
        BY <1>2, <3>2, <3>3, <4>3
      <4> QED BY <4>4
    <3> QED BY <3>4, <3>5
  <2> QED BY <2>1, <2>2
<1> HIDE DEF P
<1>3. S \in P
  BY <1>1, <1>2, SubsetInduction
<1>4. S \cap R = R
  OBVIOUS
<1> QED BY <1>3, <1>4 DEF P

\* Summands between two bounds.
LEMMA SumAtMost ==
  ASSUME NEW f, NEW S, IsFiniteSet(S), NEW b \in Nat,
         \A x \in S : f[x] \in Int /\ -b <= f[x] /\ f[x] <= b
  PROVE  LET bound == b * Cardinality(S)
         IN  -bound <= SumFunctionOnSet(f, S) /\ SumFunctionOnSet(f, S) <= bound
<1> DEFINE P == {T \in SUBSET S : /\ -(b * Cardinality(T)) <= SumFunctionOnSet(f, T)
                                  /\ SumFunctionOnSet(f, T) <= b * Cardinality(T)}
<1>1. {} \in P
  BY SumEmpty, FS_EmptySet
<1>2. ASSUME NEW T \in SUBSET S, NEW x \in S, T \in P PROVE T \cup {x} \in P
  <2>1. CASE x \in T
    <3>1. T \cup {x} = T
      BY <2>1
    <3> QED BY <1>2, <3>1
  <2>2. CASE x \notin T
    <3>1. IsFiniteSet(T)
      BY FS_Subset
    <3>2. SumFunctionOnSet(f, T \cup {x}) = f[x] + SumFunctionOnSet(f, T)
      BY <2>2, <3>1, SumInsert
    <3>3. Cardinality(T \cup {x}) = Cardinality(T) + 1 /\ Cardinality(T) \in Nat
      BY <2>2, <3>1, FS_AddElement, FS_CardinalityType
    <3>4. b * (Cardinality(T) + 1) = b * Cardinality(T) + b /\ b * Cardinality(T) \in Nat
      BY <3>3
    <3>5. SumFunctionOnSet(f, T) \in Int
      BY <3>1, SumInt
    <3> QED BY <1>2, <3>2, <3>3, <3>4, <3>5
  <2> QED BY <2>1, <2>2
<1> HIDE DEF P
<1>3. S \in P
  BY <1>1, <1>2, SubsetInduction
<1> QED BY <1>3 DEF P

\* A sum of natural numbers is one.
LEMMA SumNat ==
  ASSUME NEW f, NEW S, IsFiniteSet(S), \A x \in S : f[x] \in Nat
  PROVE  SumFunctionOnSet(f, S) \in Nat
<1> DEFINE P == {T \in SUBSET S : SumFunctionOnSet(f, T) \in Nat}
<1>1. {} \in P
  BY SumEmpty
<1>2. ASSUME NEW T \in SUBSET S, NEW x \in S, T \in P PROVE T \cup {x} \in P
  <2>1. CASE x \in T
    <3>1. T \cup {x} = T
      BY <2>1
    <3> QED BY <1>2, <3>1
  <2>2. CASE x \notin T
    <3>1. SumFunctionOnSet(f, T \cup {x}) = f[x] + SumFunctionOnSet(f, T)
      BY <2>2, SumInsert, FS_Subset
    <3> QED BY <1>2, <3>1
  <2> QED BY <2>1, <2>2
<1> HIDE DEF P
<1>3. S \in P
  BY <1>1, <1>2, SubsetInduction
<1> QED BY <1>3 DEF P

\* All summands but one are zero.
LEMMA SumAtom ==
  ASSUME NEW f, NEW S, IsFiniteSet(S), NEW x, f[x] \in Int,
         \A y \in S \ {x} : f[y] = 0
  PROVE  SumFunctionOnSet(f, S) = IF x \in S THEN f[x] ELSE 0
<1>1. CASE x \in S
  <2>1. IsFiniteSet(S \ {x})
    BY FS_RemoveElement
  <2>2. SumFunctionOnSet(f, S \ {x}) = 0
    BY <2>1, SumZero
  <2>3. \A y \in S : f[y] \in Int
    OBVIOUS
  <2>4. SumFunctionOnSet(f, S) = f[x] + SumFunctionOnSet(f, S \ {x})
    BY <1>1, <2>3, SumRemove
  <2> QED BY <1>1, <2>2, <2>4
<1>2. CASE x \notin S
  BY <1>2, SumZero
<1> QED BY <1>1, <1>2

\* Summands between bounds of their own.
LEMMA SumBetween ==
  ASSUME NEW f, NEW g, NEW S, IsFiniteSet(S),
         \A x \in S : f[x] \in Int /\ g[x] \in Int /\ -g[x] <= f[x] /\ f[x] <= g[x]
  PROVE  /\ -SumFunctionOnSet(g, S) <= SumFunctionOnSet(f, S)
         /\ SumFunctionOnSet(f, S) <= SumFunctionOnSet(g, S)
<1> DEFINE P == {T \in SUBSET S : /\ -SumFunctionOnSet(g, T) <= SumFunctionOnSet(f, T)
                                  /\ SumFunctionOnSet(f, T) <= SumFunctionOnSet(g, T)}
<1>1. {} \in P
  BY SumEmpty
<1>2. ASSUME NEW T \in SUBSET S, NEW x \in S, T \in P PROVE T \cup {x} \in P
  <2>1. CASE x \in T
    <3>1. T \cup {x} = T
      BY <2>1
    <3> QED BY <1>2, <3>1
  <2>2. CASE x \notin T
    <3>1. IsFiniteSet(T)
      BY FS_Subset
    <3>2. /\ SumFunctionOnSet(f, T \cup {x}) = f[x] + SumFunctionOnSet(f, T)
          /\ SumFunctionOnSet(g, T \cup {x}) = g[x] + SumFunctionOnSet(g, T)
      BY <2>2, <3>1, SumInsert
    <3>3. SumFunctionOnSet(f, T) \in Int /\ SumFunctionOnSet(g, T) \in Int
      BY <3>1, SumInt
    <3> QED BY <1>2, <3>2, <3>3
  <2> QED BY <2>1, <2>2
<1> HIDE DEF P
<1>3. S \in P
  BY <1>1, <1>2, SubsetInduction
<1> QED BY <1>3 DEF P

\* A sum of natural numbers grows with its set.
LEMMA SumSubset ==
  ASSUME NEW f, NEW S, IsFiniteSet(S), \A x \in S : f[x] \in Nat, NEW R \in SUBSET S
  PROVE  SumFunctionOnSet(f, R) <= SumFunctionOnSet(f, S)
<1>1. IsFiniteSet(R) /\ IsFiniteSet(S \ R)
  BY FS_Subset
<1>2. SumFunctionOnSet(f, S) = SumFunctionOnSet(f, R) + SumFunctionOnSet(f, S \ R)
  <2>1. \A x \in S : f[x] \in Int
    OBVIOUS
  <2> QED BY <2>1, SumSplit
<1>3. SumFunctionOnSet(f, R) \in Nat /\ SumFunctionOnSet(f, S \ R) \in Nat
  BY <1>1, SumNat
<1> QED BY <1>2, <1>3

\* A sum does not change when its terms are moved up by one.
LEMMA SumShift ==
  ASSUME NEW f, NEW g, NEW S \in SUBSET Int, IsFiniteSet(S),
         \A i \in S : f[i] \in Int /\ g[i + 1] = f[i]
  PROVE  SumFunctionOnSet(g, {i + 1 : i \in S}) = SumFunctionOnSet(f, S)
<1> DEFINE Up(T) == {i + 1 : i \in T}
           P == {T \in SUBSET S : /\ IsFiniteSet(Up(T))
                                  /\ SumFunctionOnSet(g, Up(T)) = SumFunctionOnSet(f, T)}
<1>1. {} \in P
  <2>1. Up({}) = {}
    OBVIOUS
  <2> QED BY <2>1, SumEmpty, FS_EmptySet
<1>2. ASSUME NEW T \in SUBSET S, NEW x \in S, T \in P PROVE T \cup {x} \in P
  <2>1. CASE x \in T
    <3>1. T \cup {x} = T
      BY <2>1
    <3> QED BY <1>2, <3>1
  <2>2. CASE x \notin T
    <3>1. Up(T \cup {x}) = Up(T) \cup {x + 1} /\ x + 1 \notin Up(T)
      BY <2>2
    <3>2. IsFiniteSet(T) /\ IsFiniteSet(Up(T)) /\ IsFiniteSet(Up(T \cup {x}))
      <4>1. IsFiniteSet(Up(T)) /\ IsFiniteSet(T)
        BY <1>2, FS_Subset
      <4> HIDE DEF Up
      <4>2. IsFiniteSet(Up(T) \cup {x + 1})
        BY <4>1, FS_AddElement
      <4> QED BY <3>1, <4>1, <4>2
    <3>3. SumFunctionOnSet(f, T \cup {x}) = f[x] + SumFunctionOnSet(f, T)
      BY <2>2, <3>2, SumInsert
    <3>4. \A y \in Up(T) \cup {x + 1} : g[y] \in Int
      OBVIOUS
    <3>5. SumFunctionOnSet(g, Up(T) \cup {x + 1}) = g[x + 1] + SumFunctionOnSet(g, Up(T))
      <4> HIDE DEF Up
      <4> QED BY <3>1, <3>2, <3>4, SumInsert
    <3>6. SumFunctionOnSet(g, Up(T \cup {x})) = SumFunctionOnSet(f, T \cup {x})
      <4>1. SumFunctionOnSet(g, Up(T)) = SumFunctionOnSet(f, T) /\ g[x + 1] = f[x]
        BY <1>2
      <4> HIDE DEF Up
      <4> QED BY <3>1, <3>3, <3>5, <4>1
    <3> QED BY <3>2, <3>6
  <2> QED BY <2>1, <2>2
<1> HIDE DEF P
<1>3. S \in P
  BY <1>1, <1>2, SubsetInduction
<1> QED BY <1>3 DEF P

\* A sum, group by group: x belongs to group g[x].
LEMMA SumGrouped ==
  ASSUME NEW f, NEW S, IsFiniteSet(S), \A x \in S : f[x] \in Int,
         NEW K, IsFiniteSet(K), NEW g, \A x \in S : g[x] \in K
  PROVE  SumFunctionOnSet([k \in K |-> SumFunctionOnSet(f, {x \in S : g[x] = k})], K)
           = SumFunctionOnSet(f, S)
<1> DEFINE Group(T, k) == {x \in T : g[x] = k}
           h(T) == [k \in K |-> SumFunctionOnSet(f, Group(T, k))]
           P == {T \in SUBSET S : SumFunctionOnSet(h(T), K) = SumFunctionOnSet(f, T)}
<1>1. {} \in P
  <2>1. \A k \in K : Group({}, k) = {}
    OBVIOUS
  <2> HIDE DEF Group
  <2>2. \A k \in K : h({})[k] = 0
    BY <2>1, SumEmpty
  <2> HIDE DEF h
  <2>3. SumFunctionOnSet(h({}), K) = 0 /\ SumFunctionOnSet(f, {}) = 0
    BY <2>2, SumZero, SumEmpty
  <2> QED BY <2>3
<1>2. ASSUME NEW T \in SUBSET S, NEW x \in S, T \in P PROVE T \cup {x} \in P
  <2>1. CASE x \in T
    <3>1. T \cup {x} = T
      BY <2>1
    <3> QED BY <1>2, <3>1
  <2>2. CASE x \notin T
    <3> DEFINE U == T \cup {x}
               group == g[x]
    <3>1. /\ IsFiniteSet(T) /\ IsFiniteSet(U) /\ group \in K
          /\ \A y \in T : f[y] \in Int
          /\ \A y \in U : f[y] \in Int
      BY FS_Subset
    <3>2. /\ \A k \in K : Group(T, k) \subseteq T /\ Group(U, k) \subseteq U
          /\ \A k \in K \ {group} : Group(U, k) = Group(T, k)
          /\ Group(U, group) = Group(T, group) \cup {x} /\ x \notin Group(T, group)
      BY <2>2
    <3> HIDE DEF Group, U
    <3>3. \A k \in K : h(T)[k] \in Int /\ h(U)[k] \in Int
      <4>1. ASSUME NEW k \in K
            PROVE  /\ SumFunctionOnSet(f, Group(T, k)) \in Int
                   /\ SumFunctionOnSet(f, Group(U, k)) \in Int
        <5>1. /\ IsFiniteSet(Group(T, k)) /\ IsFiniteSet(Group(U, k))
              /\ \A y \in Group(T, k) : f[y] \in Int
              /\ \A y \in Group(U, k) : f[y] \in Int
          BY <3>1, <3>2, FS_Subset
        <5> QED BY <5>1, SumInt
      <4> QED BY <4>1
    <3>4. \A k \in K \ {group} : h(T)[k] = h(U)[k]
      BY <3>2
    <3>5. h(U)[group] = f[x] + h(T)[group]
      <4>1. IsFiniteSet(Group(T, group)) /\ \A y \in Group(T, group) \cup {x} : f[y] \in Int
        BY <3>1, <3>2, FS_Subset
      <4>2. SumFunctionOnSet(f, Group(T, group) \cup {x}) = f[x] + SumFunctionOnSet(f, Group(T, group))
        BY <3>2, <4>1, SumInsert
      <4> QED BY <3>1, <3>2, <4>2
    <3> HIDE DEF h
    <3>6. SumFunctionOnSet(h(U), K) = SumFunctionOnSet(h(T), K) + (h(U)[group] - h(T)[group])
      BY <3>1, <3>3, <3>4, SumChange
    <3>7. SumFunctionOnSet(f, U) = f[x] + SumFunctionOnSet(f, T)
      BY <2>2, <3>1, SumInsert DEF U
    <3>8. /\ SumFunctionOnSet(h(T), K) = SumFunctionOnSet(f, T)
          /\ SumFunctionOnSet(f, T) \in Int /\ h(T)[group] \in Int /\ f[x] \in Int
      <4>1. SumFunctionOnSet(f, T) \in Int
        BY <3>1, SumInt
      <4> QED BY <1>2, <3>1, <3>3, <4>1
    <3>9. SumFunctionOnSet(h(U), K) = SumFunctionOnSet(f, U)
      BY <3>5, <3>6, <3>7, <3>8
    <3> QED BY <3>9 DEF U
  <2> QED BY <2>1, <2>2
<1>3. S \in P
  <2> HIDE DEF P
  <2> QED BY <1>1, <1>2, SubsetInduction
<1> QED BY <1>3
=============================================================================
