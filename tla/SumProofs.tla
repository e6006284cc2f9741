----------------------------- MODULE SumProofs -----------------------------
(***************************************************************************)
(* Facts about SumFunctionOnSet, the sum with which Progress models the    *)
(* SUM and COUNT of the backend's queries.  The operator is defined by     *)
(* recursion on the set, with a CHOOSE for the next element: first that    *)
(* recursion is shown to have a solution, and only one, then that the      *)
(* element chosen does not matter, and the rest follows from these two.    *)
(*                                                                         *)
(* Induction over finite sets is stated with a set C of good subsets       *)
(* rather than with a predicate.                                           *)
(***************************************************************************)
EXTENDS Integers, FiniteSets, Functions, FiniteSetTheorems, WellFoundedInduction, TLAPS

(***************************************************************************)
(* Induction.                                                              *)
(***************************************************************************)

\* A set of subsets of S that has every subset whose proper subsets it has is all.
LEMMA SubsetInduction ==
  ASSUME NEW S, IsFiniteSet(S), NEW C,
         \A T \in SUBSET S : (\A U \in SUBSET T : U # T => U \in C) => T \in C
  PROVE  S \in C
<1> DEFINE Bad == (SUBSET S) \ C
<1>1. SUFFICES ASSUME S \notin C PROVE FALSE
  OBVIOUS
<1>2. FiniteSubsetsOf(S) = SUBSET S
  BY FS_FiniteSubsetsOfFinite
<1>3. IsWellFoundedOn(StrictSubsetOrdering(S), SUBSET S)
  BY <1>2, FS_StrictSubsetOrderingWellFounded
<1>4. Bad \subseteq SUBSET S /\ Bad # {}
  BY <1>1
<1>5. PICK T \in Bad : \A U \in Bad : ~ (<<U, T>> \in StrictSubsetOrdering(S))
  <2> HIDE DEF Bad
  <2> QED BY <1>3, <1>4, WFMin
<1>6. \A U \in SUBSET T : U # T => U \in C
  <2>1. SUFFICES ASSUME NEW U \in SUBSET T, U # T, U \notin C PROVE FALSE
    OBVIOUS
  <2>2. U \in Bad
    BY <2>1, <1>4
  <2>3. <<U, T>> \in StrictSubsetOrdering(S)
    BY <2>1, <2>2, <1>4 DEF StrictSubsetOrdering
  <2> QED BY <2>2, <2>3, <1>5
<1> QED BY <1>5, <1>6

(***************************************************************************)
(* The recursion of SumFunctionOnSet and its solution.                     *)
(***************************************************************************)

Chosen(s) == CHOOSE x \in s : TRUE
Others(s) == s \ {Chosen(s)}
Solves(g, f, S) ==
  g = [s \in SUBSET S |-> IF s = {} THEN 0 ELSE f[Chosen(s)] + g[Others(s)]]
Solution(f, S) == CHOOSE g : Solves(g, f, S)

LEMMA SumIsSolution ==
  ASSUME NEW f, NEW S
  PROVE  SumFunctionOnSet(f, S) = Solution(f, S)[S]
BY DEF SumFunctionOnSet, FoldFunctionOnSet, MapThenFoldSet, Solution, Solves, Chosen, Others

\* A solution, unfolded once.
LEMMA SolutionAt ==
  ASSUME NEW f, NEW S, NEW g, Solves(g, f, S), NEW T \in SUBSET S
  PROVE  /\ T = {} => g[T] = 0
         /\ T # {} => /\ Chosen(T) \in T
                      /\ Others(T) \in SUBSET S
                      /\ g[T] = f[Chosen(T)] + g[Others(T)]
<1>1. g[T] = IF T = {} THEN 0 ELSE f[Chosen(T)] + g[Others(T)]
  BY DEF Solves
<1>2. T # {} => Chosen(T) \in T
  BY DEF Chosen
<1> QED BY <1>1, <1>2 DEF Others

\* Two solutions agree on the finite sets that both cover.
LEMMA SolutionsAgree ==
  ASSUME NEW f, NEW S, NEW T, NEW g, NEW h, Solves(g, f, S), Solves(h, f, T),
         NEW U \in SUBSET (S \intersect T), IsFiniteSet(U)
  PROVE  g[U] = h[U]
<1> DEFINE C == {V \in SUBSET U : g[V] = h[V]}
<1>1. ASSUME NEW V \in SUBSET U, \A W \in SUBSET V : W # V => W \in C
      PROVE  V \in C
  <2>1. V \in SUBSET S /\ V \in SUBSET T
    OBVIOUS
  <2>2. CASE V = {}
    <3>1. g[V] = 0
      BY <2>1, <2>2, SolutionAt
    <3>2. h[V] = 0
      BY <2>1, <2>2, SolutionAt
    <3> QED BY <3>1, <3>2
  <2>3. CASE V # {}
    <3>1. /\ Chosen(V) \in V
          /\ g[V] = f[Chosen(V)] + g[Others(V)]
          /\ h[V] = f[Chosen(V)] + h[Others(V)]
      BY <2>1, <2>3, SolutionAt
    <3>2. Others(V) \in SUBSET V /\ Others(V) # V
      BY <3>1 DEF Others
    <3>3. Others(V) \in C
      BY <1>1, <3>2
    <3> QED BY <3>1, <3>3
  <2> QED BY <2>2, <2>3
<1>2. U \in C
  <2> HIDE DEF C
  <2> QED BY <1>1, SubsetInduction
<1> QED BY <1>2

\* The solution on T is put together from those on its proper subsets.
LEMMA SolutionExists ==
  ASSUME NEW f, NEW S, IsFiniteSet(S)
  PROVE  \E g : Solves(g, f, S)
<1> DEFINE C == {T \in SUBSET S : \E g : Solves(g, f, T)}
<1>1. ASSUME NEW T \in SUBSET S, \A U \in SUBSET T : U # T => U \in C
      PROVE  T \in C
  <2> DEFINE G(U) == Solution(f, U)
             g == [s \in SUBSET T |-> IF s = {} THEN 0 ELSE f[Chosen(s)] + G(Others(s))[Others(s)]]
  <2>1. \A U \in SUBSET T : U # T => Solves(G(U), f, U)
    BY <1>1 DEF Solution
  <2>2. ASSUME NEW U \in SUBSET T, U # T
        PROVE  g[U] = G(U)[U]
    <3>1. Solves(G(U), f, U)
      BY <2>1, <2>2
    <3>2. CASE U = {}
      <4>1. G(U)[U] = 0
        <5> HIDE DEF G
        <5> QED BY <3>1, <3>2, SolutionAt
      <4> QED BY <4>1, <3>2
    <3>3. CASE U # {}
      <4> DEFINE R == Others(U)
      <4>1. Chosen(U) \in U /\ R \in SUBSET U /\ G(U)[U] = f[Chosen(U)] + G(U)[R]
        <5> HIDE DEF G
        <5> QED BY <3>1, <3>3, SolutionAt
      <4>2. R \in SUBSET T /\ R # T
        BY <4>1, <2>2
      <4>3. Solves(G(R), f, R) /\ IsFiniteSet(R)
        BY <4>2, <2>1, FS_Subset
      <4>4. R \in SUBSET (U \intersect R)
        BY <4>1
      <4>5. G(U)[R] = G(R)[R]
        <5> HIDE DEF G, R
        <5> QED BY <3>1, <4>3, <4>4, SolutionsAgree
      <4>6. g[U] = f[Chosen(U)] + G(R)[R]
        BY <3>3
      <4> QED BY <4>1, <4>5, <4>6
    <3> QED BY <3>2, <3>3
  <2>3. g = [s \in SUBSET T |-> IF s = {} THEN 0 ELSE f[Chosen(s)] + g[Others(s)]]
    <3>1. ASSUME NEW s \in SUBSET T, s # {}
          PROVE  G(Others(s))[Others(s)] = g[Others(s)]
      <4>1. Chosen(s) \in s
        BY <3>1 DEF Chosen
      <4>2. Others(s) \in SUBSET T /\ Others(s) # T
        BY <4>1 DEF Others
      <4> HIDE DEF G, g
      <4> QED BY <2>2, <4>2
    <3>2. \A s \in SUBSET T :
            g[s] = IF s = {} THEN 0 ELSE f[Chosen(s)] + G(Others(s))[Others(s)]
      OBVIOUS
    <3> DEFINE h == [s \in SUBSET T |-> IF s = {} THEN 0 ELSE f[Chosen(s)] + g[Others(s)]]
    <3>3. \A s \in SUBSET T : g[s] = h[s]
      BY <3>1, <3>2
    <3> QED BY <3>3
  <2>4. Solves(g, f, T)
    <3> HIDE DEF g
    <3> QED BY <2>3 DEF Solves
  <2> QED BY <2>4
<1>2. S \in C
  <2> HIDE DEF C
  <2> QED BY <1>1, SubsetInduction
<1> QED BY <1>2

\* A sum, unfolded once.
LEMMA SumByChosen ==
  ASSUME NEW f, NEW S, IsFiniteSet(S)
  PROVE  /\ S = {} => SumFunctionOnSet(f, S) = 0
         /\ S # {} => /\ Chosen(S) \in S
                      /\ SumFunctionOnSet(f, S) = f[Chosen(S)] + SumFunctionOnSet(f, Others(S))
<1>1. Solves(Solution(f, S), f, S)
  BY SolutionExists DEF Solution
<1>2. SumFunctionOnSet(f, S) = Solution(f, S)[S]
  BY SumIsSolution
<1>3. S # {} => SumFunctionOnSet(f, Others(S)) = Solution(f, S)[Others(S)]
  <2>1. SUFFICES ASSUME S # {} PROVE SumFunctionOnSet(f, Others(S)) = Solution(f, S)[Others(S)]
    OBVIOUS
  <2>2. Others(S) \in SUBSET S /\ IsFiniteSet(Others(S))
    BY FS_Subset DEF Others
  <2>3. Solves(Solution(f, Others(S)), f, Others(S))
    BY <2>2, SolutionExists DEF Solution
  <2>4. Others(S) \in SUBSET (S \intersect Others(S))
    BY <2>2
  <2>5. Solution(f, Others(S))[Others(S)] = Solution(f, S)[Others(S)]
    BY <1>1, <2>2, <2>3, <2>4, SolutionsAgree
  <2> QED BY <2>5, SumIsSolution
<1> QED BY <1>1, <1>2, <1>3, SolutionAt

\* A sum of integers is an integer, and any element may be taken out of it: it does
\* not depend on the order in which the rows of a table are visited.
LEMMA SumRemove ==
  ASSUME NEW f, NEW S, IsFiniteSet(S), \A x \in S : f[x] \in Int
  PROVE  /\ SumFunctionOnSet(f, {}) = 0
         /\ SumFunctionOnSet(f, S) \in Int
         /\ \A x \in S : SumFunctionOnSet(f, S) = f[x] + SumFunctionOnSet(f, S \ {x})
<1> DEFINE Sum(T) == SumFunctionOnSet(f, T)
           C == {T \in SUBSET S : /\ Sum(T) \in Int
                                 /\ \A x \in T : Sum(T) = f[x] + Sum(T \ {x})}
<1>1. Sum({}) = 0
  BY FS_EmptySet, SumByChosen
<1>2. ASSUME NEW T \in SUBSET S, \A U \in SUBSET T : U # T => U \in C
      PROVE  T \in C
  <2>1. CASE T = {}
    BY <1>1, <2>1
  <2>2. CASE T # {}
    <3> DEFINE p == Chosen(T)
    <3>1. p \in T /\ Sum(T) = f[p] + Sum(T \ {p})
      BY <2>2, FS_Subset, SumByChosen DEF Others
    <3> HIDE DEF p
    <3>2. \A x \in T : T \ {x} \in C
      BY <1>2
    <3>3. \A x \in T : f[x] \in Int /\ Sum(T \ {x}) \in Int
      BY <3>2
    <3>4. ASSUME NEW x \in T PROVE Sum(T) = f[x] + Sum(T \ {x})
      <4>1. CASE x = p
        BY <4>1, <3>1
      <4>2. CASE x # p
        <5>1. /\ Sum(T \ {p}) = f[x] + Sum((T \ {p}) \ {x})
              /\ Sum(T \ {x}) = f[p] + Sum((T \ {x}) \ {p})
          BY <3>1, <3>2, <4>2
        <5>2. (T \ {p}) \ {x} = (T \ {x}) \ {p}
          OBVIOUS
        <5>3. (T \ {x}) \ {p} \in C
          <6>1. (T \ {x}) \ {p} \in SUBSET T /\ (T \ {x}) \ {p} # T
            BY <3>1
          <6> QED BY <6>1, <1>2
        <5>4. Sum((T \ {x}) \ {p}) \in Int
          BY <5>3
        <5>5. f[p] \in Int /\ f[x] \in Int
          BY <3>1
        <5>6. Sum(T) = f[p] + (f[x] + Sum((T \ {x}) \ {p}))
          BY <3>1, <5>1, <5>2
        <5>7. f[x] + Sum(T \ {x}) = f[x] + (f[p] + Sum((T \ {x}) \ {p}))
          BY <5>1
        <5> DEFINE z == Sum((T \ {x}) \ {p})
        <5>8. f[p] + (f[x] + z) = f[x] + (f[p] + z)
          <6>1. z \in Int
            BY <5>4
          <6> HIDE DEF z
          <6> QED BY <5>5, <6>1
        <5> QED BY <5>6, <5>7, <5>8
      <4> QED BY <4>1, <4>2
    <3>5. Sum(T) \in Int
      <4> HIDE DEF Sum
      <4> QED BY <3>1, <3>3
    <3> QED BY <3>4, <3>5
  <2> QED BY <2>1, <2>2
<1>3. S \in C
  <2> HIDE DEF C
  <2> QED BY <1>2, SubsetInduction
<1> QED BY <1>1, <1>3

(***************************************************************************)
(* What the proofs about the tables need.                                  *)
(***************************************************************************)

\* Subsets can be built one element at a time.
LEMMA ElementInduction ==
  ASSUME NEW S, IsFiniteSet(S), NEW C, {} \in C,
         \A T \in SUBSET S : \A x \in T : T \ {x} \in C => T \in C
  PROVE  S \in C
<1>1. ASSUME NEW T \in SUBSET S, \A U \in SUBSET T : U # T => U \in C
      PROVE  T \in C
  <2>1. CASE T = {}
    BY <2>1
  <2>2. CASE T # {}
    <3>1. PICK x \in T : TRUE
      BY <2>2
    <3>2. T \ {x} \in SUBSET T /\ T \ {x} # T
      BY <3>1
    <3> QED BY <1>1, <3>1, <3>2
  <2> QED BY <2>1, <2>2
<1> QED BY <1>1, SubsetInduction

\* SumRemove, one element at a time.
LEMMA SumTake ==
  ASSUME NEW f, NEW S, IsFiniteSet(S), \A y \in S : f[y] \in Int, NEW x \in S
  PROVE  /\ SumFunctionOnSet(f, S) = f[x] + SumFunctionOnSet(f, S \ {x})
         /\ f[x] \in Int
         /\ SumFunctionOnSet(f, S) \in Int
         /\ SumFunctionOnSet(f, S \ {x}) \in Int
         /\ IsFiniteSet(S \ {x})
<1>1. IsFiniteSet(S \ {x}) /\ \A y \in S \ {x} : f[y] \in Int
  BY FS_Subset
<1> QED BY <1>1, SumRemove

LEMMA SumEmpty ==
  ASSUME NEW f
  PROVE  SumFunctionOnSet(f, {}) = 0
BY FS_EmptySet, SumByChosen

LEMMA SumNat ==
  ASSUME NEW f, NEW S, IsFiniteSet(S), \A x \in S : f[x] \in Nat
  PROVE  SumFunctionOnSet(f, S) \in Nat
<1> DEFINE C == {T \in SUBSET S : SumFunctionOnSet(f, T) \in Nat}
<1>1. {} \in C
  BY SumEmpty
<1>2. ASSUME NEW T \in SUBSET S, NEW x \in T, T \ {x} \in C
      PROVE  T \in C
  <2>1. SumFunctionOnSet(f, T) = f[x] + SumFunctionOnSet(f, T \ {x})
    BY SumTake, FS_Subset
  <2> QED BY <2>1, <1>2
<1>3. S \in C
  <2> HIDE DEF C
  <2> QED BY <1>1, <1>2, ElementInduction
<1> QED BY <1>3

LEMMA SumZero ==
  ASSUME NEW f, NEW S, IsFiniteSet(S), \A x \in S : f[x] = 0
  PROVE  SumFunctionOnSet(f, S) = 0
<1> DEFINE C == {T \in SUBSET S : SumFunctionOnSet(f, T) = 0}
<1>1. {} \in C
  BY SumEmpty
<1>2. ASSUME NEW T \in SUBSET S, NEW x \in T, T \ {x} \in C
      PROVE  T \in C
  <2>1. SumFunctionOnSet(f, T) = f[x] + SumFunctionOnSet(f, T \ {x})
    BY SumTake, FS_Subset
  <2> QED BY <2>1, <1>2
<1>3. S \in C
  <2> HIDE DEF C
  <2> QED BY <1>1, <1>2, ElementInduction
<1> QED BY <1>3

\* Functions that agree on the set have the same sum.
LEMMA SumCongruence ==
  ASSUME NEW f, NEW g, NEW S, IsFiniteSet(S), \A x \in S : f[x] = g[x] /\ f[x] \in Int
  PROVE  SumFunctionOnSet(f, S) = SumFunctionOnSet(g, S)
<1> DEFINE C == {T \in SUBSET S : SumFunctionOnSet(f, T) = SumFunctionOnSet(g, T)}
<1>1. {} \in C
  BY SumEmpty
<1>2. ASSUME NEW T \in SUBSET S, NEW x \in T, T \ {x} \in C
      PROVE  T \in C
  <2>1. SumFunctionOnSet(f, T) = f[x] + SumFunctionOnSet(f, T \ {x})
    BY SumTake, FS_Subset
  <2>2. SumFunctionOnSet(g, T) = g[x] + SumFunctionOnSet(g, T \ {x})
    BY SumTake, FS_Subset
  <2> QED BY <2>1, <2>2, <1>2
<1>3. S \in C
  <2> HIDE DEF C
  <2> QED BY <1>1, <1>2, ElementInduction
<1> QED BY <1>3

\* SELECT SUM over the rows of two disjoint sets.
LEMMA SumUnion ==
  ASSUME NEW f, NEW S, NEW T, IsFiniteSet(S), IsFiniteSet(T), S \intersect T = {},
         \A x \in S \union T : f[x] \in Int
  PROVE  SumFunctionOnSet(f, S \union T) = SumFunctionOnSet(f, S) + SumFunctionOnSet(f, T)
<1> DEFINE Sum(A) == SumFunctionOnSet(f, A)
           C == {A \in SUBSET S : Sum(A \union T) = Sum(A) + Sum(T)}
<1>0. Sum(T) \in Int
  BY SumRemove
<1>1. {} \in C
  <2>1. Sum({} \union T) = Sum(T) /\ Sum({}) = 0
    BY SumEmpty
  <2> HIDE DEF Sum
  <2> QED BY <1>0, <2>1
<1>2. ASSUME NEW A \in SUBSET S, NEW x \in A, A \ {x} \in C
      PROVE  A \in C
  <2>1. IsFiniteSet(A) /\ IsFiniteSet(A \union T)
    BY FS_Subset, FS_Union
  <2>2. Sum(A) = f[x] + Sum(A \ {x}) /\ f[x] \in Int /\ Sum(A \ {x}) \in Int
    <3>1. \A y \in A : f[y] \in Int
      OBVIOUS
    <3> HIDE DEF C
    <3>2. SumFunctionOnSet(f, A) = f[x] + SumFunctionOnSet(f, A \ {x})
      BY <2>1, <3>1, SumTake
    <3>3. SumFunctionOnSet(f, A \ {x}) \in Int
      BY <2>1, <3>1, SumTake
    <3> QED BY <3>1, <3>2, <3>3
  <2>3. Sum(A \union T) = f[x] + Sum((A \union T) \ {x})
    <3>1. \A y \in A \union T : f[y] \in Int
      OBVIOUS
    <3> QED BY <2>1, <3>1, SumTake
  <2>4. (A \union T) \ {x} = (A \ {x}) \union T
    OBVIOUS
  <2>5. Sum((A \ {x}) \union T) = Sum(A \ {x}) + Sum(T)
    BY <1>2
  <2>6. Sum(A \union T) = f[x] + (Sum(A \ {x}) + Sum(T))
    BY <2>3, <2>4, <2>5
  <2> HIDE DEF Sum
  <2>7. Sum(A \union T) = Sum(A) + Sum(T)
    BY <1>0, <2>2, <2>6
  <2> QED BY <2>7 DEF Sum
<1>3. S \in C
  <2> HIDE DEF C
  <2> QED BY <1>1, <1>2, ElementInduction
<1> QED BY <1>3

\* More rows never make a sum of natural numbers smaller.
LEMMA SumMonotone ==
  ASSUME NEW f, NEW S, NEW T, IsFiniteSet(S), T \subseteq S, \A x \in S : f[x] \in Nat
  PROVE  SumFunctionOnSet(f, T) <= SumFunctionOnSet(f, S)
<1>1. IsFiniteSet(T) /\ IsFiniteSet(S \ T) /\ T \union (S \ T) = S /\ T \intersect (S \ T) = {}
  BY FS_Subset
<1>2. SumFunctionOnSet(f, T \union (S \ T)) = SumFunctionOnSet(f, T) + SumFunctionOnSet(f, S \ T)
  BY <1>1, SumUnion
<1>3. SumFunctionOnSet(f, T) \in Nat /\ SumFunctionOnSet(f, S \ T) \in Nat
  BY <1>1, SumNat
<1>4. SumFunctionOnSet(f, S) = SumFunctionOnSet(f, T) + SumFunctionOnSet(f, S \ T)
  BY <1>1, <1>2
<1> QED BY <1>3, <1>4

\* A set counted by giving each element a one.
LEMMA SumOfOnes ==
  ASSUME NEW f, NEW S, IsFiniteSet(S), \A x \in S : f[x] = 1
  PROVE  SumFunctionOnSet(f, S) = Cardinality(S)
<1> DEFINE C == {T \in SUBSET S : SumFunctionOnSet(f, T) = Cardinality(T)}
<1>1. {} \in C
  BY SumEmpty, FS_EmptySet
<1>2. ASSUME NEW T \in SUBSET S, NEW x \in T, T \ {x} \in C
      PROVE  T \in C
  <2>1. IsFiniteSet(T) /\ Cardinality(T) \in Nat
    BY FS_Subset, FS_CardinalityType
  <2>2. SumFunctionOnSet(f, T) = 1 + SumFunctionOnSet(f, T \ {x})
    BY <2>1, SumTake
  <2>3. Cardinality(T \ {x}) = Cardinality(T) - 1
    BY <2>1, FS_RemoveElement
  <2> QED BY <2>1, <2>2, <2>3, <1>2
<1>3. S \in C
  <2> HIDE DEF C
  <2> QED BY <1>1, <1>2, ElementInduction
<1> QED BY <1>3

\* The sum of two functions, element by element.
LEMMA SumPlus ==
  ASSUME NEW f, NEW g, NEW h, NEW S, IsFiniteSet(S),
         \A x \in S : f[x] \in Int /\ g[x] \in Int /\ h[x] = f[x] + g[x]
  PROVE  SumFunctionOnSet(h, S) = SumFunctionOnSet(f, S) + SumFunctionOnSet(g, S)
<1> DEFINE C == {T \in SUBSET S : SumFunctionOnSet(h, T) = SumFunctionOnSet(f, T) + SumFunctionOnSet(g, T)}
<1>1. {} \in C
  BY SumEmpty
<1>2. ASSUME NEW T \in SUBSET S, NEW x \in T, T \ {x} \in C
      PROVE  T \in C
  <2>1. IsFiniteSet(T)
    BY FS_Subset
  <2>2. /\ SumFunctionOnSet(f, T) = f[x] + SumFunctionOnSet(f, T \ {x})
        /\ SumFunctionOnSet(f, T \ {x}) \in Int
    <3>1. \A y \in T : f[y] \in Int
      OBVIOUS
    <3>2. SumFunctionOnSet(f, T) = f[x] + SumFunctionOnSet(f, T \ {x})
      BY <2>1, <3>1, SumTake
    <3>3. SumFunctionOnSet(f, T \ {x}) \in Int
      BY <2>1, <3>1, SumTake
    <3> QED BY <3>2, <3>3
  <2>3. /\ SumFunctionOnSet(g, T) = g[x] + SumFunctionOnSet(g, T \ {x})
        /\ SumFunctionOnSet(g, T \ {x}) \in Int
    <3>1. \A y \in T : g[y] \in Int
      OBVIOUS
    <3>2. SumFunctionOnSet(g, T) = g[x] + SumFunctionOnSet(g, T \ {x})
      BY <2>1, <3>1, SumTake
    <3>3. SumFunctionOnSet(g, T \ {x}) \in Int
      BY <2>1, <3>1, SumTake
    <3> QED BY <3>2, <3>3
  <2>4. SumFunctionOnSet(h, T) = h[x] + SumFunctionOnSet(h, T \ {x})
    <3>1. \A y \in T : h[y] \in Int
      OBVIOUS
    <3> QED BY <2>1, <3>1, SumTake
  <2> QED BY <2>1, <2>2, <2>3, <2>4, <1>2
<1>3. S \in C
  <2> HIDE DEF C
  <2> QED BY <1>1, <1>2, ElementInduction
<1> QED BY <1>3

\* A sum over the image T of S under an injection h is the sum over S.
LEMMA SumImage ==
  ASSUME NEW f, NEW g, NEW h, NEW S, NEW T, IsFiniteSet(S),
         \A x \in S : h[x] \in T /\ f[x] \in Int /\ g[h[x]] = f[x],
         \A y \in T : \E x \in S : y = h[x],
         \A x, y \in S : h[x] = h[y] => x = y
  PROVE  IsFiniteSet(T) /\ SumFunctionOnSet(g, T) = SumFunctionOnSet(f, S)
<1> DEFINE Im(A) == {h[x] : x \in A}
           C == {A \in SUBSET S : /\ IsFiniteSet(Im(A))
                                  /\ SumFunctionOnSet(g, Im(A)) = SumFunctionOnSet(f, A)}
<1>1. {} \in C
  <2>1. Im({}) = {}
    OBVIOUS
  <2> QED BY <2>1, SumEmpty, FS_EmptySet
<1>2. ASSUME NEW A \in SUBSET S, NEW x \in A, A \ {x} \in C
      PROVE  A \in C
  <2>1. Im(A) = Im(A \ {x}) \union {h[x]} /\ Im(A) \ {h[x]} = Im(A \ {x})
    OBVIOUS
  <2>2. IsFiniteSet(Im(A))
    <3>1. IsFiniteSet(Im(A \ {x}))
      BY <1>2
    <3>2. IsFiniteSet(Im(A \ {x}) \union {h[x]})
      <4> HIDE DEF Im
      <4> QED BY <3>1, FS_AddElement
    <3> QED BY <2>1, <3>2
  <2>3. (\A y \in Im(A) : g[y] \in Int) /\ h[x] \in Im(A)
    OBVIOUS
  <2>4. SumFunctionOnSet(g, Im(A)) = g[h[x]] + SumFunctionOnSet(g, Im(A) \ {h[x]})
    <3> HIDE DEF Im
    <3> QED BY <2>2, <2>3, SumTake
  <2>5. SumFunctionOnSet(f, A) = f[x] + SumFunctionOnSet(f, A \ {x})
    BY SumTake, FS_Subset
  <2>6. SumFunctionOnSet(g, Im(A \ {x})) = SumFunctionOnSet(f, A \ {x}) /\ g[h[x]] = f[x]
    BY <1>2
  <2>7. SumFunctionOnSet(g, Im(A)) = SumFunctionOnSet(f, A)
    <3> HIDE DEF Im
    <3> QED BY <2>1, <2>4, <2>5, <2>6
  <2> QED BY <2>2, <2>7
<1>3. S \in C
  <2> HIDE DEF C
  <2> QED BY <1>1, <1>2, ElementInduction
<1>4. Im(S) = T
  OBVIOUS
<1> QED BY <1>3, <1>4

\* h sends the elements of S into K, and G[k] is the group of those sent to k.
GroupedBy(G, h, S, K) ==
  /\ \A x \in S : h[x] \in K
  /\ \A k \in K : \A x : x \in G[k] <=> x \in S /\ h[x] = k

\* GROUP BY: the sums of the groups add up to the sum of all rows.
LEMMA SumGroups ==
  ASSUME NEW f, NEW h, NEW g, NEW G, NEW S, NEW K, IsFiniteSet(S), IsFiniteSet(K),
         \A x \in S : f[x] \in Int,
         GroupedBy(G, h, S, K),
         \A k \in K : g[k] = SumFunctionOnSet(f, G[k])
  PROVE  SumFunctionOnSet(g, K) = SumFunctionOnSet(f, S)
<1> DEFINE Group(k) == {x \in S : h[x] = k}
           Rows(L) == {x \in S : h[x] \in L}
           C == {L \in SUBSET K : SumFunctionOnSet(g, L) = SumFunctionOnSet(f, Rows(L))}
<1>1. {} \in C
  <2>1. Rows({}) = {}
    OBVIOUS
  <2> QED BY <2>1, SumEmpty
<1>2. \A k \in K : g[k] \in Int
  <2>1. ASSUME NEW k \in K PROVE g[k] \in Int
    <3>1. G[k] \subseteq S
      BY DEF GroupedBy
    <3>2. IsFiniteSet(G[k]) /\ \A x \in G[k] : f[x] \in Int
      BY <3>1, FS_Subset
    <3> QED BY <3>2, SumRemove
  <2> QED BY <2>1
<1>3. ASSUME NEW L \in SUBSET K, NEW k \in L, L \ {k} \in C
      PROVE  L \in C
  <2>1. SumFunctionOnSet(g, L) = g[k] + SumFunctionOnSet(g, L \ {k})
    BY <1>2, SumTake, FS_Subset
  <2>2. /\ Rows(L) = Group(k) \union Rows(L \ {k})
        /\ Group(k) \intersect Rows(L \ {k}) = {}
    OBVIOUS
  <2>3. IsFiniteSet(Group(k)) /\ IsFiniteSet(Rows(L \ {k}))
    BY FS_Subset
  <2>4. \A x \in Group(k) \union Rows(L \ {k}) : f[x] \in Int
    OBVIOUS
  <2>5. SumFunctionOnSet(f, Group(k) \union Rows(L \ {k}))
          = SumFunctionOnSet(f, Group(k)) + SumFunctionOnSet(f, Rows(L \ {k}))
    <3> HIDE DEF Group, Rows
    <3> QED BY <2>2, <2>3, <2>4, SumUnion
  <2>6. g[k] = SumFunctionOnSet(f, Group(k))
    <3>1. G[k] = Group(k)
      BY DEF GroupedBy
    <3> QED BY <3>1
  <2>7. SumFunctionOnSet(g, L \ {k}) = SumFunctionOnSet(f, Rows(L \ {k}))
    BY <1>3
  <2>8. SumFunctionOnSet(g, L) = SumFunctionOnSet(f, Rows(L))
    <3> HIDE DEF Group, Rows
    <3> QED BY <2>1, <2>2, <2>5, <2>6, <2>7
  <2> QED BY <2>8
<1>4. K \in C
  <2> HIDE DEF C
  <2> QED BY <1>1, <1>3, ElementInduction
<1>5. Rows(K) = S
  BY DEF GroupedBy
<1> QED BY <1>4, <1>5
=============================================================================
