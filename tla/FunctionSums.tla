---------------------------- MODULE FunctionSums ----------------------------
(***************************************************************************)
(* What the sums of the community modules over finite sets are, proved by   *)
(* induction over the subsets of the set.  The induction theorems of the    *)
(* library take a predicate, which the provers here cannot instantiate; the *)
(* predicate is a set instead, the set of the good subsets, and a subset    *)
(* that is not good and of the least size is a contradiction.  The fold is  *)
(* defined by choice of a recursive function, so that one exists and that   *)
(* it is unique is proved first.                                            *)
(***************************************************************************)
EXTENDS Integers, FiniteSets, Functions, FiniteSetTheorems, WellFoundedInduction, TLAPS

(* The order of the naturals, as a relation. *)
Below == {pair \in Nat \X Nat : pair[1] < pair[2]}

(* A set of naturals that is not empty has a least element. *)
LEMMA LeastNatural ==
  ASSUME NEW T, T \subseteq Nat, T # {}
  PROVE  \E n \in T : \A m \in T : n <= m
<1>1. IsWellFoundedOn(Below, Nat)
  BY NatLessThanWellFounded DEF OpToRel, Below
<1>2. PICK n \in T : \A m \in T : ~ (<<m, n>> \in Below)
  BY <1>1, WFMin
<1>3. \A m \in T : n \in Nat /\ m \in Nat
  OBVIOUS
<1>4. \A m \in T : m < n => <<m, n>> \in Below
  BY <1>3 DEF Below
<1>5. \A m \in T : ~ (m < n)
  BY <1>2, <1>4
<1> QED BY <1>3, <1>5

(* Induction over a finite set, stated of a set of its subsets: if a subset is *)
(* good whenever its proper subsets are, then every subset is good.            *)
LEMMA ByProperSubsets ==
  ASSUME NEW S, IsFiniteSet(S), NEW Good,
         \A U \in SUBSET S : (\A V \in SUBSET U : V # U => V \in Good) => U \in Good
  PROVE  \A U \in SUBSET S : U \in Good
<1> DEFINE Bad == {U \in SUBSET S : U \notin Good}
           Sizes == {Cardinality(U) : U \in Bad}
<1>1. \A U \in SUBSET S : IsFiniteSet(U) /\ Cardinality(U) \in Nat
  BY FS_Subset, FS_CardinalityType
<1>2. SUFFICES ASSUME Bad # {} PROVE FALSE
  OBVIOUS
<1>3. Sizes \subseteq Nat /\ Sizes # {}
  BY <1>1, <1>2
<1>4. PICK n \in Sizes : \A m \in Sizes : n <= m
  BY <1>3, LeastNatural
<1>5. PICK U \in Bad : n = Cardinality(U)
  BY <1>4
<1>6. ASSUME NEW V \in SUBSET U, V # U PROVE V \in Good
  <2>1. IsFiniteSet(U) /\ V \in SUBSET S /\ Cardinality(V) \in Nat /\ Cardinality(U) \in Nat
    BY <1>1
  <2>2. Cardinality(V) <= Cardinality(U) /\ Cardinality(V) # Cardinality(U)
    BY <1>6, <2>1, FS_Subset
  <2>3. V \in Bad => Cardinality(V) \in Sizes
    OBVIOUS
  <2>4. ~ (n <= Cardinality(V))
    BY <1>5, <2>1, <2>2
  <2> HIDE DEF Sizes
  <2>5. V \notin Bad
    BY <1>4, <2>3, <2>4
  <2> QED BY <2>1, <2>5
<1> QED BY <1>6

-----------------------------------------------------------------------------

First(T) == CHOOSE x \in T : TRUE

Step(f, g, T) == IF T = {} THEN 0 ELSE f[First(T)] + g[T \ {First(T)}]

Unfolds(f, S, g) == g = [T \in SUBSET S |-> Step(f, g, T)]

(* The member a sum takes first is one of the set. *)
LEMMA FirstIn ==
  ASSUME NEW T, T # {}
  PROVE  First(T) \in T
BY DEF First

(* What it means for g to unfold the sums of f, at one subset. *)
LEMMA UnfoldsAt ==
  ASSUME NEW f, NEW S, NEW g, Unfolds(f, S, g), NEW T \in SUBSET S
  PROVE  g[T] = Step(f, g, T)
BY DEF Unfolds

(* Two functions that unfold the sums of f agree on every finite set of both. *)
LEMMA UnfoldsOnce ==
  ASSUME NEW f, NEW S, NEW R, NEW g, NEW h, Unfolds(f, S, g), Unfolds(f, R, h),
         NEW T, IsFiniteSet(T), T \subseteq S, T \subseteq R
  PROVE  g[T] = h[T]
<1> DEFINE Good == {U \in SUBSET T : g[U] = h[U]}
<1>1. ASSUME NEW U \in SUBSET T, \A V \in SUBSET U : V # U => V \in Good
      PROVE  U \in Good
  <2>1. g[U] = Step(f, g, U) /\ h[U] = Step(f, h, U)
    BY UnfoldsAt
  <2>2. U # {} => U \ {First(U)} \in Good
    BY <1>1, FirstIn
  <2>3. U # {} => g[U \ {First(U)}] = h[U \ {First(U)}]
    BY <2>2
  <2> QED BY <2>1, <2>3 DEF Step
<1> HIDE DEF Good
<1>2. T \in Good
  BY <1>1, ByProperSubsets
<1> QED BY <1>2 DEF Good

(* On a finite set there is a function that unfolds the sums of f, built from *)
(* those of its proper subsets.                                               *)
LEMMA UnfoldsSomehow ==
  ASSUME NEW f, NEW S, IsFiniteSet(S)
  PROVE  \E g : Unfolds(f, S, g)
<1> DEFINE Good == {U \in SUBSET S : \E g : Unfolds(f, U, g)}
<1>1. ASSUME NEW U \in SUBSET S, \A V \in SUBSET U : V # U => V \in Good
      PROVE  U \in Good
  <2> DEFINE own(V) == CHOOSE g : Unfolds(f, V, g)
             whole == [V \in SUBSET U |-> Step(f, own(V \ {First(V)}), V)]
  <2>1. \A V \in SUBSET U : V # U => Unfolds(f, V, own(V))
    BY <1>1
  <2>2. ASSUME NEW V \in SUBSET U, V # U PROVE whole[V] = own(V)[V]
    <3> DEFINE W == V \ {First(V)}
    <3>1. whole[V] = Step(f, own(W), V)
      OBVIOUS
    <3>2. Unfolds(f, V, own(V))
      BY <2>1, <2>2
    <3> HIDE DEF own, whole
    <3>3. own(V)[V] = Step(f, own(V), V)
      BY <3>2, UnfoldsAt
    <3>4. V # {} => own(W)[W] = own(V)[W]
      <4>1. W \in SUBSET U /\ W # U /\ W \subseteq V /\ IsFiniteSet(W)
        BY <2>2, FS_Subset
      <4> HIDE DEF W
      <4>2. Unfolds(f, W, own(W))
        BY <2>1, <4>1
      <4> QED BY <3>2, <4>1, <4>2, UnfoldsOnce
    <3> QED BY <3>1, <3>3, <3>4 DEF Step
  <2>3. ASSUME NEW V \in SUBSET U PROVE whole[V] = Step(f, whole, V)
    <3> DEFINE W == V \ {First(V)}
    <3>1. whole[V] = Step(f, own(W), V)
      OBVIOUS
    <3>2. V # {} => W \in SUBSET U /\ W # U
      BY FirstIn
    <3>3. V # {} => whole[W] = own(W)[W]
      BY <2>2, <3>2
    <3> HIDE DEF own, whole
    <3> QED BY <3>1, <3>3 DEF Step
  <2>4. whole = [V \in SUBSET U |-> whole[V]]
    OBVIOUS
  <2>5. Unfolds(f, U, whole)
    <3> HIDE DEF whole
    <3> QED BY <2>3, <2>4 DEF Unfolds
  <2> QED BY <2>5
<1> HIDE DEF Good
<1>2. S \in Good
  BY <1>1, ByProperSubsets
<1> QED BY <1>2 DEF Good

-----------------------------------------------------------------------------

(* The fold of the community modules is the value of one that unfolds, by its *)
(* definition.                                                                *)
LEMMA SumIsChosen ==
  ASSUME NEW f, NEW S
  PROVE  SumFunctionOnSet(f, S) = (CHOOSE g : Unfolds(f, S, g))[S]
BY DEF SumFunctionOnSet, FoldFunctionOnSet, MapThenFoldSet, Unfolds, Step, First

(* So the sum over a finite set is its first term and the sum over the rest. *)
LEMMA SumUnfolds ==
  ASSUME NEW f, NEW S, IsFiniteSet(S)
  PROVE  SumFunctionOnSet(f, S) =
           IF S = {} THEN 0 ELSE f[First(S)] + SumFunctionOnSet(f, S \ {First(S)})
<1> DEFINE own(T) == CHOOSE g : Unfolds(f, T, g)
           R == S \ {First(S)}
<1>1. IsFiniteSet(R) /\ R \subseteq S
  BY FS_Subset
<1>2. Unfolds(f, S, own(S)) /\ Unfolds(f, R, own(R))
  BY <1>1, UnfoldsSomehow
<1>3. SumFunctionOnSet(f, S) = own(S)[S] /\ SumFunctionOnSet(f, R) = own(R)[R]
  BY SumIsChosen
<1> HIDE DEF own, R
<1>4. own(S)[S] = Step(f, own(S), S)
  BY <1>2, UnfoldsAt
<1>5. own(S)[R] = own(R)[R]
  BY <1>1, <1>2, UnfoldsOnce
<1> QED BY <1>3, <1>4, <1>5 DEF Step, R

(* The sum over no term is zero. *)
LEMMA SumEmpty ==
  ASSUME NEW f
  PROVE  SumFunctionOnSet(f, {}) = 0
BY SumUnfolds, FS_EmptySet

(* A sum of integers is an integer. *)
LEMMA SumType ==
  ASSUME NEW S, IsFiniteSet(S), NEW f, \A x \in S : f[x] \in Int
  PROVE  SumFunctionOnSet(f, S) \in Int
<1> DEFINE Good == {U \in SUBSET S : SumFunctionOnSet(f, U) \in Int}
<1>1. ASSUME NEW U \in SUBSET S, \A V \in SUBSET U : V # U => V \in Good
      PROVE  U \in Good
  <2>1. IsFiniteSet(U)
    BY FS_Subset
  <2>2. U # {} => U \ {First(U)} \in Good /\ f[First(U)] \in Int
    BY <1>1, FirstIn
  <2> QED BY <2>1, <2>2, SumUnfolds
<1> HIDE DEF Good
<1>2. S \in Good
  BY <1>1, ByProperSubsets
<1> QED BY <1>2 DEF Good

(* Any term may be taken first. *)
LEMMA SumRemove ==
  ASSUME NEW S, IsFiniteSet(S), NEW f, \A x \in S : f[x] \in Int, NEW x \in S
  PROVE  SumFunctionOnSet(f, S) = f[x] + SumFunctionOnSet(f, S \ {x})
<1> DEFINE Splits(U, y) == SumFunctionOnSet(f, U) = f[y] + SumFunctionOnSet(f, U \ {y})
           Good == {U \in SUBSET S : \A y \in U : Splits(U, y)}
<1>1. ASSUME NEW U \in SUBSET S, \A V \in SUBSET U : V # U => V \in Good
      PROVE  U \in Good
  <2> SUFFICES ASSUME NEW y \in U PROVE Splits(U, y)
    OBVIOUS
  <2>1. IsFiniteSet(U)
    BY FS_Subset
  <2> DEFINE z == First(U)
             A == U \ {z}
             B == U \ {y}
             C == (U \ {z}) \ {y}
  <2>2. z \in U
    BY FirstIn
  <2>3. Splits(U, z)
    BY <2>1, SumUnfolds
  <2>4. CASE y = z
    BY <2>3, <2>4
  <2>5. CASE y # z
    <3>1. A \in Good /\ B \in Good /\ y \in A /\ z \in B
      BY <1>1, <2>2, <2>5
    <3>2. C = B \ {z}
      OBVIOUS
    <3>3. Splits(A, y) /\ Splits(B, z)
      BY <3>1
    <3>4. IsFiniteSet(C) /\ \A w \in C : f[w] \in Int
      BY FS_Subset
    <3>5. SumFunctionOnSet(f, C) \in Int /\ f[y] \in Int /\ f[z] \in Int
      BY <2>2, <3>4, SumType
    <3> HIDE DEF z, Good, A, B
    <3>6. /\ SumFunctionOnSet(f, A) = f[y] + SumFunctionOnSet(f, C)
          /\ SumFunctionOnSet(f, B) = f[z] + SumFunctionOnSet(f, C)
          /\ SumFunctionOnSet(f, U) = f[z] + SumFunctionOnSet(f, A)
      BY <2>3, <3>2, <3>3 DEF A
    <3> QED BY <3>5, <3>6 DEF B
  <2> QED BY <2>4, <2>5
<1> HIDE DEF Good
<1>2. S \in Good
  BY <1>1, ByProperSubsets
<1> QED BY <1>2 DEF Good

(* Sums of equal terms are equal. *)
LEMMA SumSame ==
  ASSUME NEW S, IsFiniteSet(S), NEW f, NEW g, \A x \in S : f[x] = g[x]
  PROVE  SumFunctionOnSet(f, S) = SumFunctionOnSet(g, S)
<1> DEFINE Good == {U \in SUBSET S : SumFunctionOnSet(f, U) = SumFunctionOnSet(g, U)}
<1>1. ASSUME NEW U \in SUBSET S, \A V \in SUBSET U : V # U => V \in Good
      PROVE  U \in Good
  <2>1. IsFiniteSet(U)
    BY FS_Subset
  <2>2. U # {} => U \ {First(U)} \in Good /\ f[First(U)] = g[First(U)]
    BY <1>1, FirstIn
  <2> QED BY <2>1, <2>2, SumUnfolds
<1> HIDE DEF Good
<1>2. S \in Good
  BY <1>1, ByProperSubsets
<1> QED BY <1>2 DEF Good

(* A sum whose terms differ in one place differs by what they differ there. *)
LEMMA SumChange ==
  ASSUME NEW S, IsFiniteSet(S), NEW f, NEW g, NEW x \in S,
         \A y \in S : f[y] \in Int /\ g[y] \in Int,
         \A y \in S \ {x} : g[y] = f[y]
  PROVE  SumFunctionOnSet(g, S) = SumFunctionOnSet(f, S) + g[x] - f[x]
<1>1. IsFiniteSet(S \ {x}) /\ \A y \in S \ {x} : f[y] \in Int
  BY FS_Subset
<1>2. SumFunctionOnSet(f, S \ {x}) = SumFunctionOnSet(g, S \ {x})
  BY <1>1, SumSame
<1>3. SumFunctionOnSet(f, S \ {x}) \in Int
  BY <1>1, SumType
<1>4. /\ SumFunctionOnSet(f, S) = f[x] + SumFunctionOnSet(f, S \ {x})
      /\ SumFunctionOnSet(g, S) = g[x] + SumFunctionOnSet(g, S \ {x})
  BY SumRemove
<1> QED BY <1>2, <1>3, <1>4

(* A sum of zeros is zero. *)
LEMMA SumZero ==
  ASSUME NEW S, IsFiniteSet(S), NEW f, \A x \in S : f[x] = 0
  PROVE  SumFunctionOnSet(f, S) = 0
<1> DEFINE Good == {U \in SUBSET S : SumFunctionOnSet(f, U) = 0}
<1>1. ASSUME NEW U \in SUBSET S, \A V \in SUBSET U : V # U => V \in Good
      PROVE  U \in Good
  <2>1. IsFiniteSet(U)
    BY FS_Subset
  <2>2. U # {} => U \ {First(U)} \in Good /\ f[First(U)] = 0
    BY <1>1, FirstIn
  <2> QED BY <2>1, <2>2, SumUnfolds
<1> HIDE DEF Good
<1>2. S \in Good
  BY <1>1, ByProperSubsets
<1> QED BY <1>2 DEF Good

(* A sum of naturals is a natural. *)
LEMMA SumNatural ==
  ASSUME NEW S, IsFiniteSet(S), NEW f, \A x \in S : f[x] \in Nat
  PROVE  SumFunctionOnSet(f, S) \in Nat
<1> DEFINE Good == {U \in SUBSET S : SumFunctionOnSet(f, U) \in Nat}
<1>1. ASSUME NEW U \in SUBSET S, \A V \in SUBSET U : V # U => V \in Good
      PROVE  U \in Good
  <2>1. IsFiniteSet(U)
    BY FS_Subset
  <2>2. U # {} => U \ {First(U)} \in Good /\ f[First(U)] \in Nat
    BY <1>1, FirstIn
  <2> QED BY <2>1, <2>2, SumUnfolds
<1> HIDE DEF Good
<1>2. S \in Good
  BY <1>1, ByProperSubsets
<1> QED BY <1>2 DEF Good

-----------------------------------------------------------------------------
(* The same facts of a function's sum over its whole domain.                 *)

(* The same of SumFunction, the sum over the domain: its type, *)
LEMMA SumOfIntegers ==
  ASSUME NEW S, IsFiniteSet(S), NEW f \in [S -> Int]
  PROVE  SumFunction(f) \in Int
BY SumType DEF SumFunction

(* its sign, *)
LEMMA SumOfNaturals ==
  ASSUME NEW S, IsFiniteSet(S), NEW f \in [S -> Nat]
  PROVE  SumFunction(f) \in Nat
BY SumNatural DEF SumFunction

(* its value when every term is zero, *)
LEMMA SumOfZeros ==
  ASSUME NEW S, IsFiniteSet(S), NEW f, DOMAIN f = S, \A x \in S : f[x] = 0
  PROVE  SumFunction(f) = 0
BY SumZero DEF SumFunction

(* that it depends on the terms alone, *)
LEMMA SumOfEquals ==
  ASSUME NEW S, IsFiniteSet(S), NEW f, NEW g, DOMAIN f = S, DOMAIN g = S,
         \A x \in S : f[x] = g[x]
  PROVE  SumFunction(f) = SumFunction(g)
BY SumSame DEF SumFunction

(* and what it becomes when one term changes: what a row of a table adds to a *)
(* total, the fact every book-keeping proof needs.                            *)
THEOREM SumOfChange ==
  ASSUME NEW S, IsFiniteSet(S), NEW f \in [S -> Int], NEW g \in [S -> Int], NEW x \in S,
         \A y \in S \ {x} : g[y] = f[y]
  PROVE  SumFunction(g) = SumFunction(f) + g[x] - f[x]
BY SumChange DEF SumFunction

=============================================================================
