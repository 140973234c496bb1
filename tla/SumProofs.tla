----------------------------- MODULE SumProofs -------------------------------
(***************************************************************************)
(* What the proofs about in-flight sums need to know of SumFunctionOnSet:  *)
(* it is a number, it grows and shrinks by an element's value with the     *)
(* element, and it depends on the values of its elements only.             *)
(*                                                                         *)
(* The library's induction theorems take an operator, which the provers    *)
(* cannot instantiate; here induction speaks of a set of numbers, whose    *)
(* least missing one is refuted.                                           *)
(***************************************************************************)
EXTENDS Functions, FiniteSetTheorems, TLAPS

\* Every set of numbers that is not empty has a least element.
LEMMA LeastNumber ==
  ASSUME NEW T, T \subseteq Nat, T # {}
  PROVE  \E x \in T : \A y \in T : x <= y
  <1>1. \E R : IsWellFoundedOn(R, Nat) /\ \A x, y \in Nat : <<y, x>> \in R <=> y < x
    <2> DEFINE R == OpToRel(<, Nat)
    <2>1. IsWellFoundedOn(R, Nat)
      BY NatLessThanWellFounded
    <2>2. \A x, y \in Nat : <<y, x>> \in R <=> y < x
      BY DEF OpToRel
    <2> HIDE DEF R
    <2> QED BY <2>1, <2>2
  <1>2. PICK R : IsWellFoundedOn(R, Nat) /\ \A x, y \in Nat : <<y, x>> \in R <=> y < x
    BY <1>1
  <1>3. PICK x \in T : \A y \in T : ~ (<<y, x>> \in R)
    BY <1>2, WFMin
  <1>4. ASSUME NEW y \in T PROVE x <= y
    <2>1. x \in Nat /\ y \in Nat /\ ~ (<<y, x>> \in R)
      BY <1>3
    <2>2. ~ (y < x)
      BY <1>2, <2>1
    <2> QED BY <2>1, <2>2
  <1> QED BY <1>4

\* Induction over a set of numbers.
LEMMA SetInduction ==
  ASSUME NEW G, 0 \in G, \A n \in Nat : n \in G => n + 1 \in G
  PROVE  Nat \subseteq G
  <1> SUFFICES ASSUME Nat \ G # {} PROVE FALSE
      OBVIOUS
  <1>1. PICK x \in Nat \ G : \A y \in Nat \ G : x <= y
    <2>1. Nat \ G \subseteq Nat
      OBVIOUS
    <2> QED BY <2>1, LeastNumber
  <1>2. x # 0 /\ x - 1 \in Nat /\ x - 1 + 1 = x
    BY <1>1
  <1>3. x - 1 \in G
    BY <1>1, <1>2
  <1> QED BY <1>1, <1>2, <1>3

------------------------------------------------------------------------------

Pick(s) == CHOOSE x \in s : TRUE

\* One level of the sum's recursion, by g for the smaller sets.
Level(f, g, s) == IF s = {} THEN 0 ELSE f[Pick(s)] + g[s \ {Pick(s)}]

\* g holds the sums of f over the subsets of S.
SumsUp(g, f, S) == g = [s \in SUBSET S |-> Level(f, g, s)]

SumFcn(f, S) == CHOOSE g : SumsUp(g, f, S)

\* The library's definition, with its recursive function as a CHOOSE.
LEMMA SumIsChosen ==
  ASSUME NEW f, NEW S
  PROVE  SumFunctionOnSet(f, S) = SumFcn(f, S)[S]
  BY DEF SumFunctionOnSet, FoldFunctionOnSet, MapThenFoldSet, SumFcn, SumsUp, Level, Pick

\* A finite set's subsets can be taken by their number of elements.
LEMMA RemoveOne ==
  ASSUME NEW S, IsFiniteSet(S), NEW n \in Nat, NEW s \in SUBSET S, Cardinality(s) = n + 1, NEW x \in s
  PROVE  s \ {x} \in SUBSET S /\ Cardinality(s \ {x}) = n
  <1>1. IsFiniteSet(s)
    BY FS_Subset
  <1> QED BY <1>1, FS_RemoveElement

\* A subset of a finite set can be counted, and picks an element unless it is empty.
LEMMA SubsetCounts ==
  ASSUME NEW S, IsFiniteSet(S), NEW s \in SUBSET S
  PROVE  /\ IsFiniteSet(s) /\ Cardinality(s) \in Nat
         /\ Cardinality(s) = 0 <=> s = {}
         /\ s # {} => Pick(s) \in s
  <1>1. IsFiniteSet(s)
    BY FS_Subset
  <1> QED BY <1>1, FS_CardinalityType, FS_EmptySet DEF Pick

\* There is such a function: it is built for sets of one more element at a time.
LEMMA SumsExist ==
  ASSUME NEW f, NEW S, IsFiniteSet(S)
  PROVE  \E g : SumsUp(g, f, S)
  <1> DEFINE D(n) == {s \in SUBSET S : Cardinality(s) <= n}
             Good(g, n) == g = [s \in D(n) |-> Level(f, g, s)]
             G == {n \in Nat : \E g : Good(g, n)}
  <1>1. 0 \in G
    <2>1. D(0) = {{}}
      BY SubsetCounts, FS_EmptySet
    <2>2. Good([s \in D(0) |-> 0], 0)
      BY <2>1 DEF Level
    <2> QED BY <2>2
  <1>2. ASSUME NEW n \in Nat, n \in G PROVE n + 1 \in G
    <2>1. PICK g : Good(g, n)
      BY <1>2
    <2> DEFINE h == [s \in D(n + 1) |-> Level(f, g, s)]
    <2>2. \A s \in D(n) : s \in D(n + 1) /\ h[s] = g[s]
      <3> SUFFICES ASSUME NEW s \in D(n) PROVE s \in D(n + 1) /\ h[s] = g[s]
          OBVIOUS
      <3>1. s \in D(n + 1)
        BY SubsetCounts
      <3>2. g[s] = Level(f, g, s)
        BY <2>1
      <3> QED BY <3>1, <3>2
    <2>3. \A s \in D(n + 1) : Level(f, h, s) = Level(f, g, s)
      <3> TAKE s \in D(n + 1)
      <3> SUFFICES ASSUME s # {} PROVE h[s \ {Pick(s)}] = g[s \ {Pick(s)}]
          <4> HIDE DEF h
          <4> QED BY DEF Level
      <3>1. Pick(s) \in s /\ IsFiniteSet(s) /\ Cardinality(s) \in Nat
        BY SubsetCounts
      <3>2. Cardinality(s \ {Pick(s)}) = Cardinality(s) - 1
        BY <3>1, FS_RemoveElement
      <3>3. s \ {Pick(s)} \in D(n)
        BY <3>1, <3>2
      <3> QED BY <2>2, <3>3
    <2> HIDE DEF D
    <2>4. Good(h, n + 1)
      BY <2>3
    <2> HIDE DEF Good
    <2> QED BY <2>4
  <1>3. Cardinality(S) \in G
    <2> HIDE DEF G
    <2> QED BY <1>1, <1>2, SetInduction, SubsetCounts
  <1>4. PICK g : Good(g, Cardinality(S))
    BY <1>3
  <1>5. D(Cardinality(S)) = SUBSET S
    BY FS_Subset
  <1> QED BY <1>4, <1>5 DEF SumsUp

\* SumFcn is one of the functions that sum up.
LEMMA SumFcnSumsUp ==
  ASSUME NEW f, NEW S, IsFiniteSet(S)
  PROVE  SumsUp(SumFcn(f, S), f, S)
  <1>1. \E g : SumsUp(g, f, S)
    BY SumsExist
  <1> HIDE DEF SumsUp
  <1> QED BY <1>1 DEF SumFcn

\* Which set it is built for makes no difference to a smaller one.
LEMMA SumsAgree ==
  ASSUME NEW f, NEW S, IsFiniteSet(S), NEW T \in SUBSET S, NEW g, NEW h,
         SumsUp(g, f, S), SumsUp(h, f, T)
  PROVE  g[T] = h[T]
  <1> DEFINE G == {n \in Nat : \A s \in SUBSET T : Cardinality(s) = n => g[s] = h[s]}
  <1>1. \A s \in SUBSET T : g[s] = Level(f, g, s) /\ h[s] = Level(f, h, s)
    BY DEF SumsUp
  <1>2. IsFiniteSet(T)
    BY FS_Subset
  <1>3. 0 \in G
    BY <1>1, <1>2, SubsetCounts DEF Level
  <1>4. ASSUME NEW n \in Nat, n \in G PROVE n + 1 \in G
    <2> SUFFICES ASSUME NEW s \in SUBSET T, Cardinality(s) = n + 1 PROVE g[s] = h[s]
        OBVIOUS
    <2>1. s # {} /\ Pick(s) \in s
      BY <1>2, SubsetCounts
    <2>2. s \ {Pick(s)} \in SUBSET T /\ Cardinality(s \ {Pick(s)}) = n
      BY <1>2, <2>1, RemoveOne
    <2>3. g[s \ {Pick(s)}] = h[s \ {Pick(s)}]
      BY <1>4, <2>2
    <2> QED BY <1>1, <2>1, <2>3 DEF Level
  <1>5. Nat \subseteq G
    <2> HIDE DEF G
    <2> QED BY <1>3, <1>4, SetInduction
  <1> QED BY <1>2, <1>5, SubsetCounts

\* So the sum is that of the set without the element picked first, and its value.
LEMMA SumUnfolds ==
  ASSUME NEW f, NEW S, IsFiniteSet(S)
  PROVE  /\ S = {} => SumFunctionOnSet(f, S) = 0
         /\ S # {} => /\ Pick(S) \in S
                      /\ SumFunctionOnSet(f, S)
                            = f[Pick(S)] + SumFunctionOnSet(f, S \ {Pick(S)})
  <1> DEFINE g == SumFcn(f, S)
             T == S \ {Pick(S)}
             h == SumFcn(f, T)
  <1>1. SumsUp(g, f, S) /\ g[S] = SumFunctionOnSet(f, S)
    BY SumFcnSumsUp, SumIsChosen
  <1>2. IsFiniteSet(T) /\ T \in SUBSET S
    BY FS_RemoveElement
  <1>3. SumsUp(h, f, T) /\ h[T] = SumFunctionOnSet(f, T)
    BY <1>2, SumFcnSumsUp, SumIsChosen
  <1> HIDE DEF g, h
  <1>4. g[T] = h[T]
    BY <1>1, <1>2, <1>3, SumsAgree
  <1>5. g[S] = Level(f, g, S)
    BY <1>1 DEF SumsUp
  <1>6. S # {} => Pick(S) \in S
    BY DEF Pick
  <1> QED BY <1>1, <1>3, <1>4, <1>5, <1>6 DEF Level

------------------------------------------------------------------------------
(* The laws *)

\* A sum of numbers is a number.
THEOREM SumType ==
  ASSUME NEW W, IsFiniteSet(W), NEW f \in [W -> Nat], NEW S \in SUBSET W
  PROVE  SumFunctionOnSet(f, S) \in Nat
  <1> DEFINE G == {n \in Nat : \A s \in SUBSET W :
                                  Cardinality(s) = n => SumFunctionOnSet(f, s) \in Nat}
  <1>1. 0 \in G
    BY SubsetCounts, SumUnfolds
  <1>2. ASSUME NEW n \in Nat, n \in G PROVE n + 1 \in G
    <2> SUFFICES ASSUME NEW s \in SUBSET W, Cardinality(s) = n + 1
                 PROVE  SumFunctionOnSet(f, s) \in Nat
        OBVIOUS
    <2> DEFINE t == s \ {Pick(s)}
    <2>1. s # {} /\ Pick(s) \in s /\ IsFiniteSet(s)
      BY SubsetCounts
    <2>2. t \in SUBSET W /\ Cardinality(t) = n
      BY <2>1, RemoveOne
    <2>3. SumFunctionOnSet(f, t) \in Nat
      BY <1>2, <2>2
    <2>4. SumFunctionOnSet(f, s) = f[Pick(s)] + SumFunctionOnSet(f, t)
      BY <2>1, SumUnfolds
    <2>5. f[Pick(s)] \in Nat
      BY <2>1
    <2> QED BY <2>3, <2>4, <2>5
  <1>3. Nat \subseteq G
    <2> HIDE DEF G
    <2> QED BY <1>1, <1>2, SetInduction
  <1> QED BY <1>3, SubsetCounts

\* Any element can be taken out of a sum, not only the one picked first.
THEOREM SumRemove ==
  ASSUME NEW W, IsFiniteSet(W), NEW f \in [W -> Nat], NEW S \in SUBSET W, NEW x \in S
  PROVE  SumFunctionOnSet(f, S) = f[x] + SumFunctionOnSet(f, S \ {x})
  <1> DEFINE Sum(s) == SumFunctionOnSet(f, s)
             G == {n \in Nat : \A s \in SUBSET W : Cardinality(s) = n =>
                                  \A y \in s : Sum(s) = f[y] + Sum(s \ {y})}
  <1>t. \A s \in SUBSET W : Sum(s) \in Nat
    BY SumType
  <1>1. 0 \in G
    BY SubsetCounts
  <1>2. ASSUME NEW n \in Nat, n \in G PROVE n + 1 \in G
    <2> SUFFICES ASSUME NEW s \in SUBSET W, Cardinality(s) = n + 1, NEW y \in s
                 PROVE  Sum(s) = f[y] + Sum(s \ {y})
        OBVIOUS
    <2> DEFINE z == Pick(s)
    <2>1. z \in s /\ Sum(s) = f[z] + Sum(s \ {z})
      BY SubsetCounts, SumUnfolds
    <2>2. CASE y = z
      BY <2>1, <2>2
    <2>3. CASE y # z
      <3>1. /\ s \ {z} \in SUBSET W /\ Cardinality(s \ {z}) = n
            /\ s \ {y} \in SUBSET W /\ Cardinality(s \ {y}) = n
        BY <2>1, RemoveOne
      <3>2. (s \ {z}) \ {y} = (s \ {y}) \ {z}
        OBVIOUS
      <3>3. Sum(s \ {z}) = f[y] + Sum((s \ {z}) \ {y})
        BY <1>2, <2>3, <3>1
      <3>4. Sum(s \ {y}) = f[z] + Sum((s \ {y}) \ {z})
        BY <1>2, <2>1, <2>3, <3>1
      <3>5. f[y] \in Nat /\ f[z] \in Nat /\ Sum((s \ {z}) \ {y}) \in Nat
        BY <1>t, <2>1
      <3>6. Sum(s) = f[z] + (f[y] + Sum((s \ {z}) \ {y}))
        BY <2>1, <3>3
      <3>7. Sum(s \ {y}) = f[z] + Sum((s \ {z}) \ {y})
        BY <3>2, <3>4
      <3>8. \A a, b, c \in Nat : a + (b + c) = b + (a + c)
        OBVIOUS
      <3> HIDE DEF Sum, z
      <3> QED BY <3>5, <3>6, <3>7, <3>8
    <2> QED BY <2>2, <2>3
  <1>3. Nat \subseteq G
    <2> HIDE DEF G
    <2> QED BY <1>1, <1>2, SetInduction
  <1> QED BY <1>3, SubsetCounts

\* A sum over a smaller set is not larger.
THEOREM SumMonotone ==
  ASSUME NEW W, IsFiniteSet(W), NEW f \in [W -> Nat], NEW S \in SUBSET W, NEW T \in SUBSET S
  PROVE  SumFunctionOnSet(f, T) <= SumFunctionOnSet(f, S)
  <1> DEFINE Sum(s) == SumFunctionOnSet(f, s)
             G == {n \in Nat : \A s \in SUBSET W : Cardinality(s) = n =>
                                  \A t \in SUBSET s : Sum(t) <= Sum(s)}
  <1>t. \A s \in SUBSET W : Sum(s) \in Nat
    BY SumType
  <1>1. 0 \in G
    <2> SUFFICES ASSUME NEW s \in SUBSET W, Cardinality(s) = 0, NEW t \in SUBSET s
                 PROVE  Sum(t) <= Sum(s)
        OBVIOUS
    <2>1. t = s
      BY SubsetCounts
    <2> QED BY <1>t, <2>1
  <1>2. ASSUME NEW n \in Nat, n \in G PROVE n + 1 \in G
    <2> SUFFICES ASSUME NEW s \in SUBSET W, Cardinality(s) = n + 1, NEW t \in SUBSET s
                 PROVE  Sum(t) <= Sum(s)
        OBVIOUS
    <2>1. CASE t = s
      BY <1>t, <2>1
    <2>2. CASE t # s
      <3>1. PICK y \in s : y \notin t
        BY <2>2
      <3>2. s \ {y} \in SUBSET W /\ Cardinality(s \ {y}) = n /\ t \in SUBSET (s \ {y})
        BY <3>1, RemoveOne
      <3>3. Sum(t) <= Sum(s \ {y})
        BY <1>2, <3>2
      <3>4. Sum(s) = f[y] + Sum(s \ {y})
        BY SumRemove
      <3>5. f[y] \in Nat /\ Sum(t) \in Nat /\ Sum(s \ {y}) \in Nat
        BY <1>t, <3>2
      <3> HIDE DEF Sum
      <3> QED BY <3>3, <3>4, <3>5
    <2> QED BY <2>1, <2>2
  <1>3. Nat \subseteq G
    <2> HIDE DEF G
    <2> QED BY <1>1, <1>2, SetInduction
  <1> QED BY <1>3, SubsetCounts

\* A sum depends on the values of its elements only.
THEOREM SumSame ==
  ASSUME NEW S, IsFiniteSet(S), NEW f, NEW g, \A x \in S : f[x] = g[x]
  PROVE  SumFunctionOnSet(f, S) = SumFunctionOnSet(g, S)
  <1> DEFINE G == {n \in Nat : \A s \in SUBSET S : Cardinality(s) = n =>
                                  SumFunctionOnSet(f, s) = SumFunctionOnSet(g, s)}
  <1>1. 0 \in G
    BY SubsetCounts, SumUnfolds
  <1>2. ASSUME NEW n \in Nat, n \in G PROVE n + 1 \in G
    <2> SUFFICES ASSUME NEW s \in SUBSET S, Cardinality(s) = n + 1
                 PROVE  SumFunctionOnSet(f, s) = SumFunctionOnSet(g, s)
        OBVIOUS
    <2> DEFINE t == s \ {Pick(s)}
    <2>1. s # {} /\ Pick(s) \in s /\ IsFiniteSet(s)
      BY SubsetCounts
    <2>2. t \in SUBSET S /\ Cardinality(t) = n
      BY <2>1, RemoveOne
    <2>3. SumFunctionOnSet(f, t) = SumFunctionOnSet(g, t)
      BY <1>2, <2>2
    <2>4. /\ SumFunctionOnSet(f, s) = f[Pick(s)] + SumFunctionOnSet(f, t)
          /\ SumFunctionOnSet(g, s) = g[Pick(s)] + SumFunctionOnSet(g, t)
      BY <2>1, SumUnfolds
    <2> QED BY <2>1, <2>3, <2>4
  <1>3. Nat \subseteq G
    <2> HIDE DEF G
    <2> QED BY <1>1, <1>2, SetInduction
  <1> QED BY <1>3, SubsetCounts

\* Taking elements away, and changing the values of those that are gone, adds nothing.
LEMMA SumNarrows ==
  ASSUME NEW W, IsFiniteSet(W), NEW f \in [W -> Nat], NEW g \in [W -> Nat],
         NEW S \in SUBSET W, NEW T \in SUBSET S, \A x \in T : f[x] = g[x]
  PROVE  SumFunctionOnSet(g, T) <= SumFunctionOnSet(f, S)
  <1>1. IsFiniteSet(T)
    BY FS_Subset
  <1>2. SumFunctionOnSet(g, T) = SumFunctionOnSet(f, T)
    BY <1>1, SumSame
  <1>3. SumFunctionOnSet(f, T) <= SumFunctionOnSet(f, S)
    BY SumMonotone
  <1> QED BY <1>2, <1>3

==============================================================================
