----------------------------- MODULE SumProofs -----------------------------
(***************************************************************************)
(* Induction and sums.  The induction theorems of the library range over   *)
(* operators, which the provers cannot instantiate; here a property is the *)
(* set of the values that have it, and the principle is derived from the   *)
(* well-foundedness of strict inclusion and of < on the natural numbers.   *)
(* With it, SumFunctionOnSet gets the facts that the totals of the order   *)
(* book need.                                                              *)
(***************************************************************************)
EXTENDS Integers, FiniteSets, Functions, FiniteSetTheorems, TLAPS

\* What holds of a subset whenever it holds of all smaller ones holds of all.
LEMMA SubsetInduction ==
  ASSUME NEW S, IsFiniteSet(S), NEW G,
         \A T \in SUBSET S : (\A U \in SUBSET T : U # T => U \in G) => T \in G
  PROVE  \A T \in SUBSET S : T \in G
<1> SUFFICES ASSUME NEW X \in SUBSET S, X \notin G PROVE FALSE
  OBVIOUS
<1> DEFINE B == {T \in SUBSET S : T \notin G}
<1>1. B # {} /\ B \subseteq FiniteSubsetsOf(S)
  BY FS_Subset DEF FiniteSubsetsOf
<1>2. PICK T \in B : \A U \in B : ~(<<U, T>> \in StrictSubsetOrdering(S))
  <2> HIDE DEF B
  <2> QED BY <1>1, WFMin, FS_StrictSubsetOrderingWellFounded
<1>3. ASSUME NEW U \in SUBSET T, U # T
      PROVE  U \in G
  <2>1. <<U, T>> \in StrictSubsetOrdering(S)
    BY <1>3 DEF StrictSubsetOrdering
  <2> QED BY <1>2, <2>1
<1> QED BY <1>2, <1>3

\* Induction over an initial segment of the natural numbers.
LEMMA Counting ==
  ASSUME NEW n \in Nat, NEW G, 0 \in G,
         \A i \in 0 .. n - 1 : i \in G => i + 1 \in G
  PROVE  \A i \in 0 .. n : i \in G
<1> SUFFICES ASSUME NEW j \in 0 .. n, j \notin G PROVE FALSE
  OBVIOUS
<1> DEFINE B == {i \in 0 .. n : i \notin G}
<1>1. B \subseteq Nat /\ B # {}
  OBVIOUS
<1>2. PICK m \in B : \A i \in B : ~(<<i, m>> \in OpToRel(<, Nat))
  BY <1>1, WFMin, NatLessThanWellFounded
<1>3. \A i \in B : ~(i < m)
  BY <1>1, <1>2 DEF OpToRel
<1>4. m # 0 /\ m \in 0 .. n /\ m \notin G
  OBVIOUS
<1>5. m - 1 \in 0 .. n - 1 /\ m - 1 \notin B /\ (m - 1) + 1 = m
  BY <1>3, <1>4
<1>6. m - 1 \in G
  BY <1>5
<1>7. (m - 1) + 1 \in G
  BY <1>5, <1>6
<1> QED BY <1>4, <1>5, <1>7

\* A finite set of integers has a largest and a smallest element.
LEMMA Extremes ==
  ASSUME NEW S \in SUBSET Int, IsFiniteSet(S), S # {}
  PROVE  /\ \E m \in S : \A x \in S : x <= m
         /\ \E m \in S : \A x \in S : m <= x
<1> DEFINE G == {T \in SUBSET S : T # {} => /\ \E m \in T : \A x \in T : x <= m
                                            /\ \E m \in T : \A x \in T : m <= x}
<1>1. ASSUME NEW T \in SUBSET S, \A U \in SUBSET T : U # T => U \in G
      PROVE  T \in G
  <2> SUFFICES ASSUME T # {}
               PROVE  /\ \E m \in T : \A x \in T : x <= m
                      /\ \E m \in T : \A x \in T : m <= x
    OBVIOUS
  <2>1. PICK a : a \in T
    OBVIOUS
  <2> DEFINE U == T \ {a}
  <2>2. CASE U = {}
    BY <2>1, <2>2
  <2>3. CASE U # {}
    <3>1. U \in G
      BY <1>1, <2>1
    <3>2. PICK hi \in U : \A x \in U : x <= hi
      BY <2>3, <3>1
    <3>3. PICK lo \in U : \A x \in U : lo <= x
      BY <2>3, <3>1
    <3>4. \E m \in T : \A x \in T : x <= m
      <4>1. CASE a <= hi
        BY <2>1, <3>2, <4>1
      <4>2. CASE hi < a
        BY <2>1, <3>2, <4>2
      <4> QED BY <2>1, <4>1, <4>2
    <3>5. \E m \in T : \A x \in T : m <= x
      <4>1. CASE lo <= a
        BY <2>1, <3>3, <4>1
      <4>2. CASE a < lo
        BY <2>1, <3>3, <4>2
      <4> QED BY <2>1, <4>1, <4>2
    <3> QED BY <3>4, <3>5
  <2> QED BY <2>2, <2>3
<1> HIDE DEF G
<1>2. \A T \in SUBSET S : T \in G
  BY <1>1, SubsetInduction
<1>3. S \in G
  BY <1>2
<1> QED BY <1>3 DEF G

----------------------------------------------------------------------------
(* SumFunctionOnSet is what its recursive definition says *)

Pick(s) == CHOOSE x \in s : TRUE

\* The value at s of the sums of f over subsets, given those of smaller sets.
SumStep(f, g, s) == IF s = {} THEN 0 ELSE f[Pick(s)] + g[s \ {Pick(s)}]

IsSum(f, g, D) == g = [s \in D |-> SumStep(f, g, s)]

SumsBelow(f, g, S) == IsSum(f, g, SUBSET S)

\* CHOOSE takes an element of the set.
LEMMA PickIn == \A s : s # {} => Pick(s) \in s
BY DEF Pick

\* There is a function that satisfies the recursive equation.
LEMMA SumExists ==
  ASSUME NEW f, NEW S, IsFiniteSet(S)
  PROVE  \E g : IsSum(f, g, SUBSET S)
<1> DEFINE N == Cardinality(S)
           Small(n) == {s \in SUBSET S : Cardinality(s) <= n}
           G == {n \in 0 .. N : \E g : IsSum(f, g, Small(n))}
<1>1. N \in Nat /\ \A s \in SUBSET S : IsFiniteSet(s) /\ Cardinality(s) \in 0 .. N
  BY FS_CardinalityType, FS_Subset
<1>2. 0 \in G
  <2> DEFINE g == [s \in Small(0) |-> 0]
  <2>1. \A s \in Small(0) : s = {}
    BY <1>1, FS_EmptySet
  <2>2. IsSum(f, g, Small(0))
    BY <2>1 DEF IsSum, SumStep
  <2>3. \E x : IsSum(f, x, Small(0))
    BY <2>2
  <2> HIDE DEF Small, N
  <2> QED BY <1>1, <2>3
<1>3. ASSUME NEW n \in 0 .. N - 1, n \in G
      PROVE  n + 1 \in G
  <2>1. PICK g : IsSum(f, g, Small(n))
    BY <1>3
  <2> DEFINE h == [s \in Small(n + 1) |-> SumStep(f, g, s)]
  <2>2. ASSUME NEW s \in Small(n + 1)
        PROVE  h[s] = SumStep(f, h, s)
    <3>1. CASE s = {}
      BY <3>1 DEF SumStep
    <3>2. CASE s # {}
      <4> DEFINE t == s \ {Pick(s)}
      <4>1. Pick(s) \in s /\ s \in SUBSET S
        BY <3>2, PickIn
      <4>2. t \in Small(n) /\ t \in Small(n + 1)
        BY <1>1, <4>1, FS_RemoveElement
      <4>3. g[t] = SumStep(f, g, t)
        BY <2>1, <4>2 DEF IsSum
      <4>4. h[t] = g[t]
        BY <4>2, <4>3
      <4> HIDE DEF Small
      <4> QED BY <3>2, <4>4 DEF SumStep
    <3> QED BY <3>1, <3>2
  <2>3. IsSum(f, h, Small(n + 1))
    <3> HIDE DEF Small
    <3>1. h = [s \in Small(n + 1) |-> h[s]]
      OBVIOUS
    <3> HIDE DEF h
    <3>2. [s \in Small(n + 1) |-> h[s]] = [s \in Small(n + 1) |-> SumStep(f, h, s)]
      BY <2>2
    <3> QED BY <3>1, <3>2 DEF IsSum
  <2>4. n + 1 \in 0 .. N
    BY <1>1
  <2>5. \E x : IsSum(f, x, Small(n + 1))
    BY <2>3
  <2> HIDE DEF Small, N
  <2> QED BY <2>4, <2>5
<1>4. N \in G
  <2> HIDE DEF G, N
  <2>1. \A i \in 0 .. N : i \in G
    BY <1>1, <1>2, <1>3, Counting
  <2> QED BY <1>1, <2>1
<1>5. Small(N) = SUBSET S
  BY <1>1
<1> QED BY <1>4, <1>5

\* The sums do not depend on the set from which the subsets are taken.
LEMMA SumUnique ==
  \A f, S, T, g, h :
    IsFiniteSet(S) /\ T \subseteq S /\ SumsBelow(f, g, S) /\ SumsBelow(f, h, T)
      => g[T] = h[T]
<1> SUFFICES ASSUME NEW f, NEW S, NEW T, NEW g, NEW h, IsFiniteSet(S),
                    T \subseteq S, SumsBelow(f, g, S), SumsBelow(f, h, T)
             PROVE  g[T] = h[T]
  OBVIOUS
<1> DEFINE G == {s \in SUBSET T : g[s] = h[s]}
<1>1. ASSUME NEW s \in SUBSET T, \A u \in SUBSET s : u # s => u \in G
      PROVE  s \in G
  <2>1. g[s] = SumStep(f, g, s) /\ h[s] = SumStep(f, h, s)
    BY DEF SumsBelow, IsSum
  <2>2. CASE s = {}
    BY <2>1, <2>2 DEF SumStep
  <2>3. CASE s # {}
    <3>1. Pick(s) \in s
      BY <2>3, PickIn
    <3>2. s \ {Pick(s)} \in G
      BY <1>1, <3>1
    <3> QED BY <2>1, <2>3, <3>2 DEF SumStep
  <2> QED BY <2>2, <2>3
<1>2. IsFiniteSet(T)
  BY FS_Subset
<1> HIDE DEF G
<1>3. \A s \in SUBSET T : s \in G
  BY <1>1, <1>2, SubsetInduction
<1> QED BY <1>3 DEF G

\* The library's definition, with the recursive function made explicit.
LEMMA SumValue ==
  \A f, S : IsFiniteSet(S) =>
    \E g : SumsBelow(f, g, S) /\ SumFunctionOnSet(f, S) = g[S]
<1> SUFFICES ASSUME NEW f, NEW S, IsFiniteSet(S)
             PROVE  \E g : SumsBelow(f, g, S) /\ SumFunctionOnSet(f, S) = g[S]
  OBVIOUS
<1> DEFINE g == CHOOSE g : IsSum(f, g, SUBSET S)
<1>1. SumFunctionOnSet(f, S) = g[S]
  BY DEF SumFunctionOnSet, FoldFunctionOnSet, MapThenFoldSet, IsSum, SumStep, Pick
<1>2. IsSum(f, g, SUBSET S)
  BY SumExists
<1> QED BY <1>1, <1>2 DEF SumsBelow

----------------------------------------------------------------------------
(* Facts about sums *)

\* The empty sum.
LEMMA SumEmpty ==
  ASSUME NEW f
  PROVE  SumFunctionOnSet(f, {}) = 0
<1>1. PICK g : SumsBelow(f, g, {}) /\ SumFunctionOnSet(f, {}) = g[{}]
  BY SumValue, FS_EmptySet
<1> QED BY <1>1 DEF SumsBelow, IsSum, SumStep

\* The equation of the definition.
LEMMA SumPick ==
  ASSUME NEW f, NEW S, IsFiniteSet(S), S # {}
  PROVE  SumFunctionOnSet(f, S) = f[Pick(S)] + SumFunctionOnSet(f, S \ {Pick(S)})
<1> DEFINE T == S \ {Pick(S)}
<1>1. PICK g : SumsBelow(f, g, S) /\ SumFunctionOnSet(f, S) = g[S]
  BY SumValue
<1>2. IsFiniteSet(T) /\ T \subseteq S
  BY FS_Subset
<1>3. PICK h : SumsBelow(f, h, T) /\ SumFunctionOnSet(f, T) = h[T]
  <2> HIDE DEF T
  <2> QED BY <1>2, SumValue
<1>4. g[T] = h[T]
  <2> HIDE DEF T
  <2> QED BY <1>1, <1>2, <1>3, SumUnique
<1>5. g[S] = SumStep(f, g, S)
  BY <1>1 DEF SumsBelow, IsSum
<1> QED BY <1>1, <1>3, <1>4, <1>5 DEF SumStep

\* Sums of integers are integers, sums of naturals are naturals.
LEMMA SumType ==
  ASSUME NEW V \in {Int, Nat}, NEW S, IsFiniteSet(S), NEW f,
         \A x \in S : f[x] \in V
  PROVE  SumFunctionOnSet(f, S) \in V
<1> DEFINE G == {T \in SUBSET S : SumFunctionOnSet(f, T) \in V}
<1>1. ASSUME NEW T \in SUBSET S, \A U \in SUBSET T : U # T => U \in G
      PROVE  T \in G
  <2>1. CASE T = {}
    BY <2>1, SumEmpty
  <2>2. CASE T # {}
    <3>1. Pick(T) \in T /\ IsFiniteSet(T)
      BY <2>2, PickIn, FS_Subset
    <3>2. T \ {Pick(T)} \in G
      BY <1>1, <3>1
    <3>3. f[Pick(T)] \in V /\ SumFunctionOnSet(f, T \ {Pick(T)}) \in V
      BY <3>1, <3>2
    <3>4. SumFunctionOnSet(f, T) = f[Pick(T)] + SumFunctionOnSet(f, T \ {Pick(T)})
      BY <2>2, <3>1, SumPick
    <3>5. f[Pick(T)] + SumFunctionOnSet(f, T \ {Pick(T)}) \in V
      BY <3>3
    <3> QED BY <3>4, <3>5
  <2> QED BY <2>1, <2>2
<1> HIDE DEF G
<1>2. \A T \in SUBSET S : T \in G
  BY <1>1, SubsetInduction
<1> QED BY <1>2 DEF G

\* Functions that agree on a set have the same sum over it.
LEMMA SumEqual ==
  ASSUME NEW S, IsFiniteSet(S), NEW f, NEW g, \A x \in S : f[x] = g[x]
  PROVE  SumFunctionOnSet(f, S) = SumFunctionOnSet(g, S)
<1> DEFINE G == {T \in SUBSET S : SumFunctionOnSet(f, T) = SumFunctionOnSet(g, T)}
<1>1. ASSUME NEW T \in SUBSET S, \A U \in SUBSET T : U # T => U \in G
      PROVE  T \in G
  <2>1. CASE T = {}
    BY <2>1, SumEmpty
  <2>2. CASE T # {}
    <3>1. Pick(T) \in T /\ IsFiniteSet(T)
      BY <2>2, PickIn, FS_Subset
    <3>2. T \ {Pick(T)} \in G
      BY <1>1, <3>1
    <3> QED BY <2>2, <3>1, <3>2, SumPick
  <2> QED BY <2>1, <2>2
<1> HIDE DEF G
<1>2. \A T \in SUBSET S : T \in G
  BY <1>1, SubsetInduction
<1> QED BY <1>2 DEF G

\* Any element may be taken out of a sum.
LEMMA SumRemove ==
  ASSUME NEW S, IsFiniteSet(S), NEW f, \A x \in S : f[x] \in Int, NEW a \in S
  PROVE  SumFunctionOnSet(f, S) = f[a] + SumFunctionOnSet(f, S \ {a})
<1> DEFINE Sum(T) == SumFunctionOnSet(f, T)
           G == {T \in SUBSET S : \A x \in T : Sum(T) = f[x] + Sum(T \ {x})}
<1>1. ASSUME NEW T \in SUBSET S, \A U \in SUBSET T : U # T => U \in G
      PROVE  T \in G
  <2> SUFFICES ASSUME NEW x \in T PROVE Sum(T) = f[x] + Sum(T \ {x})
    OBVIOUS
  <2> DEFINE p == Pick(T)
  <2>1. p \in T /\ IsFiniteSet(T)
    BY PickIn, FS_Subset
  <2>2. Sum(T) = f[p] + Sum(T \ {p})
    BY <2>1, SumPick
  <2>3. CASE x = p
    BY <2>2, <2>3
  <2>4. CASE x # p
    <3> DEFINE R == T \ {p, x}
    <3>1. T \ {p} \in G /\ x \in T \ {p}
      BY <1>1, <2>1, <2>4
    <3>2. T \ {x} \in G /\ p \in T \ {x}
      BY <1>1, <2>1, <2>4
    <3>3. (T \ {p}) \ {x} = R /\ (T \ {x}) \ {p} = R
      OBVIOUS
    <3>4. Sum(T \ {p}) = f[x] + Sum(R) /\ Sum(T \ {x}) = f[p] + Sum(R)
      BY <3>1, <3>2, <3>3
    <3>5. R \in SUBSET S /\ \A y \in R : f[y] \in Int
      OBVIOUS
    <3>6. Sum(R) \in Int
      <4>1. IsFiniteSet(R)
        BY <3>5, FS_Subset
      <4> QED BY <3>5, <4>1, SumType
    <3>7. f[x] \in Int /\ f[p] \in Int
      BY <2>1
    <3> HIDE DEF R, p, Sum
    <3> QED BY <2>2, <3>4, <3>6, <3>7
  <2> QED BY <2>3, <2>4
<1> HIDE DEF G
<1>2. \A T \in SUBSET S : T \in G
  BY <1>1, SubsetInduction
<1>3. S \in G
  BY <1>2
<1> QED BY <1>3 DEF G

\* One more element.
LEMMA SumAdd ==
  ASSUME NEW S, IsFiniteSet(S), NEW a, a \notin S,
         NEW f, \A x \in S \cup {a} : f[x] \in Int
  PROVE  SumFunctionOnSet(f, S \cup {a}) = f[a] + SumFunctionOnSet(f, S)
<1> DEFINE T == S \cup {a}
<1>1. IsFiniteSet(T) /\ a \in T /\ T \ {a} = S
  BY FS_AddElement
<1> QED BY <1>1, SumRemove

\* One summand changes.
LEMMA SumChange ==
  ASSUME NEW S, IsFiniteSet(S), NEW a \in S,
         NEW f, NEW g, \A x \in S : f[x] \in Int /\ g[x] \in Int,
         \A x \in S : x # a => g[x] = f[x]
  PROVE  SumFunctionOnSet(g, S) = SumFunctionOnSet(f, S) - f[a] + g[a]
<1> DEFINE T == S \ {a}
<1>1. IsFiniteSet(T) /\ \A x \in T : f[x] = g[x] /\ f[x] \in Int
  BY FS_Subset
<1>2. SumFunctionOnSet(f, T) = SumFunctionOnSet(g, T) /\ SumFunctionOnSet(f, T) \in Int
  <2> HIDE DEF T
  <2> QED BY <1>1, SumEqual, SumType
<1>3. /\ SumFunctionOnSet(f, S) = f[a] + SumFunctionOnSet(f, T)
      /\ SumFunctionOnSet(g, S) = g[a] + SumFunctionOnSet(g, T)
  BY SumRemove
<1> QED BY <1>2, <1>3

\* No summand is larger than the sum of naturals.
LEMMA SumAtLeast ==
  ASSUME NEW S, IsFiniteSet(S), NEW f, \A x \in S : f[x] \in Nat, NEW a \in S
  PROVE  f[a] <= SumFunctionOnSet(f, S)
<1> DEFINE T == S \ {a}
<1>1. IsFiniteSet(T) /\ \A x \in T : f[x] \in Nat
  BY FS_Subset
<1>2. SumFunctionOnSet(f, T) \in Nat
  <2> HIDE DEF T
  <2> QED BY <1>1, SumType
<1>3. SumFunctionOnSet(f, S) = f[a] + SumFunctionOnSet(f, T)
  BY SumRemove
<1> QED BY <1>2, <1>3

\* b maps the finite set S one to one onto R, and takes g to f.
Renames(b, S, R, g, f) ==
  /\ IsFiniteSet(S)
  /\ \A x, y \in S : b[x] = b[y] => x = y
  /\ \A x \in S : f[b[x]] \in Int /\ g[x] = f[b[x]]
  /\ \A y : y \in R <=> \E x \in S : y = b[x]

\* A sum may be taken over the values of an injective function.
LEMMA SumImage ==
  \A b, S, R, g, f : Renames(b, S, R, g, f) =>
    IsFiniteSet(R) /\ SumFunctionOnSet(g, S) = SumFunctionOnSet(f, R)
<1> SUFFICES ASSUME NEW b, NEW S, NEW R, NEW g, NEW f, Renames(b, S, R, g, f)
             PROVE  IsFiniteSet(R) /\ SumFunctionOnSet(g, S) = SumFunctionOnSet(f, R)
  OBVIOUS
<1> USE DEF Renames
<1> DEFINE Im(T) == {b[x] : x \in T}
           G == {T \in SUBSET S : /\ IsFiniteSet(Im(T))
                                  /\ SumFunctionOnSet(g, T) = SumFunctionOnSet(f, Im(T))}
<1>1. ASSUME NEW T \in SUBSET S, \A U \in SUBSET T : U # T => U \in G
      PROVE  T \in G
  <2>1. CASE T = {}
    <3>1. Im(T) = {}
      BY <2>1
    <3> QED BY <2>1, <3>1, SumEmpty, FS_EmptySet
  <2>2. CASE T # {}
    <3>1. PICK a : a \in T
      BY <2>2
    <3> DEFINE U == T \ {a}
    <3>2. U \in G /\ IsFiniteSet(T)
      BY <1>1, <3>1, FS_Subset
    <3>3. Im(T) = Im(U) \cup {b[a]} /\ b[a] \notin Im(U)
      BY <3>1
    <3>4. SumFunctionOnSet(g, T) = g[a] + SumFunctionOnSet(g, U)
      <4>1. \A x \in T : g[x] \in Int
        OBVIOUS
      <4> HIDE DEF G, Im
      <4> QED BY <3>1, <3>2, <4>1, SumRemove
    <3>5. IsFiniteSet(Im(U)) /\ SumFunctionOnSet(g, U) = SumFunctionOnSet(f, Im(U))
      BY <3>2
    <3>6. \A y \in Im(U) \cup {b[a]} : f[y] \in Int
      <4> HIDE DEF G
      <4> QED BY <3>1
    <3>7. g[a] = f[b[a]]
      BY <3>1
    <3> HIDE DEF Im, U
    <3>8. SumFunctionOnSet(f, Im(T)) = f[b[a]] + SumFunctionOnSet(f, Im(U))
      <4> HIDE DEF G
      <4>1. SumFunctionOnSet(f, Im(U) \cup {b[a]}) = f[b[a]] + SumFunctionOnSet(f, Im(U))
        BY <3>3, <3>5, <3>6, SumAdd
      <4> QED BY <3>3, <4>1
    <3>9. IsFiniteSet(Im(T))
      BY <3>3, <3>5, FS_AddElement
    <3> QED BY <3>4, <3>5, <3>7, <3>8, <3>9
  <2> QED BY <2>1, <2>2
<1> HIDE DEF G
<1>2. \A T \in SUBSET S : T \in G
  BY <1>1, SubsetInduction
<1>3. S \in G
  BY <1>2
<1>4. R = Im(S)
  OBVIOUS
<1> QED BY <1>3, <1>4 DEF G
=============================================================================
