--------------------------- MODULE FoldTheorems -----------------------------
(***************************************************************************)
(* What the sum of a function over a finite set does when its terms        *)
(* change, its set grows, or it is taken class by class.  The books are    *)
(* valued by such sums: the account's in RiskChain, the position's and     *)
(* its stops' in Protection.                                               *)
(*                                                                         *)
(* The library defines SumFunctionOnSet by recursion on an element it      *)
(* chooses, so the facts are proved by induction over the subsets of the   *)
(* set: a set of subsets that holds whatever its parts lead to holds all.  *)
(*                                                                         *)
(* A fold over a sequence is a function on sets of positions too, and what *)
(* is shown here is that there is one, and what it does at the next        *)
(* position: fills are added up, booked and met by a bar in such folds.    *)
(***************************************************************************)
EXTENDS Integers, FiniteSets, FiniteSetsExt, Functions, FiniteSetTheorems, WellFoundedInduction,
        TLAPS

-----------------------------------------------------------------------------
(* Sums over finite sets (Functions!SumFunctionOnSet). *)

Pick(s) == CHOOSE x \in s : TRUE
IsSum(g, f, S) ==
  g = [s \in SUBSET S |-> IF s = {} THEN 0 ELSE f[Pick(s)] + g[s \ {Pick(s)}]]
ChosenSum(f, S) == CHOOSE g : IsSum(g, f, S)

\* The library's sum of f over S is the value of a function on the subsets of S.
LEMMA SumIsChosen ==
  ASSUME NEW f, NEW S
  PROVE  SumFunctionOnSet(f, S) = ChosenSum(f, S)[S]
  BY DEF SumFunctionOnSet, FoldFunctionOnSet, MapThenFoldSet, ChosenSum, IsSum, Pick

\* Pick takes an element.
LEMMA PickIn == \A s : s # {} => Pick(s) \in s
  BY DEF Pick

\* A set of naturals that is not empty has a least element.
LEMMA LeastNatural ==
  ASSUME NEW S \in SUBSET Nat, S # {}
  PROVE  \E n \in S : \A m \in S : n <= m
  <1> DEFINE less == OpToRel(<, Nat)
  <1>1. IsWellFoundedOn(less, Nat)
    BY NatLessThanWellFounded
  <1>2. \A m, n \in Nat : m < n => <<m, n>> \in less
    BY DEF OpToRel
  <1> HIDE DEF less
  <1>3. PICK n \in S : \A m \in S : ~(<<m, n>> \in less)
    BY <1>1, WFMin
  <1>4. \A m \in S : m \in Nat /\ ~(m < n)
    BY <1>2, <1>3
  <1>5. QED
    BY <1>4

\* Induction over the subsets of a finite set, by inclusion.
LEMMA StrongInduction ==
  ASSUME NEW S, IsFiniteSet(S), NEW Good,
         \A T \in SUBSET S : (\A U \in SUBSET T : U # T => U \in Good) => T \in Good
  PROVE  SUBSET S \subseteq Good
  <1> DEFINE sizes == {Cardinality(T) : T \in (SUBSET S) \ Good}
  <1>1. SUFFICES ASSUME (SUBSET S) \ Good # {} PROVE FALSE
    OBVIOUS
  <1>2. sizes \in SUBSET Nat /\ sizes # {}
    BY <1>1, FS_Subset, FS_CardinalityType
  <1>3. PICK n \in sizes : \A m \in sizes : n <= m
    BY <1>2, LeastNatural
  <1>4. PICK T \in (SUBSET S) \ Good : Cardinality(T) = n
    BY <1>3
  <1>5. ASSUME NEW U \in SUBSET T, U # T PROVE U \in Good
    <2>1. IsFiniteSet(T) /\ IsFiniteSet(U) /\ Cardinality(U) <= Cardinality(T)
          /\ Cardinality(U) # Cardinality(T) /\ Cardinality(T) \in Nat /\ Cardinality(U) \in Nat
      BY <1>4, <1>5, FS_Subset, FS_CardinalityType
    <2>2. U \notin Good => Cardinality(U) \in sizes
      BY <1>4
    <2>3. QED
      BY <1>3, <1>4, <2>1, <2>2
  <1>6. QED
    BY <1>4, <1>5

\* The recursion of a sum has one solution.
LEMMA SumUnique ==
  ASSUME NEW f, NEW S, IsFiniteSet(S), NEW g, IsSum(g, f, S), NEW h, IsSum(h, f, S)
  PROVE  g = h
  <1> DEFINE Good == {T \in SUBSET S : g[T] = h[T]}
  <1>1. ASSUME NEW T \in SUBSET S, \A U \in SUBSET T : U # T => U \in Good PROVE T \in Good
    <2>1. CASE T = {}
      BY <2>1 DEF IsSum
    <2>2. CASE T # {}
      <3>1. T \ {Pick(T)} \in Good
        BY <1>1, <2>2, PickIn
      <3>2. QED
        BY <2>2, <3>1 DEF IsSum
    <2>3. QED
      BY <2>1, <2>2
  <1>2. SUBSET S \subseteq Good
    <2> HIDE DEF Good
    <2>1. QED
      BY <1>1, StrongInduction
  <1>3. QED
    BY <1>2 DEF IsSum

\* A solution over S is one over every subset of S.
LEMMA SumRestricts ==
  ASSUME NEW f, NEW S, NEW g, IsSum(g, f, S), NEW T \in SUBSET S
  PROVE  IsSum([s \in SUBSET T |-> g[s]], f, T)
  <1> DEFINE r == [s \in SUBSET T |-> g[s]]
  <1>1. ASSUME NEW s \in SUBSET T
        PROVE  r[s] = IF s = {} THEN 0 ELSE f[Pick(s)] + r[s \ {Pick(s)}]
    <2>1. s \in SUBSET S /\ s \ {Pick(s)} \in SUBSET T
      OBVIOUS
    <2>2. g[s] = IF s = {} THEN 0 ELSE f[Pick(s)] + g[s \ {Pick(s)}]
      BY <2>1 DEF IsSum
    <2>3. QED
      BY <2>1, <2>2
  <1> HIDE DEF r
  <1>2. DOMAIN r = SUBSET T /\ r = [s \in SUBSET T |-> r[s]]
    BY DEF r
  <1>3. IsSum(r, f, T)
    BY <1>1, <1>2, Zenon DEF IsSum
  <1>4. QED
    BY <1>3 DEF r

\* The recursion of a sum has a solution over every finite set.
LEMMA SumExists ==
  ASSUME NEW f, NEW S, IsFiniteSet(S)
  PROVE  \A T \in SUBSET S : IsSum(ChosenSum(f, T), f, T)
  <1> DEFINE Good == {T \in SUBSET S : IsSum(ChosenSum(f, T), f, T)}
  <1>1. ASSUME NEW T \in SUBSET S, \A U \in SUBSET T : U # T => U \in Good PROVE T \in Good
    <2> DEFINE g == [s \in SUBSET T |->
                       IF s = {} THEN 0
                       ELSE f[Pick(s)] + ChosenSum(f, s \ {Pick(s)})[s \ {Pick(s)}]]
    <2>1. ASSUME NEW s \in SUBSET T, s # {}
          PROVE  g[s \ {Pick(s)}] = ChosenSum(f, s \ {Pick(s)})[s \ {Pick(s)}]
      <3> DEFINE v == s \ {Pick(s)}
                 c == ChosenSum(f, v)
      <3>1. v \in SUBSET T /\ v # T /\ v \in SUBSET v
        BY <2>1, PickIn
      <3>2. IsSum(c, f, v)
        BY <1>1, <3>1
      <3>3. CASE v = {}
        BY <3>1, <3>2, <3>3 DEF IsSum
      <3>4. CASE v # {}
        <4> DEFINE w == v \ {Pick(v)}
        <4>1. w \in SUBSET v /\ w \in SUBSET T /\ w # T
          BY <3>1
        <4>2. IsSum(ChosenSum(f, w), f, w) /\ IsFiniteSet(w)
          BY <1>1, <4>1, FS_Subset
        <4>3. IsSum([t \in SUBSET w |-> c[t]], f, w)
          BY <3>2, <4>1, SumRestricts
        <4>4. [t \in SUBSET w |-> c[t]] = ChosenSum(f, w)
          BY <4>2, <4>3, SumUnique
        <4>5. w \in SUBSET w /\ c[w] = ChosenSum(f, w)[w]
          BY <4>4
        <4>6. c[v] = f[Pick(v)] + c[w]
          BY <3>1, <3>2, <3>4 DEF IsSum
        <4>7. g[v] = f[Pick(v)] + ChosenSum(f, w)[w]
          BY <3>1, <3>4
        <4>8. QED
          BY <4>5, <4>6, <4>7
      <3>5. QED
        BY <3>3, <3>4
    <2>2. IsSum(g, f, T)
      <3>1. ASSUME NEW s \in SUBSET T
            PROVE  g[s] = IF s = {} THEN 0 ELSE f[Pick(s)] + g[s \ {Pick(s)}]
        BY <2>1
      <3> HIDE DEF g
      <3>2. DOMAIN g = SUBSET T /\ g = [s \in SUBSET T |-> g[s]]
        BY DEF g
      <3>3. QED
        BY <3>1, <3>2, Zenon DEF IsSum
    <2>3. QED
      BY <2>2 DEF ChosenSum
  <1>2. SUBSET S \subseteq Good
    <2> HIDE DEF Good
    <2>1. QED
      BY <1>1, StrongInduction
  <1>3. QED
    BY <1>2

-----------------------------------------------------------------------------
Ints(f, S) == \A x \in S : f[x] \in Int

\* The sum of nothing is zero.
LEMMA SumOfNone == \A f : SumFunctionOnSet(f, {}) = 0
  <1>1. ASSUME NEW f PROVE SumFunctionOnSet(f, {}) = 0
    <2>1. IsSum(ChosenSum(f, {}), f, {})
      BY SumExists, FS_EmptySet
    <2>2. {} \in SUBSET {}
      OBVIOUS
    <2>3. ChosenSum(f, {})[{}] = 0
      BY <2>1, <2>2 DEF IsSum
    <2>4. QED
      BY <2>3, SumIsChosen
  <1>2. QED
    BY <1>1

\* A sum is the element it takes first and the sum of the rest.
LEMMA SumStep ==
  ASSUME NEW f, NEW S, IsFiniteSet(S), S # {}
  PROVE  /\ Pick(S) \in S
         /\ SumFunctionOnSet(f, S) = f[Pick(S)] + SumFunctionOnSet(f, S \ {Pick(S)})
  <1> DEFINE v == S \ {Pick(S)}
             c == ChosenSum(f, S)
  <1>1. v \in SUBSET S /\ S \in SUBSET S /\ v \in SUBSET v
    OBVIOUS
  <1>2. IsSum(c, f, S) /\ IsSum(ChosenSum(f, v), f, v) /\ IsFiniteSet(v)
    BY <1>1, SumExists, FS_Subset
  <1>3. IsSum([s \in SUBSET v |-> c[s]], f, v)
    BY <1>1, <1>2, SumRestricts
  <1>4. [s \in SUBSET v |-> c[s]] = ChosenSum(f, v)
    BY <1>2, <1>3, SumUnique
  <1>5. c[v] = ChosenSum(f, v)[v]
    BY <1>1, <1>4
  <1>6. c[S] = f[Pick(S)] + c[v]
    BY <1>1, <1>2 DEF IsSum
  <1>7. QED
    BY <1>5, <1>6, SumIsChosen, PickIn

\* A sum of integers is an integer.
LEMMA SumType ==
  ASSUME NEW f, NEW S, IsFiniteSet(S), Ints(f, S)
  PROVE  SumFunctionOnSet(f, S) \in Int
  <1> DEFINE Good == {T \in SUBSET S : SumFunctionOnSet(f, T) \in Int}
  <1>1. ASSUME NEW T \in SUBSET S, \A U \in SUBSET T : U # T => U \in Good PROVE T \in Good
    <2>1. CASE T = {}
      BY <2>1, SumOfNone
    <2>2. CASE T # {}
      <3>1. /\ Pick(T) \in T
            /\ SumFunctionOnSet(f, T) = f[Pick(T)] + SumFunctionOnSet(f, T \ {Pick(T)})
        BY <2>2, SumStep, FS_Subset
      <3>2. T \ {Pick(T)} \in Good
        BY <1>1, <3>1
      <3>3. f[Pick(T)] \in Int
        BY <3>1 DEF Ints
      <3>4. QED
        BY <3>1, <3>2, <3>3
    <2>3. QED
      BY <2>1, <2>2
  <1>2. SUBSET S \subseteq Good
    <2> HIDE DEF Good
    <2>1. QED
      BY <1>1, StrongInduction
  <1>3. QED
    BY <1>2

\* Any element may be taken first.
LEMMA SumRemove ==
  ASSUME NEW f, NEW S, IsFiniteSet(S), Ints(f, S), NEW x \in S
  PROVE  SumFunctionOnSet(f, S) = f[x] + SumFunctionOnSet(f, S \ {x})
  <1> DEFINE Sum(T) == SumFunctionOnSet(f, T)
             Good == {T \in SUBSET S : \A y \in T : Sum(T) = f[y] + Sum(T \ {y})}
  <1> HIDE DEF Sum
  <1>1. ASSUME NEW T \in SUBSET S, \A U \in SUBSET T : U # T => U \in Good PROVE T \in Good
    <2> SUFFICES ASSUME NEW y \in T PROVE Sum(T) = f[y] + Sum(T \ {y})
      OBVIOUS
    <2> DEFINE p == Pick(T)
    <2>1. p \in T /\ Sum(T) = f[p] + Sum(T \ {p})
      BY SumStep, FS_Subset DEF Sum
    <2> HIDE DEF p
    <2>2. CASE p = y
      BY <2>1, <2>2
    <2>3. CASE p # y
      <3> DEFINE R == (T \ {p}) \ {y}
      <3>1. R = (T \ {y}) \ {p} /\ R \in SUBSET S
        OBVIOUS
      <3>2. Sum(T \ {p}) = f[y] + Sum(R)
        BY <1>1, <2>1, <2>3
      <3>3. Sum(T \ {y}) = f[p] + Sum(R)
        BY <1>1, <2>1, <2>3, <3>1
      <3>4. f[y] \in Int /\ f[p] \in Int
        BY <2>1 DEF Ints
      <3>5. Sum(R) \in Int
        BY <3>1, SumType, FS_Subset DEF Sum, Ints
      <3> HIDE DEF R
      <3>6. QED
        BY <2>1, <3>2, <3>3, <3>4, <3>5
    <2>4. QED
      BY <2>2, <2>3
  <1>2. SUBSET S \subseteq Good
    <2> HIDE DEF Good
    <2>1. QED
      BY <1>1, StrongInduction
  <1>3. QED
    BY <1>2 DEF Sum

\* Induction over a finite set, an element at a time.
LEMMA SetInduction ==
  ASSUME NEW S, IsFiniteSet(S), NEW Good, {} \in Good,
         \A T \in SUBSET S, x \in S : T \in Good /\ x \notin T => T \cup {x} \in Good
  PROVE  S \in Good
  <1>1. ASSUME NEW T \in SUBSET S, \A U \in SUBSET T : U # T => U \in Good PROVE T \in Good
    <2>1. CASE T # {}
      <3>1. PICK x : x \in T
        BY <2>1
      <3>2. T \ {x} \in Good /\ T = (T \ {x}) \cup {x}
        BY <1>1, <3>1
      <3>3. QED
        BY <3>1, <3>2
    <2>2. QED
      BY <2>1
  <1>2. QED
    BY <1>1, StrongInduction

\* A sum with one more element.
LEMMA SumInsert ==
  ASSUME NEW f, NEW S, IsFiniteSet(S), NEW x, x \notin S, Ints(f, S \cup {x})
  PROVE  SumFunctionOnSet(f, S \cup {x}) = f[x] + SumFunctionOnSet(f, S)
  <1>1. (S \cup {x}) \ {x} = S /\ x \in S \cup {x} /\ IsFiniteSet(S \cup {x})
    BY FS_AddElement
  <1>2. QED
    BY <1>1, SumRemove

\* Sums of functions that agree are equal.
LEMMA SumCongruent ==
  ASSUME NEW f, NEW g, NEW S, IsFiniteSet(S), Ints(f, S), \A x \in S : f[x] = g[x]
  PROVE  SumFunctionOnSet(f, S) = SumFunctionOnSet(g, S)
  <1> DEFINE Good == {T \in SUBSET S : SumFunctionOnSet(f, T) = SumFunctionOnSet(g, T)}
  <1>1. {} \in Good
    BY SumOfNone
  <1>2. ASSUME NEW T \in SUBSET S, NEW x \in S, T \in Good, x \notin T PROVE T \cup {x} \in Good
    <2>1. IsFiniteSet(T) /\ Ints(f, T \cup {x}) /\ Ints(g, T \cup {x}) /\ f[x] = g[x]
      BY FS_Subset DEF Ints
    <2>2. QED
      BY <1>2, <2>1, SumInsert
  <1> HIDE DEF Good
  <1>3. S \in Good
    BY <1>1, <1>2, SetInduction
  <1>4. QED
    BY <1>3 DEF Good

\* A sum of larger terms is not smaller.
LEMMA SumMonotone ==
  ASSUME NEW f, NEW g, NEW S, IsFiniteSet(S), Ints(f, S), Ints(g, S), \A x \in S : f[x] <= g[x]
  PROVE  SumFunctionOnSet(f, S) <= SumFunctionOnSet(g, S)
  <1> DEFINE Good == {T \in SUBSET S : SumFunctionOnSet(f, T) <= SumFunctionOnSet(g, T)}
  <1>1. {} \in Good
    BY SumOfNone
  <1>2. ASSUME NEW T \in SUBSET S, NEW x \in S, T \in Good, x \notin T PROVE T \cup {x} \in Good
    <2>1. /\ IsFiniteSet(T) /\ Ints(f, T \cup {x}) /\ Ints(g, T \cup {x}) /\ f[x] <= g[x]
          /\ Ints(f, T) /\ Ints(g, T) /\ f[x] \in Int /\ g[x] \in Int
      BY FS_Subset DEF Ints
    <2>2. /\ SumFunctionOnSet(f, T \cup {x}) = f[x] + SumFunctionOnSet(f, T)
          /\ SumFunctionOnSet(g, T \cup {x}) = g[x] + SumFunctionOnSet(g, T)
      BY <1>2, <2>1, SumInsert
    <2>3. SumFunctionOnSet(f, T) \in Int /\ SumFunctionOnSet(g, T) \in Int
      BY <2>1, SumType
    <2>4. QED
      BY <1>2, <2>1, <2>2, <2>3
  <1> HIDE DEF Good
  <1>3. S \in Good
    BY <1>1, <1>2, SetInduction
  <1>4. QED
    BY <1>3 DEF Good

\* Sums are linear: h is f + k * g, term by term.
LEMMA SumLinear ==
  ASSUME NEW f, NEW g, NEW h, NEW k \in Int, NEW S, IsFiniteSet(S), Ints(f, S), Ints(g, S),
         \A x \in S : h[x] = f[x] + k * g[x]
  PROVE  SumFunctionOnSet(h, S) = SumFunctionOnSet(f, S) + k * SumFunctionOnSet(g, S)
  <1> DEFINE Sum(a, T) == SumFunctionOnSet(a, T)
             Good == {T \in SUBSET S : Sum(h, T) = Sum(f, T) + k * Sum(g, T)}
  <1>1. {} \in Good
    BY SumOfNone
  <1>2. ASSUME NEW T \in SUBSET S, NEW x \in S, T \in Good, x \notin T PROVE T \cup {x} \in Good
    <2>1. /\ IsFiniteSet(T) /\ Ints(f, T \cup {x}) /\ Ints(g, T \cup {x}) /\ Ints(h, T \cup {x})
          /\ Ints(f, T) /\ Ints(g, T) /\ f[x] \in Int /\ g[x] \in Int /\ h[x] = f[x] + k * g[x]
      BY FS_Subset DEF Ints
    <2>2. /\ Sum(f, T \cup {x}) = f[x] + Sum(f, T)
          /\ Sum(g, T \cup {x}) = g[x] + Sum(g, T)
          /\ Sum(h, T \cup {x}) = h[x] + Sum(h, T)
      BY <1>2, <2>1, SumInsert
    <2>3. Sum(f, T) \in Int /\ Sum(g, T) \in Int
      BY <2>1, SumType
    <2>4. Sum(h, T) = Sum(f, T) + k * Sum(g, T)
      BY <1>2
    <2> HIDE DEF Sum
    <2>5. k * (g[x] + Sum(g, T)) = k * g[x] + k * Sum(g, T)
      BY <2>1, <2>3
    <2>6. k * g[x] \in Int /\ k * Sum(g, T) \in Int
      BY <2>1, <2>3
    <2>7. Sum(h, T \cup {x}) = Sum(f, T \cup {x}) + k * Sum(g, T \cup {x})
      BY <2>1, <2>2, <2>3, <2>4, <2>5, <2>6
    <2>8. QED
      BY <2>7
  <1> HIDE DEF Good
  <1>3. S \in Good
    BY <1>1, <1>2, SetInduction
  <1>4. QED
    BY <1>3 DEF Good

\* A sum of zeros is zero.
LEMMA SumOfZeros ==
  ASSUME NEW f, NEW S, IsFiniteSet(S), \A x \in S : f[x] = 0
  PROVE  SumFunctionOnSet(f, S) = 0
  <1> DEFINE Good == {T \in SUBSET S : SumFunctionOnSet(f, T) = 0}
  <1>1. {} \in Good
    BY SumOfNone
  <1>2. ASSUME NEW T \in SUBSET S, NEW x \in S, T \in Good, x \notin T PROVE T \cup {x} \in Good
    <2>1. IsFiniteSet(T) /\ Ints(f, T \cup {x}) /\ f[x] = 0
      BY FS_Subset DEF Ints
    <2>2. SumFunctionOnSet(f, T \cup {x}) = f[x] + SumFunctionOnSet(f, T)
      BY <1>2, <2>1, SumInsert
    <2>3. QED
      BY <1>2, <2>1, <2>2
  <1> HIDE DEF Good
  <1>3. S \in Good
    BY <1>1, <1>2, SetInduction
  <1>4. QED
    BY <1>3 DEF Good

\* A sum of terms that are not negative is not negative.
LEMMA SumNonNegative ==
  ASSUME NEW f, NEW S, IsFiniteSet(S), Ints(f, S), \A x \in S : f[x] >= 0
  PROVE  SumFunctionOnSet(f, S) >= 0
  <1> DEFINE zero == [x \in S |-> 0]
  <1>1. Ints(zero, S) /\ (\A x \in S : zero[x] <= f[x]) /\ (\A x \in S : zero[x] = 0)
    BY DEF Ints
  <1> HIDE DEF zero
  <1>2. SumFunctionOnSet(zero, S) = 0 /\ SumFunctionOnSet(zero, S) <= SumFunctionOnSet(f, S)
    BY <1>1, SumOfZeros, SumMonotone
  <1>3. SumFunctionOnSet(f, S) \in Int
    BY SumType
  <1>4. QED
    BY <1>2, <1>3

\* Terms that are zero may be left out.
LEMMA SumOverSubset ==
  ASSUME NEW f, NEW g, NEW S, IsFiniteSet(S), NEW T \in SUBSET S, Ints(f, T),
         \A x \in S : g[x] = IF x \in T THEN f[x] ELSE 0
  PROVE  SumFunctionOnSet(g, S) = SumFunctionOnSet(f, T)
  <1> DEFINE Good == {U \in SUBSET S : SumFunctionOnSet(g, U) = SumFunctionOnSet(f, U \cap T)}
  <1>1. {} \in Good
    BY SumOfNone
  <1>2. ASSUME NEW U \in SUBSET S, NEW x \in S, U \in Good, x \notin U PROVE U \cup {x} \in Good
    <2>1. /\ IsFiniteSet(U) /\ IsFiniteSet(U \cap T) /\ Ints(g, U \cup {x}) /\ Ints(f, U \cap T)
      BY FS_Subset DEF Ints
    <2>2. SumFunctionOnSet(g, U \cup {x}) = g[x] + SumFunctionOnSet(g, U)
      BY <1>2, <2>1, SumInsert
    <2>3. SumFunctionOnSet(f, U \cap T) \in Int
      BY <2>1, SumType
    <2>4. CASE x \in T
      <3>1. (U \cup {x}) \cap T = (U \cap T) \cup {x} /\ x \notin U \cap T
        BY <1>2, <2>4
      <3>2. Ints(f, (U \cap T) \cup {x}) /\ g[x] = f[x]
        BY <2>4 DEF Ints
      <3>3. SumFunctionOnSet(f, (U \cap T) \cup {x}) = f[x] + SumFunctionOnSet(f, U \cap T)
        BY <2>1, <3>1, <3>2, SumInsert
      <3>4. QED
        BY <1>2, <2>2, <3>1, <3>2, <3>3
    <2>5. CASE x \notin T
      <3>1. (U \cup {x}) \cap T = U \cap T /\ g[x] = 0
        BY <2>5
      <3>2. SumFunctionOnSet(g, U) = SumFunctionOnSet(f, U \cap T)
        BY <1>2
      <3>3. SumFunctionOnSet(f, (U \cup {x}) \cap T) = SumFunctionOnSet(f, U \cap T)
        BY <3>1, Zenon
      <3>4. SumFunctionOnSet(g, U \cup {x}) = SumFunctionOnSet(f, U \cap T)
        BY <2>2, <2>3, <3>1, <3>2
      <3>5. QED
        BY <3>3, <3>4, Zenon
    <2>6. QED
      BY <2>4, <2>5
  <1> HIDE DEF Good
  <1>3. S \in Good
    BY <1>1, <1>2, SetInduction
  <1>4. S \cap T = T
    OBVIOUS
  <1>5. QED
    BY <1>3, <1>4 DEF Good

\* Changing one term changes the sum by the difference.
LEMMA SumOneChanged ==
  ASSUME NEW f, NEW g, NEW S, IsFiniteSet(S), Ints(f, S), Ints(g, S), NEW x \in S,
         \A y \in S \ {x} : g[y] = f[y]
  PROVE  SumFunctionOnSet(g, S) = SumFunctionOnSet(f, S) + (g[x] - f[x])
  <1>1. IsFiniteSet(S \ {x}) /\ Ints(f, S \ {x}) /\ f[x] \in Int /\ g[x] \in Int
    BY FS_Subset DEF Ints
  <1>2. /\ SumFunctionOnSet(f, S) = f[x] + SumFunctionOnSet(f, S \ {x})
        /\ SumFunctionOnSet(g, S) = g[x] + SumFunctionOnSet(g, S \ {x})
    BY SumRemove
  <1>3. SumFunctionOnSet(f, S \ {x}) = SumFunctionOnSet(g, S \ {x})
    BY <1>1, SumCongruent
  <1>4. SumFunctionOnSet(f, S \ {x}) \in Int
    BY <1>1, SumType
  <1>5. QED
    BY <1>1, <1>2, <1>3, <1>4

\* A sum may be taken class by class: key tells the class of each element.
LEMMA SumByClass ==
  ASSUME NEW f, NEW S, IsFiniteSet(S), Ints(f, S), NEW K, IsFiniteSet(K), NEW key \in [S -> K]
  PROVE  SumFunctionOnSet([k \in K |-> SumFunctionOnSet(f, {x \in S : key[x] = k})], K)
           = SumFunctionOnSet(f, S)
  <1> DEFINE Part(T, k) == SumFunctionOnSet(f, {x \in T : key[x] = k})
             parts(T) == [k \in K |-> Part(T, k)]
             Good == {T \in SUBSET S : SumFunctionOnSet(parts(T), K) = SumFunctionOnSet(f, T)}
  <1>1. {} \in Good
    <2>1. \A k \in K : {x \in {} : key[x] = k} = {}
      OBVIOUS
    <2>2. \A k \in K : parts({})[k] = 0
      BY <2>1, SumOfNone
    <2> HIDE DEF parts
    <2>3. SumFunctionOnSet(parts({}), K) = 0
      BY <2>2, SumOfZeros
    <2>4. QED
      BY <2>3, SumOfNone
  <1>2. ASSUME NEW T \in SUBSET S, NEW x \in S, T \in Good, x \notin T PROVE T \cup {x} \in Good
    <2> DEFINE U == T \cup {x}
    <2>1. \A V \in SUBSET S, k \in K : /\ IsFiniteSet({y \in V : key[y] = k})
                                       /\ Ints(f, {y \in V : key[y] = k})
      <3> SUFFICES ASSUME NEW V \in SUBSET S, NEW k \in K
                   PROVE  IsFiniteSet({y \in V : key[y] = k}) /\ Ints(f, {y \in V : key[y] = k})
        OBVIOUS
      <3>1. {y \in V : key[y] = k} \in SUBSET S
        OBVIOUS
      <3>2. QED
        BY <3>1, FS_Subset DEF Ints
    <2>2. Ints(parts(T), K) /\ Ints(parts(U), K)
      BY <2>1, SumType DEF Ints
    <2>3. ASSUME NEW k \in K, k # key[x] PROVE parts(U)[k] = parts(T)[k]
      <3>1. {y \in U : key[y] = k} = {y \in T : key[y] = k}
        BY <2>3
      <3>2. QED
        BY <3>1
    <2>4. parts(U)[key[x]] = f[x] + parts(T)[key[x]]
      <3>1. {y \in U : key[y] = key[x]} = {y \in T : key[y] = key[x]} \cup {x}
        OBVIOUS
      <3>2. /\ x \notin {y \in T : key[y] = key[x]}
            /\ IsFiniteSet({y \in T : key[y] = key[x]})
            /\ Ints(f, {y \in T : key[y] = key[x]} \cup {x})
        BY <1>2, <2>1 DEF Ints
      <3>3. Part(U, key[x]) = f[x] + Part(T, key[x])
        BY <3>1, <3>2, SumInsert
      <3>4. QED
        BY <3>3
    <2>5. /\ SumFunctionOnSet(f, U) = f[x] + SumFunctionOnSet(f, T)
          /\ SumFunctionOnSet(f, T) \in Int /\ f[x] \in Int
      <3>1. IsFiniteSet(T) /\ Ints(f, T \cup {x}) /\ Ints(f, T)
        BY FS_Subset DEF Ints
      <3>2. QED
        BY <1>2, <3>1, SumInsert, SumType DEF Ints
    <2>6. parts(T)[key[x]] \in Int
      BY <2>2 DEF Ints
    <2>7. SumFunctionOnSet(parts(T), K) = SumFunctionOnSet(f, T)
      BY <1>2
    <2> HIDE DEF parts, Part
    <2>8. SumFunctionOnSet(parts(U), K)
            = SumFunctionOnSet(parts(T), K) + (parts(U)[key[x]] - parts(T)[key[x]])
      <3> DEFINE old == parts(T)
                 new == parts(U)
      <3>1. Ints(old, K) /\ Ints(new, K) /\ key[x] \in K /\ \A k \in K \ {key[x]} : new[k] = old[k]
        BY <2>2, <2>3
      <3> HIDE DEF old, new
      <3>2. SumFunctionOnSet(new, K) = SumFunctionOnSet(old, K) + (new[key[x]] - old[key[x]])
        BY <3>1, SumOneChanged
      <3>3. QED
        BY <3>2 DEF old, new
    <2>9. SumFunctionOnSet(parts(U), K) = SumFunctionOnSet(f, U)
      BY <2>4, <2>5, <2>6, <2>7, <2>8
    <2>10. QED
      BY <2>9
  <1> HIDE DEF Good
  <1>3. S \in Good
    BY <1>1, <1>2, SetInduction
  <1>4. QED
    BY <1>3 DEF Good

-----------------------------------------------------------------------------
(* Folds over the positions of a sequence (SequencesExt!FoldLeft). *)

\* A set of naturals that holds zero, and with every number the next, holds all.
LEMMA NatSetInduction ==
  ASSUME NEW Good, 0 \in Good, \A n \in Nat : n \in Good => n + 1 \in Good
  PROVE  Nat \subseteq Good
  <1> DEFINE less == OpToRel(<, Nat)
  <1>1. IsWellFoundedOn(less, Nat)
    BY NatLessThanWellFounded
  <1>2. \A m, n \in Nat : m < n => <<m, n>> \in less
    BY DEF OpToRel
  <1> HIDE DEF less
  <1>3. SUFFICES ASSUME Nat \ Good # {} PROVE FALSE
    OBVIOUS
  <1>4. PICK n \in Nat \ Good : \A m \in Nat \ Good : ~(<<m, n>> \in less)
    BY <1>1, <1>3, WFMin
  <1>5. n # 0 /\ n - 1 \in Nat /\ n - 1 < n /\ (n - 1) + 1 = n
    BY <1>4
  <1>6. n - 1 \in Good
    BY <1>2, <1>4, <1>5
  <1>7. QED
    BY <1>4, <1>5, <1>6

\* A set of positions that is not empty has a last one.
LEMMA LastPosition ==
  ASSUME NEW n \in Nat, NEW t \in SUBSET (1..n), t # {}
  PROVE  Max(t) \in t /\ \A k \in t : Max(t) >= k
  <1> DEFINE Good == {m \in Nat : \A u \in SUBSET (1..m) : u # {} => \E x \in u : \A k \in u : x >= k}
  <1>1. 0 \in Good
    <2>1. \A u \in SUBSET (1..0) : u = {}
      OBVIOUS
    <2>2. QED
      BY <2>1, Zenon
  <1>2. ASSUME NEW m \in Nat, m \in Good PROVE m + 1 \in Good
    <2> SUFFICES ASSUME NEW u \in SUBSET (1..(m + 1)), u # {}
                 PROVE  \E x \in u : \A k \in u : x >= k
      OBVIOUS
    <2>1. CASE m + 1 \in u
      BY <2>1
    <2>2. CASE m + 1 \notin u
      <3>1. \A k \in u : k \in 1..m
        BY <2>2
      <3>2. u \in SUBSET (1..m)
        BY <3>1
      <3>3. QED
        BY <1>2, <3>2
    <2>3. QED
      BY <2>1, <2>2
  <1> HIDE DEF Good
  <1>3. n \in Good
    BY <1>1, <1>2, NatSetInduction
  <1>4. QED
    BY <1>3 DEF Good, Max

\* With the next position, the last is that one.
LEMMA NextPosition ==
  ASSUME NEW n \in Nat, NEW t \in SUBSET (1..(n + 1))
  PROVE  /\ n + 1 \in t => Max(t) = n + 1
         /\ t \ {n + 1} \in SUBSET (1..n)
         /\ n + 1 \notin t => t \in SUBSET (1..n)
  <1>1. \A k \in t : k # n + 1 => k \in 1..n
    OBVIOUS
  <1>2. ASSUME n + 1 \in t PROVE Max(t) = n + 1
    <2> DEFINE m == n + 1
    <2>1. m \in Nat /\ t \in SUBSET (1..m) /\ t # {}
      BY <1>2
    <2> HIDE DEF m
    <2>4. Max(t) \in t /\ \A k \in t : Max(t) >= k
      BY <2>1, LastPosition
    <2>2. Max(t) >= n + 1 /\ Max(t) \in 1..(n + 1)
      BY <1>2, <2>4
    <2>3. QED
      BY <2>2
  <1>3. QED
    BY <1>1, <1>2

\* The positions up to one and those up to the next.
LEMMA UpToNext ==
  ASSUME NEW m \in Nat, NEW n \in Nat, m + 1 <= n
  PROVE  /\ 1..(m + 1) \in SUBSET (1..n) /\ 1..(m + 1) # {}
         /\ Max(1..(m + 1)) = m + 1 /\ 1..(m + 1) \ {m + 1} = 1..m
  <1>1. 1..(m + 1) \in SUBSET (1..n)
    OBVIOUS
  <1>2. m + 1 \in 1..(m + 1) /\ 1..(m + 1) \ {m + 1} = 1..m
    OBVIOUS
  <1>3. Max(1..(m + 1)) = m + 1
    BY <1>2, NextPosition
  <1>4. QED
    BY <1>1, <1>2, <1>3

\* A fold from base over the positions 1..n is a function on the sets of
\* positions that takes the last position first; step is what a position does.
IsFold(g, base, step, n) ==
  g = [t \in SUBSET (1..n) |->
         IF t = {} THEN base ELSE step[<<Max(t), g[t \ {Max(t)}]>>]]

\* Where each step leads from values to values there is such a function, and
\* all it gives are values.
LEMMA FoldExists ==
  ASSUME NEW V, NEW base \in V, NEW n \in Nat, NEW step \in [(1..n) \X V -> V]
  PROVE  \E g \in [SUBSET (1..n) -> V] : IsFold(g, base, step, n)
  <1> DEFINE Has(m) == \E g \in [SUBSET (1..m) -> V] : IsFold(g, base, step, m)
             Good == {m \in Nat : m <= n => Has(m)}
  <1>1. Has(0)
    <2> DEFINE g == [t \in SUBSET (1..0) |-> base]
    <2>1. \A t \in SUBSET (1..0) : t = {}
      OBVIOUS
    <2>2. IsFold(g, base, step, 0) /\ g \in [SUBSET (1..0) -> V]
      BY <2>1 DEF IsFold
    <2>3. QED
      BY <2>2
  <1>2. ASSUME NEW m \in Nat, m + 1 <= n, Has(m) PROVE Has(m + 1)
    <2>1. PICK g \in [SUBSET (1..m) -> V] : IsFold(g, base, step, m)
      BY <1>2
    <2> DEFINE h == [t \in SUBSET (1..(m + 1)) |->
                       IF m + 1 \in t THEN step[<<m + 1, g[t \ {m + 1}]>>] ELSE g[t]]
    <2>2. ASSUME NEW t \in SUBSET (1..(m + 1))
          PROVE  /\ h[t] = IF t = {} THEN base ELSE step[<<Max(t), h[t \ {Max(t)}]>>]
                 /\ h[t] \in V
      <3>1. CASE m + 1 \in t
        <4>1. /\ Max(t) = m + 1 /\ t \ {m + 1} \in SUBSET (1..m) /\ t # {}
              /\ t \ {m + 1} \in SUBSET (1..(m + 1)) /\ m + 1 \notin t \ {m + 1}
          BY <3>1, NextPosition
        <4>2. h[t \ {m + 1}] = g[t \ {m + 1}]
          BY <4>1
        <4>3. h[t] = step[<<m + 1, g[t \ {m + 1}]>>]
          BY <3>1
        <4>4. <<m + 1, g[t \ {m + 1}]>> \in (1..n) \X V
          <5>1. g[t \ {m + 1}] \in V /\ m + 1 \in 1..n
            BY <1>2, <2>1, <4>1
          <5>2. QED
            BY <5>1
        <4>5. step[<<m + 1, g[t \ {m + 1}]>>] \in V
          BY <4>4
        <4>6. QED
          BY <4>1, <4>2, <4>3, <4>5
      <3>2. CASE m + 1 \notin t
        <4>1. t \in SUBSET (1..m) /\ t \ {Max(t)} \in SUBSET (1..(m + 1))
              /\ m + 1 \notin t \ {Max(t)}
          BY <3>2, NextPosition
        <4>2. g[t] = IF t = {} THEN base ELSE step[<<Max(t), g[t \ {Max(t)}]>>]
          BY <2>1, <4>1, Zenon DEF IsFold
        <4>3. h[t \ {Max(t)}] = g[t \ {Max(t)}] /\ h[t] = g[t] /\ g[t] \in V
          BY <2>1, <3>2, <4>1
        <4>4. QED
          BY <4>2, <4>3
      <3>3. QED
        BY <3>1, <3>2
    <2>3. h \in [SUBSET (1..(m + 1)) -> V]
      BY <2>2
    <2> HIDE DEF h
    <2>4. h = [t \in SUBSET (1..(m + 1)) |-> h[t]]
      BY DEF h
    <2>5. IsFold(h, base, step, m + 1)
      BY <2>2, <2>4, Zenon DEF IsFold
    <2>6. QED
      BY <2>3, <2>5
  <1> HIDE DEF Has
  <1>3. 0 \in Good /\ \A m \in Nat : m \in Good => m + 1 \in Good
    BY <1>1, <1>2
  <1> HIDE DEF Good
  <1>4. n \in Good
    BY <1>3, NatSetInduction
  <1>5. Has(n)
    BY <1>4 DEF Good
  <1>6. QED
    BY <1>5 DEF Has
=============================================================================
