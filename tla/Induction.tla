------------------------------ MODULE Induction ------------------------------
(***************************************************************************)
(* Rules for proofs about what folds compute.  The library's rules of      *)
(* induction take an operator; these take a set, and rest on the           *)
(* well-foundedness of strict inclusion between finite sets.               *)
(***************************************************************************)
EXTENDS Integers, FiniteSets, FiniteSetsExt, Functions, FiniteSetTheorems, WellFoundedInduction, TLAPS

\* Of some finite sets one includes no other of them.
LEMMA SmallestSubset ==
  ASSUME NEW S, NEW T, T \subseteq FiniteSubsetsOf(S), T # {}
  PROVE  \E x \in T : \A y \in T : y \subseteq x => y = x
<1>1. \E x \in T : \A y \in T : ~ (<<y, x>> \in StrictSubsetOrdering(S))
  BY WFMin, FS_StrictSubsetOrderingWellFounded
<1> QED BY <1>1 DEF StrictSubsetOrdering, FiniteSubsetsOf

\* Of some numbers one is the least.
LEMMA SmallestNumber ==
  ASSUME NEW T \in SUBSET Nat, T # {}
  PROVE  \E n \in T : \A m \in T : n <= m
<1> DEFINE X == {0 .. n : n \in T}
<1>1. X \subseteq FiniteSubsetsOf(Nat)
  <2> SUFFICES ASSUME NEW n \in T PROVE 0 .. n \in FiniteSubsetsOf(Nat)
    OBVIOUS
  <2> QED BY FS_Interval DEF FiniteSubsetsOf
<1>2. X # {}
  OBVIOUS
<1>3. PICK x \in X : \A y \in X : y \subseteq x => y = x
  <2> HIDE DEF X
  <2> QED BY <1>1, <1>2, SmallestSubset
<1>4. PICK n \in T : x = 0 .. n
  BY <1>3
<1>5. ASSUME NEW m \in T PROVE n <= m
  <2>1. 0 .. m \in X /\ m \in Nat /\ n \in Nat
    OBVIOUS
  <2>2. 0 .. m \subseteq 0 .. n => 0 .. m = 0 .. n
    BY <2>1, <1>3, <1>4
  <2>3. CASE m < n
    <3>1. 0 .. m \subseteq 0 .. n /\ n \in 0 .. n /\ n \notin 0 .. m
      BY <2>1, <2>3
    <3> QED BY <3>1, <2>2
  <2> QED BY <2>1, <2>3
<1> QED BY <1>5

\* Induction over numbers, for a set of them.
LEMMA SetInduction ==
  ASSUME NEW T \in SUBSET Nat, 0 \in T, \A n \in T : n + 1 \in T
  PROVE  T = Nat
<1> SUFFICES ASSUME Nat \ T # {} PROVE FALSE
  OBVIOUS
<1>1. PICK n \in Nat \ T : \A m \in Nat \ T : n <= m
  BY SmallestNumber
<1>2. n # 0 /\ n - 1 \in Nat
  OBVIOUS
<1>3. n - 1 \in T
  BY <1>1, <1>2
<1> QED BY <1>3, <1>1, <1>2

\* A bounded set of numbers has a maximum.
LEMMA MaxIsMax ==
  ASSUME NEW n \in Nat, NEW T \in SUBSET (0 .. n), T # {}
  PROVE  Max(T) \in T /\ \A m \in T : m <= Max(T)
<1> DEFINE X == {n - m : m \in T}
<1>1. X \subseteq Nat /\ X # {}
  <2>1. \A m \in T : m \in Nat /\ n - m \in Nat
    OBVIOUS
  <2> QED BY <2>1
<1>2. PICK k \in X : \A m \in X : k <= m
  BY <1>1, SmallestNumber
<1>3. n - k \in T /\ \A m \in T : n - k >= m
  BY <1>2
<1>4. \E x \in T : \A y \in T : x >= y
  BY <1>3
<1>5. Max(T) \in T /\ \A m \in T : Max(T) >= m
  BY <1>4 DEF Max
<1> QED BY <1>5

-----------------------------------------------------------------------------
(* Sums. *)

\* The sums over the subsets of S, one element after the other.
Chosen(s) == CHOOSE x \in s : TRUE
SumsUp(it, f, S) ==
  \A s \in SUBSET S : it[s] = IF s = {} THEN 0 ELSE f[Chosen(s)] + it[s \ {Chosen(s)}]

LEMMA SumRecursion ==
  ASSUME NEW f, NEW S, IsFiniteSet(S)
  PROVE  \E it : SumsUp(it, f, S) /\ SumFunctionOnSet(f, S) = it[S]
<1> DEFINE Value(it, s) == IF s = {} THEN 0 ELSE f[Chosen(s)] + it[s \ {Chosen(s)}]
           Known(it, k) == \A s \in SUBSET S : Cardinality(s) <= k => it[s] = Value(it, s)
           T == {k \in Nat : \E it : it = [s \in SUBSET S |-> it[s]] /\ Known(it, k)}
<1>1. \A s \in SUBSET S : IsFiniteSet(s) /\ Cardinality(s) \in Nat
  BY FS_Subset, FS_CardinalityType
<1>2. ASSUME NEW s \in SUBSET S, s # {}
      PROVE  /\ Chosen(s) \in s
             /\ s \ {Chosen(s)} \in SUBSET S
             /\ Cardinality(s \ {Chosen(s)}) = Cardinality(s) - 1
  <2>1. Chosen(s) \in s
    BY <1>2 DEF Chosen
  <2> QED BY <2>1, <1>1, FS_RemoveElement
<1>3. 0 \in T
  <2> DEFINE g == [s \in SUBSET S |-> 0]
  <2>1. Known(g, 0)
    <3> SUFFICES ASSUME NEW s \in SUBSET S, Cardinality(s) <= 0 PROVE g[s] = Value(g, s)
      OBVIOUS
    <3>1. s = {}
      BY <1>1, FS_EmptySet
    <3> QED BY <3>1
  <2>2. g = [s \in SUBSET S |-> g[s]]
    OBVIOUS
  <2> HIDE DEF g, Known
  <2> QED BY <2>1, <2>2
<1>4. ASSUME NEW k \in T PROVE k + 1 \in T
  <2>1. PICK g : g = [s \in SUBSET S |-> g[s]] /\ Known(g, k)
    BY <1>4
  <2> DEFINE h == [s \in SUBSET S |-> IF Cardinality(s) <= k THEN g[s] ELSE Value(g, s)]
  <2>2. k \in Nat
    OBVIOUS
  <2>3. Known(h, k + 1)
    <3> SUFFICES ASSUME NEW s \in SUBSET S, Cardinality(s) <= k + 1 PROVE h[s] = Value(h, s)
      OBVIOUS
    <3>1. CASE s = {}
      <4>1. h[s] = Value(g, s)
        BY <2>1
      <4> QED BY <4>1, <3>1
    <3>2. CASE s # {}
      <4>1. h[s \ {Chosen(s)}] = g[s \ {Chosen(s)}]
        BY <1>1, <1>2, <3>2, <2>2, SMTT(40)
      <4>2. h[s] = Value(g, s)
        BY <2>1
      <4> HIDE DEF h
      <4> QED BY <4>1, <4>2, <3>2
    <3> QED BY <3>1, <3>2
  <2>4. h = [s \in SUBSET S |-> h[s]]
    OBVIOUS
  <2> HIDE DEF h, Known
  <2> QED BY <2>2, <2>3, <2>4
<1>5. Cardinality(S) \in T
  <2> HIDE DEF T
  <2>1. T \in SUBSET Nat
    BY DEF T
  <2>2. T = Nat
    BY <2>1, <1>3, <1>4, SetInduction
  <2> QED BY <2>2, <1>1
<1>6. \E it : it = [s \in SUBSET S |-> Value(it, s)]
  <2>1. PICK it : it = [s \in SUBSET S |-> it[s]] /\ Known(it, Cardinality(S))
    BY <1>5
  <2>2. \A s \in SUBSET S : Cardinality(s) <= Cardinality(S)
    BY FS_Subset
  <2>3. \A s \in SUBSET S : it[s] = Value(it, s)
    BY <2>1, <2>2
  <2> HIDE DEF Value
  <2> QED BY <2>1, <2>3
<1>7. PICK it : it = [s \in SUBSET S |-> Value(it, s)] /\ SumFunctionOnSet(f, S) = it[S]
  BY Zenon, <1>6 DEF SumFunctionOnSet, FoldFunctionOnSet, MapThenFoldSet, Chosen
<1>8. \A s \in SUBSET S : it[s] = Value(it, s)
  BY <1>7
<1> QED BY <1>7, <1>8 DEF SumsUp

\* A sum is that of one element and of the others.
LEMMA SumOfChosen ==
  ASSUME NEW f, NEW S, IsFiniteSet(S), S # {}
  PROVE  \E x \in S : SumFunctionOnSet(f, S) = f[x] + SumFunctionOnSet(f, S \ {x})
<1> DEFINE x == Chosen(S)
           R == S \ {x}
<1>1. x \in S /\ R \in SUBSET S /\ IsFiniteSet(R)
  BY FS_Subset DEF Chosen
<1> HIDE DEF x, R
<1>2. PICK it : SumsUp(it, f, S) /\ SumFunctionOnSet(f, S) = it[S]
  BY SumRecursion
<1>3. PICK jt : SumsUp(jt, f, R) /\ SumFunctionOnSet(f, R) = jt[R]
  BY <1>1, SumRecursion
<1>4. it[R] = jt[R]
  <2> DEFINE D == {s \in SUBSET R : it[s] # jt[s]}
  <2> SUFFICES ASSUME D # {} PROVE FALSE
    OBVIOUS
  <2>1. D \subseteq FiniteSubsetsOf(R)
    BY <1>1, FS_Subset DEF FiniteSubsetsOf
  <2>2. PICK s \in D : \A t \in D : t \subseteq s => t = s
    <3> HIDE DEF D
    <3> QED BY <2>1, SmallestSubset
  <2>3. /\ it[s] = IF s = {} THEN 0 ELSE f[Chosen(s)] + it[s \ {Chosen(s)}]
        /\ jt[s] = IF s = {} THEN 0 ELSE f[Chosen(s)] + jt[s \ {Chosen(s)}]
    BY <1>1, <1>2, <1>3 DEF SumsUp
  <2>4. s # {}
    BY <2>3
  <2>5. Chosen(s) \in s
    BY <2>4 DEF Chosen
  <2>6. s \ {Chosen(s)} \notin D
    BY <2>2, <2>5
  <2>7. it[s \ {Chosen(s)}] = jt[s \ {Chosen(s)}]
    BY <2>6
  <2> QED BY <2>3, <2>7
<1>5. it[S] = f[x] + it[R]
  BY <1>1, <1>2 DEF x, R, SumsUp
<1> QED BY <1>1, <1>2, <1>3, <1>4, <1>5 DEF R

LEMMA SumOfNone ==
  ASSUME NEW f
  PROVE  SumFunctionOnSet(f, {}) = 0
<1>1. IsFiniteSet({})
  BY FS_EmptySet
<1>2. PICK it : SumsUp(it, f, {}) /\ SumFunctionOnSet(f, {}) = it[{}]
  BY <1>1, SumRecursion
<1> QED BY <1>2 DEF SumsUp

\* A sum of zeros is 0.
LEMMA SumOfZeros ==
  ASSUME NEW S, IsFiniteSet(S), NEW f, \A x \in S : f[x] = 0
  PROVE  SumFunctionOnSet(f, S) = 0
<1> DEFINE D == {s \in SUBSET S : SumFunctionOnSet(f, s) # 0}
<1> SUFFICES ASSUME D # {} PROVE FALSE
  OBVIOUS
<1>1. D \subseteq FiniteSubsetsOf(S)
  BY FS_Subset DEF FiniteSubsetsOf
<1>2. PICK s \in D : \A t \in D : t \subseteq s => t = s
  <2> HIDE DEF D
  <2> QED BY <1>1, SmallestSubset
<1>3. s # {} /\ IsFiniteSet(s)
  BY SumOfNone, FS_Subset
<1>4. PICK x \in s : SumFunctionOnSet(f, s) = f[x] + SumFunctionOnSet(f, s \ {x})
  BY <1>3, SumOfChosen
<1>5. SumFunctionOnSet(f, s \ {x}) = 0 /\ f[x] = 0
  BY <1>2
<1> QED BY <1>2, <1>4, <1>5

\* Sums of integers are integers, and may be taken in any order.
LEMMA SumOfOne ==
  ASSUME NEW f, NEW S, IsFiniteSet(S), \A x \in S : f[x] \in Int
  PROVE  /\ SumFunctionOnSet(f, S) \in Int
         /\ \A x \in S : SumFunctionOnSet(f, S) = f[x] + SumFunctionOnSet(f, S \ {x})
<1> DEFINE Good(s) == /\ SumFunctionOnSet(f, s) \in Int
                      /\ \A x \in s : SumFunctionOnSet(f, s) = f[x] + SumFunctionOnSet(f, s \ {x})
           D == {s \in SUBSET S : ~Good(s)}
<1> SUFFICES ASSUME D # {} PROVE FALSE
  OBVIOUS
<1>1. D \subseteq FiniteSubsetsOf(S)
  BY FS_Subset DEF FiniteSubsetsOf
<1>2. PICK s \in D : \A t \in D : t \subseteq s => t = s
  <2> HIDE DEF D
  <2> QED BY <1>1, SmallestSubset
<1>3. \A t \in SUBSET s : t # s => Good(t)
  <2> HIDE DEF Good
  <2> QED BY <1>2
<1>4. IsFiniteSet(s) /\ s \in SUBSET S
  BY FS_Subset
<1>5. s # {}
  BY SumOfNone
<1>6. PICK y \in s : SumFunctionOnSet(f, s) = f[y] + SumFunctionOnSet(f, s \ {y})
  BY <1>4, <1>5, SumOfChosen
<1>7. Good(s \ {y}) /\ f[y] \in Int
  <2> HIDE DEF Good
  <2> QED BY <1>3, <1>4
<1>8. SumFunctionOnSet(f, s) \in Int
  BY <1>6, <1>7
<1>9. ASSUME NEW x \in s PROVE SumFunctionOnSet(f, s) = f[x] + SumFunctionOnSet(f, s \ {x})
  <2>1. CASE x = y
    BY <2>1, <1>6
  <2>2. CASE x # y
    <3> DEFINE a == SumFunctionOnSet(f, s)
               b == SumFunctionOnSet(f, s \ {y})
               c == SumFunctionOnSet(f, s \ {x})
               d == SumFunctionOnSet(f, s \ {x, y})
    <3>1. (s \ {y}) \ {x} = s \ {x, y} /\ (s \ {x}) \ {y} = s \ {x, y}
      OBVIOUS
    <3>2. b = f[x] + d
      <4>1. x \in s \ {y}
        BY <2>2
      <4>2. b = f[x] + SumFunctionOnSet(f, (s \ {y}) \ {x})
        BY <4>1, <1>7
      <4> QED BY <4>2, <3>1
    <3>3. c = f[y] + d /\ d \in Int
      <4>1. y \in s \ {x} /\ s \ {x} # s /\ s \ {x, y} # s /\ s \ {x} \in SUBSET s /\ s \ {x, y} \in SUBSET s
        BY <2>2
      <4>2. Good(s \ {x}) /\ Good(s \ {x, y})
        <5> HIDE DEF Good
        <5> QED BY <4>1, <1>3
      <4>3. c = f[y] + SumFunctionOnSet(f, (s \ {x}) \ {y})
        BY <4>1, <4>2
      <4> QED BY <4>2, <4>3, <3>1
    <3>4. f[x] \in Int /\ f[y] \in Int
      BY <1>4
    <3>5. a = f[y] + b
      BY <1>6
    <3> HIDE DEF a, b, c, d
    <3>6. a = f[x] + c
      BY <3>2, <3>3, <3>4, <3>5
    <3> QED BY <3>6 DEF a, c
  <2> QED BY <2>1, <2>2
<1> QED BY <1>2, <1>8, <1>9

\* Smaller numbers have a smaller sum.
LEMMA SumIsMonotonic ==
  ASSUME NEW f, NEW g, NEW S, IsFiniteSet(S), \A x \in S : f[x] \in Int /\ g[x] \in Int /\ f[x] <= g[x]
  PROVE  SumFunctionOnSet(f, S) <= SumFunctionOnSet(g, S)
<1> DEFINE D == {s \in SUBSET S : ~(SumFunctionOnSet(f, s) <= SumFunctionOnSet(g, s))}
<1> SUFFICES ASSUME D # {} PROVE FALSE
  OBVIOUS
<1>1. D \subseteq FiniteSubsetsOf(S)
  BY FS_Subset DEF FiniteSubsetsOf
<1>2. PICK s \in D : \A t \in D : t \subseteq s => t = s
  <2> HIDE DEF D
  <2> QED BY <1>1, SmallestSubset
<1>3. s # {}
  BY SumOfNone
<1>4. PICK x \in s : TRUE
  BY <1>3
<1> DEFINE t == s \ {x}
<1>5. IsFiniteSet(s) /\ IsFiniteSet(t) /\ s \in SUBSET S /\ t \in SUBSET S
  BY FS_Subset
<1>6. SumFunctionOnSet(f, t) <= SumFunctionOnSet(g, t)
  BY <1>2, <1>4
<1> HIDE DEF t
<1>7. \A y \in s : f[y] \in Int /\ g[y] \in Int
  BY <1>5
<1>8. \A y \in t : f[y] \in Int /\ g[y] \in Int
  BY <1>5
<1>9. SumFunctionOnSet(f, s) = f[x] + SumFunctionOnSet(f, t) /\ SumFunctionOnSet(f, t) \in Int
  BY <1>5, <1>7, <1>8, SumOfOne DEF t
<1>10. SumFunctionOnSet(g, s) = g[x] + SumFunctionOnSet(g, t) /\ SumFunctionOnSet(g, t) \in Int
  BY <1>5, <1>7, <1>8, SumOfOne DEF t
<1>11. f[x] \in Int /\ g[x] \in Int /\ f[x] <= g[x]
  BY <1>5
<1> DEFINE a == SumFunctionOnSet(f, t)
           b == SumFunctionOnSet(g, t)
<1>12. a <= b /\ a \in Int /\ b \in Int
  BY <1>6, <1>9, <1>10
<1>13. SumFunctionOnSet(f, s) = f[x] + a /\ SumFunctionOnSet(g, s) = g[x] + b
  BY <1>9, <1>10
<1> HIDE DEF a, b
<1>14. f[x] + a <= g[x] + b
  BY <1>11, <1>12
<1> QED BY <1>2, <1>13, <1>14

\* A sum depends on the summands only.
LEMMA SumIsOfValues ==
  ASSUME NEW f, NEW g, NEW S, IsFiniteSet(S), \A x \in S : f[x] \in Int /\ f[x] = g[x]
  PROVE  SumFunctionOnSet(f, S) = SumFunctionOnSet(g, S)
<1>1. \A x \in S : f[x] \in Int /\ g[x] \in Int /\ f[x] <= g[x] /\ g[x] <= f[x]
  OBVIOUS
<1>2. SumFunctionOnSet(f, S) <= SumFunctionOnSet(g, S) /\ SumFunctionOnSet(g, S) <= SumFunctionOnSet(f, S)
  BY <1>1, SumIsMonotonic
<1>3. SumFunctionOnSet(f, S) \in Int /\ SumFunctionOnSet(g, S) \in Int
  BY <1>1, SumOfOne
<1> QED BY <1>2, <1>3

\* When one summand changes, the sum changes by as much.
LEMMA SumExcept ==
  ASSUME NEW f, NEW g, NEW S, IsFiniteSet(S), NEW x \in S,
         \A y \in S : f[y] \in Int /\ g[y] \in Int, \A y \in S \ {x} : f[y] = g[y]
  PROVE  SumFunctionOnSet(g, S) = SumFunctionOnSet(f, S) - f[x] + g[x]
<1> DEFINE a == SumFunctionOnSet(f, S)
           b == SumFunctionOnSet(g, S)
           c == SumFunctionOnSet(f, S \ {x})
           d == SumFunctionOnSet(g, S \ {x})
<1>1. a = f[x] + c /\ b = g[x] + d
  BY SumOfOne
<1>2. IsFiniteSet(S \ {x})
  BY FS_Subset
<1>3. c = d
  BY <1>2, SumIsOfValues
<1>4. c \in Int
  BY <1>2, SumOfOne
<1>5. f[x] \in Int /\ g[x] \in Int
  OBVIOUS
<1> HIDE DEF a, b, c, d
<1>6. b = a - f[x] + g[x]
  BY <1>1, <1>3, <1>4, <1>5
<1> QED BY <1>6 DEF a, b

\* Fewer summands that are not negative have a smaller sum.
LEMMA SumOfSubset ==
  ASSUME NEW f, NEW S, IsFiniteSet(S), \A x \in S : f[x] \in Nat, NEW T \in SUBSET S
  PROVE  SumFunctionOnSet(f, T) <= SumFunctionOnSet(f, S)
<1> DEFINE D == {s \in SUBSET S : T \subseteq s /\ ~(SumFunctionOnSet(f, T) <= SumFunctionOnSet(f, s))}
<1> SUFFICES ASSUME D # {} PROVE FALSE
  OBVIOUS
<1>1. D \subseteq FiniteSubsetsOf(S)
  BY FS_Subset DEF FiniteSubsetsOf
<1>2. PICK s \in D : \A t \in D : t \subseteq s => t = s
  <2> HIDE DEF D
  <2> QED BY <1>1, SmallestSubset
<1>3. IsFiniteSet(s) /\ s \in SUBSET S /\ T \subseteq s
  BY FS_Subset
<1>4. \A y \in s : f[y] \in Int /\ f[y] >= 0
  BY <1>3
<1>5. SumFunctionOnSet(f, s) \in Int
  BY <1>3, <1>4, SumOfOne
<1>6. s # T
  BY <1>2, <1>5
<1>7. PICK x \in s : x \notin T
  BY <1>3, <1>6
<1> DEFINE t == s \ {x}
<1>8. IsFiniteSet(t) /\ t \in SUBSET S /\ T \subseteq t /\ t # s /\ t \subseteq s
  BY <1>3, <1>7, FS_Subset
<1>9. SumFunctionOnSet(f, T) <= SumFunctionOnSet(f, t)
  <2> HIDE DEF t
  <2> QED BY <1>2, <1>8
<1>10. SumFunctionOnSet(f, s) = f[x] + SumFunctionOnSet(f, t)
  BY <1>3, <1>4, SumOfOne
<1>11. IsFiniteSet(T)
  BY FS_Subset
<1>12. SumFunctionOnSet(f, t) \in Int /\ SumFunctionOnSet(f, T) \in Int
  <2> HIDE DEF t
  <2>1. \A y \in t : f[y] \in Int
    BY <1>8
  <2>2. \A y \in T : f[y] \in Int
    OBVIOUS
  <2> QED BY <2>1, <2>2, <1>8, <1>11, SumOfOne
<1> DEFINE a == SumFunctionOnSet(f, t)
           b == SumFunctionOnSet(f, T)
<1>13. a \in Int /\ b \in Int /\ b <= a /\ SumFunctionOnSet(f, s) = f[x] + a
  BY <1>9, <1>10, <1>12
<1>14. f[x] \in Int /\ f[x] >= 0
  BY <1>4
<1> HIDE DEF a, b, t, D
<1>15. b <= f[x] + a
  BY <1>13, <1>14
<1>16. SumFunctionOnSet(f, T) <= SumFunctionOnSet(f, s)
  BY <1>13, <1>15 DEF b
<1> QED BY <1>2, <1>3, <1>16 DEF D
=============================================================================
