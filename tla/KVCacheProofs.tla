--------------------------- MODULE KVCacheProofs ---------------------------
(***************************************************************************)
(* Proofs about the KV-cache manager: for any number of requests, blocks   *)
(* and batches in flight, and texts of any length, the invariant KVInv     *)
(* holds, and with it what the runs check of KVCacheManager.               *)
(*                                                                         *)
(* First come the lemmas about the sequences and sets that the pool is     *)
(* made of; then what each method of the pool keeps of the relation        *)
(* Good between pool, block tables and counts of cached blocks; then one   *)
(* lemma for each action of the scheduler; then the theorems.              *)
(***************************************************************************)
EXTENDS KVCacheManager, Induction, FiniteSetTheorems, SequenceTheorems, TLAPS

-----------------------------------------------------------------------------
(* Without, by its recursion over the prefixes of a sequence. *)

LEMMA WithoutSteps ==
  ASSUME NEW S, NEW seq \in Seq(S), NEW bs
  PROVE  \E it :
           /\ it[0] = <<>>
           /\ \A n \in 1 .. Len(seq) :
                it[n] = IF seq[n] \in bs THEN it[n - 1] ELSE Append(it[n - 1], seq[n])
           /\ Without(seq, bs) = it[Len(seq)]
<1> DEFINE D == 1 .. Len(seq)
           Value(it, s) == IF s = {} THEN <<>>
                           ELSE IF seq[Max(s)] \in bs THEN it[s \ {Max(s)}]
                                ELSE Append(it[s \ {Max(s)}], seq[Max(s)])
           Upto(it, k) == \A s \in SUBSET D : Cardinality(s) <= k => it[s] = Value(it, s)
           T == {k \in Nat : \E it : it = [s \in SUBSET D |-> it[s]] /\ Upto(it, k)}
<1>1. Len(seq) \in Nat /\ IsFiniteSet(D) /\ DOMAIN seq = D
  BY FS_Interval
<1>2. \A s \in SUBSET D : IsFiniteSet(s) /\ Cardinality(s) \in Nat
  BY <1>1, FS_Subset, FS_CardinalityType
<1>3. ASSUME NEW s \in SUBSET D, s # {}
      PROVE  /\ Max(s) \in s
             /\ s \ {Max(s)} \in SUBSET D
             /\ Cardinality(s \ {Max(s)}) = Cardinality(s) - 1
  <2>1. s \in SUBSET (0 .. Len(seq))
    BY <1>1
  <2>2. Max(s) \in s
    BY <2>1, <1>1, <1>3, MaxIsMax
  <2> QED BY <2>2, <1>2, FS_RemoveElement
<1>4. 0 \in T
  <2> DEFINE f == [s \in SUBSET D |-> <<>>]
  <2>1. Upto(f, 0)
    <3> SUFFICES ASSUME NEW s \in SUBSET D, Cardinality(s) <= 0 PROVE f[s] = Value(f, s)
      OBVIOUS
    <3>1. s = {}
      BY <1>2, FS_EmptySet
    <3> QED BY <3>1
  <2>2. f = [s \in SUBSET D |-> f[s]]
    OBVIOUS
  <2> HIDE DEF f, Upto
  <2> QED BY <2>1, <2>2
<1>5. ASSUME NEW k \in T PROVE k + 1 \in T
  <2>1. PICK f : f = [s \in SUBSET D |-> f[s]] /\ Upto(f, k)
    BY <1>5
  <2> DEFINE g == [s \in SUBSET D |-> IF Cardinality(s) <= k THEN f[s] ELSE Value(f, s)]
  <2>2. k \in Nat
    OBVIOUS
  <2>3. Upto(g, k + 1)
    <3> SUFFICES ASSUME NEW s \in SUBSET D, Cardinality(s) <= k + 1 PROVE g[s] = Value(g, s)
      OBVIOUS
    <3>1. CASE s = {}
      <4>1. g[s] = Value(f, s)
        BY <2>1
      <4> QED BY <4>1, <3>1
    <3>2. CASE s # {}
      <4>1. g[s \ {Max(s)}] = f[s \ {Max(s)}]
        BY <1>2, <1>3, <3>2, <2>2, SMTT(40)
      <4>2. g[s] = Value(f, s)
        BY <2>1
      <4> HIDE DEF g
      <4> QED BY <4>1, <4>2, <3>2
    <3> QED BY <3>1, <3>2
  <2>4. g = [s \in SUBSET D |-> g[s]]
    OBVIOUS
  <2> HIDE DEF g, Upto
  <2> QED BY <2>2, <2>3, <2>4
<1>6. Cardinality(D) \in T
  <2> HIDE DEF T
  <2>1. T \in SUBSET Nat
    BY DEF T
  <2>2. T = Nat
    BY <2>1, <1>4, <1>5, SetInduction
  <2> QED BY <2>2, <1>2
<1>7. \E it : it = [s \in SUBSET D |-> Value(it, s)]
  <2>1. PICK it : it = [s \in SUBSET D |-> it[s]] /\ Upto(it, Cardinality(D))
    BY <1>6
  <2>2. \A s \in SUBSET D : Cardinality(s) <= Cardinality(D)
    BY <1>1, FS_Subset
  <2>3. \A s \in SUBSET D : it[s] = Value(it, s)
    BY <2>1, <2>2
  <2> HIDE DEF Value
  <2> QED BY <2>1, <2>3
<1>8. PICK it : it = [s \in SUBSET D |-> Value(it, s)] /\ Without(seq, bs) = it[D]
  BY Zenon, <1>1, <1>7 DEF Without, FoldLeft, MapThenFoldSet
<1> DEFINE a == [n \in 0 .. Len(seq) |-> it[1 .. n]]
<1>9. a[0] = <<>>
  <2>1. 1 .. 0 = {} /\ 1 .. 0 \in SUBSET D
    OBVIOUS
  <2> QED BY <2>1, <1>1, <1>8
<1>10. ASSUME NEW n \in 1 .. Len(seq)
       PROVE  a[n] = IF seq[n] \in bs THEN a[n - 1] ELSE Append(a[n - 1], seq[n])
  <2>1. /\ n \in Nat
        /\ 1 .. n \subseteq D
        /\ n \in 1 .. n
        /\ 1 .. n \subseteq 0 .. n
    BY <1>1
  <2>2. Max(1 .. n) = n
    <3>1. 1 .. n \in SUBSET (0 .. n) /\ 1 .. n # {}
      BY <2>1
    <3>2. Max(1 .. n) \in 1 .. n /\ \A m \in 1 .. n : m <= Max(1 .. n)
      BY <2>1, <3>1, MaxIsMax
    <3> QED BY <3>2, <2>1
  <2>3. (1 .. n) \ {n} = 1 .. n - 1
    BY <2>1
  <2>4. it[1 .. n] = Value(it, 1 .. n)
    BY <1>8, <2>1
  <2>5. it[1 .. n] = IF seq[n] \in bs THEN it[1 .. n - 1] ELSE Append(it[1 .. n - 1], seq[n])
    BY <2>1, <2>2, <2>3, <2>4
  <2>6. a[n] = it[1 .. n] /\ a[n - 1] = it[1 .. n - 1]
    BY <1>1
  <2> QED BY <2>5, <2>6
<1>11. Without(seq, bs) = a[Len(seq)]
  BY <1>8, <1>1
<1> HIDE DEF a
<1> QED BY <1>9, <1>10, <1>11

\* What is left is what is not in bs, in its order, and as often as it was.
LEMMA WithoutLeaves ==
  ASSUME NEW S, NEW seq \in Seq(S), NEW bs
  PROVE  LET w == Without(seq, bs)
         IN  /\ w \in Seq(S)
             /\ ToSet(w) = ToSet(seq) \ bs
             /\ \A i, j \in 1 .. Len(seq) : i < j /\ seq[i] \notin bs /\ seq[j] \notin bs =>
                  \E k, l \in 1 .. Len(w) : k < l /\ w[k] = seq[i] /\ w[l] = seq[j]
             /\ IsInjective(seq) => IsInjective(w)
<1>1. PICK it :
        /\ it[0] = <<>>
        /\ \A n \in 1 .. Len(seq) :
             it[n] = IF seq[n] \in bs THEN it[n - 1] ELSE Append(it[n - 1], seq[n])
        /\ Without(seq, bs) = it[Len(seq)]
  BY WithoutSteps
<1> DEFINE Origin(w, n) == \A k \in 1 .. Len(w) : \E i \in 1 .. n : w[k] = seq[i] /\ seq[i] \notin bs
           Kept(w, n) == \A i \in 1 .. n : seq[i] \notin bs => \E k \in 1 .. Len(w) : w[k] = seq[i]
           Order(w, n) == \A i, j \in 1 .. n : i < j /\ seq[i] \notin bs /\ seq[j] \notin bs =>
                            \E k, l \in 1 .. Len(w) : k < l /\ w[k] = seq[i] /\ w[l] = seq[j]
           Once(w) == IsInjective(seq) => \A k, l \in 1 .. Len(w) : w[k] = w[l] => k = l
           Holds(w, n) == w \in Seq(S) /\ Origin(w, n) /\ Kept(w, n) /\ Order(w, n) /\ Once(w)
           T == {n \in Nat : n <= Len(seq) => Holds(it[n], n)}
<1>2. Len(seq) \in Nat /\ DOMAIN seq = 1 .. Len(seq) /\ \A n \in 1 .. Len(seq) : seq[n] \in S
  OBVIOUS
<1>3. 0 \in T
  <2>1. Holds(<<>>, 0)
    OBVIOUS
  <2> HIDE DEF Holds
  <2> QED BY <2>1, <1>1
<1>4. ASSUME NEW n \in T PROVE n + 1 \in T
  <2> SUFFICES ASSUME n + 1 <= Len(seq) PROVE Holds(it[n + 1], n + 1)
    OBVIOUS
  <2> DEFINE v == it[n]
  <2>1. n \in Nat /\ n + 1 \in 1 .. Len(seq) /\ Holds(v, n)
    BY <1>2
  <2> HIDE DEF v, T
  <2>2. CASE seq[n + 1] \in bs
    <3>1. it[n + 1] = v
      BY <2>1, <2>2, <1>1 DEF v
    <3>2. Holds(v, n + 1)
      BY <2>1, <2>2, SMTT(40)
    <3> QED BY <3>1, <3>2
  <2>3. CASE seq[n + 1] \notin bs
    <3> DEFINE w == Append(v, seq[n + 1])
    <3>1. it[n + 1] = w
      <4>1. (n + 1) - 1 = n
        BY <2>1
      <4> QED BY <4>1, <2>1, <2>3, <1>1 DEF v
    <3>2. /\ w \in Seq(S)
          /\ Len(v) \in Nat
          /\ Len(w) = Len(v) + 1
          /\ \A k \in 1 .. Len(v) : w[k] = v[k]
          /\ w[Len(w)] = seq[n + 1]
      BY <2>1, <1>2
    <3> HIDE DEF w
    <3>3. Origin(w, n + 1)
      <4> SUFFICES ASSUME NEW k \in 1 .. Len(w)
                   PROVE  \E i \in 1 .. n + 1 : w[k] = seq[i] /\ seq[i] \notin bs
        OBVIOUS
      <4>1. CASE k = Len(w)
        BY <4>1, <3>2, <2>1, <2>3
      <4>2. CASE k # Len(w)
        <5>1. k \in 1 .. Len(v) /\ w[k] = v[k]
          BY <4>2, <3>2
        <5> QED BY <5>1, <2>1
      <4> QED BY <4>1, <4>2
    <3>4. Kept(w, n + 1)
      <4> SUFFICES ASSUME NEW i \in 1 .. n + 1, seq[i] \notin bs
                   PROVE  \E k \in 1 .. Len(w) : w[k] = seq[i]
        OBVIOUS
      <4>1. CASE i = n + 1
        BY <4>1, <3>2
      <4>2. CASE i # n + 1
        <5>1. PICK k \in 1 .. Len(v) : v[k] = seq[i]
          BY <4>2, <2>1
        <5> QED BY <5>1, <3>2
      <4> QED BY <4>1, <4>2
    <3>5. Order(w, n + 1)
      <4> SUFFICES ASSUME NEW i \in 1 .. n + 1, NEW j \in 1 .. n + 1, i < j,
                          seq[i] \notin bs, seq[j] \notin bs
                   PROVE  \E k, l \in 1 .. Len(w) : k < l /\ w[k] = seq[i] /\ w[l] = seq[j]
        OBVIOUS
      <4>1. i \in 1 .. n
        BY <2>1
      <4>2. CASE j = n + 1
        <5>1. PICK k \in 1 .. Len(v) : v[k] = seq[i]
          BY <4>1, <2>1
        <5>2. k \in 1 .. Len(w) /\ Len(w) \in 1 .. Len(w) /\ k < Len(w) /\ w[k] = seq[i]
          BY <5>1, <3>2
        <5> QED BY <5>2, <4>2, <3>2
      <4>3. CASE j # n + 1
        <5>1. j \in 1 .. n
          BY <4>3, <2>1
        <5>2. PICK k \in 1 .. Len(v), l \in 1 .. Len(v) : k < l /\ v[k] = seq[i] /\ v[l] = seq[j]
          BY <4>1, <5>1, <2>1, SMTT(40)
        <5> QED BY <5>2, <3>2, SMTT(40)
      <4> QED BY <4>2, <4>3
    <3>6. Once(w)
      <4> SUFFICES ASSUME IsInjective(seq), NEW k \in 1 .. Len(w), NEW l \in 1 .. Len(w),
                          w[k] = w[l]
                   PROVE  k = l
        OBVIOUS
      <4>1. ASSUME NEW m \in 1 .. Len(v) PROVE w[m] # seq[n + 1]
        <5>1. PICK i \in 1 .. n : v[m] = seq[i]
          BY <2>1
        <5>2. seq[i] # seq[n + 1]
          BY <5>1, <2>1, <1>2, SMTT(40) DEF IsInjective
        <5> QED BY <5>1, <5>2, <3>2
      <4>2. CASE k \in 1 .. Len(v) /\ l \in 1 .. Len(v)
        BY <4>2, <3>2, <2>1
      <4> QED BY <4>1, <4>2, <3>2
    <3>7. Holds(w, n + 1)
      BY <3>2, <3>3, <3>4, <3>5, <3>6
    <3> QED BY <3>1, <3>7
  <2> QED BY <2>2, <2>3
<1>5. Holds(it[Len(seq)], Len(seq))
  <2> HIDE DEF Holds
  <2>1. T \in SUBSET Nat
    OBVIOUS
  <2>2. T = Nat
    <3> HIDE DEF T
    <3> QED BY <2>1, <1>3, <1>4, SetInduction
  <2>3. Len(seq) \in T
    BY <1>2, <2>2
  <2> QED BY <2>3, <1>2
<1> DEFINE w == Without(seq, bs)
<1>6. Holds(w, Len(seq))
  <2> HIDE DEF Holds
  <2> QED BY <1>5, <1>1
<1> HIDE DEF w
<1>7. w \in Seq(S) /\ DOMAIN w = 1 .. Len(w)
  BY <1>6
<1>8. ToSet(w) = ToSet(seq) \ bs
  <2>1. ASSUME NEW x \in ToSet(w) PROVE x \in ToSet(seq) \ bs
    <3>1. PICK k \in 1 .. Len(w) : w[k] = x
      BY <1>7 DEF ToSet
    <3>2. PICK i \in 1 .. Len(seq) : w[k] = seq[i] /\ seq[i] \notin bs
      BY <1>6
    <3> QED BY <3>1, <3>2, <1>2 DEF ToSet
  <2>2. ASSUME NEW x \in ToSet(seq), x \notin bs PROVE x \in ToSet(w)
    <3>1. PICK i \in 1 .. Len(seq) : seq[i] = x
      BY <1>2 DEF ToSet
    <3>2. PICK k \in 1 .. Len(w) : w[k] = seq[i]
      BY <3>1, <2>2, <1>6
    <3> QED BY <3>1, <3>2, <1>7 DEF ToSet
  <2> QED BY <2>1, <2>2
<1>9. IsInjective(seq) => IsInjective(w)
  BY <1>6, <1>7 DEF IsInjective
<1> QED BY <1>6, <1>8, <1>9 DEF w

\* A sequence without repetitions is as long as the set of its elements.
LEMMA LengthIsCardinality ==
  ASSUME NEW S, NEW seq \in Seq(S), IsInjective(seq)
  PROVE  IsFiniteSet(ToSet(seq)) /\ Cardinality(ToSet(seq)) = Len(seq) /\ Len(seq) \in Nat
<1>1. /\ Len(seq) \in Nat
      /\ DOMAIN seq = 1 .. Len(seq)
      /\ seq \in [1 .. Len(seq) -> ToSet(seq)]
  BY DEF ToSet
<1>2. seq \in Bijection(1 .. Len(seq), ToSet(seq))
  BY <1>1 DEF Bijection, Injection, Surjection, IsInjective, ToSet
<1>3. ExistsBijection(1 .. Len(seq), ToSet(seq))
  BY <1>2 DEF ExistsBijection
<1> QED BY <1>1, <1>3, FS_NatBijection, FS_CountingElements

-----------------------------------------------------------------------------
(* Sequences without repetitions. *)

LEMMA Elements ==
  ASSUME NEW S, NEW s \in Seq(S)
  PROVE  /\ Len(s) \in Nat
         /\ DOMAIN s = 1 .. Len(s)
         /\ ToSet(s) = {s[i] : i \in 1 .. Len(s)}
         /\ ToSet(s) \subseteq S
         /\ \A i \in 1 .. Len(s) : s[i] \in ToSet(s)
         /\ \A x \in ToSet(s) : \E i \in 1 .. Len(s) : s[i] = x
         /\ IsInjective(s) <=> \A i, j \in 1 .. Len(s) : s[i] = s[j] => i = j
BY DEF ToSet, IsInjective

LEMMA OfConcat ==
  ASSUME NEW S, NEW s \in Seq(S), NEW t \in Seq(S)
  PROVE  /\ s \o t \in Seq(S)
         /\ ToSet(s \o t) = ToSet(s) \union ToSet(t)
         /\ IsInjective(s) /\ IsInjective(t) /\ ToSet(s) \intersect ToSet(t) = {} =>
              IsInjective(s \o t)
<1> DEFINE u == s \o t
<1>1. /\ u \in Seq(S)
      /\ Len(s) \in Nat /\ Len(t) \in Nat
      /\ Len(u) = Len(s) + Len(t)
      /\ \A i \in 1 .. Len(s) : u[i] = s[i] /\ i \in 1 .. Len(u)
      /\ \A i \in 1 .. Len(t) : u[Len(s) + i] = t[i] /\ Len(s) + i \in 1 .. Len(u)
  OBVIOUS
<1>2. ASSUME NEW i \in 1 .. Len(u)
      PROVE  \/ i \in 1 .. Len(s) /\ u[i] = s[i]
             \/ i - Len(s) \in 1 .. Len(t) /\ u[i] = t[i - Len(s)]
  OBVIOUS
<1> HIDE DEF u
<1>3. ToSet(u) = ToSet(s) \union ToSet(t)
  <2>1. ASSUME NEW x \in ToSet(u) PROVE x \in ToSet(s) \union ToSet(t)
    <3>1. PICK i \in 1 .. Len(u) : u[i] = x
      BY <1>1, Elements
    <3> QED BY <3>1, <1>2, Elements
  <2>2. ASSUME NEW x \in ToSet(s) PROVE x \in ToSet(u)
    <3>1. PICK i \in 1 .. Len(s) : s[i] = x
      BY Elements
    <3> QED BY <3>1, <1>1, Elements
  <2>3. ASSUME NEW x \in ToSet(t) PROVE x \in ToSet(u)
    <3>1. PICK i \in 1 .. Len(t) : t[i] = x
      BY Elements
    <3> QED BY <3>1, <1>1, Elements
  <2> QED BY <2>1, <2>2, <2>3
<1>4. ASSUME IsInjective(s), IsInjective(t), ToSet(s) \intersect ToSet(t) = {}
      PROVE  IsInjective(u)
  <2>1. SUFFICES ASSUME NEW i \in 1 .. Len(u), NEW j \in 1 .. Len(u), u[i] = u[j] PROVE i = j
    BY <1>1, Elements
  <2>0. /\ \A k, l \in 1 .. Len(s) : s[k] = s[l] => k = l
        /\ \A k, l \in 1 .. Len(t) : t[k] = t[l] => k = l
    BY <1>4, Elements
  <2>2. CASE i \in 1 .. Len(s) /\ u[i] = s[i] /\ j \in 1 .. Len(s) /\ u[j] = s[j]
    BY <2>1, <2>2, <2>0
  <2>3. CASE /\ i - Len(s) \in 1 .. Len(t) /\ u[i] = t[i - Len(s)]
             /\ j - Len(s) \in 1 .. Len(t) /\ u[j] = t[j - Len(s)]
    <3>1. i - Len(s) = j - Len(s)
      BY <2>1, <2>3, <2>0
    <3> QED BY <3>1, <1>1
  <2>4. \A k \in 1 .. Len(s), l \in 1 .. Len(t) : s[k] # t[l]
    BY <1>4, Elements
  <2> QED BY <2>1, <2>2, <2>3, <2>4, <1>2
<1> QED BY <1>1, <1>3, <1>4 DEF u

LEMMA OfReverse ==
  ASSUME NEW S, NEW s \in Seq(S)
  PROVE  /\ Reverse(s) \in Seq(S)
         /\ Len(Reverse(s)) = Len(s)
         /\ \A i \in 1 .. Len(s) : /\ Len(s) - i + 1 \in 1 .. Len(s)
                                   /\ Reverse(s)[Len(s) - i + 1] = s[i]
         /\ ToSet(Reverse(s)) = ToSet(s)
         /\ IsInjective(s) => IsInjective(Reverse(s))
<1> DEFINE t == Reverse(s)
<1>1. /\ t \in Seq(S) /\ Len(s) \in Nat /\ Len(t) = Len(s)
      /\ \A i \in 1 .. Len(s) : t[i] = s[(Len(s) - i) + 1] /\ (Len(s) - i) + 1 \in 1 .. Len(s)
  BY DEF Reverse
<1>2. \A i \in 1 .. Len(s) : Len(s) - i + 1 \in 1 .. Len(s) /\ t[Len(s) - i + 1] = s[i]
  <2> SUFFICES ASSUME NEW i \in 1 .. Len(s)
               PROVE  Len(s) - i + 1 \in 1 .. Len(s) /\ t[Len(s) - i + 1] = s[i]
    OBVIOUS
  <2>1. Len(s) - i + 1 \in 1 .. Len(s) /\ (Len(s) - (Len(s) - i + 1)) + 1 = i
    BY <1>1
  <2> QED BY <2>1, <1>1
<1> HIDE DEF t
<1>3. ToSet(t) = ToSet(s)
  <2>1. ASSUME NEW x \in ToSet(t) PROVE x \in ToSet(s)
    <3>1. PICK i \in 1 .. Len(t) : t[i] = x
      BY <1>1, Elements
    <3>2. (Len(s) - i) + 1 \in 1 .. Len(s) /\ x = s[(Len(s) - i) + 1]
      BY <3>1, <1>1
    <3> QED BY <3>2, Elements
  <2>2. ASSUME NEW x \in ToSet(s) PROVE x \in ToSet(t)
    <3>1. PICK i \in 1 .. Len(s) : s[i] = x
      BY Elements
    <3>2. t[Len(s) - i + 1] \in ToSet(t)
      BY <1>1, <1>2, Elements
    <3> QED BY <3>1, <3>2, <1>2
  <2> QED BY <2>1, <2>2
<1>4. ASSUME IsInjective(s) PROVE IsInjective(t)
  <2>1. SUFFICES ASSUME NEW i \in 1 .. Len(s), NEW j \in 1 .. Len(s), t[i] = t[j] PROVE i = j
    BY <1>1, Elements
  <2>0. \A k, l \in 1 .. Len(s) : s[k] = s[l] => k = l
    BY <1>4, Elements
  <2>2. (Len(s) - i) + 1 = (Len(s) - j) + 1
    BY <2>1, <2>0, <1>1
  <2> QED BY <2>2, <1>1
<1> QED BY <1>1, <1>2, <1>3, <1>4 DEF t

\* The first n elements, and the others.
LEMMA OfSplit ==
  ASSUME NEW S, NEW s \in Seq(S), NEW n \in 0 .. Len(s), IsInjective(s)
  PROVE  LET a == SubSeq(s, 1, n)
             z == SubSeq(s, n + 1, Len(s))
         IN  /\ a \in Seq(S) /\ Len(a) = n /\ \A i \in 1 .. n : a[i] = s[i]
             /\ z \in Seq(S) /\ Len(z) = Len(s) - n
             /\ \A i \in 1 .. Len(s) - n : z[i] = s[n + i]
             /\ IsInjective(a) /\ IsInjective(z)
             /\ ToSet(z) = ToSet(s) \ ToSet(a)
             /\ ToSet(a) \subseteq ToSet(s)
<1> DEFINE a == SubSeq(s, 1, n)
           z == SubSeq(s, n + 1, Len(s))
<1>1. /\ n \in Nat /\ Len(s) \in Nat /\ n <= Len(s)
      /\ a \in Seq(S) /\ Len(a) = n /\ \A i \in 1 .. n : a[i] = s[i]
      /\ z \in Seq(S) /\ Len(z) = Len(s) - n
      /\ \A i \in 1 .. Len(s) - n : z[i] = s[n + i] /\ n + i \in 1 .. Len(s)
  OBVIOUS
<1> HIDE DEF a, z
<1>0. \A k, l \in 1 .. Len(s) : s[k] = s[l] => k = l
  BY Elements
<1>2. IsInjective(a)
  <2>1. SUFFICES ASSUME NEW i \in 1 .. Len(a), NEW j \in 1 .. Len(a), a[i] = a[j] PROVE i = j
    BY <1>1, Elements
  <2> QED BY <2>1, <1>0, <1>1
<1>3. IsInjective(z)
  <2>1. SUFFICES ASSUME NEW i \in 1 .. Len(z), NEW j \in 1 .. Len(z), z[i] = z[j] PROVE i = j
    BY <1>1, Elements
  <2>2. n + i = n + j
    BY <2>1, <1>0, <1>1
  <2> QED BY <2>2, <1>1
<1>4. ToSet(a) \subseteq ToSet(s)
  <2> SUFFICES ASSUME NEW x \in ToSet(a) PROVE x \in ToSet(s)
    OBVIOUS
  <2>1. PICK i \in 1 .. Len(a) : x = a[i]
    BY <1>1, Elements
  <2>2. i \in 1 .. Len(s) /\ x = s[i]
    BY <2>1, <1>1
  <2> QED BY <2>2, Elements
<1>5. ASSUME NEW x \in ToSet(z) PROVE x \in ToSet(s) /\ x \notin ToSet(a)
  <2>0. PICK i \in 1 .. Len(z) : x = z[i]
    BY <1>1, Elements
  <2>1. i \in 1 .. Len(s) - n /\ x = s[n + i] /\ n + i \in 1 .. Len(s)
    BY <2>0, <1>1
  <2>2. ASSUME NEW j \in 1 .. n PROVE a[j] # x
    <3>1. a[j] = s[j] /\ j \in 1 .. Len(s) /\ j # n + i
      BY <2>1, <1>1
    <3> QED BY <3>1, <2>1, <1>0
  <2> QED BY <2>1, <2>2, <1>1, Elements
<1>6. ASSUME NEW x \in ToSet(s), x \notin ToSet(a) PROVE x \in ToSet(z)
  <2>1. PICK i \in 1 .. Len(s) : x = s[i]
    BY Elements
  <2>2. i \notin 1 .. n
    <3>1. \A j \in 1 .. n : a[j] \in ToSet(a)
      BY <1>1, Elements
    <3> QED BY <3>1, <2>1, <1>1, <1>6
  <2>3. i - n \in 1 .. Len(s) - n /\ n + (i - n) = i
    BY <2>2, <1>1
  <2>4. z[i - n] = x
    BY <2>1, <2>3, <1>1
  <2> QED BY <2>3, <2>4, <1>1, Elements
<1>7. ToSet(z) = ToSet(s) \ ToSet(a)
  BY <1>5, <1>6
<1> QED BY <1>1, <1>2, <1>3, <1>4, <1>7 DEF a, z


-----------------------------------------------------------------------------
(* The operations of the pool. *)

\* The map and the blocks agree.
MapExact(p) ==
  /\ \A b \in Blocks, h \in Hashes : p.block_hash[b] = h <=> b \in ToSet(p.cached[h])
  /\ \A h \in Hashes : IsInjective(p.cached[h])

\* The queue is the blocks that nobody holds.
QueueExact(p) ==
  /\ IsInjective(p.free_block_queue)
  /\ ToSet(p.free_block_queue) = {b \in Blocks : p.ref_cnt[b] = 0}

\* b is evicted before c.
Before(p, b, c) ==
  \E i, j \in 1 .. Len(p.free_block_queue) :
    i < j /\ p.free_block_queue[i] = b /\ p.free_block_queue[j] = c

\* What is left of a queue is in its order.
LEMMA OrderOfWithout ==
  ASSUME NEW p, NEW q, NEW bs,
         p.free_block_queue \in Seq(Blocks),
         q.free_block_queue = Without(p.free_block_queue, bs),
         NEW b, NEW c, Before(p, b, c), b \notin bs, c \notin bs
  PROVE  Before(q, b, c)
<1> DEFINE s == p.free_block_queue
           w == q.free_block_queue
<1>1. \A i, j \in 1 .. Len(s) : i < j /\ s[i] \notin bs /\ s[j] \notin bs =>
        \E k, l \in 1 .. Len(w) : k < l /\ w[k] = s[i] /\ w[l] = s[j]
  BY WithoutLeaves, SMTT(40)
<1>2. PICK i \in 1 .. Len(s), j \in 1 .. Len(s) : i < j /\ s[i] = b /\ s[j] = c
  BY DEF Before
<1>3. \E k, l \in 1 .. Len(w) : k < l /\ w[k] = b /\ w[l] = c
  BY <1>1, <1>2
<1> QED BY <1>3 DEF Before

LEMMA TouchedPool ==
  ASSUME NEW p \in Pools, NEW bs \in SUBSET Blocks, QueueExact(p)
  PROVE  LET t == Touched(p, bs)
         IN  /\ t \in Pools
             /\ t.block_hash = p.block_hash
             /\ t.cached = p.cached
             /\ t.ref_cnt = [b \in Blocks |-> IF b \in bs THEN p.ref_cnt[b] + 1 ELSE p.ref_cnt[b]]
             /\ t.free_block_queue = Without(p.free_block_queue, bs)
             /\ QueueExact(t)
             /\ \A b, c \in Blocks \ bs : Before(p, b, c) => Before(t, b, c)
             /\ Len(t.free_block_queue) =
                  Len(p.free_block_queue) - Cardinality({b \in bs : p.ref_cnt[b] = 0})
<1> DEFINE t == Touched(p, bs)
           s == p.free_block_queue
           w == Without(s, bs)
<1>1. /\ t.block_hash = p.block_hash
      /\ t.cached = p.cached
      /\ t.ref_cnt = [b \in Blocks |-> IF b \in bs THEN p.ref_cnt[b] + 1 ELSE p.ref_cnt[b]]
      /\ t.free_block_queue = w
      /\ t = [ref_cnt |-> t.ref_cnt, block_hash |-> t.block_hash,
              free_block_queue |-> t.free_block_queue, cached |-> t.cached]
  <2> DEFINE rc == [b \in Blocks |-> IF b \in bs THEN p.ref_cnt[b] + 1 ELSE p.ref_cnt[b]]
  <2>1. t = [[p EXCEPT !.free_block_queue = w] EXCEPT !.ref_cnt = rc]
    BY DEF Touched, Pools
  <2> HIDE DEF t, w, rc
  <2>2. t = [ref_cnt |-> rc, block_hash |-> p.block_hash, free_block_queue |-> w,
             cached |-> p.cached]
    BY <2>1 DEF Pools
  <2> QED BY <2>2 DEF rc
<1>2. s \in Seq(Blocks) /\ p.ref_cnt \in [Blocks -> Nat]
  BY DEF Pools
<1>3. w \in Seq(Blocks) /\ ToSet(w) = ToSet(s) \ bs /\ (IsInjective(s) => IsInjective(w))
  BY <1>2, WithoutLeaves
<1> HIDE DEF t, w
<1>4. t.ref_cnt \in [Blocks -> Nat]
  BY <1>1, <1>2
<1>5. t \in Pools
  <2>1. p.block_hash \in [Blocks -> Hashes \union {NoHash}] /\ p.cached \in [Hashes -> Seq(Blocks)]
    BY DEF Pools
  <2> QED BY <1>1, <1>3, <1>4, <2>1 DEF Pools
<1>6. QueueExact(t)
  <2>1. \A b \in Blocks : t.ref_cnt[b] = 0 <=> p.ref_cnt[b] = 0 /\ b \notin bs
    BY <1>1, <1>2
  <2> QED BY <1>1, <1>3, <2>1 DEF QueueExact
<1>7. \A b, c \in Blocks \ bs : Before(p, b, c) => Before(t, b, c)
  BY <1>1, <1>2, OrderOfWithout DEF w
<1>8. Len(w) = Len(s) - Cardinality({b \in bs : p.ref_cnt[b] = 0})
  <2> DEFINE z == {b \in bs : p.ref_cnt[b] = 0}
  <2>1. /\ IsFiniteSet(ToSet(s)) /\ Cardinality(ToSet(s)) = Len(s) /\ Len(s) \in Nat
        /\ Cardinality(ToSet(w)) = Len(w) /\ Len(w) \in Nat
    BY <1>2, <1>3, LengthIsCardinality DEF QueueExact
  <2>2. ToSet(w) = ToSet(s) \ z /\ z \subseteq ToSet(s)
    BY <1>3 DEF QueueExact
  <2>3. IsFiniteSet(z) /\ Cardinality(z) \in Nat
    BY <2>1, <2>2, FS_Subset, FS_CardinalityType
  <2>4. Cardinality(ToSet(s) \ z) = Cardinality(ToSet(s)) - Cardinality(ToSet(s) \intersect z)
    BY <2>1, FS_Difference
  <2>5. ToSet(s) \intersect z = z
    BY <2>2
  <2> QED BY <2>1, <2>2, <2>3, <2>4, <2>5
<1> QED BY <1>1, <1>5, <1>6, <1>7, <1>8 DEF t, w

LEMMA NewPool ==
  ASSUME NEW p \in Pools, NEW n \in 0 .. Len(p.free_block_queue), QueueExact(p), MapExact(p)
  PROVE  LET g == WithoutNewBlocks(p, n)
             new == ToSet(NewBlocks(p, n))
         IN  /\ NewBlocks(p, n) \in Seq(Blocks)
             /\ Len(NewBlocks(p, n)) = n
             /\ IsInjective(NewBlocks(p, n))
             /\ new \subseteq {b \in Blocks : p.ref_cnt[b] = 0}
             /\ g \in Pools
             /\ g.block_hash = [b \in Blocks |-> IF b \in new THEN NoHash ELSE p.block_hash[b]]
             /\ g.ref_cnt = [b \in Blocks |-> IF b \in new THEN p.ref_cnt[b] + 1 ELSE p.ref_cnt[b]]
             /\ MapExact(g)
             /\ QueueExact(g)
             /\ \A b, c \in Blocks : Before(p, b, c) /\ b \notin new =>
                  c \notin new /\ Before(g, b, c)
<1> DEFINE g == WithoutNewBlocks(p, n)
           s == p.free_block_queue
           a == SubSeq(s, 1, n)
           z == SubSeq(s, n + 1, Len(s))
           new == ToSet(a)
           known == {b \in new : /\ p.block_hash[b] # NoHash
                                 /\ b \in ToSet(p.cached[p.block_hash[b]])}
<1>1. /\ s \in Seq(Blocks) /\ p.ref_cnt \in [Blocks -> Nat]
      /\ p.block_hash \in [Blocks -> Hashes \union {NoHash}]
      /\ p.cached \in [Hashes -> Seq(Blocks)]
  BY DEF Pools
<1>2. /\ g.block_hash = [b \in Blocks |-> IF b \in known THEN NoHash ELSE p.block_hash[b]]
      /\ g.cached = [h \in Hashes |-> Without(p.cached[h], known)]
      /\ g.ref_cnt = [b \in Blocks |-> IF b \in new THEN p.ref_cnt[b] + 1 ELSE p.ref_cnt[b]]
      /\ g.free_block_queue = z
      /\ g = [ref_cnt |-> g.ref_cnt, block_hash |-> g.block_hash,
              free_block_queue |-> g.free_block_queue, cached |-> g.cached]
  <2> DEFINE rc == [b \in Blocks |-> IF b \in new THEN p.ref_cnt[b] + 1 ELSE p.ref_cnt[b]]
             bh == [b \in Blocks |-> IF b \in known THEN NoHash ELSE p.block_hash[b]]
             ca == [h \in Hashes |-> Without(p.cached[h], known)]
             d == [p EXCEPT !.cached = ca]
             e == [d EXCEPT !.block_hash = bh]
  <2>1. e = [ref_cnt |-> p.ref_cnt, block_hash |-> bh, free_block_queue |-> s, cached |-> ca]
    <3> HIDE DEF g, s, z, known, ca, bh
    <3>1. p = [ref_cnt |-> p.ref_cnt, block_hash |-> p.block_hash,
               free_block_queue |-> s, cached |-> p.cached]
      BY DEF Pools, s
    <3>2. d =
            [ref_cnt |-> p.ref_cnt, block_hash |-> p.block_hash, free_block_queue |-> s,
             cached |-> ca]
      BY <3>1
    <3> HIDE DEF d
    <3> QED BY <3>2
  <2>2. g = [[e EXCEPT !.free_block_queue = z] EXCEPT !.ref_cnt = rc]
    BY <2>1 DEF WithoutNewBlocks, NewBlocks, Evicted
  <2> HIDE DEF g, z, rc, bh, ca, d, e
  <2>3. g = [ref_cnt |-> rc, block_hash |-> bh, free_block_queue |-> z, cached |-> ca]
    BY <2>1, <2>2
  <2> QED BY <2>3 DEF rc, bh, ca
<1>3. /\ IsInjective(s)
      /\ ToSet(s) = {b \in Blocks : p.ref_cnt[b] = 0}
  BY DEF QueueExact
<1>4. /\ n \in Nat /\ Len(s) \in Nat /\ n <= Len(s)
      /\ a \in Seq(Blocks) /\ Len(a) = n /\ \A i \in 1 .. n : a[i] = s[i]
      /\ z \in Seq(Blocks) /\ Len(z) = Len(s) - n
      /\ \A i \in 1 .. Len(s) - n : z[i] = s[n + i]
      /\ IsInjective(a) /\ IsInjective(z)
      /\ ToSet(z) = ToSet(s) \ ToSet(a)
      /\ ToSet(a) \subseteq ToSet(s)
  <2>1. n \in Nat /\ Len(s) \in Nat /\ n <= Len(s)
    BY <1>1
  <2> QED BY <2>1, <1>1, <1>3, OfSplit
<1>5. NewBlocks(p, n) = a
  BY DEF NewBlocks
<1>6. known = {b \in new : p.block_hash[b] # NoHash}
  <2>1. \A b \in new : p.block_hash[b] # NoHash => b \in ToSet(p.cached[p.block_hash[b]])
    BY <1>1, <1>3, <1>4 DEF MapExact
  <2> QED BY <2>1
<1> HIDE DEF g, a, z, known
<1>7. g.block_hash = [b \in Blocks |-> IF b \in new THEN NoHash ELSE p.block_hash[b]]
  BY <1>2, <1>6
<1>8. g.cached \in [Hashes -> Seq(Blocks)] /\ MapExact(g)
  <2>1. ASSUME NEW h \in Hashes
        PROVE  /\ g.cached[h] \in Seq(Blocks)
               /\ ToSet(g.cached[h]) = ToSet(p.cached[h]) \ known
               /\ IsInjective(g.cached[h])
    <3>1. g.cached[h] = Without(p.cached[h], known) /\ p.cached[h] \in Seq(Blocks)
      BY <1>1, <1>2
    <3>2. IsInjective(p.cached[h])
      BY DEF MapExact
    <3> QED BY <3>1, <3>2, WithoutLeaves
  <2>2. ASSUME NEW h \in Hashes, NEW b \in Blocks
        PROVE  g.block_hash[b] = h <=> b \in ToSet(g.cached[h])
    <3>1. p.block_hash[b] = h <=> b \in ToSet(p.cached[h])
      BY DEF MapExact
    <3>2. h # NoHash
      BY NoHashIsNoHash
    <3>3. CASE b \in new
      BY <3>1, <3>2, <3>3, <2>1, <1>6, <1>7
    <3>4. CASE b \notin new
      BY <3>1, <3>4, <2>1, <1>6, <1>7
    <3> QED BY <3>3, <3>4
  <2> QED BY <2>1, <2>2, <1>2 DEF MapExact
<1>9. g \in Pools
  <2>1. g.ref_cnt \in [Blocks -> Nat] /\ g.block_hash \in [Blocks -> Hashes \union {NoHash}]
    BY <1>1, <1>2, <1>7
  <2> QED BY <1>2, <1>4, <1>8, <2>1 DEF Pools
<1>10. QueueExact(g)
  <2>1. \A b \in Blocks : g.ref_cnt[b] = 0 <=> p.ref_cnt[b] = 0 /\ b \notin new
    BY <1>1, <1>2
  <2> QED BY <1>2, <1>3, <1>4, <2>1 DEF QueueExact
<1>11. ASSUME NEW b \in Blocks, NEW c \in Blocks, Before(p, b, c), b \notin new
       PROVE  c \notin new /\ Before(g, b, c)
  <2>1. PICK i \in 1 .. Len(s), j \in 1 .. Len(s) : i < j /\ s[i] = b /\ s[j] = c
    BY <1>11 DEF Before
  <2>2. i \notin 1 .. n
    <3>1. \A k \in 1 .. Len(a) : a[k] \in new
      BY <1>4, Elements
    <3> QED BY <3>1, <2>1, <1>4, <1>11
  <2>3. /\ i - n \in 1 .. Len(z) /\ z[i - n] = b
        /\ j - n \in 1 .. Len(z) /\ z[j - n] = c
        /\ i - n < j - n
    <3>1. /\ i - n \in 1 .. Len(s) - n /\ n + (i - n) = i
          /\ j - n \in 1 .. Len(s) - n /\ n + (j - n) = j
          /\ i - n < j - n
      <4> DEFINE l == Len(s)
      <4>1. i \in 1 .. l /\ j \in 1 .. l /\ i < j /\ i \notin 1 .. n /\ n \in Nat /\ l \in Nat /\ n <= l
        BY <2>1, <2>2, <1>4
      <4> HIDE DEF l
      <4>2. /\ i - n \in 1 .. l - n /\ n + (i - n) = i
            /\ j - n \in 1 .. l - n /\ n + (j - n) = j
            /\ i - n < j - n
        BY <4>1
      <4> QED BY <4>2 DEF l
    <3> QED BY <3>1, <2>1, <1>4
  <2>4. Before(g, b, c)
    BY <2>3, <1>2 DEF Before
  <2>5. c \in ToSet(z)
    BY <2>3, <1>4, Elements
  <2> QED BY <2>4, <2>5, <1>4
<1>12. new \subseteq {b \in Blocks : p.ref_cnt[b] = 0}
  BY <1>3, <1>4
<1> QED BY <1>2, <1>4, <1>5, <1>7, <1>8, <1>9, <1>10, <1>11, <1>12 DEF g

LEMMA FreedPool ==
  ASSUME NEW p \in Pools, NEW bs \in Seq(Blocks), IsInjective(bs), QueueExact(p),
         \A b \in ToSet(bs) : p.ref_cnt[b] > 0
  PROVE  LET f == Freed(p, bs)
         IN  /\ f \in Pools
             /\ f.block_hash = p.block_hash
             /\ f.cached = p.cached
             /\ f.ref_cnt = [b \in Blocks |-> IF b \in ToSet(bs) THEN p.ref_cnt[b] - 1
                                              ELSE p.ref_cnt[b]]
             /\ QueueExact(f)
             /\ \A b, c \in Blocks : Before(p, b, c) => Before(f, b, c)
             /\ \A b, c \in Blocks : p.ref_cnt[b] = 0 /\ c \in ToSet(bs) /\ f.ref_cnt[c] = 0 =>
                  Before(f, b, c)
             /\ \A i, j \in 1 .. Len(bs) :
                  i < j /\ f.ref_cnt[bs[i]] = 0 /\ f.ref_cnt[bs[j]] = 0 => Before(f, bs[j], bs[i])
<1> DEFINE f == Freed(p, bs)
           s == p.free_block_queue
           rc == [b \in Blocks |-> IF b \in ToSet(bs) THEN p.ref_cnt[b] - 1 ELSE p.ref_cnt[b]]
           held == {b \in Blocks : rc[b] > 0}
           back == Reverse(bs)
           w == Without(back, held)
           u == s \o w
<1>1. /\ s \in Seq(Blocks) /\ p.ref_cnt \in [Blocks -> Nat]
      /\ p.block_hash \in [Blocks -> Hashes \union {NoHash}]
      /\ p.cached \in [Hashes -> Seq(Blocks)]
      /\ p = [ref_cnt |-> p.ref_cnt, block_hash |-> p.block_hash, free_block_queue |-> s,
              cached |-> p.cached]
  BY DEF Pools
<1>2. f = [ref_cnt |-> rc, block_hash |-> p.block_hash, free_block_queue |-> u,
           cached |-> p.cached]
  <2> DEFINE d == [p EXCEPT !.ref_cnt = rc]
  <2>1. f = [d EXCEPT !.free_block_queue = u]
    BY <1>1 DEF Freed
  <2> HIDE DEF f, u, rc
  <2>2. d = [ref_cnt |-> rc, block_hash |-> p.block_hash, free_block_queue |-> s,
             cached |-> p.cached]
    <3>1. p = [ref_cnt |-> p.ref_cnt, block_hash |-> p.block_hash, free_block_queue |-> s,
               cached |-> p.cached]
      BY <1>1
    <3> QED BY <3>1
  <2> HIDE DEF d
  <2> QED BY <2>1, <2>2
<1>3. /\ back \in Seq(Blocks)
      /\ Len(back) = Len(bs)
      /\ Len(bs) \in Nat
      /\ \A i \in 1 .. Len(bs) : /\ Len(bs) - i + 1 \in 1 .. Len(bs)
                                 /\ back[Len(bs) - i + 1] = bs[i]
      /\ ToSet(back) = ToSet(bs)
      /\ IsInjective(back)
  BY OfReverse
<1> HIDE DEF f, back
<1>4. /\ w \in Seq(Blocks)
      /\ ToSet(w) = ToSet(bs) \ held
      /\ \A i, j \in 1 .. Len(back) : i < j /\ back[i] \notin held /\ back[j] \notin held =>
           \E k, l \in 1 .. Len(w) : k < l /\ w[k] = back[i] /\ w[l] = back[j]
      /\ IsInjective(w)
  <2> HIDE DEF held
  <2> QED BY <1>3, WithoutLeaves, SMTT(40)
<1>5. ToSet(bs) \subseteq Blocks
  BY Elements
<1>6. /\ rc \in [Blocks -> Nat]
      /\ \A b \in Blocks : rc[b] = IF b \in ToSet(bs) THEN p.ref_cnt[b] - 1 ELSE p.ref_cnt[b]
      /\ \A b \in Blocks : b \in held <=> rc[b] # 0
  <2>1. \A b \in Blocks : b \in ToSet(bs) => p.ref_cnt[b] - 1 \in Nat
    BY <1>1, <1>5
  <2> QED BY <2>1, <1>1
<1> HIDE DEF rc, held, w
<1>7. /\ IsInjective(s)
      /\ ToSet(s) = {b \in Blocks : p.ref_cnt[b] = 0}
  BY DEF QueueExact
<1>8. ToSet(s) \intersect ToSet(w) = {}
  BY <1>4, <1>5, <1>7
<1>9. u \in Seq(Blocks) /\ ToSet(u) = ToSet(s) \union ToSet(w) /\ IsInjective(u)
  BY <1>1, <1>4, <1>7, <1>8, OfConcat
<1>10. /\ Len(s) \in Nat /\ Len(w) \in Nat /\ Len(u) = Len(s) + Len(w)
       /\ \A i \in 1 .. Len(s) : i \in 1 .. Len(u) /\ u[i] = s[i]
       /\ \A i \in 1 .. Len(w) : Len(s) + i \in 1 .. Len(u) /\ u[Len(s) + i] = w[i]
  BY <1>1, <1>4
<1> HIDE DEF u
<1>11. f.ref_cnt = rc /\ f.block_hash = p.block_hash /\ f.cached = p.cached
       /\ f.free_block_queue = u
  BY <1>2
<1>12. f \in Pools
  BY <1>1, <1>2, <1>6, <1>9 DEF Pools
<1>13. QueueExact(f)
  <2>1. \A b \in Blocks : rc[b] = 0 <=> p.ref_cnt[b] = 0 \/ b \in ToSet(w)
    BY <1>1, <1>4, <1>5, <1>6
  <2>2. ToSet(u) = {b \in Blocks : rc[b] = 0}
    BY <2>1, <1>4, <1>5, <1>7, <1>9
  <2> QED BY <2>2, <1>9, <1>11 DEF QueueExact
<1>14. ASSUME NEW b \in Blocks, NEW c \in Blocks, Before(p, b, c) PROVE Before(f, b, c)
  <2>1. PICK i \in 1 .. Len(s), j \in 1 .. Len(s) : i < j /\ s[i] = b /\ s[j] = c
    BY <1>14 DEF Before
  <2>2. i \in 1 .. Len(u) /\ u[i] = b /\ j \in 1 .. Len(u) /\ u[j] = c
    BY <2>1, <1>10
  <2> QED BY <2>1, <2>2, <1>11 DEF Before
<1>15. ASSUME NEW b \in Blocks, NEW c \in Blocks,
              p.ref_cnt[b] = 0, c \in ToSet(bs), f.ref_cnt[c] = 0
       PROVE  Before(f, b, c)
  <2>1. b \in ToSet(s)
    BY <1>7, <1>15
  <2>2. c \in ToSet(w)
    BY <1>4, <1>6, <1>11, <1>15
  <2>3. PICK i \in 1 .. Len(s) : s[i] = b
    BY <2>1, <1>1, Elements
  <2>4. PICK j \in 1 .. Len(w) : w[j] = c
    BY <2>2, <1>4, Elements
  <2>5. /\ i \in 1 .. Len(u) /\ u[i] = b
        /\ Len(s) + j \in 1 .. Len(u) /\ u[Len(s) + j] = c
        /\ i < Len(s) + j
    BY <2>3, <2>4, <1>10
  <2> QED BY <2>5, <1>11 DEF Before
<1>16. ASSUME NEW i \in 1 .. Len(bs), NEW j \in 1 .. Len(bs), i < j,
              f.ref_cnt[bs[i]] = 0, f.ref_cnt[bs[j]] = 0
       PROVE  Before(f, bs[j], bs[i])
  <2> DEFINE m == Len(bs) - j + 1
             n == Len(bs) - i + 1
  <2>1. m \in 1 .. Len(back) /\ n \in 1 .. Len(back) /\ back[m] = bs[j] /\ back[n] = bs[i]
    BY <1>3
  <2>2. m < n
    BY <1>3, <1>16
  <2>3. bs[i] \notin held /\ bs[j] \notin held
    <3>1. bs[i] \in Blocks /\ bs[j] \in Blocks
      OBVIOUS
    <3> QED BY <3>1, <1>6, <1>11, <1>16
  <2> HIDE DEF m, n
  <2>4. PICK k \in 1 .. Len(w), l \in 1 .. Len(w) : k < l /\ w[k] = bs[j] /\ w[l] = bs[i]
    BY <2>1, <2>2, <2>3, <1>4, SMTT(40)
  <2>5. /\ Len(s) + k \in 1 .. Len(u) /\ u[Len(s) + k] = bs[j]
        /\ Len(s) + l \in 1 .. Len(u) /\ u[Len(s) + l] = bs[i]
        /\ Len(s) + k < Len(s) + l
    BY <2>4, <1>10
  <2> QED BY <2>5, <1>11 DEF Before
<1> QED BY <1>11, <1>12, <1>13, <1>14, <1>15, <1>16 DEF f, rc

LEMMA HashPool ==
  ASSUME NEW p \in Pools, NEW bs \in Seq(Blocks), IsInjective(bs),
         NEW hs, NEW from \in Nat, NEW to \in Int,
         to <= Len(bs),
         \A i \in from + 1 .. to : hs[i] \in Hashes,
         \A i, j \in from + 1 .. to : hs[i] = hs[j] => i = j,
         \A i \in from + 1 .. to : p.block_hash[bs[i]] = NoHash,
         MapExact(p)
  PROVE  LET w == WithHashes(p, bs, hs, from, to)
         IN  /\ w \in Pools
             /\ w.ref_cnt = p.ref_cnt
             /\ w.free_block_queue = p.free_block_queue
             /\ \A i \in from + 1 .. to : w.block_hash[bs[i]] = hs[i]
             /\ \A b \in Blocks : (\A i \in from + 1 .. to : bs[i] # b) =>
                  w.block_hash[b] = p.block_hash[b]
             /\ MapExact(w)
<1> DEFINE w == WithHashes(p, bs, hs, from, to)
           new == from + 1 .. to
           bh == [b \in Blocks |-> IF \E i \in new : bs[i] = b
                                   THEN hs[CHOOSE i \in new : bs[i] = b] ELSE p.block_hash[b]]
           ca == [h \in Hashes |-> IF \E i \in new : hs[i] = h
                                   THEN Append(p.cached[h], bs[CHOOSE i \in new : hs[i] = h])
                                   ELSE p.cached[h]]
<1>1. /\ p.free_block_queue \in Seq(Blocks) /\ p.ref_cnt \in [Blocks -> Nat]
      /\ p.block_hash \in [Blocks -> Hashes \union {NoHash}]
      /\ p.cached \in [Hashes -> Seq(Blocks)]
      /\ p = [ref_cnt |-> p.ref_cnt, block_hash |-> p.block_hash,
              free_block_queue |-> p.free_block_queue, cached |-> p.cached]
  BY DEF Pools
<1>2. w = [ref_cnt |-> p.ref_cnt, block_hash |-> bh, free_block_queue |-> p.free_block_queue,
           cached |-> ca]
  <2> DEFINE d == [p EXCEPT !.block_hash = bh]
  <2>1. w = [d EXCEPT !.cached = ca]
    BY <1>1 DEF WithHashes
  <2> HIDE DEF w, bh, ca
  <2>2. d = [ref_cnt |-> p.ref_cnt, block_hash |-> bh,
              free_block_queue |-> p.free_block_queue, cached |-> p.cached]
    <3>1. p = [ref_cnt |-> p.ref_cnt, block_hash |-> p.block_hash,
               free_block_queue |-> p.free_block_queue, cached |-> p.cached]
      BY <1>1
    <3> QED BY <3>1
  <2> HIDE DEF d
  <2> QED BY <2>1, <2>2
<1>3. /\ \A i \in new : i \in 1 .. Len(bs) /\ bs[i] \in Blocks
      /\ \A i, j \in new : bs[i] = bs[j] => i = j
  <2>1. Len(bs) \in Nat /\ \A i, j \in 1 .. Len(bs) : bs[i] = bs[j] => i = j
    BY Elements
  <2>2. \A i \in new : i \in 1 .. Len(bs) /\ bs[i] \in Blocks
    BY <2>1
  <2> QED BY <2>1, <2>2
<1> HIDE DEF w
<1>4. ASSUME NEW i \in new PROVE bh[bs[i]] = hs[i]
  <2>1. (CHOOSE j \in new : bs[j] = bs[i]) = i
    BY <1>3
  <2>2. bs[i] \in Blocks /\ \E j \in new : bs[j] = bs[i]
    BY <1>3
  <2> QED BY <2>1, <2>2
<1>5. ASSUME NEW b \in Blocks, \A i \in new : bs[i] # b PROVE bh[b] = p.block_hash[b]
  BY <1>5
<1>6. ASSUME NEW i \in new PROVE ca[hs[i]] = Append(p.cached[hs[i]], bs[i])
  <2>1. (CHOOSE j \in new : hs[j] = hs[i]) = i
    OBVIOUS
  <2>2. hs[i] \in Hashes /\ \E j \in new : hs[j] = hs[i]
    OBVIOUS
  <2> QED BY <2>1, <2>2
<1>7. ASSUME NEW h \in Hashes, \A i \in new : hs[i] # h PROVE ca[h] = p.cached[h]
  BY <1>7
<1>8. bh = [b \in Blocks |-> bh[b]] /\ ca = [h \in Hashes |-> ca[h]]
  OBVIOUS
<1> HIDE DEF bh, ca
<1>9. bh \in [Blocks -> Hashes \union {NoHash}]
  <2> SUFFICES ASSUME NEW b \in Blocks PROVE bh[b] \in Hashes \union {NoHash}
    BY <1>8
  <2>1. CASE \E i \in new : bs[i] = b
    BY <2>1, <1>4
  <2>2. CASE \A i \in new : bs[i] # b
    BY <2>2, <1>5, <1>1
  <2> QED BY <2>1, <2>2
<1>10. ASSUME NEW h \in Hashes
       PROVE  /\ ca[h] \in Seq(Blocks)
              /\ IsInjective(ca[h])
              /\ \A b \in Blocks : bh[b] = h <=> b \in ToSet(ca[h])
  <2>1. /\ p.cached[h] \in Seq(Blocks) /\ IsInjective(p.cached[h])
        /\ \A b \in Blocks : p.block_hash[b] = h <=> b \in ToSet(p.cached[h])
    BY <1>1 DEF MapExact
  <2>2. h # NoHash
    BY NoHashIsNoHash
  <2>3. CASE \A i \in new : hs[i] # h
    <3>1. \A b \in Blocks : bh[b] = h <=> p.block_hash[b] = h
      <4> TAKE b \in Blocks
      <4>1. CASE \E i \in new : bs[i] = b
        BY <4>1, <2>2, <2>3, <1>4
      <4>2. CASE \A i \in new : bs[i] # b
        BY <4>2, <1>5
      <4> QED BY <4>1, <4>2
    <3>2. ca[h] = p.cached[h]
      BY <2>3, <1>7
    <3> QED BY <3>1, <3>2, <2>1
  <2>4. CASE \E i \in new : hs[i] = h
    <3>1. PICK i \in new : hs[i] = h
      BY <2>4
    <3> DEFINE one == <<bs[i]>>
    <3>2. ca[h] = p.cached[h] \o one /\ one \in Seq(Blocks) /\ ToSet(one) = {bs[i]} /\ IsInjective(one)
      <4>1. bs[i] \in Blocks
        BY <1>3
      <4>2. one \in Seq(Blocks) /\ Len(one) = 1 /\ one[1] = bs[i]
        BY <4>1
      <4>3. ca[h] = p.cached[h] \o one
        <5>1. ca[h] = Append(p.cached[h], bs[i])
          BY <3>1, <1>6
        <5>2. ASSUME NEW s \in Seq(Blocks), NEW x \in Blocks PROVE Append(s, x) = s \o <<x>>
          OBVIOUS
        <5>3. Append(p.cached[h], bs[i]) = p.cached[h] \o <<bs[i]>>
          BY <5>2, <4>1, <2>1
        <5> QED BY <5>1, <5>3
      <4> HIDE DEF one
      <4>4. \A k \in 1 .. Len(one) : k = 1
        BY <4>2
      <4>5. ToSet(one) = {bs[i]} /\ IsInjective(one)
        BY <4>2, <4>4 DEF ToSet, IsInjective
      <4> QED BY <4>2, <4>3, <4>5
    <3> HIDE DEF one
    <3>3. bs[i] \notin ToSet(p.cached[h])
      BY <1>3, <2>1, <2>2
    <3>4. /\ ca[h] \in Seq(Blocks)
          /\ ToSet(ca[h]) = ToSet(p.cached[h]) \union {bs[i]}
          /\ IsInjective(ca[h])
      <4>1. ToSet(p.cached[h]) \intersect ToSet(one) = {}
        BY <3>2, <3>3
      <4> QED BY <4>1, <3>2, <2>1, OfConcat
    <3>5. ASSUME NEW b \in Blocks
          PROVE  bh[b] = h <=> p.block_hash[b] = h \/ b = bs[i]
      <4>1. CASE \E j \in new : bs[j] = b
        <5>1. PICK j \in new : bs[j] = b
          BY <4>1
        <5>2. bh[b] = hs[j] /\ p.block_hash[b] = NoHash
          BY <5>1, <1>4
        <5> QED BY <5>1, <5>2, <3>1, <2>2, <1>3
      <4>2. CASE \A j \in new : bs[j] # b
        BY <4>2, <1>5
      <4> QED BY <4>1, <4>2
    <3> QED BY <3>4, <3>5, <2>1
  <2> QED BY <2>3, <2>4
<1>11. w \in Pools
  <2>1. ca \in [Hashes -> Seq(Blocks)]
    BY <1>8, <1>10
  <2> QED BY <2>1, <1>1, <1>2, <1>9 DEF Pools
<1>12. /\ w.ref_cnt = p.ref_cnt /\ w.block_hash = bh
       /\ w.free_block_queue = p.free_block_queue /\ w.cached = ca
  BY <1>2
<1>13. MapExact(w)
  BY <1>10, <1>12 DEF MapExact
<1> QED BY <1>4, <1>5, <1>11, <1>12, <1>13 DEF w

-----------------------------------------------------------------------------
(* Blocks and slots. *)

Offset(i) == ((i - 1) % BlockSize) + 1

LEMMA BlockSizeType == BlockSize \in Nat /\ BlockSize >= 1
BY KVCacheAssumption

LEMMA Division ==
  ASSUME NEW n \in Int
  PROVE  /\ n \div BlockSize \in Int
         /\ \A k \in Int : k <= n \div BlockSize <=> k * BlockSize <= n
         /\ (n \div BlockSize) * BlockSize <= n
<1>1. /\ n = (BlockSize * (n \div BlockSize)) + (n % BlockSize)
      /\ n % BlockSize \in 0 .. BlockSize - 1 /\ n \div BlockSize \in Int
  BY BlockSizeType
<1> DEFINE q == n \div BlockSize
           m == n % BlockSize
<1>2. q \in Int /\ m \in Int /\ 0 <= m /\ m < BlockSize /\ n = (BlockSize * q) + m
  BY <1>1, BlockSizeType
<1> HIDE DEF q, m
<1>3. ASSUME NEW k \in Int PROVE k <= q <=> k * BlockSize <= n
  <2>1. CASE k <= q
    <3>1. (q - k) * BlockSize >= 0
      BY <2>1, <1>2, BlockSizeType
    <3> QED BY <3>1, <2>1, <1>2, BlockSizeType
  <2>2. CASE k >= q + 1
    <3>1. (k - (q + 1)) * BlockSize >= 0
      BY <2>2, <1>2, BlockSizeType
    <3> QED BY <3>1, <2>2, <1>2, BlockSizeType
  <2> QED BY <2>1, <2>2, <1>2
<1>4. q * BlockSize <= n
  BY <1>2, BlockSizeType
<1> QED BY <1>2, <1>3, <1>4 DEF q

LEMMA NoMoreBlocks ==
  ASSUME NEW a \in Int, NEW b \in Int, a * BlockSize <= b * BlockSize
  PROVE  a <= b
<1>1. SUFFICES ASSUME a - b - 1 >= 0 PROVE FALSE
  OBVIOUS
<1> DEFINE d == a - b - 1
<1>2. d \in Nat /\ a = b + d + 1
  BY <1>1
<1> HIDE DEF d
<1>3. d * BlockSize >= 0 /\ b * BlockSize \in Int /\ d * BlockSize \in Int
  BY <1>2, BlockSizeType
<1>4. a * BlockSize = (b * BlockSize) + (d * BlockSize) + BlockSize
  BY <1>2, BlockSizeType
<1> QED BY <1>3, <1>4, BlockSizeType

LEMMA CeilBounds ==
  ASSUME NEW n \in Nat
  PROVE  /\ Ceil(n) \in Nat
         /\ n <= Ceil(n) * BlockSize
         /\ \A k \in Int : Ceil(n) <= k <=> n <= k * BlockSize
         /\ n > 0 => Ceil(n) >= 1 /\ n > (Ceil(n) - 1) * BlockSize
<1> DEFINE c == Ceil(n)
<1>1. /\ c \in Int
      /\ \A k \in Int : k <= c <=> k * BlockSize <= n + BlockSize - 1
  BY Division, BlockSizeType DEF Ceil
<1> HIDE DEF c
<1>2. ASSUME NEW k \in Int PROVE c <= k <=> n <= k * BlockSize
  <2>1. k + 1 <= c <=> (k + 1) * BlockSize <= n + BlockSize - 1
    BY <1>1
  <2>2. (k + 1) * BlockSize = (k * BlockSize) + BlockSize /\ k * BlockSize \in Int
    BY BlockSizeType
  <2> QED BY <2>1, <2>2, <1>1, BlockSizeType
<1>3. 0 <= c
  BY <1>1, BlockSizeType
<1>4. n <= c * BlockSize
  BY <1>1, <1>2
<1>5. ASSUME n > 0 PROVE c >= 1 /\ n > (c - 1) * BlockSize
  <2>1. ~ (c <= 0)
    BY <1>2, <1>5, BlockSizeType
  <2>2. ~ (c <= c - 1)
    BY <1>1
  <2>3. (c - 1) * BlockSize \in Int
    BY <1>1, BlockSizeType
  <2> QED BY <2>1, <2>2, <2>3, <1>1, <1>2
<1> QED BY <1>1, <1>2, <1>3, <1>4, <1>5 DEF c

LEMMA SlotArithmetic ==
  ASSUME NEW i \in Nat \ {0}
  PROVE  /\ Ceil(i) \in Nat \ {0}
         /\ Offset(i) \in 1 .. BlockSize
         /\ i = ((Ceil(i) - 1) * BlockSize) + Offset(i)
<1> DEFINE q == (i - 1) \div BlockSize
           m == (i - 1) % BlockSize
           c == Ceil(i)
<1>1. i - 1 = (BlockSize * q) + m /\ m \in 0 .. BlockSize - 1 /\ q \in Int
  BY BlockSizeType
<1>2. c \in Nat /\ c >= 1 /\ i <= c * BlockSize /\ i > (c - 1) * BlockSize
  BY CeilBounds
<1>3. Offset(i) = m + 1
  BY DEF Offset
<1> HIDE DEF q, m, c
<1>4. q = c - 1
  <2>1. CASE q <= c - 2
    <3>1. (c - 2 - q) * BlockSize >= 0
      BY <2>1, <1>1, <1>2, BlockSizeType
    <3> QED BY <3>1, <1>1, <1>2, BlockSizeType
  <2>2. CASE q >= c
    <3>1. (q - c) * BlockSize >= 0
      BY <2>2, <1>1, <1>2, BlockSizeType
    <3> QED BY <3>1, <1>1, <1>2, BlockSizeType
  <2> QED BY <2>1, <2>2, <1>1, <1>2
<1>5. i = (q * BlockSize) + (m + 1) /\ m + 1 \in 1 .. BlockSize
  BY <1>1, BlockSizeType
<1> QED BY <1>2, <1>3, <1>4, <1>5 DEF c

LEMMA PositionOf ==
  ASSUME NEW c \in Nat \ {0}, NEW j \in 1 .. BlockSize
  PROVE  LET i == ((c - 1) * BlockSize) + j
         IN  /\ i \in Nat \ {0}
             /\ Ceil(i) = c
             /\ Offset(i) = j
<1> DEFINE i == ((c - 1) * BlockSize) + j
<1>1. (c - 1) * BlockSize \in Nat
  BY BlockSizeType
<1>2. i \in Nat \ {0} /\ i > (c - 1) * BlockSize /\ i <= c * BlockSize
  BY <1>1, BlockSizeType
<1> DEFINE d == Ceil(i)
           k == Offset(i)
<1>3. d \in Nat /\ i = ((d - 1) * BlockSize) + k /\ k \in 1 .. BlockSize
  BY <1>2, SlotArithmetic
<1>4. d <= c /\ ~ (d <= c - 1)
  <2>1. \A e \in Int : d <= e <=> i <= e * BlockSize
    BY <1>2, CeilBounds
  <2>2. c \in Int /\ c - 1 \in Int
    OBVIOUS
  <2>3. d <= c
    BY <2>1, <2>2, <1>2
  <2>4. ~ (i <= (c - 1) * BlockSize)
    BY <1>1, <1>2
  <2> HIDE DEF i, d
  <2> QED BY <2>1, <2>2, <2>3, <2>4
<1>5. d = c
  BY <1>3, <1>4
<1>6. (c - 1) * BlockSize \in Int /\ k \in Int /\ j \in Int
  BY <1>1, <1>3, BlockSizeType
<1>7. i = ((c - 1) * BlockSize) + k /\ i = ((c - 1) * BlockSize) + j
  BY <1>3, <1>5
<1>8. k = j
  <2> HIDE DEF i, k, d
  <2> QED BY <1>6, <1>7
<1> QED BY <1>2, <1>5, <1>8

-----------------------------------------------------------------------------
(* Hashes. *)

FullBlocks(r) == Len(Text[r]) \div BlockSize

LEMMA HashesOfText ==
  ASSUME NEW r \in Req
  PROVE  /\ Len(Text[r]) \in Nat
         /\ FullBlocks(r) \in Nat
         /\ FullBlocks(r) * BlockSize <= Len(Text[r])
         /\ Len(BlockHashes(r)) = FullBlocks(r)
         /\ DOMAIN BlockHashes(r) = 1 .. FullBlocks(r)
         /\ \A i \in 1 .. FullBlocks(r) :
              /\ BlockHashes(r)[i] = Hash(r, i)
              /\ Hash(r, i) \in Hashes
              /\ Hash(r, i) # NoHash
              /\ i * BlockSize \in Nat
              /\ i * BlockSize <= Len(Text[r])
              /\ Len(Hash(r, i)) = i * BlockSize
              /\ \A m \in 0 .. i * BlockSize :
                   SubSeq(Hash(r, i), 1, m) = KeysAndValues(r, m)
<1>1. Text[r] \in Seq(ToSet(Text[r])) /\ Len(Text[r]) \in Nat
  BY KVCacheAssumption
<1>2. FullBlocks(r) \in Nat /\ FullBlocks(r) * BlockSize <= Len(Text[r])
  <2>1. /\ FullBlocks(r) \in Int
        /\ \A k \in Int : k <= FullBlocks(r) <=> k * BlockSize <= Len(Text[r])
        /\ FullBlocks(r) * BlockSize <= Len(Text[r])
    BY <1>1, Division, SMTT(40) DEF FullBlocks
  <2>2. 0 <= FullBlocks(r)
    <3>1. 0 \in Int /\ 0 * BlockSize = 0
      BY BlockSizeType
    <3> QED BY <2>1, <3>1, <1>1
  <2> QED BY <2>1, <2>2
<1>3. /\ DOMAIN BlockHashes(r) = 1 .. FullBlocks(r)
      /\ \A i \in 1 .. FullBlocks(r) : BlockHashes(r)[i] = Hash(r, i)
  BY DEF BlockHashes, FullBlocks
<1>4. Len(BlockHashes(r)) = FullBlocks(r)
  BY <1>2 DEF BlockHashes, FullBlocks
<1>5. ASSUME NEW i \in 1 .. FullBlocks(r)
      PROVE  /\ Hash(r, i) \in Hashes
             /\ Hash(r, i) # NoHash
             /\ i * BlockSize \in Nat
             /\ i * BlockSize <= Len(Text[r])
             /\ Len(Hash(r, i)) = i * BlockSize
             /\ \A m \in 0 .. i * BlockSize :
                  SubSeq(Hash(r, i), 1, m) = KeysAndValues(r, m)
  <2>1. Hash(r, i) \in Hashes
    <3>1. Hash(r, i) \in ToSet(BlockHashes(r))
      BY <1>3 DEF ToSet
    <3> QED BY <3>1, HashesAssumption DEF AllHashes
  <2>2. Hash(r, i) # NoHash
    BY <2>1, NoHashIsNoHash
  <2>3. i * BlockSize \in Nat /\ i * BlockSize <= Len(Text[r])
    <3>1. i <= FullBlocks(r) /\ i \in Int /\ i * BlockSize \in Nat
      BY <1>2, BlockSizeType
    <3> QED BY <3>1, <1>1, Division, SMTT(40) DEF FullBlocks
  <2> DEFINE n == i * BlockSize
             t == Text[r]
  <2> HIDE DEF n, t
  <2>4. n \in Nat /\ n <= Len(t) /\ t \in Seq(ToSet(t)) /\ Len(t) \in Nat
    BY <2>3, <1>1 DEF n, t
  <2>5. Len(SubSeq(t, 1, n)) = n
    BY <2>4
  <2>6. \A m \in 0 .. n : SubSeq(SubSeq(t, 1, n), 1, m) = SubSeq(t, 1, m)
    <3> TAKE m \in 0 .. n
    <3>1. m \in Nat /\ m <= n
      BY <2>4
    <3> DEFINE h == SubSeq(t, 1, n)
    <3>2. /\ h \in Seq(ToSet(t)) /\ Len(h) = n /\ \A k \in 1 .. n : h[k] = t[k]
      BY <2>4
    <3> HIDE DEF h
    <3>3. /\ SubSeq(h, 1, m) \in Seq(ToSet(t)) /\ Len(SubSeq(h, 1, m)) = m
          /\ \A k \in 1 .. m : SubSeq(h, 1, m)[k] = t[k]
      BY <3>1, <3>2, <2>4
    <3>4. /\ SubSeq(t, 1, m) \in Seq(ToSet(t)) /\ Len(SubSeq(t, 1, m)) = m
          /\ \A k \in 1 .. m : SubSeq(t, 1, m)[k] = t[k]
      BY <3>1, <2>4
    <3>5. ASSUME NEW S, NEW a \in Seq(S), NEW b \in Seq(S), Len(a) = Len(b),
                 \A k \in 1 .. Len(a) : a[k] = b[k]
          PROVE  a = b
      BY <3>5
    <3> QED BY <3>3, <3>4, <3>5 DEF h
  <2> QED BY <2>1, <2>2, <2>3, <2>5, <2>6 DEF n, t, Hash, KeysAndValues
<1> QED BY <1>1, <1>2, <1>3, <1>4, <1>5

\* A hash tells the index of its block and all tokens up to its end.
LEMMA EqualHashes ==
  ASSUME NEW r \in Req, NEW q \in Req,
         NEW i \in 1 .. FullBlocks(r), NEW j \in 1 .. FullBlocks(q),
         Hash(r, i) = Hash(q, j)
  PROVE  i = j /\ \A m \in 0 .. i * BlockSize : KeysAndValues(r, m) = KeysAndValues(q, m)
<1>1. i * BlockSize = j * BlockSize
  BY HashesOfText
<1>2. i \in Nat /\ j \in Nat
  BY HashesOfText
<1>3. i = j
  <2>1. CASE i < j
    <3>1. (j - i - 1) * BlockSize >= 0
      BY <2>1, <1>2, BlockSizeType
    <3> QED BY <3>1, <1>1, <1>2, BlockSizeType
  <2>2. CASE j < i
    <3>1. (i - j - 1) * BlockSize >= 0
      BY <2>2, <1>2, BlockSizeType
    <3> QED BY <3>1, <1>1, <1>2, BlockSizeType
  <2> QED BY <2>1, <2>2, <1>2
<1>4. ASSUME NEW m \in 0 .. i * BlockSize PROVE KeysAndValues(r, m) = KeysAndValues(q, m)
  <2>1. m \in 0 .. j * BlockSize
    BY <1>1
  <2>2. SubSeq(Hash(r, i), 1, m) = KeysAndValues(r, m)
    BY HashesOfText
  <2>3. SubSeq(Hash(q, j), 1, m) = KeysAndValues(q, m)
    BY <2>1, HashesOfText
  <2> QED BY <2>2, <2>3
<1> QED BY <1>3, <1>4

-----------------------------------------------------------------------------
(* What the pool p, the tables tb and the counts nc of cached blocks have to *)
(* do with one another, whatever the requests are doing.                     *)

HoldersOf(b, tb) == {r \in Req : b \in ToSet(tb[r])}

Counted(p, tb) ==
  /\ \A r \in Req : IsInjective(tb[r])
  /\ \A b \in Blocks : p.ref_cnt[b] = Cardinality(HoldersOf(b, tb))
  /\ QueueExact(p)

Hashed(p, tb, nc) ==
  /\ MapExact(p)
  /\ \A r \in Req : nc[r] <= Len(tb[r]) /\ nc[r] <= FullBlocks(r)
  /\ \A r \in Req : \A i \in 1 .. Len(tb[r]) :
       p.block_hash[tb[r][i]] = IF i <= nc[r] THEN Hash(r, i) ELSE NoHash

\* Only blocks with a hash are shared.
Shared(tb, nc) ==
  \A r, q \in Req : r # q =>
    \A i \in 1 .. Len(tb[r]), j \in 1 .. Len(tb[q]) : tb[r][i] = tb[q][j] => i <= nc[r]

\* The hash that h follows on.
Previous(h) == SubSeq(h, 1, Len(h) - BlockSize)

\* A free block with a hash is evicted before the block its hash follows on.
Chained(p) ==
  \A b \in Blocks : p.ref_cnt[b] = 0 /\ Len(p.block_hash[b]) > BlockSize =>
    \E c \in Blocks : /\ p.block_hash[c] # NoHash
                      /\ p.block_hash[c] = Previous(p.block_hash[b])
                      /\ p.ref_cnt[c] > 0 \/ Before(p, b, c)

Good(p, tb, nc) ==
  /\ p \in Pools
  /\ tb \in [Req -> Seq(Blocks)]
  /\ nc \in [Req -> Int]
  /\ Counted(p, tb)
  /\ Hashed(p, tb, nc)
  /\ Shared(tb, nc)
  /\ Chained(p)

LEMMA PoolType ==
  ASSUME NEW p \in Pools
  PROVE  /\ p.ref_cnt \in [Blocks -> Nat]
         /\ p.block_hash \in [Blocks -> Hashes \union {NoHash}]
         /\ p.free_block_queue \in Seq(Blocks)
         /\ Len(p.free_block_queue) \in Nat
BY DEF Pools

LEMMA PreviousHash ==
  ASSUME NEW r \in Req, NEW i \in 2 .. FullBlocks(r)
  PROVE  Previous(Hash(r, i)) = Hash(r, i - 1)
<1>1. i \in 1 .. FullBlocks(r) /\ i \in Nat /\ i - 1 \in Nat
  BY HashesOfText
<1>2. /\ Len(Hash(r, i)) = i * BlockSize /\ i * BlockSize \in Nat
      /\ \A m \in 0 .. i * BlockSize : SubSeq(Hash(r, i), 1, m) = KeysAndValues(r, m)
  BY <1>1, HashesOfText
<1>3. (i - 1) * BlockSize = (i * BlockSize) - BlockSize /\ (i - 1) * BlockSize \in Nat
  BY <1>1, BlockSizeType
<1>4. (i - 1) * BlockSize \in 0 .. i * BlockSize
  BY <1>2, <1>3, BlockSizeType
<1> QED BY <1>2, <1>3, <1>4 DEF Previous, Hash, KeysAndValues

LEMMA FirstHash ==
  ASSUME NEW r \in Req, NEW i \in 1 .. FullBlocks(r)
  PROVE  Len(Hash(r, i)) > BlockSize <=> i >= 2
<1>1. i \in Nat /\ i >= 1 /\ Len(Hash(r, i)) = i * BlockSize
  BY HashesOfText
<1>2. CASE i = 1
  BY <1>1, <1>2, BlockSizeType
<1>3. CASE i >= 2
  <2>1. (i - 2) * BlockSize >= 0
    BY <1>1, <1>3, BlockSizeType
  <2> QED BY <1>1, <1>3, <2>1, BlockSizeType
<1> QED BY <1>1, <1>2, <1>3

\* One request's blocks change.
LEMMA Counting ==
  ASSUME NEW tb \in [Req -> Seq(Blocks)], NEW r \in Req, NEW s \in Seq(Blocks), NEW b
  PROVE  LET n == Cardinality(HoldersOf(b, tb))
             m == Cardinality(HoldersOf(b, [tb EXCEPT ![r] = s]))
         IN  /\ n \in Nat
             /\ m \in Nat
             /\ b \in ToSet(tb[r]) => n > 0
             /\ b \in ToSet(tb[r]) /\ b \in ToSet(s) => m = n
             /\ b \notin ToSet(tb[r]) /\ b \notin ToSet(s) => m = n
             /\ b \notin ToSet(tb[r]) /\ b \in ToSet(s) => m = n + 1
             /\ b \in ToSet(tb[r]) /\ b \notin ToSet(s) => m = n - 1
<1> DEFINE X == HoldersOf(b, tb)
           Y == HoldersOf(b, [tb EXCEPT ![r] = s])
           Z == X \ {r}
<1>1. /\ X = IF b \in ToSet(tb[r]) THEN Z \union {r} ELSE Z
      /\ Y = IF b \in ToSet(s) THEN Z \union {r} ELSE Z
      /\ Z \subseteq Req /\ r \notin Z
  BY DEF HoldersOf
<1> HIDE DEF X, Y, Z
<1>2. IsFiniteSet(Z) /\ Cardinality(Z) \in Nat
  BY <1>1, KVCacheAssumption, FS_Subset, FS_CardinalityType
<1>3. Cardinality(Z \union {r}) = Cardinality(Z) + 1
  BY <1>1, <1>2, FS_AddElement
<1> HIDE DEF X, Y
<1>4. Cardinality(X) = IF b \in ToSet(tb[r]) THEN Cardinality(Z) + 1 ELSE Cardinality(Z)
  BY <1>1, <1>3
<1>5. Cardinality(Y) = IF b \in ToSet(s) THEN Cardinality(Z) + 1 ELSE Cardinality(Z)
  BY <1>1, <1>3
<1> DEFINE n == Cardinality(X)
           m == Cardinality(Y)
           k == Cardinality(Z)
<1>6. /\ k \in Nat
      /\ n = IF b \in ToSet(tb[r]) THEN k + 1 ELSE k
      /\ m = IF b \in ToSet(s) THEN k + 1 ELSE k
  BY <1>2, <1>4, <1>5
<1> HIDE DEF n, m, k
<1>7. /\ n \in Nat
      /\ m \in Nat
      /\ b \in ToSet(tb[r]) => n > 0
      /\ b \in ToSet(tb[r]) /\ b \in ToSet(s) => m = n
      /\ b \notin ToSet(tb[r]) /\ b \notin ToSet(s) => m = n
      /\ b \notin ToSet(tb[r]) /\ b \in ToSet(s) => m = n + 1
      /\ b \in ToSet(tb[r]) /\ b \notin ToSet(s) => m = n - 1
  BY <1>6
<1> QED BY <1>7 DEF n, m, X, Y

LEMMA HeldIsCounted ==
  ASSUME NEW p, NEW tb, NEW nc, Good(p, tb, nc), NEW r \in Req
  PROVE  /\ \A b \in ToSet(tb[r]) : b \in Blocks /\ p.ref_cnt[b] \in Nat /\ p.ref_cnt[b] > 0
         /\ \A i \in 1 .. Len(tb[r]) : /\ tb[r][i] \in Blocks
                                       /\ tb[r][i] \in ToSet(tb[r])
                                       /\ p.ref_cnt[tb[r][i]] > 0
         /\ \A i, j \in 1 .. Len(tb[r]) : tb[r][i] = tb[r][j] => i = j
         /\ Len(tb[r]) \in Nat
<1>1. tb \in [Req -> Seq(Blocks)] /\ tb[r] \in Seq(Blocks)
  BY DEF Good
<1>2. ASSUME NEW b \in ToSet(tb[r])
      PROVE  b \in Blocks /\ p.ref_cnt[b] \in Nat /\ p.ref_cnt[b] > 0
  <2>1. b \in Blocks
    BY <1>1, Elements
  <2>2. Cardinality(HoldersOf(b, tb)) \in Nat /\ Cardinality(HoldersOf(b, tb)) > 0
    BY <1>1, Counting
  <2> QED BY <2>1, <2>2 DEF Good, Counted
<1>3. \A i, j \in 1 .. Len(tb[r]) : tb[r][i] = tb[r][j] => i = j
  <2>1. IsInjective(tb[r])
    BY DEF Good, Counted
  <2> QED BY <1>1, <2>1, Elements
<1>4. Len(tb[r]) \in Nat /\ \A i \in 1 .. Len(tb[r]) : tb[r][i] \in ToSet(tb[r])
  BY <1>1, Elements
<1> QED BY <1>2, <1>3, <1>4

\* A block with the hash of a request's block is free or held as that block.
LEMMA HashOfHeld ==
  ASSUME NEW p, NEW tb, NEW nc, Good(p, tb, nc), NEW r \in Req, NEW i \in 1 .. Len(tb[r]),
         p.block_hash[tb[r][i]] # NoHash
  PROVE  /\ i <= nc[r]
         /\ i \in 1 .. FullBlocks(r)
         /\ p.block_hash[tb[r][i]] = Hash(r, i)
<1>1. i \in Nat /\ i >= 1 /\ nc[r] \in Int /\ FullBlocks(r) \in Nat
  BY HeldIsCounted, HashesOfText DEF Good
<1>2. nc[r] <= FullBlocks(r)
      /\ p.block_hash[tb[r][i]] = IF i <= nc[r] THEN Hash(r, i) ELSE NoHash
  BY DEF Good, Hashed
<1> QED BY <1>1, <1>2

\* Requests that share a block hold it at the same place, and agree up to its end.
LEMMA SharedBlocks ==
  ASSUME NEW p, NEW tb, NEW nc, Good(p, tb, nc), NEW r \in Req, NEW q \in Req,
         NEW i \in 1 .. Len(tb[r]), NEW j \in 1 .. Len(tb[q]), tb[r][i] = tb[q][j], r # q
  PROVE  /\ i = j
         /\ i <= nc[r]
         /\ \A m \in 0 .. i * BlockSize : KeysAndValues(r, m) = KeysAndValues(q, m)
<1>1. i <= nc[r] /\ j <= nc[q]
  BY DEF Good, Shared
<1>2. p.block_hash[tb[r][i]] = Hash(r, i) /\ p.block_hash[tb[q][j]] = Hash(q, j)
  BY <1>1 DEF Good, Hashed
<1>3. i \in 1 .. FullBlocks(r) /\ j \in 1 .. FullBlocks(q)
  <2>1. /\ i \in Nat /\ i >= 1 /\ nc[r] \in Int /\ FullBlocks(r) \in Nat
        /\ j \in Nat /\ j >= 1 /\ nc[q] \in Int /\ FullBlocks(q) \in Nat
    BY HeldIsCounted, HashesOfText DEF Good
  <2>2. nc[r] <= FullBlocks(r) /\ nc[q] <= FullBlocks(q)
    BY DEF Good, Hashed
  <2> QED BY <2>1, <2>2, <1>1
<1>4. Hash(r, i) = Hash(q, j)
  BY <1>2
<1> QED BY <1>1, <1>3, <1>4, EqualHashes

\* Whether a request has no count or a count of zero makes no difference here.
LEMMA NoCount ==
  ASSUME NEW p, NEW tb, NEW nc, Good(p, tb, nc), NEW mc \in [Req -> Int],
         \A r \in Req : mc[r] = nc[r] \/ (mc[r] <= 0 /\ nc[r] <= 0)
  PROVE  Good(p, tb, mc)
<1>1. \A r \in Req : nc[r] \in Int /\ FullBlocks(r) \in Nat /\ Len(tb[r]) \in Nat
  BY HashesOfText, HeldIsCounted DEF Good
<1>2. \A r \in Req : \A i \in 1 .. Len(tb[r]) : i <= mc[r] <=> i <= nc[r]
  <2> TAKE r \in Req
  <2> TAKE i \in 1 .. Len(tb[r])
  <2>1. i >= 1 /\ i \in Int /\ nc[r] \in Int /\ mc[r] \in Int
    BY <1>1
  <2> QED BY <2>1
<1>3. Hashed(p, tb, mc)
  <2>1. \A r \in Req : mc[r] <= Len(tb[r]) /\ mc[r] <= FullBlocks(r)
    <3> TAKE r \in Req
    <3>1. nc[r] <= Len(tb[r]) /\ nc[r] <= FullBlocks(r)
      BY DEF Good, Hashed
    <3> QED BY <3>1, <1>1
  <2> QED BY <1>2, <2>1 DEF Good, Hashed
<1>4. Shared(tb, mc)
  BY <1>2 DEF Good, Shared
<1> QED BY <1>3, <1>4 DEF Good

-----------------------------------------------------------------------------
(* What allocate_slots, cache_blocks and free do to them, one part at a time. *)

\* The blocks found in the cache become the first blocks of r.
LEMMA HitsStep ==
  ASSUME NEW p, NEW tb, NEW nc, Good(p, tb, nc), NEW r \in Req, tb[r] = <<>>,
         NEW hits \in Seq(Blocks), Len(hits) <= FullBlocks(r),
         \A i \in 1 .. Len(hits) : p.block_hash[hits[i]] = Hash(r, i)
  PROVE  /\ Good(Touched(p, ToSet(hits)), [tb EXCEPT ![r] = hits], [nc EXCEPT ![r] = Len(hits)])
         /\ Touched(p, ToSet(hits)).block_hash = p.block_hash
         /\ Len(Touched(p, ToSet(hits)).free_block_queue) =
              Len(p.free_block_queue) - Cardinality({b \in ToSet(hits) : p.ref_cnt[b] = 0})
<1> DEFINE t == Touched(p, ToSet(hits))
           tb2 == [tb EXCEPT ![r] = hits]
           nc2 == [nc EXCEPT ![r] = Len(hits)]
<1>1. /\ p \in Pools /\ QueueExact(p) /\ MapExact(p)
      /\ tb \in [Req -> Seq(Blocks)] /\ nc \in [Req -> Int]
      /\ ToSet(hits) \in SUBSET Blocks /\ Len(hits) \in Nat
      /\ \A i \in 1 .. Len(hits) : hits[i] \in ToSet(hits) /\ hits[i] \in Blocks
      /\ \A b \in ToSet(hits) : \E i \in 1 .. Len(hits) : hits[i] = b
  BY Elements DEF Good, Counted, Hashed
<1>2. /\ t \in Pools
      /\ t.block_hash = p.block_hash
      /\ t.cached = p.cached
      /\ t.ref_cnt = [b \in Blocks |-> IF b \in ToSet(hits) THEN p.ref_cnt[b] + 1 ELSE p.ref_cnt[b]]
      /\ QueueExact(t)
      /\ \A b, c \in Blocks \ ToSet(hits) : Before(p, b, c) => Before(t, b, c)
      /\ Len(t.free_block_queue) =
           Len(p.free_block_queue) - Cardinality({b \in ToSet(hits) : p.ref_cnt[b] = 0})
  BY <1>1, TouchedPool
<1>3. /\ tb2 \in [Req -> Seq(Blocks)] /\ nc2 \in [Req -> Int]
      /\ tb2[r] = hits /\ nc2[r] = Len(hits)
      /\ \A q \in Req : q # r => tb2[q] = tb[q] /\ nc2[q] = nc[q]
  BY <1>1
<1>4. \A i \in 1 .. Len(hits) : i \in 1 .. FullBlocks(r) /\ Hash(r, i) # NoHash
  <2>1. FullBlocks(r) \in Nat
    BY HashesOfText
  <2>2. \A i \in 1 .. Len(hits) : i \in 1 .. FullBlocks(r)
    BY <1>1, <2>1
  <2> QED BY <2>2, HashesOfText
<1> HIDE DEF t
<1>5. Counted(t, tb2)
  <2>1. IsInjective(hits)
    <3> SUFFICES ASSUME NEW i \in 1 .. Len(hits), NEW j \in 1 .. Len(hits), hits[i] = hits[j]
                 PROVE  i = j
      BY Elements
    <3>1. Hash(r, i) = Hash(r, j)
      OBVIOUS
    <3> QED BY <3>1, <1>4, EqualHashes
  <2>2. \A q \in Req : IsInjective(tb2[q])
    BY <2>1, <1>3 DEF Good, Counted
  <2>3. ASSUME NEW b \in Blocks PROVE t.ref_cnt[b] = Cardinality(HoldersOf(b, tb2))
    <3>1. b \notin ToSet(tb[r])
      BY DEF ToSet
    <3>2. p.ref_cnt[b] = Cardinality(HoldersOf(b, tb))
      BY DEF Good, Counted
    <3>3. t.ref_cnt[b] = IF b \in ToSet(hits) THEN p.ref_cnt[b] + 1 ELSE p.ref_cnt[b]
      BY <1>2
    <3>4. /\ b \notin ToSet(hits) =>
               Cardinality(HoldersOf(b, tb2)) = Cardinality(HoldersOf(b, tb))
          /\ b \in ToSet(hits) =>
               Cardinality(HoldersOf(b, tb2)) = Cardinality(HoldersOf(b, tb)) + 1
      BY <3>1, <1>1, Counting, ZenonT(60)
    <3> QED BY <3>2, <3>3, <3>4
  <2> HIDE DEF tb2
  <2> QED BY <2>2, <2>3, <1>2 DEF Counted
<1>6. MapExact(t)
  BY <1>1, <1>2 DEF MapExact
<1>7. Hashed(t, tb2, nc2)
  <2>1. ASSUME NEW q \in Req
        PROVE  /\ nc2[q] <= Len(tb2[q]) /\ nc2[q] <= FullBlocks(q)
               /\ \A i \in 1 .. Len(tb2[q]) :
                    t.block_hash[tb2[q][i]] = IF i <= nc2[q] THEN Hash(q, i) ELSE NoHash
    <3>1. CASE q = r
      BY <3>1, <1>1, <1>2, <1>3
    <3>2. CASE q # r
      BY <3>2, <1>2, <1>3 DEF Good, Hashed
    <3> QED BY <3>1, <3>2
  <2> HIDE DEF tb2, nc2
  <2> QED BY <2>1, <1>6 DEF Hashed
<1>8. Shared(tb2, nc2)
  <2>1. ASSUME NEW q \in Req, q # r, NEW i \in 1 .. Len(hits), NEW j \in 1 .. Len(tb[q]),
               hits[i] = tb[q][j]
        PROVE  j <= nc[q]
    <3>1. p.block_hash[tb[q][j]] # NoHash
      BY <2>1, <1>4
    <3> QED BY <3>1, HashOfHeld
  <2>2. ASSUME NEW a \in Req, NEW q \in Req, a # q,
               NEW i \in 1 .. Len(tb2[a]), NEW j \in 1 .. Len(tb2[q]), tb2[a][i] = tb2[q][j]
        PROVE  i <= nc2[a]
    <3>1. CASE a = r
      BY <3>1, <1>1, <1>3
    <3>2. CASE q = r
      BY <3>2, <2>1, <2>2, <1>3
    <3>3. CASE a # r /\ q # r
      BY <3>3, <2>2, <1>3 DEF Good, Shared
    <3> QED BY <3>1, <3>2, <3>3
  <2> HIDE DEF tb2, nc2
  <2> QED BY <2>2 DEF Shared
<1>9. Chained(t)
  <2> SUFFICES ASSUME NEW b \in Blocks, t.ref_cnt[b] = 0, Len(t.block_hash[b]) > BlockSize
               PROVE  \E c \in Blocks : /\ t.block_hash[c] # NoHash
                                        /\ t.block_hash[c] = Previous(t.block_hash[b])
                                        /\ t.ref_cnt[c] > 0 \/ Before(t, b, c)
    BY DEF Chained
  <2>0. \A c \in Blocks : p.ref_cnt[c] \in Nat
    BY <1>1, PoolType
  <2>1. b \notin ToSet(hits) /\ p.ref_cnt[b] = 0
    BY <2>0, <1>2
  <2>2. PICK c \in Blocks : /\ p.block_hash[c] # NoHash
                            /\ p.block_hash[c] = Previous(p.block_hash[b])
                            /\ p.ref_cnt[c] > 0 \/ Before(p, b, c)
    BY <2>1, <1>2 DEF Good, Chained
  <2>3. CASE c \in ToSet(hits) \/ p.ref_cnt[c] > 0
    BY <2>0, <2>2, <2>3, <1>2
  <2>4. CASE c \notin ToSet(hits) /\ Before(p, b, c)
    BY <2>1, <2>2, <2>4, <1>2
  <2> QED BY <2>2, <2>3, <2>4
<1> HIDE DEF tb2, nc2
<1>10. Good(t, tb2, nc2)
  BY <1>2, <1>3, <1>5, <1>7, <1>8, <1>9 DEF Good
<1> QED BY <1>2, <1>10 DEF t, tb2, nc2

\* n blocks from the head of the queue follow the blocks of r.
LEMMA NewStep ==
  ASSUME NEW p, NEW tb, NEW nc, Good(p, tb, nc), NEW r \in Req,
         NEW n \in 0 .. Len(p.free_block_queue)
  PROVE  /\ Good(WithoutNewBlocks(p, n), [tb EXCEPT ![r] = tb[r] \o NewBlocks(p, n)], nc)
         /\ NewBlocks(p, n) \in Seq(Blocks)
         /\ Len(NewBlocks(p, n)) = n
         /\ \A b \in Blocks : \/ WithoutNewBlocks(p, n).block_hash[b] = NoHash
                              \/ WithoutNewBlocks(p, n).block_hash[b] = p.block_hash[b]
<1> DEFINE g == WithoutNewBlocks(p, n)
           a == NewBlocks(p, n)
           s == tb[r] \o a
           tb2 == [tb EXCEPT ![r] = s]
<1>1. /\ p \in Pools /\ QueueExact(p) /\ MapExact(p)
      /\ tb \in [Req -> Seq(Blocks)] /\ nc \in [Req -> Int]
      /\ \A b \in Blocks : p.ref_cnt[b] \in Nat
  BY PoolType DEF Good, Counted, Hashed
<1>2. /\ a \in Seq(Blocks)
      /\ Len(a) = n
      /\ IsInjective(a)
      /\ ToSet(a) \subseteq {b \in Blocks : p.ref_cnt[b] = 0}
      /\ g \in Pools
      /\ g.block_hash = [b \in Blocks |-> IF b \in ToSet(a) THEN NoHash ELSE p.block_hash[b]]
      /\ g.ref_cnt = [b \in Blocks |-> IF b \in ToSet(a) THEN p.ref_cnt[b] + 1 ELSE p.ref_cnt[b]]
      /\ MapExact(g)
      /\ QueueExact(g)
      /\ \A b, c \in Blocks : Before(p, b, c) /\ b \notin ToSet(a) =>
           c \notin ToSet(a) /\ Before(g, b, c)
  BY <1>1, NewPool
<1> HIDE DEF g, a
<1>3. \A q \in Req : /\ \A b \in ToSet(tb[q]) : b \in Blocks /\ b \notin ToSet(a)
                     /\ \A i \in 1 .. Len(tb[q]) : tb[q][i] \in Blocks /\ tb[q][i] \notin ToSet(a)
                     /\ Len(tb[q]) \in Nat
  <2> TAKE q \in Req
  <2>1. /\ \A b \in ToSet(tb[q]) : b \in Blocks /\ p.ref_cnt[b] > 0
        /\ \A i \in 1 .. Len(tb[q]) : tb[q][i] \in ToSet(tb[q])
        /\ Len(tb[q]) \in Nat
    BY HeldIsCounted
  <2>2. \A b \in ToSet(tb[q]) : b \in Blocks /\ b \notin ToSet(a)
    BY <2>1, <1>2
  <2> QED BY <2>1, <2>2
<1>4. /\ s \in Seq(Blocks) /\ IsInjective(s) /\ ToSet(s) = ToSet(tb[r]) \union ToSet(a)
      /\ Len(s) = Len(tb[r]) + n /\ Len(tb[r]) \in Nat /\ n \in Nat
      /\ \A i \in 1 .. Len(tb[r]) : s[i] = tb[r][i]
      /\ \A i \in 1 .. Len(s) : i > Len(tb[r]) => s[i] = a[i - Len(tb[r])] /\ s[i] \in ToSet(a)
  <2>1. IsInjective(tb[r]) /\ tb[r] \in Seq(Blocks) /\ ToSet(tb[r]) \intersect ToSet(a) = {}
    BY <1>1, <1>3 DEF Good, Counted
  <2>2. s \in Seq(Blocks) /\ IsInjective(s) /\ ToSet(s) = ToSet(tb[r]) \union ToSet(a)
    BY <2>1, <1>2, OfConcat
  <2>3. Len(s) = Len(tb[r]) + n /\ Len(tb[r]) \in Nat /\ n \in Nat
    <3>1. a \in Seq(Blocks) /\ Len(a) = n
      BY <1>2
    <3> QED BY <2>1, <3>1
  <2>4. ASSUME NEW i \in 1 .. Len(s), i > Len(tb[r])
        PROVE  s[i] = a[i - Len(tb[r])] /\ s[i] \in ToSet(a)
    <3>1. s[i] = a[i - Len(tb[r])] /\ i - Len(tb[r]) \in 1 .. Len(a)
      BY <2>1, <2>3, <2>4, <1>2
    <3>2. \A k \in 1 .. Len(a) : a[k] \in ToSet(a)
      BY <1>2, Elements
    <3> QED BY <3>1, <3>2
  <2>5. \A i \in 1 .. Len(tb[r]) : s[i] = tb[r][i]
    BY <2>1, <1>2
  <2> QED BY <2>2, <2>3, <2>4, <2>5
<1> HIDE DEF s
<1>5. /\ tb2 \in [Req -> Seq(Blocks)]
      /\ tb2[r] = s
      /\ \A q \in Req : q # r => tb2[q] = tb[q]
  BY <1>1, <1>4
<1>6. Counted(g, tb2)
  <2>2. \A q \in Req : IsInjective(tb2[q])
    BY <1>4, <1>5 DEF Good, Counted
  <2>3. ASSUME NEW b \in Blocks PROVE g.ref_cnt[b] = Cardinality(HoldersOf(b, tb2))
    <3>2. p.ref_cnt[b] = Cardinality(HoldersOf(b, tb))
      BY DEF Good, Counted
    <3>3. g.ref_cnt[b] = IF b \in ToSet(a) THEN p.ref_cnt[b] + 1 ELSE p.ref_cnt[b]
      BY <1>2
    <3>4. /\ b \in ToSet(tb[r]) /\ b \in ToSet(s) =>
               Cardinality(HoldersOf(b, tb2)) = Cardinality(HoldersOf(b, tb))
          /\ b \notin ToSet(tb[r]) /\ b \notin ToSet(s) =>
               Cardinality(HoldersOf(b, tb2)) = Cardinality(HoldersOf(b, tb))
          /\ b \notin ToSet(tb[r]) /\ b \in ToSet(s) =>
               Cardinality(HoldersOf(b, tb2)) = Cardinality(HoldersOf(b, tb)) + 1
      BY <1>1, <1>4, Counting, ZenonT(60)
    <3> QED BY <3>2, <3>3, <3>4, <1>3, <1>4
  <2> HIDE DEF tb2
  <2> QED BY <2>2, <2>3, <1>2 DEF Counted
<1>7. Hashed(g, tb2, nc)
  <2>1. ASSUME NEW q \in Req
        PROVE  /\ nc[q] <= Len(tb2[q]) /\ nc[q] <= FullBlocks(q)
               /\ \A i \in 1 .. Len(tb2[q]) :
                    g.block_hash[tb2[q][i]] = IF i <= nc[q] THEN Hash(q, i) ELSE NoHash
    <3>0. /\ nc[q] <= Len(tb[q]) /\ nc[q] <= FullBlocks(q) /\ nc[q] \in Int
          /\ \A i \in 1 .. Len(tb[q]) :
               p.block_hash[tb[q][i]] = IF i <= nc[q] THEN Hash(q, i) ELSE NoHash
      BY DEF Good, Hashed
    <3>1. \A i \in 1 .. Len(tb[q]) : g.block_hash[tb[q][i]] = p.block_hash[tb[q][i]]
      BY <1>2, <1>3
    <3>2. CASE q # r
      BY <3>0, <3>1, <3>2, <1>5
    <3>3. CASE q = r
      <4>1. nc[q] <= Len(s)
        BY <3>0, <3>3, <1>4
      <4>2. ASSUME NEW i \in 1 .. Len(s)
            PROVE  g.block_hash[s[i]] = IF i <= nc[q] THEN Hash(q, i) ELSE NoHash
        <5>1. CASE i <= Len(tb[r])
          <6>1. i \in 1 .. Len(tb[r]) /\ s[i] = tb[r][i]
            BY <5>1, <1>4
          <6> QED BY <6>1, <3>0, <3>1, <3>3
        <5>2. CASE i > Len(tb[r])
          <6>1. s[i] \in ToSet(a) /\ s[i] \in Blocks
            BY <5>2, <1>2, <1>4
          <6>2. ~ (i <= nc[q])
            BY <5>2, <3>0, <3>3, <1>4
          <6> QED BY <6>1, <6>2, <1>2
        <5> QED BY <5>1, <5>2, <1>4
      <4> QED BY <4>1, <4>2, <3>0, <3>3, <1>5
    <3> QED BY <3>2, <3>3
  <2> HIDE DEF tb2
  <2> QED BY <2>1, <1>2 DEF Hashed
<1>8. Shared(tb2, nc)
  <2>2. ASSUME NEW x \in Req, NEW q \in Req, x # q,
               NEW i \in 1 .. Len(tb2[x]), NEW j \in 1 .. Len(tb2[q]), tb2[x][i] = tb2[q][j]
        PROVE  i <= nc[x]
    <3>1. CASE x = r
      <4>1. tb2[q][j] \notin ToSet(a) /\ j \in 1 .. Len(tb[q]) /\ tb2[q][j] = tb[q][j]
        BY <3>1, <2>2, <1>3, <1>5
      <4>2. i \in 1 .. Len(tb[r]) /\ tb2[x][i] = tb[r][i]
        <5>1. tb2[x][i] = s[i] /\ i \in 1 .. Len(s)
          BY <3>1, <1>5
        <5>2. ~ (i > Len(tb[r]))
          BY <5>1, <4>1, <2>2, <1>4
        <5> QED BY <5>1, <5>2, <1>4
      <4> QED BY <4>1, <4>2, <3>1, <2>2 DEF Good, Shared
    <3>2. CASE q = r
      <4>1. tb2[x][i] \notin ToSet(a) /\ i \in 1 .. Len(tb[x]) /\ tb2[x][i] = tb[x][i]
        BY <3>2, <2>2, <1>3, <1>5
      <4>2. j \in 1 .. Len(tb[r]) /\ tb2[q][j] = tb[r][j]
        <5>1. tb2[q][j] = s[j] /\ j \in 1 .. Len(s)
          BY <3>2, <1>5
        <5>2. ~ (j > Len(tb[r]))
          BY <5>1, <4>1, <2>2, <1>4
        <5> QED BY <5>1, <5>2, <1>4
      <4> QED BY <4>1, <4>2, <3>2, <2>2 DEF Good, Shared
    <3>3. CASE x # r /\ q # r
      BY <3>3, <2>2, <1>5 DEF Good, Shared
    <3> QED BY <3>1, <3>2, <3>3
  <2> HIDE DEF tb2
  <2> QED BY <2>2 DEF Shared
<1>9. Chained(g)
  <2> SUFFICES ASSUME NEW b \in Blocks, g.ref_cnt[b] = 0, Len(g.block_hash[b]) > BlockSize
               PROVE  \E c \in Blocks : /\ g.block_hash[c] # NoHash
                                        /\ g.block_hash[c] = Previous(g.block_hash[b])
                                        /\ g.ref_cnt[c] > 0 \/ Before(g, b, c)
    BY DEF Chained
  <2>1. b \notin ToSet(a) /\ p.ref_cnt[b] = 0 /\ g.block_hash[b] = p.block_hash[b]
    BY <1>1, <1>2
  <2>2. PICK c \in Blocks : /\ p.block_hash[c] # NoHash
                            /\ p.block_hash[c] = Previous(p.block_hash[b])
                            /\ p.ref_cnt[c] > 0 \/ Before(p, b, c)
    BY <2>1 DEF Good, Chained
  <2>3. CASE p.ref_cnt[c] > 0
    <3>1. c \notin ToSet(a)
      BY <2>3, <1>1, <1>2
    <3> QED BY <3>1, <2>1, <2>2, <2>3, <1>2
  <2>4. CASE Before(p, b, c)
    BY <2>1, <2>2, <2>4, <1>2
  <2> QED BY <2>2, <2>3, <2>4
<1>10. \A b \in Blocks : g.block_hash[b] = NoHash \/ g.block_hash[b] = p.block_hash[b]
  BY <1>2
<1> HIDE DEF tb2
<1>11. Good(g, tb2, nc)
  BY <1>1, <1>2, <1>5, <1>6, <1>7, <1>8, <1>9 DEF Good
<1> QED BY <1>2, <1>10, <1>11 DEF g, a, s, tb2

\* In w, unlike in p, the blocks of r from the one after from up to to have hashes.
HashedFrom(p, w, s, r, from, to) ==
  \A b \in Blocks :
    \/ w.block_hash[b] = p.block_hash[b]
    \/ \E i \in from + 1 .. to : s[i] = b /\ w.block_hash[b] = Hash(r, i)

\* The full blocks of r up to the block to get their hashes.
LEMMA HashStep ==
  ASSUME NEW p, NEW tb, NEW nc, Good(p, tb, nc), NEW r \in Req,
         NEW from \in Nat, NEW to \in Int,
         from = nc[r] \/ (from = 0 /\ nc[r] <= 0),
         to <= Len(tb[r]), to <= FullBlocks(r),
         NEW mc \in [Req -> Int],
         mc[r] = IF to > from THEN to ELSE nc[r],
         \A q \in Req : q # r => mc[q] = nc[q],
         NEW w, w = WithHashes(p, tb[r], BlockHashes(r), from, to)
  PROVE  Good(w, tb, mc) /\ HashedFrom(p, w, tb[r], r, from, to)
<1> DEFINE new == from + 1 .. to
<1>1. /\ p \in Pools /\ QueueExact(p) /\ MapExact(p)
      /\ tb \in [Req -> Seq(Blocks)] /\ nc \in [Req -> Int]
      /\ tb[r] \in Seq(Blocks) /\ IsInjective(tb[r])
      /\ FullBlocks(r) \in Nat /\ Len(tb[r]) \in Nat /\ nc[r] \in Int
  BY HashesOfText DEF Good, Counted, Hashed
<1>2. \A i \in new : /\ i \in 1 .. Len(tb[r])
                     /\ i \in 1 .. FullBlocks(r)
                     /\ i > nc[r]
                     /\ tb[r][i] \in Blocks
  BY <1>1
<1>3. \A i \in new : /\ BlockHashes(r)[i] = Hash(r, i)
                     /\ Hash(r, i) \in Hashes /\ Hash(r, i) # NoHash
                     /\ p.block_hash[tb[r][i]] = NoHash
  <2> TAKE i \in new
  <2>1. p.block_hash[tb[r][i]] = IF i <= nc[r] THEN Hash(r, i) ELSE NoHash
    BY <1>2 DEF Good, Hashed
  <2>2. ~ (i <= nc[r])
    BY <1>1, <1>2
  <2> QED BY <2>1, <2>2, <1>2, HashesOfText
<1>4. \A i, j \in new : BlockHashes(r)[i] = BlockHashes(r)[j] => i = j
  BY <1>2, <1>3, EqualHashes
<1>5. /\ w \in Pools
      /\ w.ref_cnt = p.ref_cnt
      /\ w.free_block_queue = p.free_block_queue
      /\ \A i \in new : w.block_hash[tb[r][i]] = Hash(r, i)
      /\ \A b \in Blocks : (\A i \in new : tb[r][i] # b) => w.block_hash[b] = p.block_hash[b]
      /\ MapExact(w)
  <2>1. \A i \in new : BlockHashes(r)[i] \in Hashes
    BY <1>3
  <2> DEFINE v == WithHashes(p, tb[r], BlockHashes(r), from, to)
  <2>2. /\ v \in Pools
        /\ v.ref_cnt = p.ref_cnt
        /\ v.free_block_queue = p.free_block_queue
        /\ \A i \in new : v.block_hash[tb[r][i]] = BlockHashes(r)[i]
        /\ \A b \in Blocks : (\A i \in new : tb[r][i] # b) => v.block_hash[b] = p.block_hash[b]
        /\ MapExact(v)
    BY <2>1, <1>1, <1>3, <1>4, HashPool, ZenonT(60)
  <2> HIDE DEF v
  <2>3. w = v
    BY DEF v
  <2> QED BY <2>2, <2>3, <1>3
<1>6. \A b \in Blocks : p.block_hash[b] # NoHash => w.block_hash[b] = p.block_hash[b]
  BY <1>3, <1>5
<1>7. Counted(w, tb)
  BY <1>5 DEF Good, Counted, QueueExact
<1>8. Hashed(w, tb, mc)
  <2>1. ASSUME NEW q \in Req
        PROVE  /\ mc[q] <= Len(tb[q]) /\ mc[q] <= FullBlocks(q)
               /\ \A i \in 1 .. Len(tb[q]) :
                    w.block_hash[tb[q][i]] = IF i <= mc[q] THEN Hash(q, i) ELSE NoHash
    <3>1. /\ nc[q] <= Len(tb[q]) /\ nc[q] <= FullBlocks(q) /\ nc[q] \in Int
          /\ \A i \in 1 .. Len(tb[q]) :
               p.block_hash[tb[q][i]] = IF i <= nc[q] THEN Hash(q, i) ELSE NoHash
          /\ \A i \in 1 .. Len(tb[q]) : tb[q][i] \in Blocks
      BY HeldIsCounted DEF Good, Hashed
    <3>2. CASE q # r
      <4>1. ASSUME NEW i \in 1 .. Len(tb[q]) PROVE w.block_hash[tb[q][i]] = p.block_hash[tb[q][i]]
        <5>1. \A k \in new : tb[r][k] # tb[q][i]
          BY <3>2, <1>1, <1>2 DEF Good, Shared
        <5> QED BY <5>1, <3>1, <1>5
      <4> QED BY <3>1, <3>2, <4>1
    <3>3. CASE q = r
      <4>1. mc[q] <= Len(tb[q]) /\ mc[q] <= FullBlocks(q)
        BY <3>1, <3>3
      <4>2. ASSUME NEW i \in 1 .. Len(tb[q])
            PROVE  w.block_hash[tb[q][i]] = IF i <= mc[q] THEN Hash(q, i) ELSE NoHash
        <5>1. CASE i \in new
          <6>1. i <= mc[q]
            BY <5>1, <3>3, <1>1
          <6> QED BY <5>1, <6>1, <3>3, <1>5
        <5>2. CASE i \notin new
          <6>1. \A k \in new : tb[r][k] # tb[q][i]
            BY <5>2, <3>3, <1>2, HeldIsCounted
          <6>2. w.block_hash[tb[q][i]] = p.block_hash[tb[q][i]]
            BY <6>1, <3>1, <1>5
          <6>3. i <= mc[q] <=> i <= nc[q]
            BY <5>2, <3>1, <3>3, <1>1
          <6> QED BY <6>2, <6>3, <3>1
        <5> QED BY <5>1, <5>2
      <4> QED BY <4>1, <4>2
    <3> QED BY <3>2, <3>3
  <2> QED BY <2>1, <1>5 DEF Hashed
<1>9. Shared(tb, mc)
  <2> SUFFICES ASSUME NEW x \in Req, NEW q \in Req, x # q,
                      NEW i \in 1 .. Len(tb[x]), NEW j \in 1 .. Len(tb[q]), tb[x][i] = tb[q][j]
               PROVE  i <= mc[x]
    BY DEF Shared
  <2>1. i <= nc[x] /\ i \in Nat /\ nc[x] \in Int /\ mc[x] \in Int /\ i >= 1
    BY HeldIsCounted DEF Good, Shared
  <2>2. nc[x] <= mc[x]
    <3>1. CASE x = r
      BY <3>1, <1>1
    <3>2. CASE x # r
      BY <3>2, <2>1
    <3> QED BY <3>1, <3>2
  <2> QED BY <2>1, <2>2
<1>10. Chained(w)
  <2> SUFFICES ASSUME NEW b \in Blocks, w.ref_cnt[b] = 0, Len(w.block_hash[b]) > BlockSize
               PROVE  \E c \in Blocks : /\ w.block_hash[c] # NoHash
                                        /\ w.block_hash[c] = Previous(w.block_hash[b])
                                        /\ w.ref_cnt[c] > 0 \/ Before(w, b, c)
    BY DEF Chained
  <2>1. w.block_hash[b] = p.block_hash[b]
    <3>1. \A i \in new : tb[r][i] # b
      BY <1>2, <1>5, HeldIsCounted
    <3> QED BY <3>1, <1>5
  <2>2. PICK c \in Blocks : /\ p.block_hash[c] # NoHash
                            /\ p.block_hash[c] = Previous(p.block_hash[b])
                            /\ p.ref_cnt[c] > 0 \/ Before(p, b, c)
    BY <2>1, <1>5 DEF Good, Chained
  <2>4. w.block_hash[c] = p.block_hash[c]
    BY <2>2, <1>6
  <2>5. Before(w, b, c) <=> Before(p, b, c)
    BY <1>5 DEF Before
  <2> QED BY <2>1, <2>2, <2>4, <2>5, <1>5
<1>11. Good(w, tb, mc)
  BY <1>1, <1>5, <1>7, <1>8, <1>9, <1>10 DEF Good
<1>12. ASSUME NEW b \in Blocks
       PROVE  \/ w.block_hash[b] = p.block_hash[b]
              \/ \E i \in new : tb[r][i] = b /\ w.block_hash[b] = Hash(r, i)
  BY <1>5
<1> QED BY <1>11, <1>12 DEF HashedFrom

\* r gives its blocks back.
LEMMA FreeStep ==
  ASSUME NEW p, NEW tb, NEW nc, Good(p, tb, nc), NEW r \in Req
  PROVE  /\ Good(Freed(p, tb[r]), [tb EXCEPT ![r] = <<>>], [nc EXCEPT ![r] = NotCached])
         /\ Freed(p, tb[r]).block_hash = p.block_hash
<1> DEFINE f == Freed(p, tb[r])
           tb2 == [tb EXCEPT ![r] = <<>>]
           nc2 == [nc EXCEPT ![r] = NotCached]
           s == tb[r]
<1>1. /\ p \in Pools /\ QueueExact(p) /\ MapExact(p)
      /\ tb \in [Req -> Seq(Blocks)] /\ nc \in [Req -> Int]
      /\ s \in Seq(Blocks) /\ IsInjective(s)
      /\ \A b \in ToSet(s) : p.ref_cnt[b] > 0
      /\ \A b \in Blocks : p.ref_cnt[b] \in Nat
      /\ NotCached \in Int /\ <<>> \in Seq(Blocks)
  BY HeldIsCounted, PoolType, SMTT(40) DEF Good, Counted, Hashed, NotCached
<1>2. /\ f \in Pools
      /\ f.block_hash = p.block_hash
      /\ f.cached = p.cached
      /\ f.ref_cnt = [b \in Blocks |-> IF b \in ToSet(s) THEN p.ref_cnt[b] - 1
                                       ELSE p.ref_cnt[b]]
      /\ QueueExact(f)
      /\ \A b, c \in Blocks : Before(p, b, c) => Before(f, b, c)
      /\ \A b, c \in Blocks : p.ref_cnt[b] = 0 /\ c \in ToSet(s) /\ f.ref_cnt[c] = 0 =>
           Before(f, b, c)
      /\ \A i, j \in 1 .. Len(s) :
           i < j /\ f.ref_cnt[s[i]] = 0 /\ f.ref_cnt[s[j]] = 0 => Before(f, s[j], s[i])
  BY <1>1, FreedPool
<1>3. /\ tb2 \in [Req -> Seq(Blocks)] /\ nc2 \in [Req -> Int]
      /\ tb2[r] = <<>> /\ nc2[r] = NotCached
      /\ \A q \in Req : q # r => tb2[q] = tb[q] /\ nc2[q] = nc[q]
  BY <1>1
<1> HIDE DEF f
<1>4. Counted(f, tb2)
  <2>1. \A q \in Req : IsInjective(tb2[q])
    <3>1. IsInjective(<<>>)
      BY DEF IsInjective
    <3> QED BY <3>1, <1>3 DEF Good, Counted
  <2>2. ASSUME NEW b \in Blocks PROVE f.ref_cnt[b] = Cardinality(HoldersOf(b, tb2))
    <3>1. p.ref_cnt[b] = Cardinality(HoldersOf(b, tb))
      BY DEF Good, Counted
    <3>2. f.ref_cnt[b] = IF b \in ToSet(s) THEN p.ref_cnt[b] - 1 ELSE p.ref_cnt[b]
      BY <1>2
    <3>3. b \notin ToSet(<<>>)
      BY DEF ToSet
    <3>4. /\ b \notin ToSet(s) => Cardinality(HoldersOf(b, tb2)) = Cardinality(HoldersOf(b, tb))
          /\ b \in ToSet(s) => Cardinality(HoldersOf(b, tb2)) = Cardinality(HoldersOf(b, tb)) - 1
      <4> DEFINE e == <<>>
      <4>1. e \in Seq(Blocks) /\ b \notin ToSet(e) /\ tb2 = [tb EXCEPT ![r] = e]
        BY <3>3, <1>1
      <4> HIDE DEF e, tb2, s
      <4>2. s = tb[r] /\ tb \in [Req -> Seq(Blocks)]
        BY <1>1 DEF s
      <4> DEFINE n == Cardinality(HoldersOf(b, tb))
                 m == Cardinality(HoldersOf(b, [tb EXCEPT ![r] = e]))
      <4>3. /\ b \notin ToSet(tb[r]) /\ b \notin ToSet(e) => m = n
            /\ b \in ToSet(tb[r]) /\ b \notin ToSet(e) => m = n - 1
        BY <4>1, <4>2, Counting, ZenonT(60)
      <4> QED BY <4>1, <4>2, <4>3
    <3> QED BY <3>1, <3>2, <3>4
  <2> HIDE DEF tb2
  <2> QED BY <2>1, <2>2, <1>2 DEF Counted
<1>5. Hashed(f, tb2, nc2)
  <2>1. MapExact(f)
    BY <1>1, <1>2 DEF MapExact
  <2>2. ASSUME NEW q \in Req
        PROVE  /\ nc2[q] <= Len(tb2[q]) /\ nc2[q] <= FullBlocks(q)
               /\ \A i \in 1 .. Len(tb2[q]) :
                    f.block_hash[tb2[q][i]] = IF i <= nc2[q] THEN Hash(q, i) ELSE NoHash
    <3>1. CASE q = r
      <4>1. Len(<<>>) = 0 /\ NotCached <= 0 /\ FullBlocks(q) \in Nat /\ NotCached \in Int
        BY HashesOfText DEF NotCached
      <4>2. tb2[q] = <<>> /\ nc2[q] = NotCached
        BY <3>1, <1>3
      <4> HIDE DEF tb2, nc2
      <4> QED BY <4>1, <4>2
    <3>2. CASE q # r
      BY <3>2, <1>2, <1>3 DEF Good, Hashed
    <3> QED BY <3>1, <3>2
  <2> HIDE DEF tb2, nc2
  <2> QED BY <2>1, <2>2 DEF Hashed
<1>6. Shared(tb2, nc2)
  <2> SUFFICES ASSUME NEW x \in Req, NEW q \in Req, x # q,
                      NEW i \in 1 .. Len(tb2[x]), NEW j \in 1 .. Len(tb2[q]), tb2[x][i] = tb2[q][j]
               PROVE  i <= nc2[x]
    BY DEF Shared
  <2>1. x # r /\ q # r
    BY <1>3
  <2> QED BY <2>1, <1>3 DEF Good, Shared
<1>7. Chained(f)
  <2> SUFFICES ASSUME NEW b \in Blocks, f.ref_cnt[b] = 0, Len(f.block_hash[b]) > BlockSize
               PROVE  \E c \in Blocks : /\ f.block_hash[c] # NoHash
                                        /\ f.block_hash[c] = Previous(f.block_hash[b])
                                        /\ f.ref_cnt[c] > 0 \/ Before(f, b, c)
    BY DEF Chained
  <2>0. \A c \in Blocks : f.ref_cnt[c] \in Nat
    BY <1>2, PoolType
  <2>1. CASE p.ref_cnt[b] = 0
    <3>1. PICK c \in Blocks : /\ p.block_hash[c] # NoHash
                              /\ p.block_hash[c] = Previous(p.block_hash[b])
                              /\ p.ref_cnt[c] > 0 \/ Before(p, b, c)
      BY <2>1, <1>2 DEF Good, Chained
    <3>2. f.ref_cnt[c] > 0 \/ Before(f, b, c)
      <4>1. CASE Before(p, b, c)
        BY <4>1, <1>2
      <4>2. CASE p.ref_cnt[c] > 0 /\ f.ref_cnt[c] = 0
        <5>1. c \in ToSet(s)
          BY <4>2, <1>2
        <5> QED BY <5>1, <4>2, <2>1, <1>2
      <4> QED BY <4>1, <4>2, <3>1, <2>0
    <3> QED BY <3>1, <3>2, <1>2
  <2>2. CASE p.ref_cnt[b] # 0
    <3>1. b \in ToSet(s)
      BY <2>2, <1>2
    <3>2. PICK i \in 1 .. Len(s) : s[i] = b
      BY <3>1, <1>1, Elements
    <3>3. p.block_hash[b] # NoHash
      <4>1. Len(NoHash) = 0
        BY DEF NoHash
      <4> QED BY <4>1, <1>2, BlockSizeType
    <3>4. i \in 1 .. FullBlocks(r) /\ i <= nc[r] /\ p.block_hash[b] = Hash(r, i)
      BY <3>2, <3>3, HashOfHeld
    <3>5. i >= 2
      BY <3>4, <1>2, FirstHash
    <3> DEFINE k == i - 1
    <3>6. /\ k \in 1 .. Len(s) /\ k \in 1 .. FullBlocks(r) /\ k <= nc[r] /\ k < i
          /\ i \in 2 .. FullBlocks(r)
      <4>1. FullBlocks(r) \in Nat /\ Len(s) \in Nat /\ nc[r] \in Int
        BY <1>1, HashesOfText
      <4> QED BY <4>1, <3>4, <3>5
    <3>7. p.block_hash[s[k]] = Hash(r, k) /\ Hash(r, k) # NoHash /\ s[k] \in Blocks
      BY <3>6, HeldIsCounted, HashesOfText DEF Good, Hashed
    <3>8. Hash(r, k) = Previous(Hash(r, i))
      BY <3>6, PreviousHash
    <3>9. f.ref_cnt[s[k]] > 0 \/ Before(f, b, s[k])
      <4>1. CASE f.ref_cnt[s[k]] = 0
        BY <4>1, <3>2, <3>6, <1>2
      <4> QED BY <4>1, <3>7, <2>0
    <3> QED BY <3>4, <3>7, <3>8, <3>9, <1>2
  <2> QED BY <2>1, <2>2
<1> HIDE DEF tb2, nc2
<1>8. Good(f, tb2, nc2)
  BY <1>2, <1>3, <1>4, <1>5, <1>6, <1>7 DEF Good
<1> QED BY <1>2, <1>8 DEF f, tb2, nc2

\* The cache is reset, unless a block is in use.
LEMMA ResetStep ==
  ASSUME NEW p, NEW tb, NEW nc, Good(p, tb, nc)
  PROVE  /\ Good(Reset(p), tb, nc)
         /\ \A b \in Blocks : Reset(p).block_hash[b] \in {p.block_hash[b], NoHash}
<1> DEFINE w == Reset(p)
           bh == [b \in Blocks |-> NoHash]
           ca == [h \in Hashes |-> <<>>]
<1>1. /\ p \in Pools /\ QueueExact(p) /\ MapExact(p)
      /\ p.free_block_queue \in Seq(Blocks) /\ p.ref_cnt \in [Blocks -> Nat]
      /\ tb \in [Req -> Seq(Blocks)] /\ nc \in [Req -> Int]
  BY PoolType DEF Good, Counted, Hashed
<1>2. CASE NumFreeBlocks(p) # NumBlocks - 1
  BY <1>2 DEF Reset
<1>3. CASE NumFreeBlocks(p) = NumBlocks - 1
  <2>1. w = [ref_cnt |-> p.ref_cnt, block_hash |-> bh, free_block_queue |-> p.free_block_queue,
             cached |-> ca]
    <3> DEFINE d == [p EXCEPT !.block_hash = bh]
    <3>1. w = [d EXCEPT !.cached = ca]
      BY <1>3 DEF Reset
    <3> HIDE DEF w, bh, ca
    <3>2. d = [ref_cnt |-> p.ref_cnt, block_hash |-> bh,
                free_block_queue |-> p.free_block_queue, cached |-> p.cached]
      <4>1. p = [ref_cnt |-> p.ref_cnt, block_hash |-> p.block_hash,
                 free_block_queue |-> p.free_block_queue, cached |-> p.cached]
        BY <1>1 DEF Pools
      <4> QED BY <4>1
    <3> HIDE DEF d
    <3> QED BY <3>1, <3>2
  <2> HIDE DEF w
  <2>2. w \in Pools
    <3>1. bh \in [Blocks -> Hashes \union {NoHash}] /\ ca \in [Hashes -> Seq(Blocks)]
      OBVIOUS
    <3> HIDE DEF bh, ca
    <3> QED BY <2>1, <3>1, <1>1 DEF Pools
  <2>3. w.ref_cnt = p.ref_cnt /\ w.free_block_queue = p.free_block_queue
        /\ w.block_hash = bh /\ w.cached = ca
    BY <2>1
  <2>4. Counted(w, tb)
    BY <2>3 DEF Good, Counted, QueueExact
  <2>5. \A b \in Blocks : p.ref_cnt[b] = 0
    <3>1. /\ IsFiniteSet(ToSet(p.free_block_queue))
          /\ Cardinality(ToSet(p.free_block_queue)) = NumBlocks - 1
      BY <1>1, <1>3, LengthIsCardinality DEF QueueExact, NumFreeBlocks
    <3>2. IsFiniteSet(Blocks) /\ Cardinality(Blocks) = NumBlocks - 1
      BY NumBlocksAssumption, FS_Interval DEF Blocks
    <3>3. ToSet(p.free_block_queue) \subseteq Blocks
      BY <1>1, Elements
    <3>4. ToSet(p.free_block_queue) = Blocks
      BY <3>1, <3>2, <3>3, FS_Subset
    <3> QED BY <3>4 DEF Good, Counted, QueueExact
  <2>6. \A r \in Req : Len(tb[r]) = 0 /\ nc[r] <= 0 /\ nc[r] <= FullBlocks(r)
    <3> TAKE r \in Req
    <3>1. ~ (1 \in 1 .. Len(tb[r]))
      BY <2>5, HeldIsCounted
    <3>2. Len(tb[r]) \in Nat /\ nc[r] \in Int /\ nc[r] <= Len(tb[r]) /\ nc[r] <= FullBlocks(r)
      BY HeldIsCounted DEF Good, Hashed
    <3> QED BY <3>1, <3>2
  <2>7. Hashed(w, tb, nc)
    <3>1. MapExact(w)
      <4>1. ASSUME NEW h \in Hashes
            PROVE  IsInjective(ca[h]) /\ \A b \in Blocks : bh[b] = h <=> b \in ToSet(ca[h])
        <5>1. h # NoHash
          BY NoHashIsNoHash
        <5>2. ca[h] = <<>> /\ \A b \in Blocks : bh[b] = NoHash
          OBVIOUS
        <5>3. IsInjective(<<>>) /\ ToSet(<<>>) = {}
          BY DEF IsInjective, ToSet
        <5> QED BY <5>1, <5>2, <5>3
      <4> HIDE DEF bh, ca
      <4> QED BY <4>1, <2>3 DEF MapExact
    <3> QED BY <3>1, <2>6 DEF Hashed
  <2>8. Chained(w)
    <3>1. \A b \in Blocks : Len(w.block_hash[b]) = 0
      BY <2>3 DEF NoHash
    <3> QED BY <3>1, BlockSizeType DEF Chained
  <2>9. \A b \in Blocks : w.block_hash[b] = NoHash
    BY <2>3
  <2>10. Good(w, tb, nc)
    BY <1>1, <2>2, <2>4, <2>7, <2>8 DEF Good
  <2> QED BY <2>9, <2>10 DEF w
<1> QED BY <1>2, <1>3

-----------------------------------------------------------------------------
(* The batches in flight that sample a request. *)

SampledIn(q, r) == {i \in DOMAIN q : r \in q[i]}
InFlight(r) == Cardinality(SampledIn(batches, r))

LEMMA CountAppend ==
  ASSUME NEW q \in Seq(SUBSET Req), NEW b \in SUBSET Req, NEW r
  PROVE  /\ IsFiniteSet(SampledIn(q, r))
         /\ Cardinality(SampledIn(q, r)) \in 0 .. Len(q)
         /\ Append(q, b) \in Seq(SUBSET Req)
         /\ Len(Append(q, b)) = Len(q) + 1
         /\ Cardinality(SampledIn(Append(q, b), r)) =
              Cardinality(SampledIn(q, r)) + IF r \in b THEN 1 ELSE 0
<1>1. /\ Len(q) \in Nat
      /\ DOMAIN q = 1 .. Len(q)
      /\ Append(q, b) \in Seq(SUBSET Req)
      /\ Len(Append(q, b)) = Len(q) + 1
      /\ DOMAIN Append(q, b) = 1 .. (Len(q) + 1)
      /\ \A i \in 1 .. Len(q) : Append(q, b)[i] = q[i]
      /\ Append(q, b)[Len(q) + 1] = b
  OBVIOUS
<1>2. SampledIn(q, r) \subseteq 1 .. Len(q)
  BY <1>1 DEF SampledIn
<1>3. /\ IsFiniteSet(SampledIn(q, r))
      /\ Cardinality(SampledIn(q, r)) \in 0 .. Len(q)
  <2>1. IsFiniteSet(1 .. Len(q)) /\ Cardinality(1 .. Len(q)) = Len(q)
    BY <1>1, FS_Interval
  <2>2. /\ IsFiniteSet(SampledIn(q, r))
        /\ Cardinality(SampledIn(q, r)) <= Len(q)
    BY <1>2, <2>1, FS_Subset
  <2> QED BY <1>1, <2>2, FS_CardinalityType
<1>4. SampledIn(Append(q, b), r) =
        IF r \in b THEN SampledIn(q, r) \cup {Len(q) + 1} ELSE SampledIn(q, r)
  <2>1. \A i \in 1 .. (Len(q) + 1) : i \in 1 .. Len(q) \/ i = Len(q) + 1
    BY <1>1
  <2>2. \A i \in 1 .. Len(q) : i \in 1 .. (Len(q) + 1)
    BY <1>1
  <2>3. Len(q) + 1 \in 1 .. (Len(q) + 1)
    BY <1>1
  <2> QED BY <1>1, <2>1, <2>2, <2>3 DEF SampledIn
<1>5. Len(q) + 1 \notin SampledIn(q, r)
  BY <1>1, <1>2
<1>6. Cardinality(SampledIn(q, r) \cup {Len(q) + 1}) = Cardinality(SampledIn(q, r)) + 1
  BY <1>3, <1>5, FS_AddElement
<1> QED BY <1>1, <1>3, <1>4, <1>6

LEMMA CountTail ==
  ASSUME NEW q \in Seq(SUBSET Req), q # <<>>, NEW r
  PROVE  /\ Head(q) \in SUBSET Req
         /\ Tail(q) \in Seq(SUBSET Req)
         /\ Len(Tail(q)) = Len(q) - 1
         /\ Len(q) >= 1
         /\ Cardinality(SampledIn(q, r)) =
              Cardinality(SampledIn(Tail(q), r)) + IF r \in Head(q) THEN 1 ELSE 0
<1> DEFINE S == SampledIn(Tail(q), r)
           T == SampledIn(q, r)
           f == [i \in S |-> i + 1]
<1>1. /\ Len(q) \in Nat \ {0}
      /\ DOMAIN q = 1 .. Len(q)
      /\ Tail(q) \in Seq(SUBSET Req) /\ Head(q) \in SUBSET Req
      /\ Len(Tail(q)) = Len(q) - 1
      /\ DOMAIN Tail(q) = 1 .. (Len(q) - 1)
      /\ \A i \in 1 .. (Len(q) - 1) : Tail(q)[i] = q[i + 1]
      /\ Head(q) = q[1]
  <2>1. Len(q) \in Nat \ {0} /\ DOMAIN q = 1 .. Len(q)
    BY EmptySeq, LenProperties
  <2> QED BY <2>1, HeadTailProperties, LenProperties
<1>2. IsFiniteSet(S) /\ IsFiniteSet(T) /\ Cardinality(S) \in Nat
  <2>1. IsFiniteSet(S) /\ IsFiniteSet(T)
    <3>1. {} \in SUBSET Req
      OBVIOUS
    <3> QED BY <1>1, <3>1, CountAppend
  <2> QED BY <2>1, FS_CardinalityType
<1>3. S \subseteq 1 .. (Len(q) - 1)
  BY <1>1 DEF SampledIn
<1>4. \A i \in S : i + 1 \in T \ {1}
  BY <1>1, <1>3 DEF SampledIn
<1>5. \A j \in T \ {1} : j - 1 \in S /\ j = (j - 1) + 1
  <2> SUFFICES ASSUME NEW j \in T \ {1} PROVE j - 1 \in S /\ j = (j - 1) + 1
    OBVIOUS
  <2>1. j \in 1 .. Len(q) /\ j # 1 /\ r \in q[j]
    BY <1>1 DEF SampledIn
  <2>2. j - 1 \in 1 .. (Len(q) - 1) /\ j = (j - 1) + 1
    BY <1>1, <2>1
  <2>3. Tail(q)[j - 1] = q[j]
    BY <1>1, <2>2
  <2> QED BY <1>1, <2>1, <2>2, <2>3 DEF SampledIn
<1> HIDE DEF S, T
<1>6. f \in Bijection(S, T \ {1})
  <2>1. f \in [S -> T \ {1}]
    BY <1>4
  <2>2. \A i, j \in S : f[i] = f[j] => i = j
    BY <1>1, <1>3
  <2>3. \A j \in T \ {1} : \E i \in S : f[i] = j
    BY <1>5
  <2> QED BY <2>1, <2>2, <2>3 DEF Bijection, Injection, Surjection, IsInjective
<1>7. Cardinality(T \ {1}) = Cardinality(S)
  BY <1>2, <1>6, FS_Bijection DEF ExistsBijection
<1>8. 1 \in T <=> r \in Head(q)
  BY <1>1 DEF T, SampledIn
<1>9. Cardinality(T \ {1}) = IF 1 \in T THEN Cardinality(T) - 1 ELSE Cardinality(T)
  BY <1>2, FS_RemoveElement
<1>10. Cardinality(T) \in Nat
  BY <1>2, FS_CardinalityType
<1>11. Cardinality(T) = Cardinality(S) + IF r \in Head(q) THEN 1 ELSE 0
  BY <1>2, <1>7, <1>8, <1>9, <1>10
<1> QED BY <1>1, <1>11 DEF S, T

LEMMA FirstReplaced ==
  ASSUME NEW S, NEW s \in Seq(S), NEW y \in S, 1 \in 1 .. Len(s)
  PROVE  [s EXCEPT ![1] = y] \in Seq(S) /\ Len([s EXCEPT ![1] = y]) = Len(s)
OBVIOUS

\* One request of the oldest batch is dealt with.
Done(q, r) == IF Head(q) = {r} THEN Tail(q) ELSE [q EXCEPT ![1] = @ \ {r}]

LEMMA CountDone ==
  ASSUME NEW q \in Seq(SUBSET Req), q # <<>>, NEW r \in Head(q), NEW x,
         NEW q2, q2 = Done(q, r)
  PROVE  /\ q2 \in Seq(SUBSET Req)
         /\ Len(q2) <= Len(q)
         /\ Cardinality(SampledIn(q2, x)) = Cardinality(SampledIn(q, x)) - IF x = r THEN 1 ELSE 0
         /\ Cardinality(SampledIn(q, r)) >= 1
<1>1. /\ Head(q) \in SUBSET Req
      /\ Tail(q) \in Seq(SUBSET Req)
      /\ Len(Tail(q)) = Len(q) - 1
      /\ Len(q) >= 1
      /\ \A y : Cardinality(SampledIn(q, y)) =
                  Cardinality(SampledIn(Tail(q), y)) + IF y \in Head(q) THEN 1 ELSE 0
  BY CountTail
<1>2. /\ \A y : IsFiniteSet(SampledIn(q, y)) /\ Cardinality(SampledIn(q, y)) \in Nat
      /\ \A y : Cardinality(SampledIn(Tail(q), y)) \in Nat
      /\ Len(q) \in Nat
  <2>1. {} \in SUBSET Req
    OBVIOUS
  <2>2. \A y : IsFiniteSet(SampledIn(q, y)) /\ IsFiniteSet(SampledIn(Tail(q), y))
    BY <1>1, <2>1, CountAppend
  <2> QED BY <2>2, FS_CardinalityType
<1>3. Cardinality(SampledIn(q, r)) >= 1
  <2>1. Cardinality(SampledIn(q, r)) = Cardinality(SampledIn(Tail(q), r)) + 1
    BY <1>1
  <2> QED BY <2>1, <1>2
<1> DEFINE N == Cardinality(SampledIn(q, x))
           M == Cardinality(SampledIn(q2, x))
<1>4. CASE Head(q) = {r}
  <2>1. q2 = Tail(q)
    BY <1>4 DEF Done
  <2>2. x \in Head(q) <=> x = r
    BY <1>4
  <2>3. N = M + IF x = r THEN 1 ELSE 0
    BY <1>1, <2>1, <2>2
  <2>4. N \in Nat /\ M \in Nat
    BY <1>2, <2>1
  <2> HIDE DEF N, M
  <2>5. M = N - IF x = r THEN 1 ELSE 0
    BY <2>3, <2>4
  <2>6. q2 \in Seq(SUBSET Req) /\ Len(q2) <= Len(q)
    <3>1. Len(q) \in Nat /\ Len(Tail(q)) = Len(q) - 1 /\ Tail(q) \in Seq(SUBSET Req)
      BY <1>1, <1>2
    <3>2. Len(Tail(q)) <= Len(q)
      <4> DEFINE k == Len(Tail(q))
                 l == Len(q)
      <4>1. l \in Nat /\ k = l - 1
        BY <3>1
      <4> HIDE DEF k, l
      <4>2. k <= l
        BY <4>1
      <4> QED BY <4>2 DEF k, l
    <3> QED BY <2>1, <3>1, <3>2
  <2> QED BY <2>5, <2>6, <1>3 DEF N, M
<1>5. CASE Head(q) # {r}
  <2>1. q2 = [q EXCEPT ![1] = q[1] \ {r}] /\ Head(q) = q[1] /\ q[1] \in SUBSET Req
    BY <1>1, <1>5 DEF Done
  <2>2. 1 \in 1 .. Len(q) /\ DOMAIN q = 1 .. Len(q)
    BY <1>1, <1>2
  <2>3. q2 \in Seq(SUBSET Req) /\ Len(q2) = Len(q)
    <3>1. q[1] \ {r} \in SUBSET Req
      BY <2>1
    <3>3. /\ [q EXCEPT ![1] = q[1] \ {r}] \in Seq(SUBSET Req)
          /\ Len([q EXCEPT ![1] = q[1] \ {r}]) = Len(q)
      BY <2>2, <3>1, FirstReplaced
    <3> QED BY <2>1, <3>3
  <2>4. /\ DOMAIN q2 = DOMAIN q
        /\ q2[1] = q[1] \ {r} /\ \A i \in DOMAIN q : i # 1 => q2[i] = q[i]
    BY <2>1, <2>2
  <2>5. CASE x = r
    <3>1. SampledIn(q2, r) = SampledIn(q, r) \ {1} /\ 1 \in SampledIn(q, r)
      BY <2>1, <2>2, <2>4 DEF SampledIn
    <3>2. M = N - 1
      BY <3>1, <2>5, <1>2, FS_RemoveElement
    <3> QED BY <3>2, <2>3, <2>5, <1>2, <1>3
  <2>6. CASE x # r
    <3>1. SampledIn(q2, x) = SampledIn(q, x)
      BY <2>1, <2>2, <2>4, <2>6 DEF SampledIn
    <3>2. M = N /\ N \in Nat
      BY <3>1, <1>2
    <3> HIDE DEF M, N
    <3>3. M = N - IF x = r THEN 1 ELSE 0
      BY <3>2, <2>6
    <3> QED BY <3>3, <2>3, <1>2, <1>3 DEF M, N
  <2> QED BY <2>5, <2>6
<1> QED BY <1>4, <1>5

-----------------------------------------------------------------------------
(* The invariant. *)

\* Who holds no blocks, and how many blocks and tokens the others have, with room
\* for one more where one is to be sampled.
Holding(r) ==
  /\ r \in admitted => plan[r] > 0 /\ \A i \in 1 .. num_computed[r] : Ceil(i) <= num_cached[r]
  /\ status[r] # "RUNNING" =>
       /\ tables[r] = <<>>
       /\ num_cached[r] = NotCached
       /\ num_computed[r] = 0
       /\ plan[r] = 0
  /\ num_computed[r] + plan[r] <= Len(tables[r]) * BlockSize
  /\ num_computed[r] + plan[r] <= num_tokens[r] + placeholders[r]
  /\ plan[r] > 0 /\ num_computed[r] + plan[r] = num_tokens[r] + placeholders[r] =>
       num_tokens[r] + placeholders[r] < Len(Text[r])
  /\ num_tokens[r] + placeholders[r] <= Len(Text[r])
  /\ num_cached[r] * BlockSize <= num_tokens[r]
  /\ status[r] # "FINISHED" =>
       /\ num_tokens[r] < Len(Text[r])
       /\ placeholders[r] = InFlight(r)

HoldingInv == \A r \in Req : Holding(r)

\* A step is planned for a batch queue that has room, and the request in hand is
\* still to be admitted, with hits that are still cached.
HandInv ==
  /\ Len(batches) <= MaxBatches
  /\ ~BetweenSteps => Len(batches) < MaxBatches
  /\ hand # Nothing =>
       /\ status[hand.request] = "WAITING"
       /\ HandComputed + hand.tokens <= num_tokens[hand.request]
       /\ \A i \in 1 .. Len(hand.hits) :
            pool.block_hash[hand.hits[i]] = Hash(hand.request, i)

PoolInv == Good(pool, tables, num_cached)

\* Slot j of block b is written by the step that is being planned.
ToBeWritten(b, j) == \E q \in Req : \E i \in Planned(q) : Slot(q, i) = <<b, j>>

\* What has a hash is written, or will be with this step.
WrittenInv ==
  \A b \in Blocks : pool.block_hash[b] # NoHash =>
    \A j \in 1 .. BlockSize :
      \/ data[b][j] = SubSeq(pool.block_hash[b], 1, Len(pool.block_hash[b]) - BlockSize + j)
      \/ ToBeWritten(b, j)

\* What a request has computed itself is written.
DataInv ==
  \A r \in Req \ admitted : \A i \in 1 .. num_computed[r] :
    data[Slot(r, i)[1]][Slot(r, i)[2]] = KeysAndValues(r, i)

KVInv == TypeOK /\ PoolInv /\ HoldingInv /\ HandInv /\ WrittenInv /\ DataInv

-----------------------------------------------------------------------------
(* What follows from the invariant. *)

LEMMA TypesOf ==
  ASSUME KVInv, NEW r \in Req
  PROVE  /\ Len(tables[r]) \in Nat /\ tables[r] \in Seq(Blocks)
         /\ num_cached[r] \in Nat \union {NotCached} /\ num_cached[r] \in Int
         /\ num_computed[r] \in Nat /\ plan[r] \in Nat /\ num_tokens[r] \in Nat
         /\ placeholders[r] \in Nat
         /\ Len(Text[r]) \in Nat
         /\ Holding(r)
<1>1. tables[r] \in Seq(Blocks) /\ num_cached[r] \in Nat \union {NotCached}
      /\ num_computed[r] \in Nat /\ plan[r] \in Nat /\ num_tokens[r] \in Nat
  BY DEF KVInv, TypeOK
<1>2. placeholders[r] \in Nat
  <2>1. placeholders[r] \in 0 .. MaxBatches
    BY DEF KVInv, TypeOK
  <2> QED BY <2>1
<1> QED BY <1>1, <1>2, HashesOfText DEF KVInv, HoldingInv, NotCached

LEMMA InvImpliesRefCounts == KVInv => RefCountsAreExact
BY DEF KVInv, PoolInv, Good, Counted, QueueExact, HoldersOf, RefCountsAreExact

LEMMA InvImpliesHashes == KVInv => HashesAreExact
<1> SUFFICES ASSUME KVInv PROVE HashesAreExact
  OBVIOUS
<1>1. ASSUME NEW r \in Req, NEW i \in 1 .. Len(tables[r])
      PROVE  pool.block_hash[tables[r][i]] =
               IF num_cached[r] # NotCached /\ i <= num_cached[r] THEN Hash(r, i) ELSE NoHash
  <2>1. pool.block_hash[tables[r][i]] = IF i <= num_cached[r] THEN Hash(r, i) ELSE NoHash
    BY DEF KVInv, PoolInv, Good, Hashed
  <2>2. i <= num_cached[r] => num_cached[r] # NotCached
    BY TypesOf DEF NotCached
  <2> QED BY <2>1, <2>2
<1>2. \A r \in Req : num_cached[r] * BlockSize <= num_tokens[r]
  BY TypesOf DEF Holding
<1>3. MapExact(pool)
  BY DEF KVInv, PoolInv, Good, Hashed
<1> QED BY <1>1, <1>2, <1>3 DEF MapExact, HashesAreExact

\* Who holds a block with a hash holds the block before it, with its hash.
LEMMA InvImpliesChains == KVInv => ChainsAreUnbroken
<1> SUFFICES ASSUME KVInv, NEW r \in Req, NEW i \in 2 .. Len(BlockHashes(r)),
                    IsCached(pool, Hash(r, i))
             PROVE  IsCached(pool, Hash(r, i - 1))
  BY DEF ChainsAreUnbroken
<1>1. /\ i \in 2 .. FullBlocks(r) /\ FullBlocks(r) \in Nat /\ i \in Nat
      /\ i \in 1 .. FullBlocks(r) /\ i - 1 \in 1 .. FullBlocks(r)
  BY HashesOfText
<1>2. /\ Hash(r, i) \in Hashes /\ Hash(r, i) # NoHash
      /\ Hash(r, i - 1) \in Hashes /\ Hash(r, i - 1) # NoHash
  BY <1>1, HashesOfText
<1>3. /\ Good(pool, tables, num_cached)
      /\ MapExact(pool) /\ pool \in Pools
      /\ pool.cached \in [Hashes -> Seq(Blocks)]
  BY DEF KVInv, PoolInv, Good, Hashed, Pools
<1>4. ASSUME NEW h \in Hashes PROVE IsCached(pool, h) <=> \E b \in Blocks : pool.block_hash[b] = h
  <2> DEFINE s == pool.cached[h]
  <2>1. s \in Seq(Blocks)
    BY <1>3
  <2>2. s # <<>> <=> \E b \in Blocks : b \in ToSet(s)
    <3>1. s # <<>> => s[1] \in ToSet(s) /\ s[1] \in Blocks
      BY <2>1, EmptySeq, Elements
    <3>2. s = <<>> => ToSet(s) = {}
      BY DEF ToSet
    <3> QED BY <3>1, <3>2
  <2> QED BY <2>2, <1>3 DEF IsCached, MapExact
<1>5. PICK b \in Blocks : pool.block_hash[b] = Hash(r, i)
  BY <1>2, <1>4
<1>6. SUFFICES \E c \in Blocks : pool.block_hash[c] = Hash(r, i - 1)
  BY <1>2, <1>4
<1>7. CASE pool.ref_cnt[b] = 0
  <2>1. Len(pool.block_hash[b]) > BlockSize
    BY <1>1, <1>5, FirstHash
  <2>2. PICK c \in Blocks : pool.block_hash[c] = Previous(pool.block_hash[b])
    BY <1>3, <1>7, <2>1 DEF Good, Chained
  <2> QED BY <2>2, <1>1, <1>5, PreviousHash
<1>8. CASE pool.ref_cnt[b] # 0
  <2>1. PICK q \in Req : b \in ToSet(tables[q])
    <3>1. Cardinality(HoldersOf(b, tables)) # 0
      BY <1>3, <1>8 DEF Good, Counted
    <3>2. HoldersOf(b, tables) # {}
      BY <3>1, FS_EmptySet
    <3> QED BY <3>2 DEF HoldersOf
  <2>2. PICK k \in 1 .. Len(tables[q]) : tables[q][k] = b
    BY <2>1, TypesOf, Elements, ZenonT(60)
  <2>3. k <= num_cached[q] /\ k \in 1 .. FullBlocks(q) /\ Hash(q, k) = Hash(r, i)
    BY <2>2, <1>2, <1>3, <1>5, HashOfHeld
  <2>4. k = i /\ \A m \in 0 .. i * BlockSize : KeysAndValues(r, m) = KeysAndValues(q, m)
    BY <2>3, <1>1, EqualHashes
  <2>5. i - 1 \in 1 .. Len(tables[q]) /\ i - 1 <= num_cached[q]
    BY <2>2, <2>3, <2>4, <1>1, TypesOf
  <2>6. pool.block_hash[tables[q][i - 1]] = Hash(q, i - 1) /\ tables[q][i - 1] \in Blocks
    BY <2>5, <1>3, HeldIsCounted DEF Good, Hashed
  <2>7. Hash(q, i - 1) = Hash(r, i - 1)
    <3>1. (i - 1) * BlockSize = (i * BlockSize) - BlockSize /\ (i - 1) * BlockSize \in Nat
          /\ i * BlockSize \in Nat
      BY <1>1, BlockSizeType
    <3>2. (i - 1) * BlockSize \in 0 .. i * BlockSize
      BY <3>1, BlockSizeType
    <3> QED BY <3>2, <2>4 DEF KeysAndValues, Hash
  <2> QED BY <2>6, <2>7
<1> QED BY <1>7, <1>8

LEMMA InvImpliesCommonPrefix == KVInv => CommonPrefixIsShared
<1> SUFFICES ASSUME KVInv, NEW r \in Req, NEW q \in Req, status[r] = "RUNNING", plan[q] > 0,
                    NEW i \in 1 .. NumCommonPrefixBlocks(r)
             PROVE  i <= Len(tables[q]) /\ tables[q][i] = tables[r][i]
  BY DEF CommonPrefixIsShared
<1> DEFINE Common(n) == \A k \in 1 .. n : pool.ref_cnt[tables[r][k]] = Cardinality(Holders)
           T == {n \in 0 .. Len(tables[r]) : Common(n)}
<1>1. Good(pool, tables, num_cached)
  BY DEF KVInv, PoolInv
<1>2. NumCommonPrefixBlocks(r) \in T
  <2>1. NumCommonPrefixBlocks(r) = Max(T)
    BY DEF NumCommonPrefixBlocks
  <2>2. 0 \in T /\ T \in SUBSET (0 .. Len(tables[r])) /\ Len(tables[r]) \in Nat
    BY TypesOf
  <2> HIDE DEF T
  <2> QED BY <2>1, <2>2, MaxIsMax
<1>3. i \in 1 .. Len(tables[r]) /\ pool.ref_cnt[tables[r][i]] = Cardinality(Holders)
  BY <1>2, TypesOf
<1> DEFINE b == tables[r][i]
<1>4. b \in Blocks /\ b \in ToSet(tables[r])
  BY <1>1, <1>3, HeldIsCounted
<1>5. HoldersOf(b, tables) = Holders
  <2>1. HoldersOf(b, tables) \subseteq Holders /\ Holders \subseteq Req
    BY DEF HoldersOf, Holders, ToSet
  <2>2. IsFiniteSet(Holders)
    BY <2>1, KVCacheAssumption, FS_Subset
  <2>3. Cardinality(HoldersOf(b, tables)) = Cardinality(Holders)
    BY <1>1, <1>3, <1>4 DEF Good, Counted
  <2> QED BY <2>1, <2>2, <2>3, FS_Subset
<1>6. q \in Holders
  <2>1. Len(tables[q]) # 0
    <3>1. num_computed[q] + plan[q] <= Len(tables[q]) * BlockSize
      BY TypesOf DEF Holding
    <3> QED BY <3>1, TypesOf, BlockSizeType
  <2> QED BY <2>1 DEF Holders
<1>7. PICK j \in 1 .. Len(tables[q]) : tables[q][j] = b
  <2>1. b \in ToSet(tables[q])
    BY <1>5, <1>6 DEF HoldersOf
  <2> QED BY <2>1, TypesOf, Elements, SMTT(40)
<1>8. CASE r = q
  BY <1>3, <1>8, TypesOf
<1>9. CASE r # q
  <2>1. i = j
    BY <1>1, <1>3, <1>7, <1>9, SharedBlocks
  <2> QED BY <2>1, <1>7, TypesOf
<1> QED BY <1>8, <1>9

\* What a request has computed lies in its blocks.
LEMMA SlotsOf ==
  ASSUME KVInv, NEW r \in Req, NEW i \in 1 .. num_computed[r] + plan[r]
  PROVE  /\ i \in Nat \ {0}
         /\ Ceil(i) \in 1 .. Len(tables[r])
         /\ tables[r][Ceil(i)] \in Blocks
         /\ Offset(i) \in 1 .. BlockSize
         /\ i = ((Ceil(i) - 1) * BlockSize) + Offset(i)
         /\ Slot(r, i) = <<tables[r][Ceil(i)], Offset(i)>>
<1>1. i \in Nat \ {0} /\ i <= Len(tables[r]) * BlockSize /\ Len(tables[r]) \in Nat
  <2>1. num_computed[r] + plan[r] <= Len(tables[r]) * BlockSize
    BY TypesOf DEF Holding
  <2>2. Len(tables[r]) * BlockSize \in Nat
    BY TypesOf, BlockSizeType
  <2> QED BY <2>1, <2>2, TypesOf
<1>2. /\ Ceil(i) \in Nat \ {0} /\ Offset(i) \in 1 .. BlockSize
      /\ i = ((Ceil(i) - 1) * BlockSize) + Offset(i)
  BY <1>1, SlotArithmetic
<1>3. Ceil(i) <= Len(tables[r])
  <2>1. \A k \in Int : Ceil(i) <= k <=> i <= k * BlockSize
    BY <1>1, CeilBounds
  <2> QED BY <2>1, <1>1
<1>4. Ceil(i) \in 1 .. Len(tables[r])
  BY <1>1, <1>2, <1>3
<1>5. tables[r][Ceil(i)] \in Blocks
  BY <1>4, HeldIsCounted DEF KVInv, PoolInv
<1>6. Slot(r, i) = <<tables[r][Ceil(i)], Offset(i)>>
  BY DEF Slot, Offset
<1> QED BY <1>1, <1>2, <1>4, <1>5, <1>6

LEMMA VisibleIs ==
  ASSUME KVInv, NEW r \in Req
  PROVE  Visible(r) = IF r \in admitted THEN <<>> ELSE P!OfItsFirst(r, num_computed[r])
<1>1. CASE r \in admitted
  BY <1>1 DEF Visible
<1>2. CASE r \notin admitted
  <2>1. \A i \in 1 .. num_computed[r] :
          data[Slot(r, i)[1]][Slot(r, i)[2]] = P!KeysAndValues(r, i)
    BY <1>2 DEF KVInv, DataInv, KeysAndValues, P!KeysAndValues
  <2> QED BY <2>1, <1>2 DEF Visible, P!OfItsFirst
<1> QED BY <1>1, <1>2

-----------------------------------------------------------------------------
(* allocate_slots. *)

LEMMA MaxWithZero ==
  ASSUME NEW a \in Int
  PROVE  Max({a, 0}) = IF a > 0 THEN a ELSE 0
<1> DEFINE m == IF a > 0 THEN a ELSE 0
<1>1. m \in {a, 0} /\ \A y \in {a, 0} : m >= y
  OBVIOUS
<1>2. ASSUME NEW x \in {a, 0}, \A y \in {a, 0} : x >= y PROVE x = m
  BY <1>2
<1> HIDE DEF m
<1> QED BY <1>1, <1>2 DEF Max, m

LEMMA BlocksAreFinite == IsFiniteSet(Blocks)
<1>1. NumBlocks - 1 \in Int
  BY NumBlocksAssumption
<1> QED BY <1>1, FS_Interval DEF Blocks

LEMMA FullBlocksBound ==
  ASSUME NEW r \in Req, NEW k \in Int, k * BlockSize <= Len(Text[r])
  PROVE  k <= FullBlocks(r)
<1>1. Len(Text[r]) \in Int
  BY HashesOfText
<1>2. \A j \in Int : j <= FullBlocks(r) <=> j * BlockSize <= Len(Text[r])
  BY <1>1, Division DEF FullBlocks
<1> QED BY <1>2

\* Touching no blocks changes nothing that matters.
LEMMA NoHitsStep ==
  ASSUME NEW p, NEW tb, NEW nc, Good(p, tb, nc)
  PROVE  /\ Good(Touched(p, ToSet(<<>>)), tb, nc)
         /\ Touched(p, ToSet(<<>>)).block_hash = p.block_hash
         /\ Len(Touched(p, ToSet(<<>>)).free_block_queue) = Len(p.free_block_queue)
<1> DEFINE bs == ToSet(<<>>)
           t == Touched(p, bs)
<1>1. bs = {} /\ p \in Pools /\ QueueExact(p)
  BY DEF ToSet, Good, Counted
<1> HIDE DEF bs
<1>2. /\ t \in Pools
      /\ t.block_hash = p.block_hash
      /\ t.cached = p.cached
      /\ t.ref_cnt = [b \in Blocks |-> IF b \in bs THEN p.ref_cnt[b] + 1 ELSE p.ref_cnt[b]]
      /\ QueueExact(t)
      /\ \A b, c \in Blocks \ bs : Before(p, b, c) => Before(t, b, c)
      /\ Len(t.free_block_queue) =
           Len(p.free_block_queue) - Cardinality({b \in bs : p.ref_cnt[b] = 0})
  <2>1. bs \in SUBSET Blocks
    BY <1>1
  <2> QED BY <1>1, <2>1, TouchedPool
<1> HIDE DEF t
<1>3. \A b \in Blocks : t.ref_cnt[b] = p.ref_cnt[b]
  BY <1>1, <1>2
<1>4. Counted(t, tb)
  BY <1>2, <1>3 DEF Good, Counted
<1>5. Hashed(t, tb, nc)
  BY <1>2 DEF Good, Hashed, MapExact
<1>6. Chained(t)
  BY <1>1, <1>2, <1>3 DEF Good, Chained
<1>7. Len(t.free_block_queue) = Len(p.free_block_queue)
  <2>1. {b \in bs : p.ref_cnt[b] = 0} = {} /\ Len(p.free_block_queue) \in Nat
    BY <1>1, PoolType
  <2>2. Cardinality({b \in bs : p.ref_cnt[b] = 0}) = 0
    BY <2>1, FS_EmptySet
  <2> QED BY <2>1, <2>2, <1>2
<1>8. Good(t, tb, nc)
  BY <1>2, <1>4, <1>5, <1>6 DEF Good
<1> QED BY <1>2, <1>7, <1>8 DEF t, bs

\* What allocate_slots makes of the blocks, of a request that has none and some
\* hits, or of one that has blocks already.
LEMMA AllocateStep ==
  ASSUME KVInv, NEW r \in Req, NEW hits \in Seq(Blocks), NEW computed \in Nat, NEW n \in Nat \ {0},
         \/ hits = <<>>
         \/ tables[r] = <<>> /\ num_cached[r] = NotCached,
         hits = <<>> => computed = num_computed[r],
         hits # <<>> => computed = Len(hits) * BlockSize,
         \A i \in 1 .. Len(hits) : pool.block_hash[hits[i]] = Hash(r, i),
         Len(hits) * BlockSize <= num_tokens[r],
         Fits(r, hits, computed, n, FALSE) \/ Fits(r, hits, computed, n, ReserveFullISL),
         AllocateSlots(r, hits, computed, n)
  PROVE  /\ Good(pool', tables', num_cached')
         /\ num_cached' \in [Req -> Nat \union {NotCached}]
         /\ \A q \in Req : q # r => tables'[q] = tables[q] /\ num_cached'[q] = num_cached[q]
         /\ Len(tables'[r]) \in Nat
         /\ computed + n <= Len(tables'[r]) * BlockSize
         /\ Len(tables[r]) <= Len(tables'[r])
         /\ \A i \in 1 .. Len(tables[r]) : tables'[r][i] = tables[r][i]
         /\ num_cached'[r] * BlockSize <= num_tokens[r]
         /\ num_cached[r] <= num_cached'[r]
         /\ Len(hits) > 0 => Len(hits) <= num_cached'[r]
         /\ \A b \in Blocks :
              \/ pool'.block_hash[b] \in {pool.block_hash[b], NoHash}
              \/ \E i \in 1 .. Len(tables'[r]) :
                   /\ tables'[r][i] = b /\ pool'.block_hash[b] = Hash(r, i)
                   /\ i > num_cached[r] /\ i > Len(hits)
                   /\ i <= FullBlocks(r)
                   /\ i * BlockSize <= computed + n
<1> DEFINE touched == Touched(pool, ToSet(hits))
           held == tables[r] \o hits
           num_new == Max({Ceil(computed + n) - Len(held), 0})
           new == NewBlocks(touched, num_new)
           blocks == held \o new
           before == IF num_cached[r] # NotCached THEN num_cached[r] ELSE Len(hits)
           full == TokensToCache(r, computed, n) \div BlockSize
           grown == WithoutNewBlocks(touched, num_new)
           tb1 == [tables EXCEPT ![r] = held]
           tb2 == [tables EXCEPT ![r] = blocks]
           nc1 == [num_cached EXCEPT ![r] = before]
<1>1. /\ tables' = tb2
      /\ pool' = WithHashes(grown, blocks, BlockHashes(r), before, full)
      /\ num_cached' = [num_cached EXCEPT ![r] =
           IF full > before THEN full
           ELSE IF hits # <<>> THEN Len(hits) ELSE num_cached[r]]
  BY DEF AllocateSlots
<1>2. /\ Good(pool, tables, num_cached)
      /\ tables \in [Req -> Seq(Blocks)] /\ tables[r] \in Seq(Blocks)
      /\ num_cached \in [Req -> Nat \union {NotCached}] /\ num_cached \in [Req -> Int]
      /\ num_cached[r] \in Nat \union {NotCached}
      /\ Len(hits) \in Nat /\ Len(tables[r]) \in Nat
      /\ num_tokens[r] \in Nat /\ Len(Text[r]) \in Nat /\ num_tokens[r] <= Len(Text[r])
      /\ NotCached = -1
      /\ pool \in Pools /\ Len(pool.free_block_queue) \in Nat
  <2>1. num_tokens[r] \in PromptLen[r] .. Len(Text[r]) /\ PromptLen[r] \in Nat
    BY KVCacheAssumption DEF KVInv, TypeOK
  <2>2. NotCached = -1
    BY DEF NotCached
  <2>3. /\ tables \in [Req -> Seq(Blocks)]
        /\ num_cached \in [Req -> Nat \union {NotCached}]
        /\ Good(pool, tables, num_cached)
    BY DEF KVInv, TypeOK, PoolInv
  <2>4. num_cached \in [Req -> Int] /\ pool \in Pools
    BY <2>3 DEF Good
  <2>5. Len(pool.free_block_queue) \in Nat
    BY <2>4, PoolType
  <2>6. Len(tables[r]) \in Nat /\ num_tokens[r] \in Nat /\ Len(Text[r]) \in Nat
    BY TypesOf
  <2>7. num_tokens[r] <= Len(Text[r])
    BY <2>1, <2>6
  <2>8. Len(hits) \in Nat
    OBVIOUS
  <2> QED BY <2>2, <2>3, <2>4, <2>5, <2>6, <2>7, <2>8
<1>3. /\ before \in Nat
      /\ num_cached[r] <= before
      /\ hits # <<>> => before = Len(hits)
      /\ Len(hits) <= before
      /\ before = num_cached[r] \/ (before = 0 /\ num_cached[r] = -1) \/ hits # <<>>
  <2>1. hits = <<>> => Len(hits) = 0
    OBVIOUS
  <2> QED BY <2>1, <1>2
<1>4. /\ held \in Seq(Blocks)
      /\ Len(held) = Len(tables[r]) + Len(hits)
      /\ Len(held) \in Nat
      /\ hits = <<>> => held = tables[r]
      /\ hits # <<>> => held = hits
      /\ \A i \in 1 .. Len(tables[r]) : held[i] = tables[r][i]
  BY <1>2, SMTT(40)
<1> HIDE DEF touched, held, before
<1>5. /\ Good(touched, tb1, nc1)
      /\ touched.block_hash = pool.block_hash
      /\ Len(touched.free_block_queue) =
           Len(pool.free_block_queue) - Cardinality({b \in ToSet(hits) : pool.ref_cnt[b] = 0})
  <2>1. CASE hits = <<>>
    <3>1. tb1 = tables
      BY <2>1, <1>2, <1>4
    <3>2. /\ Good(touched, tables, num_cached)
          /\ touched.block_hash = pool.block_hash
          /\ Len(touched.free_block_queue) = Len(pool.free_block_queue)
      BY <2>1, <1>2, NoHitsStep DEF touched
    <3>3. Good(touched, tables, nc1)
      <4>1. nc1 \in [Req -> Int]
        BY <1>2, <1>3
      <4>2. \A q \in Req : nc1[q] = num_cached[q] \/ (nc1[q] <= 0 /\ num_cached[q] <= 0)
        BY <2>1, <1>2, <1>3
      <4> HIDE DEF nc1
      <4> QED BY <3>2, <4>1, <4>2, NoCount
    <3>4. Cardinality({b \in ToSet(hits) : pool.ref_cnt[b] = 0}) = 0
      <4>1. ToSet(hits) = {}
        BY <2>1 DEF ToSet
      <4>2. {b \in ToSet(hits) : pool.ref_cnt[b] = 0} = {}
        BY <4>1
      <4> QED BY <4>2, FS_EmptySet
    <3> HIDE DEF tb1, nc1
    <3> QED BY <3>1, <3>2, <3>3, <3>4, <1>2
  <2>2. CASE hits # <<>>
    <3>1. tables[r] = <<>> /\ held = hits /\ before = Len(hits)
      BY <2>2, <1>3, <1>4
    <3>2. Len(hits) <= FullBlocks(r)
      <4>1. Len(hits) * BlockSize <= Len(Text[r])
        <5>1. Len(hits) * BlockSize \in Nat
          BY <1>2, BlockSizeType
        <5> QED BY <5>1, <1>2
      <4>2. Len(hits) \in Int
        BY <1>2
      <4> QED BY <4>1, <4>2, FullBlocksBound
    <3>3. tb1 = [tables EXCEPT ![r] = hits] /\ nc1 = [num_cached EXCEPT ![r] = Len(hits)]
      BY <3>1
    <3> HIDE DEF tb1, nc1
    <3>4. Good(pool, tables, num_cached)
      BY <1>2
    <3>5. /\ Good(Touched(pool, ToSet(hits)), [tables EXCEPT ![r] = hits],
                  [num_cached EXCEPT ![r] = Len(hits)])
          /\ Touched(pool, ToSet(hits)).block_hash = pool.block_hash
          /\ Len(Touched(pool, ToSet(hits)).free_block_queue) =
               Len(pool.free_block_queue) - Cardinality({b \in ToSet(hits) : pool.ref_cnt[b] = 0})
      BY <3>1, <3>2, <3>4, HitsStep
    <3> QED BY <3>3, <3>5 DEF touched
  <2> QED BY <2>1, <2>2
<1>6. /\ num_new \in Nat /\ Len(held) + num_new >= Ceil(computed + n)
      /\ Ceil(computed + n) \in Nat
      /\ computed + n <= Ceil(computed + n) * BlockSize
      /\ num_new = IF Ceil(computed + n) - Len(held) > 0 THEN Ceil(computed + n) - Len(held) ELSE 0
  <2>1. Ceil(computed + n) \in Nat /\ computed + n <= Ceil(computed + n) * BlockSize
    <3>1. computed + n \in Nat
      OBVIOUS
    <3> DEFINE m == computed + n
    <3> HIDE DEF m
    <3>2. Ceil(m) \in Nat /\ m <= Ceil(m) * BlockSize
      BY <3>1, CeilBounds DEF m
    <3> QED BY <3>2 DEF m
  <2>2. num_new = IF Ceil(computed + n) - Len(held) > 0 THEN Ceil(computed + n) - Len(held) ELSE 0
    <3> DEFINE a == Ceil(computed + n) - Len(held)
    <3>1. a \in Int /\ num_new = Max({a, 0})
      BY <2>1, <1>4
    <3> HIDE DEF a, num_new
    <3>2. num_new = IF a > 0 THEN a ELSE 0
      BY <3>1, MaxWithZero
    <3> QED BY <3>2 DEF a
  <2> HIDE DEF num_new
  <2> QED BY <2>1, <2>2, <1>4
<1>7. num_new \in 0 .. Len(touched.free_block_queue)
  <2> DEFINE z == Cardinality({b \in ToSet(hits) : pool.ref_cnt[b] = 0})
             c == Ceil(computed + n)
  <2>1. NumBlocksToAllocate(r, hits, computed + n) <= Len(pool.free_block_queue)
    BY DEF Fits, NumFreeBlocks
  <2>2. /\ num_cached[r] # NotCached =>
             NumBlocksToAllocate(r, hits, computed + n) = Max({c - Len(tables[r]), 0})
        /\ num_cached[r] = NotCached =>
             NumBlocksToAllocate(r, hits, computed + n) =
               Max({c - Len(hits) - Len(tables[r]), 0}) + z
    BY DEF NumBlocksToAllocate
  <2>3. z \in Nat /\ (hits = <<>> => z = 0)
    <3>1. IsFiniteSet(ToSet(hits))
      <4>1. ToSet(hits) \subseteq Blocks
        BY Elements
      <4> QED BY <4>1, BlocksAreFinite, FS_Subset
    <3>2. z \in Nat
      <4>1. IsFiniteSet({b \in ToSet(hits) : pool.ref_cnt[b] = 0})
        BY <3>1, FS_Subset
      <4> QED BY <4>1, FS_CardinalityType
    <3>3. hits = <<>> => {b \in ToSet(hits) : pool.ref_cnt[b] = 0} = {}
      BY DEF ToSet
    <3> QED BY <3>2, <3>3, FS_EmptySet
  <2> HIDE DEF z
  <2>4. NumBlocksToAllocate(r, hits, computed + n) = num_new + z
    <3>1. c - Len(tables[r]) \in Int /\ c - Len(hits) - Len(tables[r]) \in Int /\ c \in Nat
      BY <1>2, <1>6, SMTT(40)
    <3>2. Max({c - Len(tables[r]), 0}) =
            IF c - Len(tables[r]) > 0 THEN c - Len(tables[r]) ELSE 0
      BY <3>1, MaxWithZero
    <3>3. Max({c - Len(hits) - Len(tables[r]), 0}) =
            IF c - Len(hits) - Len(tables[r]) > 0 THEN c - Len(hits) - Len(tables[r]) ELSE 0
      BY <3>1, MaxWithZero
    <3>4. num_new = IF c - Len(held) > 0 THEN c - Len(held) ELSE 0
      BY <1>6
    <3>5. hits = <<>> => Len(hits) = 0
      OBVIOUS
    <3> DEFINE x == NumBlocksToAllocate(r, hits, computed + n)
    <3> HIDE DEF c, num_new, x
    <3>6. CASE num_cached[r] # NotCached
      <4>1. hits = <<>>
        BY <3>6
      <4>2. x = IF c - Len(tables[r]) > 0 THEN c - Len(tables[r]) ELSE 0
        BY <2>2, <3>2, <3>6 DEF x
      <4> QED BY <4>1, <4>2, <3>1, <3>4, <3>5, <2>3, <1>2, <1>4 DEF x
    <3>7. CASE num_cached[r] = NotCached
      <4>1. x = (IF c - Len(hits) - Len(tables[r]) > 0 THEN c - Len(hits) - Len(tables[r]) ELSE 0) + z
        BY <2>2, <3>3, <3>7 DEF x
      <4>2. c - Len(hits) - Len(tables[r]) = c - Len(held)
        BY <3>1, <1>2, <1>4
      <4> QED BY <4>1, <4>2, <3>4 DEF x
    <3> QED BY <3>6, <3>7
  <2> DEFINE f == Len(pool.free_block_queue)
             g == Len(touched.free_block_queue)
  <2>5. f \in Nat /\ g = f - z
    BY <1>2, <1>5 DEF z
  <2>6. num_new + z <= f
    BY <2>1, <2>4
  <2>7. num_new \in Nat
    BY <1>6
  <2> HIDE DEF num_new, f, g
  <2>8. num_new \in 0 .. g
    BY <2>3, <2>5, <2>6, <2>7
  <2> QED BY <2>8 DEF g
<1> HIDE DEF num_new
<1>8. /\ Good(grown, tb2, nc1)
      /\ new \in Seq(Blocks) /\ Len(new) = num_new
      /\ \A b \in Blocks : grown.block_hash[b] \in {pool.block_hash[b], NoHash}
  <2>1. tb1[r] = held /\ tb2 = [tb1 EXCEPT ![r] = tb1[r] \o new]
    BY <1>2
  <2> HIDE DEF tb1, tb2, nc1
  <2>2. /\ Good(grown, [tb1 EXCEPT ![r] = tb1[r] \o NewBlocks(touched, num_new)], nc1)
        /\ NewBlocks(touched, num_new) \in Seq(Blocks)
        /\ Len(NewBlocks(touched, num_new)) = num_new
        /\ \A b \in Blocks : \/ grown.block_hash[b] = NoHash
                              \/ grown.block_hash[b] = touched.block_hash[b]
    BY <1>5, <1>7, NewStep
  <2> QED BY <2>1, <2>2, <1>5
<1> HIDE DEF new, grown
<1>9. /\ blocks \in Seq(Blocks)
      /\ Len(blocks) = Len(held) + num_new
      /\ Len(blocks) \in Nat
      /\ Len(tables[r]) <= Len(blocks)
      /\ \A i \in 1 .. Len(tables[r]) : blocks[i] = tables[r][i]
  <2>1. blocks \in Seq(Blocks) /\ Len(blocks) = Len(held) + num_new /\ Len(blocks) \in Nat
    <3>1. held \in Seq(Blocks) /\ new \in Seq(Blocks) /\ Len(new) = num_new
      BY <1>4, <1>8
    <3> QED BY <3>1
  <2>2. \A i \in 1 .. Len(held) : blocks[i] = held[i]
    <3>1. held \in Seq(Blocks) /\ new \in Seq(Blocks)
      BY <1>4, <1>8
    <3> QED BY <3>1
  <2>3. Len(tables[r]) <= Len(held) /\ \A i \in 1 .. Len(tables[r]) : i \in 1 .. Len(held)
    BY <1>2, <1>4
  <2>4. Len(tables[r]) <= Len(blocks)
    <3>1. num_new \in Nat /\ Len(held) \in Nat /\ Len(tables[r]) \in Nat
      BY <1>2, <1>4, <1>6
    <3> HIDE DEF blocks
    <3> QED BY <3>1, <2>1, <2>3
  <2>5. \A i \in 1 .. Len(tables[r]) : blocks[i] = tables[r][i]
    BY <2>2, <2>3, <1>4
  <2> QED BY <2>1, <2>4, <2>5
<1> HIDE DEF blocks
<1>10. computed + n <= Len(blocks) * BlockSize
  <2>1. Ceil(computed + n) <= Len(blocks)
    BY <1>6, <1>9
  <2> QED BY <2>1, <1>9, CeilBounds
<1>11. /\ full \in Int
       /\ full * BlockSize <= computed + n
       /\ full * BlockSize <= num_tokens[r]
       /\ full <= FullBlocks(r)
       /\ full <= Len(blocks)
  <2> DEFINE t == TokensToCache(r, computed, n)
  <2>0. full = t \div BlockSize
    OBVIOUS
  <2>1. t \in Int /\ t <= computed + n /\ t <= num_tokens[r]
    BY <1>2 DEF TokensToCache, Smaller
  <2> HIDE DEF t, full
  <2>2. full \in Int /\ full * BlockSize <= t /\ full * BlockSize \in Int
    <3>1. full \in Int /\ full * BlockSize <= t
      BY <2>0, <2>1, Division
    <3> QED BY <3>1, BlockSizeType
  <2>3. full * BlockSize <= computed + n /\ full * BlockSize <= num_tokens[r]
    BY <2>1, <2>2, <1>2
  <2>4. full <= FullBlocks(r)
    <3>1. full * BlockSize <= Len(Text[r])
      BY <2>2, <2>3, <1>2
    <3> QED BY <3>1, <2>2, FullBlocksBound
  <2>5. full <= Len(blocks)
    <3>1. Len(blocks) * BlockSize \in Nat /\ full * BlockSize <= Len(blocks) * BlockSize
      BY <2>2, <2>3, <1>9, <1>10, BlockSizeType
    <3> QED BY <3>1, <2>2, <1>9, NoMoreBlocks
  <2> QED BY <2>2, <2>3, <2>4, <2>5
<1> HIDE DEF full
<1> DEFINE mc == [nc1 EXCEPT ![r] = IF full > before THEN full ELSE before]
<1>12. /\ nc1 \in [Req -> Int] /\ nc1[r] = before
       /\ \A q \in Req : q # r => nc1[q] = num_cached[q]
       /\ mc \in [Req -> Int] /\ mc[r] = IF full > before THEN full ELSE before
       /\ \A q \in Req : q # r => mc[q] = nc1[q]
  BY <1>2, <1>3, <1>11
<1>13. tb2[r] = blocks /\ \A q \in Req : q # r => tb2[q] = tables[q]
  BY <1>2
<1> HIDE DEF mc, nc1, tb2
<1>14. /\ Good(pool', tb2, mc)
       /\ \A b \in Blocks :
            \/ pool'.block_hash[b] = grown.block_hash[b]
            \/ \E i \in before + 1 .. full : tb2[r][i] = b /\ pool'.block_hash[b] = Hash(r, i)
  <2>1. pool' = WithHashes(grown, tb2[r], BlockHashes(r), before, full)
    BY <1>1, <1>13
  <2>2. before = nc1[r] /\ full <= Len(tb2[r]) /\ mc[r] = IF full > before THEN full ELSE nc1[r]
    BY <1>11, <1>12, <1>13
  <2>3. before = nc1[r] \/ (before = 0 /\ nc1[r] <= 0)
    BY <2>2
  <2>4. full <= FullBlocks(r) /\ full \in Int /\ before \in Nat /\ Good(grown, tb2, nc1)
        /\ mc \in [Req -> Int] /\ \A q \in Req : q # r => mc[q] = nc1[q]
    BY <1>3, <1>8, <1>11, <1>12
  <2> DEFINE w == WithHashes(grown, tb2[r], BlockHashes(r), before, full)
  <2>5. Good(w, tb2, mc) /\ HashedFrom(grown, w, tb2[r], r, before, full)
    <3>1. w = WithHashes(grown, tb2[r], BlockHashes(r), before, full)
      OBVIOUS
    <3> HIDE DEF w
    <3> QED BY <2>2, <2>3, <2>4, <3>1, HashStep
  <2> HIDE DEF w
  <2>6. pool' = w
    BY <2>1 DEF w
  <2> QED BY <2>5, <2>6 DEF HashedFrom
<1>15. /\ num_cached' \in [Req -> Nat \union {NotCached}] /\ num_cached' \in [Req -> Int]
       /\ \A q \in Req : q # r => num_cached'[q] = num_cached[q]
       /\ num_cached'[r] = IF full > before THEN full
                           ELSE IF hits # <<>> THEN Len(hits) ELSE num_cached[r]
  <2> DEFINE v == IF full > before THEN full ELSE IF hits # <<>> THEN Len(hits) ELSE num_cached[r]
  <2>1. v \in Nat \union {NotCached} /\ v \in Int
    BY <1>2, <1>3, <1>11
  <2>2. num_cached' = [num_cached EXCEPT ![r] = v]
    BY <1>1
  <2> HIDE DEF v
  <2>3. /\ num_cached' \in [Req -> Nat \union {NotCached}] /\ num_cached' \in [Req -> Int]
        /\ \A q \in Req : q # r => num_cached'[q] = num_cached[q]
        /\ num_cached'[r] = v
    BY <2>1, <2>2, <1>2
  <2> QED BY <2>3 DEF v
<1>16. Good(pool', tables', num_cached')
  <2>1. \A q \in Req : num_cached'[q] = mc[q] \/ (num_cached'[q] <= 0 /\ mc[q] <= 0)
    BY <1>2, <1>3, <1>12, <1>15
  <2>2. Good(pool', tables', mc) /\ num_cached' \in [Req -> Int]
    BY <1>1, <1>14, <1>15 DEF tb2
  <2> QED BY <2>1, <2>2, NoCount
<1>17. num_cached'[r] * BlockSize <= num_tokens[r]
  <2>1. num_cached[r] * BlockSize <= num_tokens[r]
    BY TypesOf DEF Holding
  <2> QED BY <2>1, <1>11, <1>15
<1>18. num_cached[r] <= num_cached'[r] /\ (Len(hits) > 0 => Len(hits) <= num_cached'[r])
  <2>1. hits = <<>> => Len(hits) = 0
    OBVIOUS
  <2> QED BY <2>1, <1>2, <1>3, <1>11, <1>15
<1>19. ASSUME NEW b \in Blocks
       PROVE  \/ pool'.block_hash[b] \in {pool.block_hash[b], NoHash}
              \/ \E i \in 1 .. Len(tables'[r]) :
                   /\ tables'[r][i] = b /\ pool'.block_hash[b] = Hash(r, i)
                   /\ i > num_cached[r] /\ i > Len(hits)
                   /\ i <= FullBlocks(r)
                   /\ i * BlockSize <= computed + n
  <2>1. CASE pool'.block_hash[b] = grown.block_hash[b]
    BY <2>1, <1>8
  <2>2. CASE \E i \in before + 1 .. full : tb2[r][i] = b /\ pool'.block_hash[b] = Hash(r, i)
    <3>1. PICK i \in before + 1 .. full : tb2[r][i] = b /\ pool'.block_hash[b] = Hash(r, i)
      BY <2>2
    <3>2. /\ i \in 1 .. Len(blocks) /\ i > num_cached[r] /\ i > Len(hits) /\ i <= FullBlocks(r)
          /\ i \in Int /\ i <= full
      <4>1. before \in Nat /\ num_cached[r] <= before /\ Len(hits) <= before
            /\ num_cached[r] \in Int /\ Len(hits) \in Nat
        BY <1>2, <1>3
      <4>2. full \in Int /\ full <= Len(blocks) /\ full <= FullBlocks(r) /\ Len(blocks) \in Nat
            /\ FullBlocks(r) \in Nat
        BY <1>9, <1>11, HashesOfText
      <4> QED BY <4>1, <4>2
    <3>3. i * BlockSize <= computed + n
      <4>1. (full - i) * BlockSize >= 0
        BY <3>2, <1>11, BlockSizeType
      <4>2. full * BlockSize \in Int /\ i * BlockSize \in Int
            /\ (full - i) * BlockSize = (full * BlockSize) - (i * BlockSize)
        BY <3>2, <1>11, BlockSizeType
      <4> QED BY <4>1, <4>2, <1>11
    <3> QED BY <3>1, <3>2, <3>3, <1>1, <1>13
  <2> QED BY <2>1, <2>2, <1>14
<1> QED BY <1>1, <1>9, <1>10, <1>13, <1>15, <1>16, <1>17, <1>18, <1>19

-----------------------------------------------------------------------------
(* What a step of one request leaves as it is. *)

LEMMA SameCache ==
  ASSUME KVInv, UNCHANGED <<pool, tables, num_cached, num_computed, plan, data, admitted>>
  PROVE  PoolInv' /\ WrittenInv' /\ DataInv'
<1>1. PoolInv'
  BY DEF KVInv, PoolInv
<1>2. \A b, j : ToBeWritten(b, j)' <=> ToBeWritten(b, j)
  BY DEF ToBeWritten, Planned, Slot
<1>3. WrittenInv'
  BY <1>2 DEF KVInv, WrittenInv
<1>4. DataInv'
  BY DEF KVInv, DataInv, Slot
<1> QED BY <1>1, <1>3, <1>4

LEMMA HoldingFrame ==
  ASSUME KVInv, NEW q \in Req,
         tables'[q] = tables[q], num_cached'[q] = num_cached[q], status'[q] = status[q],
         num_computed'[q] = num_computed[q], plan'[q] = plan[q],
         num_tokens'[q] = num_tokens[q], placeholders'[q] = placeholders[q],
         q \in admitted' => q \in admitted,
         InFlight(q)' = InFlight(q)
  PROVE  Holding(q)'
<1>1. Holding(q)
  BY TypesOf
<1> QED BY <1>1 DEF Holding

LEMMA PlannedKept ==
  ASSUME KVInv, NEW r \in Req, plan[r] = 0,
         \A q \in Req : q # r => /\ tables'[q] = tables[q]
                                 /\ num_computed'[q] = num_computed[q]
                                 /\ plan'[q] = plan[q]
  PROVE  \A b, j : ToBeWritten(b, j) => ToBeWritten(b, j)'
<1> SUFFICES ASSUME NEW b, NEW j, ToBeWritten(b, j) PROVE ToBeWritten(b, j)'
  OBVIOUS
<1>1. PICK q \in Req : \E i \in Planned(q) : Slot(q, i) = <<b, j>>
  BY DEF ToBeWritten
<1>2. q # r
  <2>1. Planned(r) = {}
    BY TypesOf DEF Planned
  <2> QED BY <2>1, <1>1
<1>3. Planned(q)' = Planned(q) /\ \A i : Slot(q, i)' = Slot(q, i)
  BY <1>2 DEF Planned, Slot
<1> QED BY <1>1, <1>3 DEF ToBeWritten

LEMMA WrittenFrame ==
  ASSUME KVInv, data' = data,
         \A b \in Blocks : pool'.block_hash[b] \in {pool.block_hash[b], NoHash},
         \A b, j : ToBeWritten(b, j) => ToBeWritten(b, j)'
  PROVE  WrittenInv'
<1> SUFFICES ASSUME NEW b \in Blocks, pool'.block_hash[b] # NoHash, NEW j \in 1 .. BlockSize
             PROVE  \/ data'[b][j] = SubSeq(pool'.block_hash[b], 1,
                                            Len(pool'.block_hash[b]) - BlockSize + j)
                    \/ ToBeWritten(b, j)'
  BY DEF WrittenInv
<1>1. pool'.block_hash[b] = pool.block_hash[b] /\ pool.block_hash[b] # NoHash
  OBVIOUS
<1>2. \/ data[b][j] = SubSeq(pool.block_hash[b], 1, Len(pool.block_hash[b]) - BlockSize + j)
      \/ ToBeWritten(b, j)
  BY <1>1 DEF KVInv, WrittenInv
<1> QED BY <1>1, <1>2

LEMMA DataFrame ==
  ASSUME KVInv, data' = data, NEW r \in Req,
         \A q \in Req : q # r => /\ tables'[q] = tables[q]
                                 /\ num_computed'[q] = num_computed[q]
                                 /\ q \in admitted => q \in admitted',
         \/ r \in admitted'
         \/ num_computed'[r] = 0
         \/ /\ r \notin admitted
            /\ num_computed'[r] = num_computed[r]
            /\ \A i \in 1 .. Len(tables[r]) : tables'[r][i] = tables[r][i]
  PROVE  DataInv'
<1> SUFFICES ASSUME NEW q \in Req, q \notin admitted', NEW i \in 1 .. num_computed'[q]
             PROVE  data'[Slot(q, i)'[1]][Slot(q, i)'[2]] = KeysAndValues(q, i)
  BY DEF DataInv, KeysAndValues
<1>1. q \notin admitted /\ num_computed'[q] = num_computed[q]
  OBVIOUS
<1>2. data[Slot(q, i)[1]][Slot(q, i)[2]] = KeysAndValues(q, i)
  BY <1>1 DEF KVInv, DataInv
<1>3. Ceil(i) \in 1 .. Len(tables[q])
  <2>1. i \in 1 .. num_computed[q] + plan[q]
    BY <1>1, TypesOf
  <2> QED BY <2>1, SlotsOf
<1>4. Slot(q, i)' = Slot(q, i)
  BY <1>1, <1>3 DEF Slot
<1> QED BY <1>2, <1>4

\* The blocks that get their hashes in allocate_slots are written, or planned.
LEMMA WrittenAllocated ==
  ASSUME KVInv, data' = data, NEW r \in Req, plan[r] = 0,
         \A q \in Req : q # r => /\ tables'[q] = tables[q]
                                 /\ num_computed'[q] = num_computed[q]
                                 /\ plan'[q] = plan[q],
         NEW computed \in Nat, NEW n \in Nat,
         num_computed'[r] = computed, plan'[r] = n,
         Len(tables'[r]) \in Nat,
         \A i \in 1 .. Len(tables[r]) : tables'[r][i] = tables[r][i],
         NEW hits \in Nat,
         \/ r \notin admitted /\ computed = num_computed[r]
         \/ computed = hits * BlockSize,
         \A b \in Blocks :
              \/ pool'.block_hash[b] \in {pool.block_hash[b], NoHash}
              \/ \E i \in 1 .. Len(tables'[r]) :
                   /\ tables'[r][i] = b /\ pool'.block_hash[b] = Hash(r, i)
                   /\ i > hits
                   /\ i <= FullBlocks(r)
                   /\ i * BlockSize <= computed + n
  PROVE  WrittenInv'
<1> SUFFICES ASSUME NEW b \in Blocks, pool'.block_hash[b] # NoHash, NEW j \in 1 .. BlockSize
             PROVE  \/ data'[b][j] = SubSeq(pool'.block_hash[b], 1,
                                            Len(pool'.block_hash[b]) - BlockSize + j)
                    \/ ToBeWritten(b, j)'
  BY DEF WrittenInv
<1>1. CASE pool'.block_hash[b] \in {pool.block_hash[b], NoHash}
  <2>1. pool'.block_hash[b] = pool.block_hash[b] /\ pool.block_hash[b] # NoHash
    BY <1>1
  <2>2. \/ data[b][j] = SubSeq(pool.block_hash[b], 1, Len(pool.block_hash[b]) - BlockSize + j)
        \/ ToBeWritten(b, j)
    BY <2>1 DEF KVInv, WrittenInv
  <2>3. ToBeWritten(b, j) => ToBeWritten(b, j)'
    BY PlannedKept
  <2> QED BY <2>1, <2>2, <2>3
<1>2. CASE pool'.block_hash[b] \notin {pool.block_hash[b], NoHash}
  <2>1. PICK i \in 1 .. Len(tables'[r]) :
           /\ tables'[r][i] = b /\ pool'.block_hash[b] = Hash(r, i)
           /\ i > hits
           /\ i <= FullBlocks(r)
           /\ i * BlockSize <= computed + n
    BY <1>2
  <2>2. i \in 1 .. FullBlocks(r) /\ i \in Nat \ {0}
    BY <2>1, HashesOfText
  <2> DEFINE m == ((i - 1) * BlockSize) + j
  <2>3. m \in Nat \ {0} /\ Ceil(m) = i /\ Offset(m) = j
    BY <2>2, PositionOf
  <2>4. /\ m <= i * BlockSize /\ m > (i - 1) * BlockSize
        /\ Len(Hash(r, i)) - BlockSize + j = m
        /\ i * BlockSize \in Nat
    <3>1. Len(Hash(r, i)) = i * BlockSize /\ i * BlockSize \in Nat
      BY <2>2, HashesOfText
    <3>2. (i - 1) * BlockSize = (i * BlockSize) - BlockSize
      BY <2>2, BlockSizeType
    <3> QED BY <3>1, <3>2, BlockSizeType
  <2> HIDE DEF m
  <2>5. CASE m > computed
    <3>1. m \in Planned(r)'
      BY <2>1, <2>3, <2>4, <2>5 DEF Planned
    <3>2. Slot(r, m)' = <<b, j>>
      BY <2>1, <2>3 DEF Slot, Offset
    <3>3. ToBeWritten(b, j)'
      BY <3>1, <3>2 DEF ToBeWritten
    <3> QED BY <3>3
  <2>6. CASE m <= computed
    <3>1. r \notin admitted /\ computed = num_computed[r]
      <4>1. CASE computed = hits * BlockSize
        <5>1. (i - 1 - hits) * BlockSize >= 0
          BY <2>1, <2>2, BlockSizeType, SMTT(40)
        <5>2. (i - 1 - hits) * BlockSize = ((i - 1) * BlockSize) - (hits * BlockSize)
              /\ (i - 1) * BlockSize \in Int /\ hits * BlockSize \in Int
          BY <2>2, BlockSizeType
        <5> QED BY <5>1, <5>2, <4>1, <2>3, <2>4, <2>6
      <4> QED BY <4>1
    <3>2. m \in 1 .. num_computed[r] /\ m \in 1 .. num_computed[r] + plan[r]
      BY <3>1, <2>3, <2>6, TypesOf
    <3>3. Slot(r, m) = <<tables[r][i], j>> /\ i \in 1 .. Len(tables[r])
      BY <3>2, <2>3, SlotsOf
    <3>4. data[b][j] = KeysAndValues(r, m)
      <4>1. data[Slot(r, m)[1]][Slot(r, m)[2]] = KeysAndValues(r, m)
        BY <3>1, <3>2 DEF KVInv, DataInv
      <4> QED BY <4>1, <3>3, <2>1
    <3>5. SubSeq(Hash(r, i), 1, m) = KeysAndValues(r, m)
      <4>1. m \in 0 .. i * BlockSize
        BY <2>3, <2>4
      <4> QED BY <4>1, <2>2, HashesOfText
    <3> QED BY <3>4, <3>5, <2>1, <2>4
  <2> QED BY <2>5, <2>6, <2>3
<1> QED BY <1>1, <1>2

-----------------------------------------------------------------------------
(* The steps. *)

LEMMA InitEstablishes == Init => KVInv
<1> SUFFICES ASSUME Init PROVE KVInv
  OBVIOUS
<1>1. /\ EmptyPool.ref_cnt = [b \in Blocks |-> 0]
      /\ EmptyPool.block_hash = [b \in Blocks |-> NoHash]
      /\ EmptyPool.free_block_queue = [i \in 1 .. NumBlocks - 1 |-> i]
      /\ EmptyPool.cached = [h \in Hashes |-> <<>>]
      /\ EmptyPool \in Pools
  <2>1. [i \in 1 .. NumBlocks - 1 |-> i] \in Seq(Blocks)
    BY NumBlocksAssumption DEF Blocks
  <2> QED BY <2>1 DEF EmptyPool, Pools
<1>2. /\ pool = EmptyPool
      /\ tables = [r \in Req |-> <<>>]
      /\ num_cached = [r \in Req |-> NotCached]
      /\ status = [r \in Req |-> "NEW"]
      /\ num_tokens = PromptLen
      /\ num_computed = [r \in Req |-> 0]
      /\ placeholders = [r \in Req |-> 0]
      /\ plan = [r \in Req |-> 0]
      /\ admitted = {} /\ preempted = {} /\ hand = Nothing /\ batches = <<>>
      /\ NotCached = -1
  BY DEF Init, NotCached
<1>3. TypeOK
  <2>1. \A r \in Req : /\ PromptLen[r] \in Nat /\ Len(Text[r]) \in Nat
                       /\ PromptLen[r] \in 1 .. Len(Text[r]) - 1
                       /\ 0 \in 0 .. Len(Text[r]) /\ 0 \in 0 .. MaxBatches
                       /\ PromptLen[r] \in PromptLen[r] .. Len(Text[r])
    BY KVCacheAssumption, HashesOfText
  <2>2. \A r \in Req : num_tokens[r] \in PromptLen[r] .. Len(Text[r])
    BY <1>2, <2>1
  <2>3. \A r \in Req : num_computed[r] \in 0 .. Len(Text[r])
    BY <1>2, <2>1
  <2>4. /\ placeholders \in [Req -> 0 .. MaxBatches]
        /\ tables \in [Req -> Seq(Blocks)]
        /\ batches \in Seq(SUBSET Req)
    BY <1>2, <2>1
  <2> QED BY <1>1, <1>2, <2>2, <2>3, <2>4, KVCacheAssumption DEF TypeOK
<1>4. PoolInv
  <2>1. \A r \in Req : /\ Len(tables[r]) = 0 /\ tables[r] = <<>>
                       /\ ToSet(tables[r]) = {} /\ IsInjective(tables[r])
    BY <1>2 DEF ToSet, IsInjective
  <2>2. Counted(pool, tables)
    <3>1. \A b \in Blocks : pool.ref_cnt[b] = Cardinality(HoldersOf(b, tables))
      <4>1. \A b \in Blocks : HoldersOf(b, tables) = {}
        BY <2>1 DEF HoldersOf
      <4> QED BY <4>1, <1>1, <1>2, FS_EmptySet
    <3>2. QueueExact(pool)
      <4> DEFINE s == [i \in 1 .. NumBlocks - 1 |-> i]
      <4>1. s \in Seq(Blocks) /\ ToSet(s) = Blocks /\ IsInjective(s)
        BY NumBlocksAssumption DEF Blocks, ToSet, IsInjective
      <4>2. \A b \in Blocks : pool.ref_cnt[b] = 0
        BY <1>1, <1>2
      <4> QED BY <4>1, <4>2, <1>1, <1>2 DEF QueueExact
    <3> QED BY <2>1, <3>1, <3>2 DEF Counted
  <2>3. Hashed(pool, tables, num_cached)
    <3>1. MapExact(pool)
      <4>1. \A h \in Hashes : h # NoHash /\ pool.cached[h] = <<>>
        BY <1>1, <1>2, NoHashIsNoHash
      <4>2. IsInjective(<<>>) /\ ToSet(<<>>) = {}
        BY DEF IsInjective, ToSet
      <4>3. \A b \in Blocks : pool.block_hash[b] = NoHash
        BY <1>1, <1>2
      <4> QED BY <4>1, <4>2, <4>3 DEF MapExact
    <3>2. \A r \in Req : num_cached[r] = -1 /\ FullBlocks(r) \in Nat
      BY <1>2, HashesOfText
    <3>3. \A r \in Req : num_cached[r] <= Len(tables[r]) /\ num_cached[r] <= FullBlocks(r)
      BY <3>2, <2>1
    <3> QED BY <3>1, <3>3, <2>1 DEF Hashed
  <2>4. Shared(tables, num_cached)
    BY <2>1 DEF Shared
  <2>5. Chained(pool)
    <3>1. \A b \in Blocks : Len(pool.block_hash[b]) = 0
      BY <1>1, <1>2 DEF NoHash
    <3> QED BY <3>1, BlockSizeType DEF Chained
  <2>6. num_cached \in [Req -> Int] /\ tables \in [Req -> Seq(Blocks)]
    BY <1>2
  <2> QED BY <1>1, <1>2, <2>2, <2>3, <2>4, <2>5, <2>6 DEF PoolInv, Good
<1>5. HoldingInv
  <2> SUFFICES ASSUME NEW r \in Req PROVE Holding(r)
    BY DEF HoldingInv
  <2>1. /\ PromptLen[r] \in Nat /\ Len(Text[r]) \in Nat
        /\ PromptLen[r] < Len(Text[r])
    BY KVCacheAssumption, HashesOfText
  <2>2. /\ tables[r] = <<>> /\ num_cached[r] = -1 /\ status[r] = "NEW"
        /\ num_tokens[r] = PromptLen[r] /\ num_computed[r] = 0 /\ placeholders[r] = 0
        /\ plan[r] = 0 /\ r \notin admitted
    BY <1>2
  <2>3. Len(tables[r]) * BlockSize = 0 /\ num_cached[r] * BlockSize <= 0
    <3>1. Len(tables[r]) = 0
      BY <2>2
    <3> QED BY <3>1, <2>2, BlockSizeType
  <2>4. InFlight(r) = 0
    <3>1. SampledIn(batches, r) = {}
      BY <1>2 DEF SampledIn
    <3> QED BY <3>1, FS_EmptySet DEF InFlight
  <2>5. num_tokens[r] + placeholders[r] <= Len(Text[r])
    BY <2>1, <2>2
  <2>6. /\ num_computed[r] + plan[r] <= Len(tables[r]) * BlockSize
        /\ num_computed[r] + plan[r] <= num_tokens[r] + placeholders[r]
        /\ num_cached[r] * BlockSize <= num_tokens[r]
    BY <2>1, <2>2, <2>3, BlockSizeType
  <2> QED BY <2>1, <2>2, <2>4, <2>5, <2>6, <1>2 DEF Holding
<1>6. HandInv
  <2>1. Len(batches) = 0 /\ MaxBatches \in Nat \ {0}
    BY <1>2, KVCacheAssumption
  <2> QED BY <1>2, <2>1 DEF HandInv
<1>7. WrittenInv
  BY <1>1, <1>2 DEF WrittenInv
<1>8. DataInv
  BY <1>2 DEF DataInv
<1> QED BY <1>3, <1>4, <1>5, <1>6, <1>7, <1>8 DEF KVInv

LEMMA AddRequestKeeps ==
  ASSUME KVInv, NEW r \in Req, AddRequest(r)
  PROVE  KVInv'
<1>1. PoolInv' /\ WrittenInv' /\ DataInv'
  BY SameCache DEF AddRequest, requestVars, stepVars
<1>2. TypeOK'
  BY DEF KVInv, TypeOK, AddRequest, stepVars
<1>3. HoldingInv'
  <2> SUFFICES ASSUME NEW q \in Req PROVE Holding(q)'
    BY DEF HoldingInv
  <2>1. Holding(q)
    BY TypesOf
  <2>2. \/ status'[q] = status[q]
        \/ status[q] = "NEW" /\ status'[q] = "WAITING"
    BY DEF KVInv, TypeOK, AddRequest
  <2>3. InFlight(q)' = InFlight(q)
    BY DEF InFlight, AddRequest
  <2> QED BY <2>1, <2>2, <2>3 DEF Holding, AddRequest, stepVars
<1>4. HandInv'
  BY DEF KVInv, HandInv, AddRequest, stepVars, BetweenSteps
<1> QED BY <1>1, <1>2, <1>3, <1>4 DEF KVInv

LEMMA ScheduleRunningKeeps ==
  ASSUME KVInv, NEW r \in Req, NEW n \in Budgets,
         ScheduleRunning(r, Smaller(n, Uncomputed(r)))
  PROVE  KVInv'
<1> DEFINE m == Smaller(n, Uncomputed(r))
<1>1. /\ MayPlan /\ status[r] = "RUNNING" /\ plan[r] = 0 /\ Uncomputed(r) > 0
      /\ Fits(r, <<>>, num_computed[r], m, FALSE)
      /\ AllocateSlots(r, <<>>, num_computed[r], m)
      /\ plan' = [plan EXCEPT ![r] = m]
      /\ UNCHANGED <<status, num_tokens, num_computed, placeholders, admitted, preempted, hand,
                     batches, data>>
  BY DEF ScheduleRunning, MayRun, requestVars
<1>2. /\ m \in Nat \ {0} /\ num_computed[r] + m <= num_tokens[r] + placeholders[r]
      /\ num_computed[r] \in Nat /\ num_tokens[r] \in Nat
  <2>1. n \in Nat \ {0}
    BY KVCacheAssumption
  <2>2. Uncomputed(r) \in Nat /\ Uncomputed(r) = num_tokens[r] + placeholders[r] - num_computed[r]
    BY <1>1, TypesOf DEF Uncomputed
  <2>3. m \in Nat \ {0} /\ m <= Uncomputed(r)
    BY <1>1, <2>1, <2>2 DEF Smaller
  <2> HIDE DEF m
  <2> QED BY <2>2, <2>3, TypesOf
<1> HIDE DEF m
<1>3. /\ Good(pool', tables', num_cached')
      /\ num_cached' \in [Req -> Nat \union {NotCached}]
      /\ \A q \in Req : q # r => tables'[q] = tables[q] /\ num_cached'[q] = num_cached[q]
      /\ Len(tables'[r]) \in Nat
      /\ num_computed[r] + m <= Len(tables'[r]) * BlockSize
      /\ Len(tables[r]) <= Len(tables'[r])
      /\ \A i \in 1 .. Len(tables[r]) : tables'[r][i] = tables[r][i]
      /\ num_cached'[r] * BlockSize <= num_tokens[r]
      /\ num_cached[r] <= num_cached'[r]
      /\ \A b \in Blocks :
           \/ pool'.block_hash[b] \in {pool.block_hash[b], NoHash}
           \/ \E i \in 1 .. Len(tables'[r]) :
                /\ tables'[r][i] = b /\ pool'.block_hash[b] = Hash(r, i)
                /\ i > 0
                /\ i <= FullBlocks(r)
                /\ i * BlockSize <= num_computed[r] + m
  <2> DEFINE hits == <<>>
             computed == num_computed[r]
  <2>1. hits \in Seq(Blocks) /\ hits = <<>> /\ Len(hits) = 0
    OBVIOUS
  <2>2. Fits(r, hits, computed, m, FALSE) /\ AllocateSlots(r, hits, computed, m)
    BY <1>1
  <2>3. computed \in Nat /\ m \in Nat \ {0} /\ computed = num_computed[r]
    BY <1>2
  <2> HIDE DEF hits, computed
  <2>4. \A i \in 1 .. Len(hits) : pool.block_hash[hits[i]] = Hash(r, i)
    BY <2>1
  <2>5. Len(hits) * BlockSize <= num_tokens[r]
    BY <2>1, <1>2, BlockSizeType
  <2>6. /\ Good(pool', tables', num_cached')
        /\ num_cached' \in [Req -> Nat \union {NotCached}]
        /\ \A q \in Req : q # r => tables'[q] = tables[q] /\ num_cached'[q] = num_cached[q]
        /\ Len(tables'[r]) \in Nat
        /\ computed + m <= Len(tables'[r]) * BlockSize
        /\ Len(tables[r]) <= Len(tables'[r])
        /\ \A i \in 1 .. Len(tables[r]) : tables'[r][i] = tables[r][i]
        /\ num_cached'[r] * BlockSize <= num_tokens[r]
        /\ num_cached[r] <= num_cached'[r]
        /\ \A b \in Blocks :
             \/ pool'.block_hash[b] \in {pool.block_hash[b], NoHash}
             \/ \E i \in 1 .. Len(tables'[r]) :
                  /\ tables'[r][i] = b /\ pool'.block_hash[b] = Hash(r, i)
                  /\ i > num_cached[r] /\ i > Len(hits)
                  /\ i <= FullBlocks(r)
                  /\ i * BlockSize <= computed + m
    <3>1. hits = <<>> => computed = num_computed[r]
      BY <2>3
    <3>2. hits # <<>> => computed = Len(hits) * BlockSize
      BY <2>1
    <3>3. hits = <<>> \/ (tables[r] = <<>> /\ num_cached[r] = NotCached)
      BY <2>1
    <3>4. Fits(r, hits, computed, m, FALSE) \/ Fits(r, hits, computed, m, ReserveFullISL)
      BY <2>2
    <3>5. hits \in Seq(Blocks) /\ computed \in Nat /\ m \in Nat \ {0}
      BY <2>1, <2>3
    <3>6. AllocateSlots(r, hits, computed, m)
      BY <2>2
    <3> QED BY <2>4, <2>5, <3>1, <3>2, <3>3, <3>4, <3>5, <3>6, AllocateStep
  <2>7. \A b \in Blocks :
           \/ pool'.block_hash[b] \in {pool.block_hash[b], NoHash}
           \/ \E i \in 1 .. Len(tables'[r]) :
                /\ tables'[r][i] = b /\ pool'.block_hash[b] = Hash(r, i)
                /\ i > 0
                /\ i <= FullBlocks(r)
                /\ i * BlockSize <= num_computed[r] + m
    BY <2>6, <2>3
  <2> QED BY <2>6, <2>7, <2>3
<1>4. r \notin admitted
  <2>1. Holding(r)
    BY TypesOf
  <2> QED BY <2>1, <1>1 DEF Holding
<1>5. plan' \in [Req -> Nat] /\ plan'[r] = m /\ \A q \in Req : q # r => plan'[q] = plan[q]
  BY <1>1, <1>2 DEF KVInv, TypeOK
<1>6. PoolInv'
  BY <1>3 DEF PoolInv
<1>7. WrittenInv'
  <2>1. \A b \in Blocks :
           \/ pool'.block_hash[b] \in {pool.block_hash[b], NoHash}
           \/ \E i \in 1 .. Len(tables'[r]) :
                /\ tables'[r][i] = b /\ pool'.block_hash[b] = Hash(r, i)
                /\ i > 0
                /\ i <= FullBlocks(r)
                /\ i * BlockSize <= num_computed[r] + m
    BY <1>3
  <2>2. /\ data' = data /\ plan[r] = 0 /\ num_computed'[r] = num_computed[r] /\ plan'[r] = m
        /\ \A q \in Req : q # r => /\ tables'[q] = tables[q]
                                   /\ num_computed'[q] = num_computed[q]
                                   /\ plan'[q] = plan[q]
        /\ Len(tables'[r]) \in Nat
        /\ \A i \in 1 .. Len(tables[r]) : tables'[r][i] = tables[r][i]
        /\ m \in Nat /\ num_computed[r] \in Nat /\ 0 \in Nat
    BY <1>1, <1>2, <1>3, <1>5
  <2> QED BY <1>4, <2>1, <2>2, WrittenAllocated, SMTT(40)
<1>8. DataInv'
  BY <1>1, <1>3, <1>4, DataFrame
<1>9. TypeOK'
  <2>1. pool' \in Pools /\ tables' \in [Req -> Seq(Blocks)]
    BY <1>3 DEF Good
  <2> QED BY <1>1, <1>3, <1>5, <2>1 DEF KVInv, TypeOK
<1>10. HoldingInv'
  <2> SUFFICES ASSUME NEW q \in Req PROVE Holding(q)'
    BY DEF HoldingInv
  <2>1. InFlight(q)' = InFlight(q)
    BY <1>1 DEF InFlight
  <2>2. CASE q = r
    <3>1. Holding(r)
      BY TypesOf
    <3>2. num_computed'[r] + plan'[r] <= Len(tables'[r]) * BlockSize
      BY <1>1, <1>3, <1>5
    <3>3. num_computed'[r] + plan'[r] <= num_tokens'[r] + placeholders'[r]
      BY <1>1, <1>2, <1>5
    <3>4. num_tokens'[r] + placeholders'[r] < Len(Text[r])
      <4>1. ~MaxTokensInFlight(r)
        BY DEF ScheduleRunning, MayRun
      <4>2. num_tokens[r] < Len(Text[r])
        BY <1>1, <3>1 DEF Holding
      <4> QED BY <4>1, <4>2, <1>1, TypesOf DEF MaxTokensInFlight
    <3> QED BY <3>1, <3>2, <3>3, <3>4, <2>1, <2>2, <1>1, <1>3, <1>4 DEF Holding
  <2>3. CASE q # r
    BY <2>1, <2>3, <1>1, <1>3, <1>5, HoldingFrame
  <2> QED BY <2>2, <2>3
<1>11. HandInv'
  BY <1>1 DEF KVInv, HandInv, MayPlan
<1> QED BY <1>6, <1>7, <1>8, <1>9, <1>10, <1>11 DEF KVInv

LEMMA GiveUpAllocationKeeps == KVInv /\ GiveUpAllocation => KVInv'
<1> SUFFICES ASSUME KVInv, GiveUpAllocation PROVE KVInv'
  OBVIOUS
<1>1. PoolInv' /\ WrittenInv' /\ DataInv'
  BY SameCache DEF GiveUpAllocation, requestVars
<1>2. TypeOK'
  BY DEF KVInv, TypeOK, GiveUpAllocation, requestVars
<1>3. HoldingInv'
  <2> SUFFICES ASSUME NEW q \in Req PROVE Holding(q)'
    BY DEF HoldingInv
  <2>1. InFlight(q)' = InFlight(q)
    BY DEF InFlight, GiveUpAllocation
  <2> QED BY <2>1, HoldingFrame DEF GiveUpAllocation, requestVars
<1>4. HandInv'
  <2>1. ~BetweenSteps
    BY DEF GiveUpAllocation, BetweenSteps
  <2> QED BY <2>1 DEF KVInv, HandInv, GiveUpAllocation
<1> QED BY <1>1, <1>2, <1>3, <1>4 DEF KVInv

LEMMA ResetPrefixCacheKeeps == KVInv /\ ResetPrefixCache => KVInv'
<1> SUFFICES ASSUME KVInv, ResetPrefixCache PROVE KVInv'
  OBVIOUS
<1>1. /\ BetweenSteps /\ pool' = Reset(pool)
      /\ UNCHANGED <<tables, num_cached, status, num_tokens, num_computed, placeholders, plan,
                     admitted, preempted, hand, batches, data>>
  BY DEF ResetPrefixCache, requestVars, stepVars
<1>2. /\ Good(Reset(pool), tables, num_cached)
      /\ \A b \in Blocks : Reset(pool).block_hash[b] \in {pool.block_hash[b], NoHash}
  <2>1. Good(pool, tables, num_cached)
    BY DEF KVInv, PoolInv
  <2> QED BY <2>1, ResetStep
<1>3. PoolInv'
  BY <1>1, <1>2 DEF PoolInv
<1>4. WrittenInv'
  <2>1. \A b, j : ToBeWritten(b, j) => ToBeWritten(b, j)'
    BY <1>1 DEF ToBeWritten, Planned, Slot
  <2>2. \A b \in Blocks : pool'.block_hash[b] \in {pool.block_hash[b], NoHash}
    BY <1>1, <1>2
  <2> QED BY <1>1, <2>1, <2>2, WrittenFrame
<1>5. DataInv'
  BY <1>1 DEF KVInv, DataInv, Slot
<1>6. TypeOK'
  <2>1. pool' \in Pools
    BY <1>1, <1>2 DEF Good
  <2> QED BY <1>1, <2>1 DEF KVInv, TypeOK
<1>7. HoldingInv'
  <2> SUFFICES ASSUME NEW q \in Req PROVE Holding(q)'
    BY DEF HoldingInv
  <2>1. InFlight(q)' = InFlight(q)
    BY <1>1 DEF InFlight
  <2> QED BY <1>1, <2>1, HoldingFrame
<1>8. HandInv'
  BY <1>1 DEF KVInv, HandInv, BetweenSteps
<1> QED BY <1>3, <1>4, <1>5, <1>6, <1>7, <1>8 DEF KVInv

LEMMA EmptyOutputKeeps == KVInv /\ EmptyOutput => KVInv'
<1> SUFFICES ASSUME KVInv, EmptyOutput PROVE KVInv'
  OBVIOUS
<1>1. /\ BetweenSteps /\ batches # <<>> /\ Head(batches) = {} /\ batches' = Tail(batches)
      /\ UNCHANGED <<pool, tables, num_cached, status, num_tokens, num_computed, placeholders, plan,
                     admitted, preempted, hand, data>>
  BY DEF EmptyOutput, requestVars, stepVars
<1>2. batches \in Seq(SUBSET Req)
  BY DEF KVInv, TypeOK
<1>3. /\ batches' \in Seq(SUBSET Req)
      /\ Len(batches') = Len(batches) - 1
      /\ \A r \in Req : InFlight(r)' = InFlight(r)
  <2>1. /\ Tail(batches) \in Seq(SUBSET Req)
        /\ Len(Tail(batches)) = Len(batches) - 1
    BY <1>1, <1>2, CountTail
  <2>2. ASSUME NEW r \in Req PROVE InFlight(r)' = InFlight(r)
    <3>1. /\ Cardinality(SampledIn(batches, r)) =
               Cardinality(SampledIn(Tail(batches), r)) + IF r \in Head(batches) THEN 1 ELSE 0
      BY <1>1, <1>2, CountTail
    <3>2. Cardinality(SampledIn(Tail(batches), r)) \in Nat
      <4>1. {} \in SUBSET Req
        OBVIOUS
      <4>2. Cardinality(SampledIn(Tail(batches), r)) \in 0 .. Len(Tail(batches))
        BY <2>1, <4>1, CountAppend
      <4> QED BY <4>2
    <3>3. Cardinality(SampledIn(batches, r)) = Cardinality(SampledIn(Tail(batches), r))
      BY <3>1, <3>2, <1>1
    <3> QED BY <3>3, <1>1 DEF InFlight
  <2> QED BY <1>1, <2>1, <2>2
<1>4. PoolInv' /\ WrittenInv' /\ DataInv'
  BY <1>1, SameCache
<1>5. TypeOK'
  BY <1>1, <1>3 DEF KVInv, TypeOK
<1>6. HoldingInv'
  <2> SUFFICES ASSUME NEW q \in Req PROVE Holding(q)'
    BY DEF HoldingInv
  <2> QED BY <1>1, <1>3, HoldingFrame
<1>7. HandInv'
  <2>1. Len(batches) <= MaxBatches /\ Len(batches) \in Nat /\ MaxBatches \in Nat
    BY <1>2, KVCacheAssumption DEF KVInv, HandInv
  <2>2. hand' = Nothing /\ BetweenSteps'
    BY <1>1 DEF BetweenSteps
  <2> QED BY <1>3, <2>1, <2>2 DEF HandInv
<1> QED BY <1>4, <1>5, <1>6, <1>7 DEF KVInv

\* Giving the blocks of r back, of which nothing is planned.
LEMMA FreeKeeps ==
  ASSUME KVInv, NEW r \in Req, plan[r] = 0, Free(r, pool), data' = data, plan' = plan,
         num_computed' = [num_computed EXCEPT ![r] = 0],
         \A q \in Req : q # r /\ q \in admitted => q \in admitted'
  PROVE  /\ PoolInv' /\ WrittenInv' /\ DataInv'
         /\ pool' \in Pools /\ pool'.block_hash = pool.block_hash
         /\ tables' \in [Req -> Seq(Blocks)]
         /\ num_cached' \in [Req -> Nat \union {NotCached}]
         /\ tables'[r] = <<>> /\ num_cached'[r] = NotCached /\ num_computed'[r] = 0
         /\ \A q \in Req : q # r => /\ tables'[q] = tables[q]
                                    /\ num_cached'[q] = num_cached[q]
                                    /\ num_computed'[q] = num_computed[q]
<1>1. /\ Good(Freed(pool, tables[r]), [tables EXCEPT ![r] = <<>>],
              [num_cached EXCEPT ![r] = NotCached])
      /\ Freed(pool, tables[r]).block_hash = pool.block_hash
  <2>1. Good(pool, tables, num_cached)
    BY DEF KVInv, PoolInv
  <2> QED BY <2>1, FreeStep
<1>2. /\ pool' = Freed(pool, tables[r])
      /\ tables' = [tables EXCEPT ![r] = <<>>]
      /\ num_cached' = [num_cached EXCEPT ![r] = NotCached]
  BY DEF Free
<1>3. PoolInv' /\ pool'.block_hash = pool.block_hash
  BY <1>1, <1>2 DEF PoolInv
<1>4. pool' \in Pools /\ tables' \in [Req -> Seq(Blocks)]
  BY <1>3 DEF PoolInv, Good
<1>5. /\ num_cached' \in [Req -> Nat \union {NotCached}]
      /\ num_cached'[r] = NotCached /\ \A q \in Req : q # r => num_cached'[q] = num_cached[q]
  BY <1>2 DEF KVInv, TypeOK
<1>6. /\ tables'[r] = <<>> /\ num_computed'[r] = 0
      /\ \A q \in Req : q # r => /\ tables'[q] = tables[q]
                                 /\ num_computed'[q] = num_computed[q]
  BY <1>2 DEF KVInv, TypeOK
<1>7. WrittenInv'
  <2>1. \A b, j : ToBeWritten(b, j) => ToBeWritten(b, j)'
    BY <1>6, PlannedKept
  <2>2. \A b \in Blocks : pool'.block_hash[b] \in {pool.block_hash[b], NoHash}
    BY <1>3
  <2> QED BY <2>1, <2>2, WrittenFrame
<1>8. DataInv'
  BY <1>6, DataFrame
<1> QED BY <1>3, <1>4, <1>5, <1>6, <1>7, <1>8

LEMMA PreemptKeeps ==
  ASSUME KVInv, NEW r \in Req, Preempt(r)
  PROVE  KVInv'
<1>1. /\ Len(batches) < MaxBatches /\ status[r] = "RUNNING" /\ plan[r] = 0 /\ Free(r, pool)
      /\ status' = [status EXCEPT ![r] = "WAITING"]
      /\ num_computed' = [num_computed EXCEPT ![r] = 0]
      /\ preempted' = preempted \union {r}
      /\ plan' = [plan EXCEPT ![r] = 0]
      /\ admitted' = admitted \ {r}
      /\ UNCHANGED <<num_tokens, placeholders, hand, batches, data>>
  BY DEF Preempt, MayBePreempted
<1>2. plan' = plan
  BY <1>1 DEF KVInv, TypeOK
<1>3. /\ PoolInv' /\ WrittenInv' /\ DataInv'
      /\ pool' \in Pools /\ pool'.block_hash = pool.block_hash
      /\ tables' \in [Req -> Seq(Blocks)]
      /\ num_cached' \in [Req -> Nat \union {NotCached}]
      /\ tables'[r] = <<>> /\ num_cached'[r] = NotCached /\ num_computed'[r] = 0
      /\ \A q \in Req : q # r => /\ tables'[q] = tables[q]
                                 /\ num_cached'[q] = num_cached[q]
                                 /\ num_computed'[q] = num_computed[q]
  <2>1. \A q \in Req : q # r /\ q \in admitted => q \in admitted'
    BY <1>1
  <2> QED BY <1>1, <1>2, <2>1, FreeKeeps
<1>4. status'[r] = "WAITING" /\ \A q \in Req : q # r => status'[q] = status[q]
  BY <1>1 DEF KVInv, TypeOK
<1>5. TypeOK'
  <2>1. status' \in [Req -> {"NEW", "WAITING", "RUNNING", "FINISHED"}]
    BY <1>1 DEF KVInv, TypeOK
  <2>2. num_computed' \in [Req -> Nat] /\ \A q \in Req : num_computed'[q] \in 0 .. Len(Text[q])
    <3>1. 0 \in 0 .. Len(Text[r])
      BY HashesOfText
    <3> QED BY <1>1, <3>1 DEF KVInv, TypeOK
  <2>3. admitted' \subseteq Req /\ preempted' \subseteq Req
    BY <1>1 DEF KVInv, TypeOK
  <2> QED BY <1>1, <1>2, <1>3, <2>1, <2>2, <2>3 DEF KVInv, TypeOK
<1>6. HoldingInv'
  <2> SUFFICES ASSUME NEW q \in Req PROVE Holding(q)'
    BY DEF HoldingInv
  <2>1. InFlight(q)' = InFlight(q)
    BY <1>1 DEF InFlight
  <2>2. CASE q = r
    <3>1. Holding(r) /\ num_tokens[r] \in Nat /\ placeholders[r] \in Nat
      BY TypesOf
    <3>2. r \notin admitted' /\ plan'[r] = 0 /\ num_computed'[r] + plan'[r] = 0
      BY <1>1, <1>2, <1>3
    <3>3. Len(tables'[r]) * BlockSize = 0 /\ num_cached'[r] * BlockSize <= num_tokens[r]
      <4>1. Len(tables'[r]) = 0 /\ num_cached'[r] = -1
        BY <1>3 DEF NotCached
      <4> QED BY <4>1, <3>1, BlockSizeType
    <3>4. num_tokens[r] + placeholders[r] >= 0
      BY <3>1
    <3> QED BY <1>1, <1>3, <1>4, <2>1, <2>2, <3>1, <3>2, <3>3, <3>4 DEF Holding
  <2>3. CASE q # r
    <3>1. q \in admitted' => q \in admitted
      BY <1>1
    <3> QED BY <1>1, <1>2, <1>3, <1>4, <2>1, <2>3, <3>1, HoldingFrame
  <2> QED BY <2>2, <2>3
<1>7. HandInv'
  <2>1. hand # Nothing => hand.request # r /\ hand.request \in Req
    <3>1. hand # Nothing => status[hand.request] = "WAITING"
      BY DEF KVInv, HandInv
    <3>2. hand # Nothing => hand.request \in Req
      BY DEF KVInv, TypeOK
    <3> QED BY <1>1, <3>1, <3>2
  <2> QED BY <1>1, <1>3, <1>4, <2>1 DEF KVInv, HandInv, HandComputed
<1> QED BY <1>3, <1>5, <1>6, <1>7 DEF KVInv

LEMMA AbortKeeps ==
  ASSUME KVInv, NEW r \in Req, Abort(r)
  PROVE  KVInv'
<1>1. /\ BetweenSteps /\ Free(r, pool)
      /\ status' = [status EXCEPT ![r] = "FINISHED"]
      /\ num_computed' = [num_computed EXCEPT ![r] = 0]
      /\ UNCHANGED <<num_tokens, placeholders, plan, admitted, preempted, hand, batches, data>>
  BY DEF Abort, stepVars
<1>2. plan[r] = 0
  BY <1>1 DEF BetweenSteps
<1>3. /\ PoolInv' /\ WrittenInv' /\ DataInv'
      /\ pool' \in Pools /\ pool'.block_hash = pool.block_hash
      /\ tables' \in [Req -> Seq(Blocks)]
      /\ num_cached' \in [Req -> Nat \union {NotCached}]
      /\ tables'[r] = <<>> /\ num_cached'[r] = NotCached /\ num_computed'[r] = 0
      /\ \A q \in Req : q # r => /\ tables'[q] = tables[q]
                                 /\ num_cached'[q] = num_cached[q]
                                 /\ num_computed'[q] = num_computed[q]
  BY <1>1, <1>2, FreeKeeps
<1>4. status'[r] = "FINISHED" /\ \A q \in Req : q # r => status'[q] = status[q]
  BY <1>1 DEF KVInv, TypeOK
<1>5. TypeOK'
  <2>1. status' \in [Req -> {"NEW", "WAITING", "RUNNING", "FINISHED"}]
    BY <1>1 DEF KVInv, TypeOK
  <2>2. num_computed' \in [Req -> Nat] /\ \A q \in Req : num_computed'[q] \in 0 .. Len(Text[q])
    <3>1. 0 \in 0 .. Len(Text[r])
      BY HashesOfText
    <3> QED BY <1>1, <3>1 DEF KVInv, TypeOK
  <2> QED BY <1>1, <1>3, <2>1, <2>2 DEF KVInv, TypeOK
<1>6. HoldingInv'
  <2> SUFFICES ASSUME NEW q \in Req PROVE Holding(q)'
    BY DEF HoldingInv
  <2>1. InFlight(q)' = InFlight(q)
    BY <1>1 DEF InFlight
  <2>2. CASE q = r
    <3>1. Holding(r) /\ num_tokens[r] \in Nat /\ placeholders[r] \in Nat
      BY TypesOf
    <3>2. r \notin admitted' /\ plan'[r] = 0 /\ num_computed'[r] + plan'[r] = 0
      BY <1>1, <1>2, <1>3, <3>1 DEF Holding
    <3>3. Len(tables'[r]) * BlockSize = 0 /\ num_cached'[r] * BlockSize <= num_tokens[r]
      <4>1. Len(tables'[r]) = 0 /\ num_cached'[r] = -1
        BY <1>3 DEF NotCached
      <4> QED BY <4>1, <3>1, BlockSizeType
    <3>4. num_tokens[r] + placeholders[r] >= 0
      BY <3>1
    <3> QED BY <1>1, <1>3, <1>4, <2>1, <2>2, <3>1, <3>2, <3>3, <3>4 DEF Holding
  <2>3. CASE q # r
    BY <1>1, <1>3, <1>4, <2>1, <2>3, HoldingFrame
  <2> QED BY <2>2, <2>3
<1>7. HandInv'
  <2>1. hand' = Nothing /\ BetweenSteps'
    BY <1>1 DEF BetweenSteps
  <2> QED BY <1>1, <2>1 DEF KVInv, HandInv
<1> QED BY <1>3, <1>5, <1>6, <1>7 DEF KVInv

\* What get_computed_blocks finds, and the token that is kept back.
LEMMA HitsOf ==
  ASSUME KVInv, NEW r \in Req
  PROVE  /\ ComputedBlocks(r) \in Seq(Blocks)
         /\ Len(ComputedBlocks(r)) \in Nat
         /\ Len(ComputedBlocks(r)) * BlockSize \in Nat
         /\ Len(ComputedBlocks(r)) * BlockSize < num_tokens[r]
         /\ \A i \in 1 .. Len(ComputedBlocks(r)) :
              pool.block_hash[ComputedBlocks(r)[i]] = Hash(r, i)
<1>1. num_tokens[r] \in Nat \ {0} /\ num_tokens[r] <= Len(Text[r]) /\ Len(Text[r]) \in Nat
  <2>1. num_tokens[r] \in PromptLen[r] .. Len(Text[r]) /\ PromptLen[r] \in 1 .. Len(Text[r]) - 1
    BY KVCacheAssumption DEF KVInv, TypeOK
  <2> QED BY <2>1, HashesOfText
<1>2. CASE r \in SkipReading
  <2>1. ComputedBlocks(r) = <<>>
    BY <1>2 DEF ComputedBlocks
  <2>2. <<>> \in Seq(Blocks) /\ Len(<<>>) = 0
    OBVIOUS
  <2>3. Len(<<>>) * BlockSize = 0
    BY <2>2, BlockSizeType
  <2> QED BY <1>1, <2>1, <2>2, <2>3
<1>3. CASE r \notin SkipReading
  <2> DEFINE longest == MaxHitLength(r) \div BlockSize
             Hit(n) == \A i \in 1 .. n : IsCached(pool, Hash(r, i))
             T == {n \in 0 .. longest : Hit(n)}
             k == NumHits(r)
             s == ComputedBlocks(r)
  <2>1. longest \in Nat /\ longest * BlockSize <= num_tokens[r] - 1
    <3>1. MaxHitLength(r) \in Nat /\ MaxHitLength(r) = num_tokens[r] - 1
      BY <1>1 DEF MaxHitLength
    <3>2. /\ longest \in Int /\ longest * BlockSize <= MaxHitLength(r)
          /\ 0 <= longest <=> 0 * BlockSize <= MaxHitLength(r)
      BY <3>1, Division
    <3>3. 0 * BlockSize = 0
      BY BlockSizeType
    <3> QED BY <3>1, <3>2, <3>3
  <2>2. k \in T
    <3>1. k = Max(T)
      BY DEF NumHits
    <3>2. 0 \in T /\ T \in SUBSET (0 .. longest)
      BY <2>1
    <3> HIDE DEF T, k, longest
    <3> QED BY <2>1, <3>1, <3>2, MaxIsMax
  <2>3. k \in Nat /\ k <= longest /\ Hit(k)
    BY <2>1, <2>2
  <2> HIDE DEF T, k, longest
  <2>4. k * BlockSize \in Nat /\ k * BlockSize <= num_tokens[r] - 1
    <3>1. (longest - k) * BlockSize >= 0
      BY <2>1, <2>3, BlockSizeType
    <3>2. (longest - k) * BlockSize = (longest * BlockSize) - (k * BlockSize)
          /\ k * BlockSize \in Nat /\ longest * BlockSize \in Nat
      BY <2>1, <2>3, BlockSizeType
    <3> QED BY <3>1, <3>2, <2>1, <1>1
  <2>5. ASSUME NEW i \in 1 .. k
        PROVE  /\ CachedBlock(pool, Hash(r, i)) \in Blocks
               /\ pool.block_hash[CachedBlock(pool, Hash(r, i))] = Hash(r, i)
    <3>1. i \in 1 .. FullBlocks(r)
      <4>1. (k - i) * BlockSize >= 0 /\ i \in Int
        BY <2>3, BlockSizeType
      <4>2. (k - i) * BlockSize = (k * BlockSize) - (i * BlockSize) /\ i * BlockSize \in Int
        BY <2>3, BlockSizeType
      <4>3. i * BlockSize <= Len(Text[r])
        BY <4>1, <4>2, <2>4, <1>1
      <4> QED BY <4>1, <4>3, FullBlocksBound, HashesOfText
    <3>2. Hash(r, i) \in Hashes
      BY <3>1, HashesOfText
    <3> DEFINE h == Hash(r, i)
               c == pool.cached[h]
    <3>3. c \in Seq(Blocks) /\ c # <<>> /\ MapExact(pool)
      <4>1. pool \in Pools /\ MapExact(pool)
        BY DEF KVInv, PoolInv, Good, Hashed
      <4> QED BY <4>1, <3>2, <2>3 DEF Pools, IsCached
    <3> HIDE DEF c
    <3>4. Head(c) \in Blocks /\ Head(c) \in ToSet(c)
      <4>1. Head(c) = c[1] /\ 1 \in 1 .. Len(c)
        BY <3>3
      <4> QED BY <4>1, <3>3, Elements
    <3>5. pool.block_hash[Head(c)] = h
      BY <3>2, <3>3, <3>4 DEF MapExact, c
    <3> QED BY <3>4, <3>5 DEF c, CachedBlock
  <2>6. s = [i \in 1 .. k |-> CachedBlock(pool, Hash(r, i))]
    BY <1>3 DEF ComputedBlocks, k
  <2> HIDE DEF s
  <2>7. s \in Seq(Blocks) /\ Len(s) = k
    BY <2>3, <2>5, <2>6
  <2>8. \A i \in 1 .. Len(s) : pool.block_hash[s[i]] = Hash(r, i)
    BY <2>5, <2>6, <2>7
  <2>9. Len(s) * BlockSize \in Nat /\ Len(s) * BlockSize < num_tokens[r] /\ Len(s) \in Nat
    BY <2>3, <2>4, <2>7, <1>1
  <2> QED BY <2>7, <2>8, <2>9 DEF s
<1> QED BY <1>2, <1>3

LEMMA LookUpKeeps ==
  ASSUME KVInv, NEW r \in Req, NEW n \in Budgets, LookUp(r, n)
  PROVE  KVInv'
<1> DEFINE hits == ComputedBlocks(r)
           m == Smaller(n, num_tokens[r] - Len(hits) * BlockSize)
<1>1. /\ hand = Nothing /\ Len(batches) < MaxBatches /\ status[r] = "WAITING"
      /\ hand' = [request |-> r, hits |-> hits, tokens |-> m]
      /\ UNCHANGED <<pool, tables, num_cached, status, num_tokens, num_computed, placeholders,
                     plan, admitted, preempted, batches, data>>
  BY DEF LookUp, MayPlan, requestVars
<1>2. /\ hits \in Seq(Blocks) /\ Len(hits) * BlockSize \in Nat
      /\ Len(hits) * BlockSize < num_tokens[r]
      /\ \A i \in 1 .. Len(hits) : pool.block_hash[hits[i]] = Hash(r, i)
  BY HitsOf
<1>3. m \in Nat \ {0} /\ Len(hits) * BlockSize + m <= num_tokens[r]
  <2>1. n \in Nat \ {0} /\ num_tokens[r] \in Nat
    BY KVCacheAssumption, TypesOf
  <2> HIDE DEF hits
  <2> QED BY <1>2, <2>1 DEF Smaller
<1> HIDE DEF hits, m
<1>4. /\ hand' \in [request : Req, hits : Seq(Blocks), tokens : Nat \ {0}]
      /\ hand'.request = r /\ hand'.hits = hits /\ hand'.tokens = m
  BY <1>1, <1>2, <1>3
<1>5. PoolInv' /\ WrittenInv' /\ DataInv'
  BY <1>1, SameCache
<1>6. TypeOK'
  BY <1>1, <1>4 DEF KVInv, TypeOK
<1>7. HoldingInv'
  <2> SUFFICES ASSUME NEW q \in Req PROVE Holding(q)'
    BY DEF HoldingInv
  <2>1. InFlight(q)' = InFlight(q)
    BY <1>1 DEF InFlight
  <2> QED BY <1>1, <2>1, HoldingFrame
<1>8. HandInv'
  BY <1>1, <1>2, <1>3, <1>4 DEF KVInv, HandInv, HandComputed
<1> QED BY <1>5, <1>6, <1>7, <1>8 DEF KVInv

LEMMA ScheduleWaitingKeeps == KVInv /\ ScheduleWaiting => KVInv'
<1> SUFFICES ASSUME KVInv, ScheduleWaiting PROVE KVInv'
  OBVIOUS
<1> DEFINE r == hand.request
           hits == hand.hits
           computed == HandComputed
           m == hand.tokens
<1>1. /\ hand # Nothing
      /\ Fits(r, hits, computed, m, ReserveFullISL)
      /\ AllocateSlots(r, hits, computed, m)
      /\ status' = [status EXCEPT ![r] = "RUNNING"]
      /\ num_computed' = [num_computed EXCEPT ![r] = computed]
      /\ plan' = [plan EXCEPT ![r] = m]
      /\ admitted' = admitted \union {r}
      /\ hand' = Nothing
      /\ UNCHANGED <<num_tokens, placeholders, preempted, batches, data>>
  BY DEF ScheduleWaiting, HandFits
<1>2. /\ r \in Req /\ hits \in Seq(Blocks) /\ m \in Nat \ {0}
      /\ Len(hits) \in Nat
      /\ computed = Len(hits) * BlockSize
      /\ status[r] = "WAITING"
      /\ computed + m <= num_tokens[r]
      /\ \A i \in 1 .. Len(hits) : pool.block_hash[hits[i]] = Hash(r, i)
      /\ Len(batches) < MaxBatches
  <2>1. hand \in [request : Req, hits : Seq(Blocks), tokens : Nat \ {0}]
    BY <1>1 DEF KVInv, TypeOK
  <2>2. ~BetweenSteps
    BY <1>1 DEF BetweenSteps
  <2>3. r \in Req /\ hits \in Seq(Blocks) /\ m \in Nat \ {0} /\ Len(hits) \in Nat
    BY <2>1
  <2>4. computed = Len(hits) * BlockSize
    BY DEF HandComputed
  <2> QED BY <1>1, <2>2, <2>3, <2>4 DEF KVInv, HandInv
<1> HIDE DEF r, hits, computed, m
<1>3. computed \in Nat
  BY <1>2, BlockSizeType
<1>4. /\ tables[r] = <<>> /\ num_cached[r] = NotCached /\ num_computed[r] = 0 /\ plan[r] = 0
      /\ num_tokens[r] \in Nat /\ placeholders[r] \in Nat /\ Len(Text[r]) \in Nat
  BY <1>2, TypesOf DEF Holding
<1>5. /\ Good(pool', tables', num_cached')
      /\ num_cached' \in [Req -> Nat \union {NotCached}]
      /\ \A q \in Req : q # r => tables'[q] = tables[q] /\ num_cached'[q] = num_cached[q]
      /\ Len(tables'[r]) \in Nat
      /\ computed + m <= Len(tables'[r]) * BlockSize
      /\ Len(tables[r]) <= Len(tables'[r])
      /\ \A i \in 1 .. Len(tables[r]) : tables'[r][i] = tables[r][i]
      /\ num_cached'[r] * BlockSize <= num_tokens[r]
      /\ num_cached[r] <= num_cached'[r]
      /\ Len(hits) > 0 => Len(hits) <= num_cached'[r]
      /\ \A b \in Blocks :
           \/ pool'.block_hash[b] \in {pool.block_hash[b], NoHash}
           \/ \E i \in 1 .. Len(tables'[r]) :
                /\ tables'[r][i] = b /\ pool'.block_hash[b] = Hash(r, i)
                /\ i > num_cached[r] /\ i > Len(hits)
                /\ i <= FullBlocks(r)
                /\ i * BlockSize <= computed + m
  <2>1. hits = <<>> => computed = num_computed[r]
    <3>1. hits = <<>> => Len(hits) = 0
      OBVIOUS
    <3> QED BY <3>1, <1>2, <1>4, BlockSizeType
  <2>2. hits # <<>> => computed = Len(hits) * BlockSize
    BY <1>2
  <2>3. Len(hits) * BlockSize <= num_tokens[r]
    BY <1>2, <1>3, <1>4
  <2>4. hits = <<>> \/ (tables[r] = <<>> /\ num_cached[r] = NotCached)
    BY <1>4
  <2>5. Fits(r, hits, computed, m, FALSE) \/ Fits(r, hits, computed, m, ReserveFullISL)
    BY <1>1
  <2>6. AllocateSlots(r, hits, computed, m)
    BY <1>1
  <2>7. r \in Req /\ hits \in Seq(Blocks) /\ computed \in Nat /\ m \in Nat \ {0}
        /\ \A i \in 1 .. Len(hits) : pool.block_hash[hits[i]] = Hash(r, i)
    BY <1>2, <1>3
  <2> QED BY <2>1, <2>2, <2>3, <2>4, <2>5, <2>6, <2>7, AllocateStep
<1>6. /\ plan' \in [Req -> Nat] /\ plan'[r] = m /\ \A q \in Req : q # r => plan'[q] = plan[q]
      /\ num_computed' \in [Req -> Nat] /\ num_computed'[r] = computed
      /\ \A q \in Req : q # r => num_computed'[q] = num_computed[q]
      /\ status'[r] = "RUNNING" /\ \A q \in Req : q # r => status'[q] = status[q]
      /\ status' \in [Req -> {"NEW", "WAITING", "RUNNING", "FINISHED"}]
  BY <1>1, <1>2, <1>3 DEF KVInv, TypeOK
<1>7. PoolInv'
  BY <1>5 DEF PoolInv
<1>8. WrittenInv'
  <2>1. \A b \in Blocks :
           \/ pool'.block_hash[b] \in {pool.block_hash[b], NoHash}
           \/ \E i \in 1 .. Len(tables'[r]) :
                /\ tables'[r][i] = b /\ pool'.block_hash[b] = Hash(r, i)
                /\ i > Len(hits)
                /\ i <= FullBlocks(r)
                /\ i * BlockSize <= computed + m
    BY <1>5
  <2>2. /\ data' = data /\ plan[r] = 0 /\ num_computed'[r] = computed /\ plan'[r] = m
        /\ \A q \in Req : q # r => /\ tables'[q] = tables[q]
                                   /\ num_computed'[q] = num_computed[q]
                                   /\ plan'[q] = plan[q]
        /\ Len(tables'[r]) \in Nat
        /\ \A i \in 1 .. Len(tables[r]) : tables'[r][i] = tables[r][i]
        /\ m \in Nat /\ computed \in Nat /\ Len(hits) \in Nat
        /\ computed = Len(hits) * BlockSize
        /\ r \in Req
    BY <1>1, <1>2, <1>3, <1>4, <1>5, <1>6
  <2> QED BY <2>1, <2>2, WrittenAllocated
<1>9. DataInv'
  <2>1. r \in admitted' /\ \A q \in Req : q \in admitted => q \in admitted'
    BY <1>1
  <2> QED BY <1>1, <1>2, <1>5, <1>6, <2>1, DataFrame
<1>10. computed + m \in Nat /\ computed + m <= Len(Text[r])
       /\ computed + m <= num_tokens[r] + placeholders[r]
       /\ num_tokens[r] + placeholders[r] <= Len(Text[r])
       /\ num_tokens[r] < Len(Text[r])
       /\ placeholders[r] = InFlight(r)
  <2>1. Holding(r) /\ status[r] # "FINISHED"
    BY <1>2, TypesOf
  <2>2. num_tokens[r] + placeholders[r] <= Len(Text[r])
        /\ num_tokens[r] < Len(Text[r]) /\ placeholders[r] = InFlight(r)
    BY <2>1 DEF Holding
  <2> QED BY <2>2, <1>2, <1>3, <1>4
<1>11. TypeOK'
  <2>1. pool' \in Pools /\ tables' \in [Req -> Seq(Blocks)]
    BY <1>5 DEF Good
  <2>2. \A q \in Req : num_computed'[q] \in 0 .. Len(Text[q])
    <3>1. computed \in 0 .. Len(Text[r])
      BY <1>2, <1>3, <1>4, <1>10
    <3> QED BY <1>6, <3>1 DEF KVInv, TypeOK
  <2>3. admitted' \subseteq Req
    BY <1>1, <1>2 DEF KVInv, TypeOK
  <2> QED BY <1>1, <1>5, <1>6, <2>1, <2>2, <2>3 DEF KVInv, TypeOK
<1>12. HoldingInv'
  <2> SUFFICES ASSUME NEW q \in Req PROVE Holding(q)'
    BY DEF HoldingInv
  <2>1. InFlight(q)' = InFlight(q)
    BY <1>1 DEF InFlight
  <2>2. CASE q = r
    <3>1. ASSUME NEW i \in 1 .. computed PROVE Ceil(i) <= num_cached'[r]
      <4>1. \A k \in Int : Ceil(i) <= k <=> i <= k * BlockSize
        BY CeilBounds
      <4>2. Ceil(i) <= Len(hits) /\ Ceil(i) \in Nat
        BY <4>1, <1>2, <1>3, CeilBounds
      <4>3. Ceil(i) >= 1
        BY <1>3, CeilBounds
      <4>4. Len(hits) <= num_cached'[r]
        BY <4>2, <4>3, <1>2, <1>5
      <4>5. num_cached'[r] \in Int
        BY <1>2, <1>5 DEF NotCached
      <4> QED BY <4>2, <4>4, <4>5, <1>2
    <3>2. num_computed'[r] + plan'[r] <= num_tokens'[r] + placeholders'[r]
          /\ num_computed'[r] + plan'[r] <= Len(tables'[r]) * BlockSize
          /\ plan'[r] > 0
      BY <1>1, <1>2, <1>5, <1>6, <1>10
    <3>3. num_computed'[r] + plan'[r] = num_tokens'[r] + placeholders'[r] =>
            num_tokens'[r] + placeholders'[r] < Len(Text[r])
      BY <1>1, <1>2, <1>3, <1>4, <1>6, <1>10
    <3> QED BY <3>1, <3>2, <3>3, <1>1, <1>5, <1>6, <1>10, <2>1, <2>2 DEF Holding
  <2>3. CASE q # r
    <3>1. q \in admitted' => q \in admitted
      BY <1>1, <2>3
    <3> QED BY <1>1, <1>5, <1>6, <2>1, <2>3, <3>1, HoldingFrame
  <2> QED BY <2>2, <2>3
<1>13. HandInv'
  BY <1>1, <1>2 DEF KVInv, HandInv
<1> QED BY <1>7, <1>8, <1>9, <1>11, <1>12, <1>13 DEF KVInv

\* What has a hash in p is written.
AllWritten(p) ==
  \A b \in Blocks : p.block_hash[b] # NoHash =>
    \A j \in 1 .. BlockSize :
      data[b][j] = SubSeq(p.block_hash[b], 1, Len(p.block_hash[b]) - BlockSize + j)

\* Between two steps, cache_blocks for tokens that r has computed.
LEMMA CachingStep ==
  ASSUME KVInv, BetweenSteps, NEW r \in Req, NEW known \in Int, known <= num_computed[r],
         NEW w, w = PoolCaching(r, known),
         NEW mc, mc = [num_cached EXCEPT ![r] = NumCaching(r, known)]
  PROVE  /\ Good(w, tables, mc)
         /\ mc \in [Req -> Nat \union {NotCached}]
         /\ mc[r] = num_cached[r] \/ mc[r] * BlockSize <= known
         /\ \A q \in Req : q # r => mc[q] = num_cached[q]
         /\ AllWritten(w)
<1> DEFINE from == Max({num_cached[r], 0})
           to == known \div BlockSize
<1>1. /\ num_cached[r] \in Nat \union {NotCached} /\ num_cached[r] \in Int
      /\ num_computed[r] \in Nat /\ Len(tables[r]) \in Nat /\ Len(Text[r]) \in Nat
      /\ num_computed[r] <= Len(Text[r])
      /\ num_computed[r] <= Len(tables[r]) * BlockSize
      /\ Good(pool, tables, num_cached)
      /\ num_cached \in [Req -> Nat \union {NotCached}] /\ num_cached \in [Req -> Int]
      /\ r \notin admitted /\ NotCached = -1
  <2>1. num_computed[r] \in 0 .. Len(Text[r]) /\ num_cached \in [Req -> Nat \union {NotCached}]
        /\ Good(pool, tables, num_cached)
    BY DEF KVInv, TypeOK, PoolInv
  <2>2. plan[r] = 0
    BY DEF BetweenSteps
  <2>3. num_computed[r] + plan[r] <= Len(tables[r]) * BlockSize /\ r \notin admitted
    BY <2>2, TypesOf DEF Holding
  <2>4. NotCached = -1
    BY DEF NotCached
  <2>5. num_cached \in [Req -> Int]
    BY <2>1, <2>4
  <2>6. Len(tables[r]) * BlockSize \in Nat
    BY TypesOf, BlockSizeType
  <2>7. num_computed[r] <= Len(tables[r]) * BlockSize
    BY <2>2, <2>3, <2>6, TypesOf
  <2> QED BY <2>1, <2>3, <2>4, <2>5, <2>7, TypesOf
<1>2. from \in Nat /\ (from = num_cached[r] \/ (from = 0 /\ num_cached[r] <= 0))
  <2>1. from = IF num_cached[r] > 0 THEN num_cached[r] ELSE 0
    BY <1>1, MaxWithZero
  <2> HIDE DEF from
  <2> QED BY <1>1, <2>1
<1>3. to \in Int /\ to * BlockSize <= known /\ to * BlockSize \in Int
  <2>1. to \in Int /\ to * BlockSize <= known
    BY Division
  <2> QED BY <2>1, BlockSizeType
<1>4. w = WithHashes(pool, tables[r], BlockHashes(r), from, to)
  BY DEF PoolCaching
<1>5. mc = [num_cached EXCEPT ![r] = IF to > from THEN to ELSE num_cached[r]]
  BY DEF NumCaching
<1> HIDE DEF from, to
<1>6. to <= FullBlocks(r)
  <2>1. to * BlockSize <= Len(Text[r])
    BY <1>1, <1>3
  <2> QED BY <1>3, <2>1, FullBlocksBound
<1>7. to <= Len(tables[r])
  <2>1. to * BlockSize <= Len(tables[r]) * BlockSize
    <3>1. Len(tables[r]) * BlockSize \in Nat
      BY <1>1, BlockSizeType
    <3> QED BY <3>1, <1>1, <1>3
  <2> QED BY <2>1, <1>1, <1>3, NoMoreBlocks
<1>8. /\ mc \in [Req -> Nat \union {NotCached}] /\ mc \in [Req -> Int]
      /\ mc[r] = IF to > from THEN to ELSE num_cached[r]
      /\ \A q \in Req : q # r => mc[q] = num_cached[q]
  <2>1. to > from => to \in Nat
    BY <1>2, <1>3
  <2> QED BY <1>1, <1>3, <1>5, <2>1
<1>9. /\ Good(w, tables, mc)
      /\ \A b \in Blocks :
           \/ w.block_hash[b] = pool.block_hash[b]
           \/ \E i \in from + 1 .. to : tables[r][i] = b /\ w.block_hash[b] = Hash(r, i)
  <2> DEFINE p == pool
             tb == tables
             nc == num_cached
             v == w
             cc == mc
  <2>1. v = WithHashes(p, tb[r], BlockHashes(r), from, to)
    BY <1>4
  <2>2. to <= Len(tb[r]) /\ cc[r] = IF to > from THEN to ELSE nc[r]
    BY <1>7, <1>8
  <2>3. from = nc[r] \/ (from = 0 /\ nc[r] <= 0)
    BY <1>2
  <2>4. to <= FullBlocks(r) /\ to \in Int /\ from \in Nat /\ Good(p, tb, nc)
        /\ cc \in [Req -> Int] /\ \A q \in Req : q # r => cc[q] = nc[q]
    BY <1>1, <1>2, <1>3, <1>6, <1>8
  <2> HIDE DEF p, tb, nc, v, cc
  <2>5. Good(v, tb, cc) /\ HashedFrom(p, v, tb[r], r, from, to)
    BY <2>1, <2>2, <2>3, <2>4, HashStep
  <2> QED BY <2>5 DEF HashedFrom, p, tb, nc, v, cc
<1>10. ASSUME NEW b \in Blocks, w.block_hash[b] # NoHash, NEW j \in 1 .. BlockSize
       PROVE  data[b][j] = SubSeq(w.block_hash[b], 1, Len(w.block_hash[b]) - BlockSize + j)
  <2>1. CASE w.block_hash[b] = pool.block_hash[b]
    <3>1. ~ToBeWritten(b, j)
      <4>1. \A q \in Req : Planned(q) = {}
        <5>1. \A q \in Req : plan[q] = 0 /\ num_computed[q] \in Nat
          BY TypesOf DEF BetweenSteps
        <5> QED BY <5>1 DEF Planned
      <4> QED BY <4>1 DEF ToBeWritten
    <3>2. pool.block_hash[b] # NoHash
      BY <1>10, <2>1
    <3>3. data[b][j] = SubSeq(pool.block_hash[b], 1, Len(pool.block_hash[b]) - BlockSize + j)
      BY <3>1, <3>2 DEF KVInv, WrittenInv
    <3> QED BY <3>3, <2>1
  <2>2. CASE \E i \in from + 1 .. to : tables[r][i] = b /\ w.block_hash[b] = Hash(r, i)
    <3>1. PICK i \in from + 1 .. to : tables[r][i] = b /\ w.block_hash[b] = Hash(r, i)
      BY <2>2
    <3>2. i \in 1 .. FullBlocks(r) /\ i \in Nat \ {0} /\ i <= to
      <4>1. from \in Nat /\ to \in Int /\ to <= FullBlocks(r) /\ FullBlocks(r) \in Nat
        BY <1>2, <1>3, <1>6, HashesOfText
      <4> QED BY <4>1
    <3> DEFINE m == ((i - 1) * BlockSize) + j
    <3>3. m \in Nat \ {0} /\ Ceil(m) = i /\ Offset(m) = j
      BY <3>2, PositionOf
    <3>4. /\ Len(Hash(r, i)) - BlockSize + j = m
          /\ m <= i * BlockSize
          /\ i * BlockSize \in Nat
      <4>1. Len(Hash(r, i)) = i * BlockSize /\ i * BlockSize \in Nat
        BY <3>2, HashesOfText
      <4>2. (i - 1) * BlockSize = (i * BlockSize) - BlockSize
        BY <3>2, BlockSizeType
      <4> QED BY <4>1, <4>2, BlockSizeType
    <3> HIDE DEF m
    <3>5. m <= num_computed[r]
      <4>1. (to - i) * BlockSize >= 0
        BY <3>2, <1>3, BlockSizeType
      <4>2. (to - i) * BlockSize = (to * BlockSize) - (i * BlockSize)
        BY <3>2, <1>3, BlockSizeType
      <4>3. i * BlockSize <= to * BlockSize
        BY <4>1, <4>2, <3>4, <1>3
      <4> QED BY <4>3, <3>3, <3>4, <1>1, <1>3
    <3>6. m \in 1 .. num_computed[r] /\ m \in 1 .. num_computed[r] + plan[r]
      BY <3>3, <3>5, TypesOf
    <3>7. Slot(r, m) = <<tables[r][i], j>>
      BY <3>3, <3>6, SlotsOf
    <3>8. data[b][j] = KeysAndValues(r, m)
      <4>1. data[Slot(r, m)[1]][Slot(r, m)[2]] = KeysAndValues(r, m)
        BY <1>1, <3>6 DEF KVInv, DataInv
      <4> QED BY <4>1, <3>1, <3>7
    <3>9. SubSeq(Hash(r, i), 1, m) = KeysAndValues(r, m)
      <4>1. m \in 0 .. i * BlockSize
        BY <3>3, <3>4
      <4> QED BY <4>1, <3>2, HashesOfText
    <3> QED BY <3>1, <3>4, <3>8, <3>9
  <2> QED BY <2>1, <2>2, <1>9
<1>11. mc[r] = num_cached[r] \/ mc[r] * BlockSize <= known
  BY <1>3, <1>8
<1> QED BY <1>8, <1>9, <1>10, <1>11 DEF AllWritten

LEMMA UpdateFromOutputKeeps ==
  ASSUME KVInv, NEW r \in Req, NEW stop \in BOOLEAN, UpdateFromOutput(r, stop)
  PROVE  KVInv'
<1>1. /\ BetweenSteps /\ batches # <<>> /\ r \in Head(batches)
      /\ batches' = Done(batches, r)
      /\ UNCHANGED <<plan, admitted, preempted, hand, data>>
  BY DEF UpdateFromOutput, Done, stepVars
<1>2. batches \in Seq(SUBSET Req)
  BY DEF KVInv, TypeOK
<1>3. /\ batches' \in Seq(SUBSET Req)
      /\ Len(batches') <= Len(batches)
      /\ InFlight(r)' = InFlight(r) - 1
      /\ InFlight(r) >= 1 /\ InFlight(r) \in Nat
      /\ \A q \in Req : q # r => InFlight(q)' = InFlight(q)
  <2>1. ASSUME NEW x
        PROVE  /\ batches' \in Seq(SUBSET Req)
               /\ Len(batches') <= Len(batches)
               /\ Cardinality(SampledIn(batches', x)) =
                    Cardinality(SampledIn(batches, x)) - IF x = r THEN 1 ELSE 0
               /\ Cardinality(SampledIn(batches, r)) >= 1
    <3> DEFINE q2 == batches'
    <3>1. q2 = Done(batches, r) /\ batches # <<>> /\ r \in Head(batches)
      BY <1>1
    <3> HIDE DEF q2
    <3>2. /\ q2 \in Seq(SUBSET Req)
          /\ Len(q2) <= Len(batches)
          /\ Cardinality(SampledIn(q2, x)) =
               Cardinality(SampledIn(batches, x)) - IF x = r THEN 1 ELSE 0
          /\ Cardinality(SampledIn(batches, r)) >= 1
      BY <1>2, <3>1, CountDone
    <3> QED BY <3>2 DEF q2
  <2>2. \A x : Cardinality(SampledIn(batches, x)) \in Nat
    <3>1. {} \in SUBSET Req
      OBVIOUS
    <3>2. \A x : Cardinality(SampledIn(batches, x)) \in 0 .. Len(batches)
      BY <1>2, <3>1, CountAppend
    <3> QED BY <3>2
  <2> QED BY <2>1, <2>2 DEF InFlight
<1>4. /\ \A q \in Req : plan[q] = 0 /\ plan'[q] = 0 /\ q \notin admitted /\ q \notin admitted'
      /\ num_tokens[r] \in Nat /\ placeholders[r] \in Nat /\ num_computed[r] \in Nat
      /\ Len(Text[r]) \in Nat
  <2>1. \A q \in Req : plan[q] = 0
    BY <1>1 DEF BetweenSteps
  <2>2. \A q \in Req : q \notin admitted
    BY <2>1, TypesOf DEF Holding
  <2> QED BY <1>1, <2>1, <2>2, TypesOf
<1>5. HandInv'
  <2>1. hand' = Nothing /\ BetweenSteps'
    BY <1>1 DEF BetweenSteps
  <2>2. Len(batches') <= MaxBatches
    <3>1. Len(batches) <= MaxBatches /\ Len(batches) \in Nat /\ MaxBatches \in Nat
          /\ Len(batches') \in Nat
      BY <1>2, <1>3, KVCacheAssumption DEF KVInv, HandInv
    <3> QED BY <1>3, <3>1
  <2> QED BY <2>1, <2>2 DEF HandInv
<1>6. CASE status[r] = "FINISHED"
  <2>1. UNCHANGED <<pool, tables, num_cached, status, num_tokens, num_computed, placeholders>>
    BY <1>6 DEF UpdateFromOutput, requestVars
  <2>2. PoolInv' /\ WrittenInv' /\ DataInv'
    BY <1>1, <2>1, SameCache
  <2>3. TypeOK'
    BY <1>1, <1>3, <2>1 DEF KVInv, TypeOK
  <2>4. HoldingInv'
    <3> SUFFICES ASSUME NEW q \in Req PROVE Holding(q)'
      BY DEF HoldingInv
    <3>1. CASE q = r
      <4>1. Holding(r)
        BY TypesOf
      <4> QED BY <4>1, <3>1, <1>1, <1>6, <2>1 DEF Holding
    <3>2. CASE q # r
      BY <3>2, <1>1, <1>3, <2>1, HoldingFrame
    <3> QED BY <3>1, <3>2
  <2> QED BY <1>5, <2>2, <2>3, <2>4 DEF KVInv
<1>7. CASE status[r] # "FINISHED"
  <2> DEFINE known == IF status[r] = "RUNNING" THEN num_computed[r] - placeholders'[r] ELSE 0
             w == PoolCaching(r, known)
             mc == [num_cached EXCEPT ![r] = NumCaching(r, known)]
             Stops == stop \/ num_tokens'[r] = Len(Text[r])
  <2>1. /\ num_tokens' = [num_tokens EXCEPT ![r] = num_tokens[r] + 1]
        /\ placeholders' = [placeholders EXCEPT ![r] = placeholders[r] - 1]
        /\ \/ /\ Stops
              /\ Free(r, w)
              /\ status' = [status EXCEPT ![r] = "FINISHED"]
              /\ num_computed' = [num_computed EXCEPT ![r] = 0]
           \/ /\ ~Stops
              /\ pool' = w
              /\ num_cached' = mc
              /\ UNCHANGED <<tables, status, num_computed>>
    <3> HIDE DEF known
    <3> QED BY <1>7 DEF UpdateFromOutput, known
  <2>2. /\ num_tokens[r] < Len(Text[r]) /\ placeholders[r] = InFlight(r)
        /\ num_tokens[r] + placeholders[r] <= Len(Text[r])
        /\ num_computed[r] <= num_tokens[r] + placeholders[r]
        /\ status[r] # "RUNNING" => num_computed[r] = 0
        /\ num_computed[r] <= Len(tables[r]) * BlockSize
        /\ num_cached[r] * BlockSize <= num_tokens[r]
    <3>1. /\ num_tokens[r] < Len(Text[r]) /\ placeholders[r] = InFlight(r)
          /\ num_tokens[r] + placeholders[r] <= Len(Text[r])
          /\ num_computed[r] + plan[r] <= num_tokens[r] + placeholders[r]
          /\ status[r] # "RUNNING" => num_computed[r] = 0
          /\ num_computed[r] + plan[r] <= Len(tables[r]) * BlockSize
          /\ num_cached[r] * BlockSize <= num_tokens[r]
      BY <1>7, TypesOf DEF Holding
    <3> QED BY <3>1, <1>4
  <2>3. /\ num_tokens' \in [Req -> Nat] /\ num_tokens'[r] = num_tokens[r] + 1
        /\ placeholders'[r] = placeholders[r] - 1
        /\ \A q \in Req : q # r => /\ num_tokens'[q] = num_tokens[q]
                                   /\ placeholders'[q] = placeholders[q]
        /\ placeholders' \in [Req -> 0 .. MaxBatches]
        /\ \A q \in Req : num_tokens'[q] \in PromptLen[q] .. Len(Text[q])
    <3>1. num_tokens[r] + 1 \in Nat /\ placeholders[r] - 1 \in 0 .. MaxBatches
      <4>1. placeholders[r] \in 0 .. MaxBatches /\ MaxBatches \in Nat
        BY KVCacheAssumption DEF KVInv, TypeOK
      <4> QED BY <4>1, <1>3, <1>4, <2>2
    <3>2. num_tokens[r] + 1 \in PromptLen[r] .. Len(Text[r])
      <4>1. num_tokens[r] \in PromptLen[r] .. Len(Text[r]) /\ PromptLen[r] \in Nat
        BY KVCacheAssumption DEF KVInv, TypeOK
      <4> QED BY <4>1, <1>4, <2>2
    <3>3. num_tokens \in [Req -> Nat] /\ placeholders \in [Req -> 0 .. MaxBatches]
          /\ \A q \in Req : num_tokens[q] \in PromptLen[q] .. Len(Text[q])
      BY DEF KVInv, TypeOK
    <3> QED BY <2>1, <3>1, <3>2, <3>3
  <2>4. known \in Int /\ known <= num_computed[r] /\ known <= num_tokens'[r]
    <3>1. placeholders'[r] \in Nat
      BY <1>3, <1>4, <2>2, <2>3
    <3>2. num_computed[r] - placeholders'[r] <= num_computed[r]
          /\ num_computed[r] - placeholders'[r] <= num_tokens'[r]
          /\ num_computed[r] - placeholders'[r] \in Int
          /\ num_tokens'[r] >= 0
      BY <3>1, <1>4, <2>2, <2>3
    <3> QED BY <3>2, <1>4
  <2> HIDE DEF known, w, mc, Stops
  <2>5. /\ Good(w, tables, mc)
        /\ mc \in [Req -> Nat \union {NotCached}]
        /\ mc[r] = num_cached[r] \/ mc[r] * BlockSize <= known
        /\ \A q \in Req : q # r => mc[q] = num_cached[q]
        /\ AllWritten(w)
    <3>1. w = PoolCaching(r, known) /\ mc = [num_cached EXCEPT ![r] = NumCaching(r, known)]
      BY DEF w, mc
    <3>2. known \in Int /\ known <= num_computed[r]
      BY <2>4
    <3>3. BetweenSteps
      BY <1>1
    <3> QED BY <3>1, <3>2, <3>3, CachingStep, ZenonT(60)
  <2>6. mc[r] * BlockSize <= num_tokens'[r]
    <3>1. mc[r] * BlockSize \in Int /\ num_cached[r] * BlockSize \in Int
      <4>1. mc[r] \in Int /\ num_cached[r] \in Int
        BY <2>5, TypesOf DEF NotCached
      <4> QED BY <4>1, BlockSizeType
    <3> QED BY <3>1, <2>2, <2>3, <2>4, <2>5, <1>4
  <2>7. num_tokens'[r] + placeholders'[r] = num_tokens[r] + placeholders[r]
    BY <2>3, <1>4
  <2>8. ASSUME NEW q \in Req, q # r, tables'[q] = tables[q], num_cached'[q] = num_cached[q],
               status'[q] = status[q], num_computed'[q] = num_computed[q]
        PROVE  Holding(q)'
    <3>1. q \in admitted' => q \in admitted
      BY <1>4
    <3>2. plan'[q] = plan[q]
      BY <1>1
    <3>3. num_tokens'[q] = num_tokens[q] /\ placeholders'[q] = placeholders[q]
          /\ InFlight(q)' = InFlight(q)
      BY <2>3, <2>8, <1>3
    <3> QED BY <2>8, <3>1, <3>2, <3>3, HoldingFrame
  <2>9. CASE ~Stops
    <3>1. pool' = w /\ num_cached' = mc /\ UNCHANGED <<tables, status, num_computed>>
      BY <2>1, <2>9
    <3>2. PoolInv'
      BY <2>5, <3>1 DEF PoolInv
    <3>3. WrittenInv'
      BY <1>1, <2>5, <3>1 DEF WrittenInv, AllWritten
    <3>4. DataInv'
      BY <1>1, <3>1 DEF KVInv, DataInv, Slot
    <3>5. TypeOK'
      <4>1. pool' \in Pools
        BY <2>5, <3>1 DEF Good
      <4> QED BY <1>1, <1>3, <2>3, <2>5, <3>1, <4>1 DEF KVInv, TypeOK
    <3>6. HoldingInv'
      <4> SUFFICES ASSUME NEW q \in Req PROVE Holding(q)'
        BY DEF HoldingInv
      <4>1. CASE q = r
        <5>1. Holding(r)
          BY TypesOf
        <5>2. num_computed'[r] + plan'[r] <= num_tokens'[r] + placeholders'[r]
              /\ num_computed'[r] + plan'[r] <= Len(tables'[r]) * BlockSize
          BY <1>4, <2>2, <2>7, <3>1
        <5>3. num_tokens'[r] + placeholders'[r] <= Len(Text[r])
          BY <2>2, <2>7
        <5>4. num_tokens'[r] < Len(Text[r])
          <6>1. num_tokens'[r] # Len(Text[r])
            BY <2>9 DEF Stops
          <6> QED BY <6>1, <1>4, <2>2, <2>3
        <5>5. placeholders'[r] = InFlight(r)'
          BY <1>3, <2>2, <2>3
        <5>6. num_cached'[r] * BlockSize <= num_tokens'[r]
          BY <2>6, <3>1
        <5>7. status'[r] # "RUNNING" =>
                 tables'[r] = <<>> /\ num_cached'[r] = NotCached /\ num_computed'[r] = 0
          <6>1. status[r] # "RUNNING" => tables[r] = <<>> /\ num_computed[r] = 0
                                         /\ num_cached[r] = NotCached
            BY <5>1 DEF Holding
          <6>2. status[r] # "RUNNING" => mc[r] <= 0 /\ mc[r] = NotCached
            <7> SUFFICES ASSUME status[r] # "RUNNING" PROVE mc[r] <= 0 /\ mc[r] = NotCached
              OBVIOUS
            <7>1. known = 0
              BY DEF known
            <7>2. mc[r] \in Nat \union {NotCached} /\ mc[r] <= Len(tables[r]) /\ Len(tables[r]) = 0
              BY <2>5, <6>1 DEF Good, Hashed
            <7>3. known \div BlockSize = 0
              BY <7>1, BlockSizeType
            <7>4. NumCaching(r, known) = NotCached
              <8>1. num_cached[r] = -1
                BY <6>1 DEF NotCached
              <8>2. Max({num_cached[r], 0}) = 0
                BY <8>1, MaxWithZero
              <8> QED BY <7>3, <8>2, <6>1 DEF NumCaching
            <7>5. mc[r] = NotCached
              BY <7>4 DEF mc, KVInv, TypeOK
            <7> QED BY <7>5 DEF NotCached
          <6> QED BY <6>1, <6>2, <3>1
        <5> QED BY <4>1, <5>2, <5>3, <5>4, <5>5, <5>6, <5>7, <1>4 DEF Holding
      <4>2. CASE q # r
        BY <4>2, <2>5, <2>8, <3>1
      <4> QED BY <4>1, <4>2
    <3> QED BY <1>5, <3>2, <3>3, <3>4, <3>5, <3>6 DEF KVInv
  <2>10. CASE Stops
    <3>1. /\ pool' = Freed(w, tables[r])
          /\ tables' = [tables EXCEPT ![r] = <<>>]
          /\ num_cached' = [num_cached EXCEPT ![r] = NotCached]
          /\ status' = [status EXCEPT ![r] = "FINISHED"]
          /\ num_computed' = [num_computed EXCEPT ![r] = 0]
      BY <2>1, <2>10 DEF Free
    <3>2. /\ Good(Freed(w, tables[r]), [tables EXCEPT ![r] = <<>>], [mc EXCEPT ![r] = NotCached])
          /\ Freed(w, tables[r]).block_hash = w.block_hash
      BY <2>5, FreeStep
    <3>3. [mc EXCEPT ![r] = NotCached] = [num_cached EXCEPT ![r] = NotCached]
      BY <2>5 DEF KVInv, TypeOK
    <3>4. PoolInv' /\ pool'.block_hash = w.block_hash
      BY <3>1, <3>2, <3>3 DEF PoolInv
    <3>5. /\ tables'[r] = <<>> /\ \A q \in Req : q # r => tables'[q] = tables[q]
          /\ num_computed'[r] = 0 /\ \A q \in Req : q # r => num_computed'[q] = num_computed[q]
          /\ num_computed' \in [Req -> Nat]
          /\ status'[r] = "FINISHED" /\ \A q \in Req : q # r => status'[q] = status[q]
          /\ status' \in [Req -> {"NEW", "WAITING", "RUNNING", "FINISHED"}]
      BY <3>1 DEF KVInv, TypeOK
    <3>6. /\ num_cached' \in [Req -> Nat \union {NotCached}]
          /\ num_cached'[r] = NotCached /\ \A q \in Req : q # r => num_cached'[q] = num_cached[q]
      BY <3>1 DEF KVInv, TypeOK
    <3>7. WrittenInv'
      BY <1>1, <2>5, <3>4 DEF WrittenInv, AllWritten
    <3>8. DataInv'
      <4>1. \A q \in Req : q \in admitted => q \in admitted'
        BY <1>4
      <4> QED BY <1>1, <3>5, <4>1, DataFrame
    <3>9. TypeOK'
      <4>1. pool' \in Pools /\ tables' \in [Req -> Seq(Blocks)]
        BY <3>4 DEF PoolInv, Good
      <4>2. \A q \in Req : num_computed'[q] \in 0 .. Len(Text[q])
        <5>1. 0 \in 0 .. Len(Text[r])
          BY <1>4
        <5> QED BY <3>5, <5>1 DEF KVInv, TypeOK
      <4> QED BY <1>1, <1>3, <2>3, <3>5, <3>6, <4>1, <4>2 DEF KVInv, TypeOK
    <3>10. HoldingInv'
      <4> SUFFICES ASSUME NEW q \in Req PROVE Holding(q)'
        BY DEF HoldingInv
      <4>1. CASE q = r
        <5>1. num_computed'[r] + plan'[r] = 0
          BY <1>4, <3>5
        <5>2. Len(tables'[r]) * BlockSize = 0 /\ num_cached'[r] * BlockSize <= num_tokens'[r]
          <6>1. Len(tables'[r]) = 0 /\ num_cached'[r] = -1 /\ num_tokens'[r] \in Nat
            BY <1>4, <2>3, <3>5, <3>6 DEF NotCached
          <6> QED BY <6>1, BlockSizeType
        <5>3. num_tokens'[r] + placeholders'[r] >= 0
              /\ num_tokens'[r] + placeholders'[r] <= Len(Text[r])
          BY <2>2, <2>7, <1>4
        <5> QED BY <4>1, <5>1, <5>2, <5>3, <1>4, <3>5, <3>6 DEF Holding
      <4>2. CASE q # r
        BY <4>2, <2>8, <3>5, <3>6
      <4> QED BY <4>1, <4>2
    <3> QED BY <1>5, <3>4, <3>7, <3>8, <3>9, <3>10 DEF KVInv
  <2> QED BY <2>9, <2>10
<1> QED BY <1>6, <1>7

\* Whoever else writes a slot of r writes the same into it.
LEMMA SameSlot ==
  ASSUME KVInv, NEW r \in Req, NEW q \in Req,
         NEW i \in 1 .. num_computed[r] + plan[r], NEW k \in 1 .. num_computed[q] + plan[q],
         Slot(r, i) = Slot(q, k)
  PROVE  i = k /\ KeysAndValues(r, i) = KeysAndValues(q, k)
<1>1. /\ i \in Nat \ {0} /\ Ceil(i) \in 1 .. Len(tables[r]) /\ Offset(i) \in 1 .. BlockSize
      /\ i = ((Ceil(i) - 1) * BlockSize) + Offset(i)
      /\ Slot(r, i) = <<tables[r][Ceil(i)], Offset(i)>>
  BY SlotsOf
<1>2. /\ k \in Nat \ {0} /\ Ceil(k) \in 1 .. Len(tables[q]) /\ Offset(k) \in 1 .. BlockSize
      /\ k = ((Ceil(k) - 1) * BlockSize) + Offset(k)
      /\ Slot(q, k) = <<tables[q][Ceil(k)], Offset(k)>>
  BY SlotsOf
<1>3. tables[r][Ceil(i)] = tables[q][Ceil(k)] /\ Offset(i) = Offset(k)
  <2> DEFINE b == tables[r][Ceil(i)]
             c == tables[q][Ceil(k)]
  <2>1. <<b, Offset(i)>> = <<c, Offset(k)>>
    BY <1>1, <1>2
  <2> HIDE DEF b, c
  <2>2. b = c /\ Offset(i) = Offset(k)
    BY <2>1
  <2> QED BY <2>2 DEF b, c
<1>4. Good(pool, tables, num_cached)
  BY DEF KVInv, PoolInv
<1>5. CASE r = q
  <2>1. Ceil(i) = Ceil(k)
    BY <1>1, <1>2, <1>3, <1>4, <1>5, HeldIsCounted
  <2> QED BY <2>1, <1>1, <1>2, <1>3, <1>5
<1>6. CASE r # q
  <2>1. /\ Ceil(i) = Ceil(k)
        /\ \A m \in 0 .. Ceil(i) * BlockSize : KeysAndValues(r, m) = KeysAndValues(q, m)
    BY <1>1, <1>2, <1>3, <1>4, <1>6, SharedBlocks
  <2>2. i = k
    BY <2>1, <1>1, <1>2, <1>3
  <2>3. i \in 0 .. Ceil(i) * BlockSize
    <3>1. i <= Ceil(i) * BlockSize /\ Ceil(i) \in Nat
      BY <1>1, CeilBounds
    <3>2. Ceil(i) * BlockSize \in Nat
      BY <3>1, BlockSizeType
    <3> QED BY <3>1, <3>2, <1>1
  <2> QED BY <2>1, <2>2, <2>3
<1> QED BY <1>5, <1>6

\* What the workers leave behind.
LEMMA CommitWrites ==
  ASSUME KVInv, Commit
  PROVE  /\ \A r \in Req : \A i \in 1 .. num_computed[r] + plan[r] :
              data'[Slot(r, i)[1]][Slot(r, i)[2]] = KeysAndValues(r, i)
         /\ \A b \in Blocks : \A j \in 1 .. BlockSize :
              ~ToBeWritten(b, j) => data'[b][j] = data[b][j]
<1> DEFINE Writes(r, b, j) == \E i \in Planned(r) : Slot(r, i) = <<b, j>>
           writer(b, j) == CHOOSE r \in Req : Writes(r, b, j)
           position(b, j) == CHOOSE i \in Planned(writer(b, j)) : Slot(writer(b, j), i) = <<b, j>>
<1>1. ASSUME NEW b \in Blocks, NEW j \in 1 .. BlockSize
      PROVE  data'[b][j] = IF \E r \in Req : Writes(r, b, j)
                           THEN KeysAndValues(writer(b, j), position(b, j))
                           ELSE data[b][j]
  <2> DEFINE v(c, k) == IF \E r \in Req : Writes(r, c, k)
                        THEN KeysAndValues(writer(c, k), position(c, k))
                        ELSE data[c][k]
  <2>1. data' = [c \in Blocks |-> [k \in 1 .. BlockSize |-> v(c, k)]]
    BY DEF Commit
  <2> HIDE DEF v
  <2>2. data'[b][j] = v(b, j)
    BY <2>1
  <2> QED BY <2>2 DEF v
<1>2. \A r \in Req : \A i \in Planned(r) : i \in 1 .. num_computed[r] + plan[r]
  BY TypesOf DEF Planned
<1>3. ASSUME NEW r \in Req, NEW i \in 1 .. num_computed[r] + plan[r]
      PROVE  data'[Slot(r, i)[1]][Slot(r, i)[2]] = KeysAndValues(r, i)
  <2> DEFINE c == Ceil(i)
             b == tables[r][c]
             j == Offset(i)
  <2>1. /\ i \in Nat \ {0} /\ c \in 1 .. Len(tables[r]) /\ b \in Blocks /\ j \in 1 .. BlockSize
        /\ i = ((c - 1) * BlockSize) + j
        /\ Slot(r, i) = <<b, j>>
    BY SlotsOf
  <2> HIDE DEF b, j, c
  <2>2. CASE \E q \in Req : Writes(q, b, j)
    <3> DEFINE q == writer(b, j)
               k == position(b, j)
    <3>1. q \in Req /\ Writes(q, b, j)
      BY <2>2
    <3>2. k \in Planned(q) /\ Slot(q, k) = <<b, j>>
      BY <3>1
    <3>3. data'[b][j] = KeysAndValues(q, k)
      BY <1>1, <2>1, <2>2
    <3> HIDE DEF q, k
    <3>4. KeysAndValues(r, i) = KeysAndValues(q, k)
      <4>1. k \in 1 .. num_computed[q] + plan[q] /\ Slot(r, i) = Slot(q, k)
        BY <1>2, <2>1, <3>1, <3>2
      <4> QED BY <3>1, <4>1, SameSlot
    <3> QED BY <2>1, <3>3, <3>4
  <2>3. CASE ~ \E q \in Req : Writes(q, b, j)
    <3>1. data'[b][j] = data[b][j]
      BY <1>1, <2>1, <2>3
    <3>2. i \in 1 .. num_computed[r]
      <4>1. i \notin Planned(r)
        BY <2>1, <2>3
      <4> QED BY <4>1, <2>1, TypesOf DEF Planned
    <3>3. CASE r \notin admitted
      <4>1. data[Slot(r, i)[1]][Slot(r, i)[2]] = KeysAndValues(r, i)
        BY <3>2, <3>3 DEF KVInv, DataInv
      <4> QED BY <4>1, <3>1, <2>1
    <3>4. CASE r \in admitted
      <4>1. c <= num_cached[r]
        BY <3>2, <3>4, TypesOf DEF Holding, c
      <4>2. pool.block_hash[b] = Hash(r, c) /\ c <= FullBlocks(r)
        <5>1. /\ num_cached[r] <= FullBlocks(r)
              /\ pool.block_hash[tables[r][c]] = IF c <= num_cached[r] THEN Hash(r, c) ELSE NoHash
          BY <2>1 DEF KVInv, PoolInv, Good, Hashed
        <5>2. c \in Int /\ num_cached[r] \in Int /\ FullBlocks(r) \in Int
          BY <2>1, TypesOf, HashesOfText
        <5> QED BY <4>1, <5>1, <5>2 DEF b
      <4>3. c \in 1 .. FullBlocks(r) /\ c \in Nat \ {0}
        BY <4>2, <2>1, HashesOfText
      <4>4. /\ Hash(r, c) # NoHash /\ Len(Hash(r, c)) = c * BlockSize /\ c * BlockSize \in Nat
            /\ \A m \in 0 .. c * BlockSize : SubSeq(Hash(r, c), 1, m) = KeysAndValues(r, m)
        BY <4>3, HashesOfText
      <4>5. ~ToBeWritten(b, j)
        BY <2>3 DEF ToBeWritten
      <4>6. data[b][j] = SubSeq(Hash(r, c), 1, Len(Hash(r, c)) - BlockSize + j)
        BY <4>2, <4>4, <4>5, <2>1 DEF KVInv, WrittenInv
      <4>7. Len(Hash(r, c)) - BlockSize + j = i /\ i \in 0 .. c * BlockSize
        <5>1. (c - 1) * BlockSize = (c * BlockSize) - BlockSize
          BY <4>3, BlockSizeType
        <5> QED BY <5>1, <4>4, <2>1, BlockSizeType
      <4>8. data[b][j] = KeysAndValues(r, i)
        BY <4>4, <4>6, <4>7
      <4> QED BY <4>8, <3>1, <2>1
    <3> QED BY <3>3, <3>4
  <2> QED BY <2>2, <2>3
<1>4. ASSUME NEW b \in Blocks, NEW j \in 1 .. BlockSize, ~ToBeWritten(b, j)
      PROVE  data'[b][j] = data[b][j]
  <2>1. ~ \E q \in Req : Writes(q, b, j)
    BY <1>4 DEF ToBeWritten
  <2> QED BY <2>1, <1>1
<1> QED BY <1>3, <1>4

LEMMA CommitKeeps == KVInv /\ Commit => KVInv'
<1> SUFFICES ASSUME KVInv, Commit PROVE KVInv'
  OBVIOUS
<1> DEFINE sampled == {r \in Req : plan[r] > 0
                         /\ num_computed'[r] = num_tokens[r] + placeholders[r]}
<1>1. /\ hand = Nothing /\ ~BetweenSteps
      /\ num_computed' = [r \in Req |-> num_computed[r] + plan[r]]
      /\ placeholders' = [r \in Req |->
           IF r \in sampled THEN placeholders[r] + 1 ELSE placeholders[r]]
      /\ batches' = Append(batches, sampled)
      /\ plan' = [r \in Req |-> 0] /\ admitted' = {} /\ preempted' = {}
      /\ UNCHANGED <<pool, tables, num_cached, status, num_tokens, hand>>
  BY DEF Commit
<1>2. sampled \in SUBSET Req
  OBVIOUS
<1>3. \A r \in Req : r \in sampled <=>
        plan[r] > 0 /\ num_computed[r] + plan[r] = num_tokens[r] + placeholders[r]
  BY <1>1
<1> HIDE DEF sampled
<1>4. batches \in Seq(SUBSET Req) /\ Len(batches) < MaxBatches
      /\ Len(batches) \in Nat /\ MaxBatches \in Nat
  BY <1>1, KVCacheAssumption DEF KVInv, TypeOK, HandInv
<1>5. ASSUME NEW r \in Req
      PROVE  /\ InFlight(r) \in 0 .. Len(batches)
             /\ InFlight(r)' = InFlight(r) + IF r \in sampled THEN 1 ELSE 0
  <2>1. /\ Cardinality(SampledIn(batches, r)) \in 0 .. Len(batches)
        /\ Cardinality(SampledIn(Append(batches, sampled), r)) =
             Cardinality(SampledIn(batches, r)) + IF r \in sampled THEN 1 ELSE 0
    <3> DEFINE q == batches
               s == sampled
    <3>1. q \in Seq(SUBSET Req) /\ s \in SUBSET Req
      BY <1>2, <1>4
    <3> HIDE DEF q, s
    <3>2. Cardinality(SampledIn(q, r)) \in 0 .. Len(q)
      BY <3>1, CountAppend
    <3>3. Cardinality(SampledIn(Append(q, s), r)) =
            Cardinality(SampledIn(q, r)) + IF r \in s THEN 1 ELSE 0
      BY <3>1, CountAppend
    <3> QED BY <3>2, <3>3 DEF q, s
  <2> QED BY <1>1, <2>1 DEF InFlight
<1>6. batches' \in Seq(SUBSET Req) /\ Len(batches') = Len(batches) + 1
  BY <1>1, <1>2, <1>4
<1>7. PoolInv'
  BY <1>1 DEF KVInv, PoolInv
<1>8. \A r \in Req : \A i : Slot(r, i)' = Slot(r, i)
  BY <1>1 DEF Slot
<1>9. DataInv'
  <2> SUFFICES ASSUME NEW r \in Req, NEW i \in 1 .. num_computed'[r]
               PROVE  data'[Slot(r, i)'[1]][Slot(r, i)'[2]] = KeysAndValues(r, i)
    BY DEF DataInv, KeysAndValues
  <2>1. i \in 1 .. num_computed[r] + plan[r]
    BY <1>1
  <2> QED BY <2>1, <1>8, CommitWrites
<1>10. WrittenInv'
  <2> SUFFICES ASSUME NEW b \in Blocks, pool.block_hash[b] # NoHash, NEW j \in 1 .. BlockSize
               PROVE  data'[b][j] = SubSeq(pool.block_hash[b], 1,
                                           Len(pool.block_hash[b]) - BlockSize + j)
    BY <1>1 DEF WrittenInv
  <2>1. CASE ~ToBeWritten(b, j)
    <3>1. data'[b][j] = data[b][j]
      BY <2>1, CommitWrites
    <3>2. data[b][j] = SubSeq(pool.block_hash[b], 1, Len(pool.block_hash[b]) - BlockSize + j)
      BY <2>1 DEF KVInv, WrittenInv
    <3> QED BY <3>1, <3>2
  <2>2. CASE ToBeWritten(b, j)
    <3>1. PICK r \in Req : \E i \in Planned(r) : Slot(r, i) = <<b, j>>
      BY <2>2 DEF ToBeWritten
    <3>2. PICK i \in Planned(r) : Slot(r, i) = <<b, j>>
      BY <3>1
    <3>3. i \in 1 .. num_computed[r] + plan[r]
      BY <3>2, TypesOf DEF Planned
    <3> DEFINE c == Ceil(i)
    <3>4. /\ i \in Nat \ {0} /\ c \in 1 .. Len(tables[r]) /\ Offset(i) \in 1 .. BlockSize
          /\ i = ((c - 1) * BlockSize) + Offset(i)
          /\ Slot(r, i) = <<tables[r][c], Offset(i)>>
      BY <3>3, SlotsOf
    <3> HIDE DEF c
    <3>5. tables[r][c] = b /\ Offset(i) = j
      BY <3>2, <3>4
    <3>6. data'[b][j] = KeysAndValues(r, i)
      <4>1. data'[Slot(r, i)[1]][Slot(r, i)[2]] = KeysAndValues(r, i)
        BY <3>3, CommitWrites
      <4> QED BY <4>1, <3>2
    <3>7. c \in 1 .. FullBlocks(r) /\ pool.block_hash[b] = Hash(r, c)
      <4>1. Good(pool, tables, num_cached)
        BY DEF KVInv, PoolInv
      <4> QED BY <4>1, <3>4, <3>5, HashOfHeld
    <3>8. /\ Len(Hash(r, c)) = c * BlockSize /\ c * BlockSize \in Nat /\ c \in Nat
          /\ \A m \in 0 .. c * BlockSize : SubSeq(Hash(r, c), 1, m) = KeysAndValues(r, m)
      BY <3>7, HashesOfText
    <3>9. Len(Hash(r, c)) - BlockSize + j = i /\ i \in 0 .. c * BlockSize
      <4>1. (c - 1) * BlockSize = (c * BlockSize) - BlockSize
        BY <3>8, BlockSizeType
      <4> QED BY <4>1, <3>4, <3>5, <3>8, BlockSizeType
    <3> QED BY <3>6, <3>7, <3>8, <3>9
  <2> QED BY <2>1, <2>2
<1>11. ASSUME NEW r \in Req
       PROVE  /\ num_computed'[r] \in Nat /\ num_computed'[r] \in 0 .. Len(Text[r])
              /\ placeholders'[r] \in 0 .. MaxBatches
              /\ Holding(r)'
  <2>1. /\ Holding(r)
        /\ num_computed[r] \in Nat /\ plan[r] \in Nat /\ num_tokens[r] \in Nat
        /\ placeholders[r] \in Nat /\ placeholders[r] \in 0 .. MaxBatches
        /\ Len(Text[r]) \in Nat
    BY TypesOf DEF KVInv, TypeOK
  <2>2. /\ num_computed'[r] = num_computed[r] + plan[r] /\ plan'[r] = 0
        /\ placeholders'[r] = IF r \in sampled THEN placeholders[r] + 1 ELSE placeholders[r]
        /\ r \notin admitted'
    BY <1>1
  <2>3. num_computed'[r] \in Nat /\ num_computed'[r] \in 0 .. Len(Text[r])
    <3>1. /\ num_computed[r] + plan[r] <= num_tokens[r] + placeholders[r]
          /\ num_tokens[r] + placeholders[r] <= Len(Text[r])
      BY <2>1 DEF Holding
    <3> QED BY <2>1, <2>2, <3>1
  <2>4. r \in sampled => /\ status[r] = "RUNNING"
                         /\ placeholders[r] = InFlight(r)
                         /\ num_tokens[r] + placeholders[r] < Len(Text[r])
    <3>1. r \in sampled => plan[r] > 0 /\ status[r] = "RUNNING"
      BY <1>3, <2>1 DEF Holding
    <3> QED BY <3>1, <1>3, <2>1 DEF Holding
  <2>5. placeholders'[r] \in 0 .. MaxBatches
    <3>1. r \in sampled => placeholders[r] + 1 <= MaxBatches
      BY <1>4, <1>5, <2>1, <2>4
    <3> QED BY <3>1, <1>4, <2>1, <2>2
  <2>6. Holding(r)'
    <3>1. status[r] # "RUNNING" => /\ tables[r] = <<>> /\ num_cached[r] = NotCached
                                   /\ num_computed[r] + plan[r] = 0
      BY <2>1 DEF Holding
    <3>2. /\ num_computed'[r] + plan'[r] = num_computed[r] + plan[r]
          /\ num_computed[r] + plan[r] <= Len(tables[r]) * BlockSize
          /\ num_cached[r] * BlockSize <= num_tokens[r]
      <4>1. num_computed'[r] + plan'[r] = num_computed[r] + plan[r]
        BY <2>1, <2>2
      <4> QED BY <4>1, <2>1 DEF Holding
    <3>3. /\ num_computed[r] + plan[r] <= num_tokens[r] + placeholders'[r]
          /\ num_tokens[r] + placeholders'[r] <= Len(Text[r])
      <4>1. /\ num_computed[r] + plan[r] <= num_tokens[r] + placeholders[r]
            /\ num_tokens[r] + placeholders[r] <= Len(Text[r])
        BY <2>1 DEF Holding
      <4> QED BY <4>1, <2>1, <2>2, <2>4
    <3>4. status[r] # "FINISHED" =>
            num_tokens[r] < Len(Text[r]) /\ placeholders'[r] = InFlight(r)'
      <4>1. status[r] # "FINISHED" =>
              num_tokens[r] < Len(Text[r]) /\ placeholders[r] = InFlight(r)
        BY <2>1 DEF Holding
      <4> QED BY <4>1, <1>5, <2>1, <2>2
    <3> QED BY <1>1, <2>2, <3>1, <3>2, <3>3, <3>4 DEF Holding
  <2> QED BY <2>3, <2>5, <2>6
<1>12. TypeOK'
  <2>1. num_computed' \in [Req -> Nat] /\ \A r \in Req : num_computed'[r] \in 0 .. Len(Text[r])
    BY <1>1, <1>11
  <2>2. placeholders' \in [Req -> 0 .. MaxBatches]
    BY <1>1, <1>11
  <2>3. plan' \in [Req -> Nat] /\ admitted' \subseteq Req /\ preempted' \subseteq Req
    BY <1>1
  <2> QED BY <1>1, <1>6, <2>1, <2>2, <2>3 DEF KVInv, TypeOK
<1>13. HandInv'
  <2>1. BetweenSteps' /\ hand' = Nothing
    BY <1>1 DEF BetweenSteps
  <2> QED BY <2>1, <1>4, <1>6 DEF HandInv
<1>14. HoldingInv'
  BY <1>11 DEF HoldingInv
<1> QED BY <1>7, <1>9, <1>10, <1>12, <1>13, <1>14 DEF KVInv

-----------------------------------------------------------------------------
(* The theorems. *)

LEMMA NextKeeps == KVInv /\ [Next]_vars => KVInv'
<1> SUFFICES ASSUME KVInv, [Next]_vars PROVE KVInv'
  OBVIOUS
<1>1. ASSUME NEW r \in Req, AddRequest(r) PROVE KVInv'
  BY <1>1, AddRequestKeeps
<1>2. ASSUME NEW r \in Req, NEW n \in Budgets, ScheduleRunning(r, Smaller(n, Uncomputed(r)))
      PROVE  KVInv'
  BY <1>2, ScheduleRunningKeeps
<1>3. ASSUME NEW r \in Req, NEW n \in Budgets, LookUp(r, n) PROVE KVInv'
  BY <1>3, LookUpKeeps
<1>4. ASSUME NEW r \in Req, Preempt(r) PROVE KVInv'
  BY <1>4, PreemptKeeps
<1>5. ASSUME NEW r \in Req, NEW stop \in BOOLEAN, UpdateFromOutput(r, stop) PROVE KVInv'
  BY <1>5, UpdateFromOutputKeeps
<1>6. ASSUME NEW r \in Req, Abort(r) PROVE KVInv'
  BY <1>6, AbortKeeps
<1>7. CASE UNCHANGED vars
  <2>1. UNCHANGED <<pool, tables, num_cached, status, num_tokens, num_computed, placeholders,
                    plan, admitted, preempted, hand, batches, data>>
    BY <1>7 DEF vars, requestVars, stepVars
  <2>2. PoolInv' /\ WrittenInv' /\ DataInv'
    BY <2>1, SameCache
  <2>3. TypeOK' /\ HandInv'
    BY <2>1 DEF KVInv, TypeOK, HandInv, HandComputed, BetweenSteps
  <2>4. HoldingInv'
    <3> SUFFICES ASSUME NEW q \in Req PROVE Holding(q)'
      BY DEF HoldingInv
    <3>1. InFlight(q)' = InFlight(q)
      BY <2>1 DEF InFlight
    <3> QED BY <2>1, <3>1, HoldingFrame
  <2> QED BY <2>2, <2>3, <2>4 DEF KVInv
<1> QED BY <1>1, <1>2, <1>3, <1>4, <1>5, <1>6, <1>7, ScheduleWaitingKeeps, GiveUpAllocationKeeps,
           CommitKeeps, EmptyOutputKeeps, ResetPrefixCacheKeeps DEF Next

\* The inductive invariant holds: blocks, hashes, counts of tokens and what is in
\* the slots fit together after every step of the scheduler and of the cache.
THEOREM Invariant == Spec => []KVInv
<1>1. Init => KVInv
  BY InitEstablishes
<1>2. KVInv /\ [Next]_vars => KVInv'
  BY NextKeeps
<1> QED BY <1>1, <1>2, PTL DEF Spec

\* Types, and the ranges of what the scheduler counts: no more tokens are known
\* or computed than the request has, and no more placeholders are kept than there
\* are batches in flight.
THEOREM TypeCorrect == Spec => []TypeOK
<1>1. KVInv => TypeOK
  BY DEF KVInv
<1> QED BY <1>1, Invariant, PTL

\* allocate_slots, free and the touching of hits keep the reference counts and
\* the queue of free blocks exact: no block leaks, and none is handed out twice.
THEOREM RefCounts == Spec => []RefCountsAreExact
BY InvImpliesRefCounts, Invariant, PTL

\* cache_full_blocks and _maybe_evict_cached_block keep the map of hashes and the
\* hashes of the blocks in agreement, and no hash runs ahead of the known tokens.
THEOREM Hashing == Spec => []HashesAreExact
BY InvImpliesHashes, Invariant, PTL

\* Blocks are given back from the last to the first and evicted in that order, so
\* find_longest_cache_hit may stop at the first miss.
THEOREM Chains == Spec => []ChainsAreUnbroken
BY InvImpliesChains, Invariant, PTL

\* What get_num_common_prefix_blocks counts by reference counts alone are the
\* first blocks of every request of the step.
THEOREM CommonPrefix == Spec => []CommonPrefixIsShared
BY InvImpliesCommonPrefix, Invariant, PTL

\* What a request has computed stays, or it is given up or admitted anew.
LEMMA StepGrows ==
  ASSUME KVInv, [Next]_vars, NEW r \in Req
  PROVE  \/ r \in admitted'
         \/ num_computed'[r] = 0
         \/ /\ r \notin admitted
            /\ num_computed'[r] >= num_computed[r]
         \/ /\ r \in admitted
            /\ num_computed'[r] >= 0
<1>1. num_computed \in [Req -> Nat] /\ \A q \in Req : num_computed[q] \in Nat /\ plan[q] \in Nat
  BY TypesOf DEF KVInv, TypeOK
<1>2. ASSUME num_computed' = num_computed
      PROVE  num_computed'[r] >= num_computed[r] /\ num_computed'[r] >= 0
  BY <1>1, <1>2
<1>3. ASSUME NEW q \in Req, num_computed' = [num_computed EXCEPT ![q] = 0]
      PROVE  \/ num_computed'[r] = 0
             \/ num_computed'[r] >= num_computed[r] /\ num_computed'[r] >= 0
  BY <1>1, <1>3
<1>4. CASE UNCHANGED vars
  BY <1>2, <1>4 DEF vars, requestVars
<1>5. ASSUME NEW q \in Req, AddRequest(q) PROVE num_computed' = num_computed
  BY <1>5 DEF AddRequest
<1>6. ASSUME NEW q \in Req, NEW n \in Budgets,
             LookUp(q, n) \/ ScheduleRunning(q, Smaller(n, Uncomputed(q)))
      PROVE num_computed' = num_computed
  BY <1>6 DEF LookUp, ScheduleRunning, requestVars
<1>7. ASSUME NEW q \in Req, Preempt(q) \/ Abort(q)
      PROVE num_computed' = [num_computed EXCEPT ![q] = 0]
  BY <1>7 DEF Preempt, Abort
<1>8. ASSUME NEW q \in Req, NEW stop \in BOOLEAN, UpdateFromOutput(q, stop)
      PROVE  \/ num_computed' = num_computed
             \/ num_computed' = [num_computed EXCEPT ![q] = 0]
  BY <1>8 DEF UpdateFromOutput, requestVars
<1>9. CASE ScheduleWaiting
  <2>1. /\ num_computed' = [num_computed EXCEPT ![hand.request] = HandComputed]
        /\ admitted' = admitted \union {hand.request}
    BY <1>9 DEF ScheduleWaiting
  <2>2. CASE r = hand.request
    BY <2>1, <2>2
  <2>3. CASE r # hand.request
    BY <2>1, <2>3, <1>1
  <2> QED BY <2>2, <2>3
<1>10. CASE GiveUpAllocation \/ EmptyOutput \/ ResetPrefixCache
  BY <1>2, <1>10 DEF GiveUpAllocation, EmptyOutput, ResetPrefixCache, requestVars
<1>11. CASE Commit
  <2>1. num_computed'[r] = num_computed[r] + plan[r]
    BY <1>11 DEF Commit
  <2> QED BY <2>1, <1>1
<1>12. CASE Next
  <2>1. CASE \E q \in Req : AddRequest(q)
    BY <2>1, <1>2, <1>5
  <2>2. CASE \E q \in Req : \E n \in Budgets :
               ScheduleRunning(q, Smaller(n, Uncomputed(q))) \/ LookUp(q, n)
    BY <2>2, <1>2, <1>6
  <2>3. CASE \E q \in Req : Preempt(q) \/ Abort(q)
    BY <2>3, <1>3, <1>7
  <2>4. CASE \E q \in Req : \E stop \in BOOLEAN : UpdateFromOutput(q, stop)
    BY <2>4, <1>2, <1>3, <1>8
  <2> QED BY <1>12, <2>1, <2>2, <2>3, <2>4, <1>9, <1>10, <1>11 DEF Next
<1> QED BY <1>4, <1>12

\* Every step of the paged and shared cache is a step of the private ones: what
\* is visible of a request grows, or is given up at once.
LEMMA StepIsPrivate ==
  ASSUME KVInv, KVInv', [Next]_vars
  PROVE  P!Next
<1> SUFFICES ASSUME NEW r \in Req PROVE P!Grows(r) \/ P!GivenUp(r)
  BY DEF P!Next
<1> DEFINE kv == [q \in Req |-> Visible(q)]
<1>1. kv[r] = Visible(r) /\ kv'[r] = Visible(r)'
  OBVIOUS
<1>2. Visible(r) = IF r \in admitted THEN <<>> ELSE P!OfItsFirst(r, num_computed[r])
  BY VisibleIs
<1>3. Visible(r)' = IF r \in admitted' THEN <<>> ELSE P!OfItsFirst(r, num_computed'[r])
  <2>1. r \notin admitted' =>
          \A i \in 1 .. num_computed'[r] :
            data'[Slot(r, i)'[1]][Slot(r, i)'[2]] = P!KeysAndValues(r, i)
    BY DEF KVInv, DataInv, KeysAndValues, P!KeysAndValues
  <2> QED BY <2>1 DEF Visible, P!OfItsFirst
<1>4. /\ num_computed[r] \in Nat /\ num_computed'[r] \in 0 .. Len(Text[r])
      /\ Len(Text[r]) \in Nat
  BY HashesOfText DEF KVInv, TypeOK
<1>5. Len(kv[r]) \in 0 .. num_computed[r] /\ (r \in admitted => Len(kv[r]) = 0)
  <2>1. \A n \in Nat : Len(P!OfItsFirst(r, n)) = n
    BY DEF P!OfItsFirst
  <2>2. CASE r \in admitted
    BY <2>2, <1>1, <1>2, <1>4
  <2>3. CASE r \notin admitted
    BY <2>1, <2>3, <1>1, <1>2, <1>4
  <2> QED BY <2>2, <2>3
<1> HIDE DEF kv
<1>6. CASE r \in admitted' \/ num_computed'[r] = 0
  <2>1. P!OfItsFirst(r, 0) = <<>>
    BY DEF P!OfItsFirst
  <2>2. kv'[r] = <<>>
    BY <2>1, <1>1, <1>3, <1>6
  <2> QED BY <2>2 DEF P!GivenUp, kv
<1>7. CASE r \notin admitted' /\ num_computed'[r] # 0
  <2>1. kv'[r] = P!OfItsFirst(r, num_computed'[r])
    BY <1>1, <1>3, <1>7
  <2>2. Len(kv[r]) <= num_computed'[r]
    BY <1>4, <1>5, <1>7, StepGrows
  <2>3. num_computed'[r] \in Len(kv[r]) .. Len(Text[r])
    BY <2>2, <1>4, <1>5
  <2> QED BY <2>1, <2>3 DEF P!Grows, kv
<1> QED BY <1>6, <1>7

\* Paging, sharing, eviction, preemption and late writing do not show: the block
\* tables implement a cache of its own for each request.
THEOREM LooksPrivate == Spec => LookPrivate
<1>1. Init => P!Init
  <2> SUFFICES ASSUME Init PROVE P!Init
    OBVIOUS
  <2>1. \A r \in Req : Visible(r) = <<>>
    BY DEF Init, Visible
  <2> QED BY <2>1 DEF P!Init
<1>2. KVInv /\ KVInv' /\ [Next]_vars => P!Next
  BY StepIsPrivate
<1> QED BY <1>1, <1>2, Invariant, PTL DEF Spec, LookPrivate, P!Spec
=============================================================================
