------------------------------ MODULE SetLemmas ------------------------------
(***************************************************************************)
(* Lemmas about the operators of the community modules that the models are *)
(* built from: the least and the greatest of a set of numbers, the         *)
(* sequence of the elements of a finite set, and folds.                    *)
(***************************************************************************)
EXTENDS Integers, Sequences, SequencesExt, FiniteSets, FiniteSetsExt, Functions,
        FiniteSetTheorems, TLAPS

\* A set of natural numbers that is not empty has a least element.
LEMMA LeastExists ==
    ASSUME NEW S \in SUBSET Nat, S # {}
    PROVE  \E x \in S : \A y \in S : x <= y
<1> DEFINE Below(n) == 0 .. n
<1> DEFINE T == {Below(n) : n \in S}
<1>1. IsWellFoundedOn(StrictSubsetOrdering(Nat), FiniteSubsetsOf(Nat))
  BY FS_StrictSubsetOrderingWellFounded
<1>2. T \subseteq FiniteSubsetsOf(Nat) /\ T # {}
  <2>1. ASSUME NEW n \in S
        PROVE  Below(n) \in SUBSET Nat /\ IsFiniteSet(Below(n))
    BY FS_Interval, n \in Nat
  <2> QED
    BY <2>1 DEF FiniteSubsetsOf
<1>3. PICK b \in T : \A c \in T : <<c, b>> \notin StrictSubsetOrdering(Nat)
  <2> HIDE DEF T
  <2> QED
    BY <1>1, <1>2, WFMin
<1>4. PICK x \in S : b = Below(x)
  OBVIOUS
<1>5. ASSUME NEW y \in S, y < x
      PROVE  FALSE
  <2>1. Below(y) \in SUBSET Nat /\ Below(x) \in SUBSET Nat
    BY x \in Nat, y \in Nat
  <2>2. Below(y) \subseteq Below(x) /\ x \in Below(x) /\ x \notin Below(y)
    BY <1>5, x \in Nat, y \in Nat
  <2>3. <<Below(y), b>> \in StrictSubsetOrdering(Nat)
    BY <1>4, <2>1, <2>2 DEF StrictSubsetOrdering
  <2> QED
    BY <1>3, <2>3
<1> QED
  BY <1>5

\* Min is what its name says.
LEMMA MinIsLeast ==
    ASSUME NEW S \in SUBSET Nat, S # {}
    PROVE  Min(S) \in S /\ \A y \in S : Min(S) <= y
BY LeastExists DEF Min

\* The least and the greatest of two integers.
LEMMA MinOfTwo ==
    ASSUME NEW a \in Int, NEW b \in Int
    PROVE  Min({a, b}) \in Int /\ Min({a, b}) <= a /\ Min({a, b}) <= b
                /\ Min({a, b}) \in {a, b}
<1> DEFINE m == IF a <= b THEN a ELSE b
<1>1. m \in {a, b} /\ \A y \in {a, b} : m <= y
  OBVIOUS
<1> QED
  BY <1>1 DEF Min

LEMMA MaxOfTwo ==
    ASSUME NEW a \in Int, NEW b \in Int
    PROVE  Max({a, b}) \in Int /\ Max({a, b}) >= a /\ Max({a, b}) >= b
                /\ Max({a, b}) \in {a, b}
<1> DEFINE m == IF a >= b THEN a ELSE b
<1>1. m \in {a, b} /\ \A y \in {a, b} : m >= y
  OBVIOUS
<1> QED
  BY <1>1 DEF Max

\* A set of natural numbers that has a bound has a greatest element: Max.
LEMMA MaxIsGreatest ==
    ASSUME NEW n \in Nat, NEW S \in SUBSET (0 .. n), S # {}
    PROVE  Max(S) \in S /\ \A y \in S : Max(S) >= y
<1> DEFINE T == {n - x : x \in S}
<1>1. T \in SUBSET Nat /\ T # {}
  <2>1. ASSUME NEW x \in S
        PROVE  n - x \in Nat
    <3>1. x \in 0 .. n
      OBVIOUS
    <3> QED
      BY <3>1
  <2>2. T # {}
    OBVIOUS
  <2> QED
    BY <2>1, <2>2
<1>2. PICK t \in T : \A u \in T : t <= u
  <2> HIDE DEF T
  <2> QED
    BY <1>1, LeastExists
<1>3. PICK x \in S : t = n - x
  OBVIOUS
<1>4. \A y \in S : x >= y
  BY <1>2, <1>3
<1> QED
  BY <1>3, <1>4 DEF Max

\* SetToSeq lists a finite set, each element once.
LEMMA SetToSeqLists ==
    ASSUME NEW S, IsFiniteSet(S)
    PROVE  /\ SetToSeq(S) \in Seq(S)
           /\ Len(SetToSeq(S)) = Cardinality(S)
           /\ ToSet(SetToSeq(S)) = S
           /\ \A i, j \in DOMAIN SetToSeq(S) : SetToSeq(S)[i] = SetToSeq(S)[j] => i = j
<1> DEFINE D == 1 .. Cardinality(S)
<1>1. Cardinality(S) \in Nat
  BY FS_CardinalityType
<1>2. PICK g : g \in Bijection(D, S)
  BY FS_CardinalityType DEF ExistsBijection
<1>3. g \in [D -> S] /\ IsInjective(g)
  BY <1>2 DEF Bijection, Injection, IsInjective
<1>4. SetToSeq(S) \in [D -> S] /\ IsInjective(SetToSeq(S))
  BY <1>3 DEF SetToSeq
<1>5. SetToSeq(S) \in Injection(D, S)
  BY <1>4 DEF Injection, IsInjective
<1>6. IsFiniteSet(D) /\ Cardinality(D) = Cardinality(S)
  BY <1>1, FS_Interval
<1>7. SetToSeq(S) \in Surjection(D, S)
  BY <1>5, <1>6, FS_Injection
<1> QED
  BY <1>1, <1>4, <1>7 DEF Surjection, ToSet, IsInjective

\* The elements of a sequence are its first one and those of the rest.
LEMMA ToSetOfTail ==
    ASSUME NEW S, NEW s \in Seq(S), s # <<>>
    PROVE  /\ ToSet(s) = {Head(s)} \cup ToSet(Tail(s)) /\ Tail(s) \in Seq(S)
           /\ Head(s) \in S /\ Head(s) \in ToSet(s)
           /\ Len(Tail(s)) = Len(s) - 1
           /\ \A i \in DOMAIN Tail(s) : i + 1 \in DOMAIN s /\ Tail(s)[i] = s[i + 1]
           /\ \/ Len(s) > 1 /\ Tail(s) # <<>>
              \/ Len(s) = 1 /\ ~(Len(s) > 1) /\ ToSet(s) = {Head(s)}
<1> DEFINE n == Len(s)
           t == Tail(s)
<1>1. /\ n \in Nat /\ n >= 1 /\ DOMAIN s = 1 .. n /\ Head(s) = s[1] /\ s[1] \in S
      /\ t \in Seq(S) /\ Len(t) = n - 1 /\ DOMAIN t = 1 .. n - 1
      /\ \A i \in 1 .. n - 1 : t[i] = s[i + 1]
  OBVIOUS
<1> HIDE DEF n, t
<1>2. \A i \in 1 .. n : i = 1 \/ \E k \in 1 .. n - 1 : i = k + 1
  <2> SUFFICES ASSUME NEW i \in 1 .. n, i # 1
               PROVE  \E k \in 1 .. n - 1 : i = k + 1
    OBVIOUS
  <2>1. i - 1 \in 1 .. n - 1 /\ i = (i - 1) + 1
    BY <1>1
  <2> QED
    BY <2>1
<1>3. \A k \in 1 .. n - 1 : k + 1 \in 1 .. n
  BY <1>1
<1>4. 1 \in 1 .. n
  BY <1>1
<1>5. ToSet(s) = {Head(s)} \cup ToSet(t)
  <2>1. ToSet(s) = {s[i] : i \in 1 .. n} /\ ToSet(t) = {t[i] : i \in 1 .. n - 1}
    BY <1>1 DEF ToSet
  <2>2. ASSUME NEW i \in 1 .. n
        PROVE  s[i] = s[1] \/ \E k \in 1 .. n - 1 : s[i] = t[k]
    BY <1>1, <1>2
  <2>3. ASSUME NEW k \in 1 .. n - 1
        PROVE  \E i \in 1 .. n : t[k] = s[i]
    BY <1>1, <1>3
  <2> QED
    BY <1>1, <1>4, <2>1, <2>2, <2>3
<1>6. \/ n > 1 /\ t # <<>>
      \/ n = 1 /\ ~(n > 1) /\ ToSet(s) = {Head(s)}
  <2>1. CASE n > 1
    <3>1. Len(t) # 0
      BY <1>1, <2>1
    <3>2. Len(<<>>) = 0
      OBVIOUS
    <3> QED
      BY <2>1, <3>1, <3>2
  <2>2. CASE n = 1
    <3>1. DOMAIN s = {1}
      BY <1>1, <2>2
    <3> QED
      BY <1>1, <2>2, <3>1 DEF ToSet
  <2> QED
    BY <1>1, <2>1, <2>2
<1> QED
  BY <1>1, <1>3, <1>4, <1>5, <1>6 DEF n, t, ToSet

LEMMA ToSetOfAppend ==
    ASSUME NEW S, NEW s \in Seq(S), NEW x \in S
    PROVE  ToSet(Append(s, x)) = ToSet(s) \cup {x}
<1> DEFINE n == Len(s)
           t == Append(s, x)
<1>1. /\ n \in Nat /\ DOMAIN s = 1 .. n /\ DOMAIN t = 1 .. n + 1 /\ t[n + 1] = x
      /\ \A i \in 1 .. n : t[i] = s[i]
  OBVIOUS
<1> HIDE DEF n, t
<1>2. \A i \in 1 .. n + 1 : i \in 1 .. n \/ i = n + 1
  BY <1>1
<1>3. n + 1 \in 1 .. n + 1 /\ \A i \in 1 .. n : i \in 1 .. n + 1
  BY <1>1
<1>4. ToSet(t) = ToSet(s) \cup {x}
  BY <1>1, <1>2, <1>3 DEF ToSet
<1> QED
  BY <1>4 DEF t

LEMMA ToSetOfCons ==
    ASSUME NEW S, NEW s \in Seq(S), NEW x \in S
    PROVE  /\ <<x>> \o s \in Seq(S) /\ <<x>> \o s # <<>>
           /\ ToSet(<<x>> \o s) = {x} \cup ToSet(s)
<1> DEFINE n == Len(s)
           t == <<x>> \o s
<1>1. /\ n \in Nat /\ DOMAIN s = 1 .. n /\ t \in Seq(S) /\ Len(t) = n + 1
      /\ DOMAIN t = 1 .. n + 1 /\ t[1] = x
      /\ \A i \in 2 .. n + 1 : t[i] = s[i - 1]
  OBVIOUS
<1> HIDE DEF n, t
<1>2. \A i \in 1 .. n : t[i + 1] = s[i]
  <2> SUFFICES ASSUME NEW i \in 1 .. n
               PROVE  t[i + 1] = s[i]
    OBVIOUS
  <2>1. i + 1 \in 2 .. n + 1 /\ (i + 1) - 1 = i
    BY <1>1
  <2> QED
    BY <1>1, <2>1
<1>3. \A i \in 1 .. n + 1 : i = 1 \/ \E k \in 1 .. n : i = k + 1
  <2> SUFFICES ASSUME NEW i \in 1 .. n + 1, i # 1
               PROVE  \E k \in 1 .. n : i = k + 1
    OBVIOUS
  <2>1. i - 1 \in 1 .. n /\ i = (i - 1) + 1
    BY <1>1
  <2> QED
    BY <2>1
<1>4. 1 \in 1 .. n + 1 /\ \A k \in 1 .. n : k + 1 \in 1 .. n + 1
  BY <1>1
<1>5. ToSet(t) = {x} \cup ToSet(s)
  <2>1. ToSet(t) = {t[i] : i \in 1 .. n + 1} /\ ToSet(s) = {s[i] : i \in 1 .. n}
    BY <1>1 DEF ToSet
  <2>2. \A i \in 1 .. n + 1 : t[i] = x \/ \E k \in 1 .. n : t[i] = s[k]
    BY <1>1, <1>2, <1>3
  <2>3. \A k \in 1 .. n : \E i \in 1 .. n + 1 : s[k] = t[i]
    BY <1>2, <1>4
  <2> QED
    BY <1>1, <1>4, <2>1, <2>2, <2>3
<1>6. t # <<>>
  <2>1. Len(t) # 0 /\ Len(<<>>) = 0
    BY <1>1
  <2> QED
    BY <2>1
<1> QED
  BY <1>1, <1>5, <1>6 DEF t

LEMMA ElementsOfSeq ==
    ASSUME NEW S, NEW s \in Seq(S)
    PROVE  ToSet(s) \subseteq S /\ \A i \in DOMAIN s : s[i] \in S
BY DEF ToSet

-----------------------------------------------------------------------------
(* Concatenations *)

\* The elements of two sequences put together are those of both.
LEMMA ElementsOfConcat ==
    ASSUME NEW S, NEW s \in Seq(S), NEW t \in Seq(S)
    PROVE  /\ s \o t \in Seq(S) /\ Len(s \o t) = Len(s) + Len(t)
           /\ \A i \in DOMAIN s : (s \o t)[i] = s[i] /\ i \in DOMAIN (s \o t)
           /\ ToSet(s \o t) = ToSet(s) \cup ToSet(t)
<1> DEFINE u == s \o t
           m == Len(s)
           n == Len(t)
<1>1. /\ m \in Nat /\ n \in Nat /\ u \in Seq(S) /\ Len(u) = m + n
      /\ DOMAIN s = 1 .. m /\ DOMAIN t = 1 .. n /\ DOMAIN u = 1 .. m + n
      /\ \A i \in 1 .. m : u[i] = s[i]
      /\ \A i \in m + 1 .. m + n : u[i] = t[i - m]
  OBVIOUS
<1> HIDE DEF u, m, n
<1>2. \A i \in 1 .. m : i \in 1 .. m + n
  BY <1>1
<1>3. \A i \in 1 .. m + n : i \in 1 .. m \/ (i \in m + 1 .. m + n /\ i - m \in 1 .. n)
  BY <1>1
<1>4. \A j \in 1 .. n : j + m \in m + 1 .. m + n /\ j + m \in 1 .. m + n /\ (j + m) - m = j
  BY <1>1
<1>5. ToSet(u) = ToSet(s) \cup ToSet(t)
  <2>1. ToSet(u) = {u[i] : i \in 1 .. m + n} /\ ToSet(s) = {s[i] : i \in 1 .. m}
        /\ ToSet(t) = {t[i] : i \in 1 .. n}
    BY <1>1 DEF ToSet
  <2>2. \A i \in 1 .. m + n : u[i] \in ToSet(s) \cup ToSet(t)
    BY <1>1, <1>3, <2>1
  <2>3. \A i \in 1 .. m : s[i] \in ToSet(u)
    BY <1>1, <1>2, <2>1
  <2>4. \A j \in 1 .. n : t[j] \in ToSet(u)
    BY <1>1, <1>4, <2>1
  <2> QED
    BY <2>1, <2>2, <2>3, <2>4
<1> QED
  BY <1>1, <1>2, <1>5 DEF u, m, n

\* FlattenSeq is defined by a recursive function; there is one.
IsFlatten(f, k, s) ==
    f = [i \in 1 .. k |-> IF i = 1 THEN s[i] ELSE f[i - 1] \o s[i]]

LEMMA FlattenExists ==
    ASSUME NEW S, NEW s \in Seq(Seq(S))
    PROVE  \E f \in [1 .. Len(s) -> Seq(S)] : IsFlatten(f, Len(s), s)
<1> DEFINE n == Len(s)
           Upto(k) == \E f \in [1 .. k -> Seq(S)] : IsFlatten(f, k, s)
           Without == {k \in 0 .. n : ~Upto(k)}
<1>1. n \in Nat /\ \A i \in 1 .. n : s[i] \in Seq(S)
  OBVIOUS
<1> SUFFICES ASSUME ~Upto(n)
             PROVE  FALSE
  OBVIOUS
<1> HIDE DEF Upto, n
<1>2. PICK k \in Without : \A y \in Without : k <= y
  <2>1. Without \in SUBSET Nat /\ n \in Without
    BY <1>1
  <2> HIDE DEF Without
  <2> QED
    BY <2>1, LeastExists
<1>3. k \in 0 .. n /\ k \in Nat /\ ~Upto(k)
  BY <1>1
<1>4. k # 0
  <2>1. SUFFICES ASSUME k = 0
                 PROVE  FALSE
    OBVIOUS
  <2> DEFINE f == [i \in 1 .. k |-> s[i]]
  <2>2. \A i \in 1 .. k : FALSE
    BY <2>1
  <2>3. f \in [1 .. k -> Seq(S)] /\ IsFlatten(f, k, s)
    BY <2>2 DEF IsFlatten
  <2> QED
    BY <1>3, <2>3 DEF Upto
<1>5. k - 1 \in Nat /\ Upto(k - 1)
  <2>1. k - 1 \in 0 .. n /\ ~(k <= k - 1)
    BY <1>1, <1>3, <1>4
  <2> QED
    BY <1>2, <2>1
<1>6. PICK g \in [1 .. k - 1 -> Seq(S)] : IsFlatten(g, k - 1, s)
  BY <1>5 DEF Upto
<1> DEFINE f == [i \in 1 .. k |->
                   IF i = k THEN IF k = 1 THEN s[k] ELSE g[k - 1] \o s[k] ELSE g[i]]
<1>7. /\ \A i \in 1 .. k : i # k => i \in 1 .. k - 1
      /\ \A i \in 1 .. k - 1 : i # k /\ i \in 1 .. k
      /\ \A i \in 1 .. k : i # 1 => i - 1 \in 1 .. k - 1
      /\ k \in 1 .. k /\ k \in 1 .. n
  BY <1>1, <1>3, <1>4
<1>8. f \in [1 .. k -> Seq(S)]
  <2>1. k # 1 => g[k - 1] \o s[k] \in Seq(S)
    BY <1>1, <1>7
  <2> QED
    BY <1>1, <1>7, <2>1
<1>9. ASSUME NEW i \in 1 .. k
      PROVE  f[i] = IF i = 1 THEN s[i] ELSE f[i - 1] \o s[i]
  <2>1. i # 1 => f[i - 1] = g[i - 1]
    BY <1>7
  <2>2. CASE i = k
    BY <2>1, <2>2
  <2>3. CASE i # k
    <3>1. f[i] = g[i] /\ i \in 1 .. k - 1
      BY <1>7, <2>3
    <3>2. g[i] = IF i = 1 THEN s[i] ELSE g[i - 1] \o s[i]
      BY <1>6, <3>1 DEF IsFlatten
    <3> QED
      BY <2>1, <3>1, <3>2
  <2> QED
    BY <2>2, <2>3
<1>10. IsFlatten(f, k, s)
  <2>1. f = [i \in 1 .. k |-> f[i]]
    OBVIOUS
  <2> HIDE DEF f
  <2> QED
    BY <1>9, <2>1 DEF IsFlatten
<1> QED
  BY <1>3, <1>8, <1>10 DEF Upto

\* The elements of the flattened sequence are those of its sequences.
LEMMA ElementsOfFlatten ==
    ASSUME NEW S, NEW s \in Seq(Seq(S))
    PROVE  /\ FlattenSeq(s) \in Seq(S)
           /\ ToSet(FlattenSeq(s)) = UNION {ToSet(s[i]) : i \in DOMAIN s}
<1> DEFINE n == Len(s)
           flatten == CHOOSE flatten :
                         flatten = [i \in 1 .. n |-> IF i = 1 THEN s[i] ELSE flatten[i - 1] \o s[i]]
<1>1. n \in Nat /\ DOMAIN s = 1 .. n /\ \A i \in 1 .. n : s[i] \in Seq(S)
  OBVIOUS
<1>2. FlattenSeq(s) = IF n = 0 THEN s ELSE flatten[n]
  BY Zenon DEF FlattenSeq
<1>3. IsFlatten(flatten, n, s)
  <2>1. flatten = CHOOSE f : IsFlatten(f, n, s)
    BY Zenon DEF IsFlatten
  <2>2. \E f : IsFlatten(f, n, s)
    BY FlattenExists
  <2> HIDE DEF flatten, n
  <2> QED
    BY <2>1, <2>2
<1> HIDE DEF flatten, n
<1>4. \A i \in 1 .. n : flatten[i] = IF i = 1 THEN s[i] ELSE flatten[i - 1] \o s[i]
  BY <1>3 DEF IsFlatten
<1> DEFINE Good(i) == /\ flatten[i] \in Seq(S)
                      /\ ToSet(flatten[i]) = UNION {ToSet(s[j]) : j \in 1 .. i}
           Bad == {i \in 1 .. n : ~Good(i)}
<1>5. Bad = {}
  <2>1. SUFFICES ASSUME Bad # {}
                 PROVE  FALSE
    OBVIOUS
  <2>2. PICK k \in Bad : \A y \in Bad : k <= y
    <3>1. Bad \in SUBSET Nat
      BY <1>1
    <3> HIDE DEF Bad
    <3> QED
      BY <2>1, <3>1, LeastExists
  <2>3. k \in 1 .. n /\ k \in Nat /\ ~Good(k)
    BY <1>1
  <2>4. CASE k = 1
    <3>1. flatten[k] = s[1] /\ s[1] \in Seq(S)
      BY <1>1, <1>4, <2>3, <2>4
    <3>2. 1 .. k = {1}
      BY <2>4
    <3>3. UNION {ToSet(s[j]) : j \in {1}} = ToSet(s[1])
      OBVIOUS
    <3> QED
      BY <2>3, <3>1, <3>2, <3>3
  <2>5. CASE k # 1
    <3>1. k - 1 \in 1 .. n /\ ~(k <= k - 1)
      BY <1>1, <2>3, <2>5
    <3>2. Good(k - 1)
      BY <2>2, <3>1
    <3>3. flatten[k] = flatten[k - 1] \o s[k] /\ s[k] \in Seq(S)
      BY <1>1, <1>4, <2>3, <2>5
    <3>4. flatten[k] \in Seq(S) /\ ToSet(flatten[k]) = ToSet(flatten[k - 1]) \cup ToSet(s[k])
      BY <3>2, <3>3, ElementsOfConcat
    <3>5. 1 .. k = (1 .. k - 1) \cup {k}
      BY <2>3, <2>5
    <3>6. UNION {ToSet(s[j]) : j \in (1 .. k - 1) \cup {k}}
            = (UNION {ToSet(s[j]) : j \in 1 .. k - 1}) \cup ToSet(s[k])
      BY Zenon
    <3> QED
      BY <2>3, <3>2, <3>4, <3>5, <3>6
  <2> QED
    BY <2>4, <2>5
<1>6. CASE n = 0
  <2>1. s = <<>> /\ DOMAIN s = {}
    BY <1>1, <1>6 DEF n
  <2>2. ToSet(s) = {} /\ {ToSet(s[i]) : i \in DOMAIN s} = {}
    BY <2>1 DEF ToSet
  <2>3. FlattenSeq(s) = s /\ s \in Seq(S)
    BY <1>2, <1>6, <2>1
  <2> QED
    BY <2>2, <2>3
<1>7. CASE n # 0
  <2>1. n \in 1 .. n
    BY <1>1, <1>7
  <2>2. Good(n)
    BY <1>5, <2>1
  <2> QED
    BY <1>1, <1>2, <1>7, <2>2
<1> QED
  BY <1>6, <1>7

-----------------------------------------------------------------------------
(* The folds over sequences are recursive functions on the sets of positions, *)
(* that take the last position off.                                           *)

\* The last position of a set of positions, and what is left without it.
LEMMA LastPosition ==
    ASSUME NEW n \in Nat, NEW T \in SUBSET (1 .. n), T # {}
    PROVE  /\ Max(T) \in T /\ Max(T) \in 1 .. n
           /\ T \ {Max(T)} \in SUBSET (1 .. Max(T) - 1)
           /\ T \ {Max(T)} \in SUBSET (1 .. n)
<1>1. T \in SUBSET (0 .. n)
  OBVIOUS
<1>2. Max(T) \in T /\ \A y \in T : Max(T) >= y
  BY <1>1, MaxIsGreatest
<1>3. ASSUME NEW y \in T \ {Max(T)}
      PROVE  y \in 1 .. Max(T) - 1
  <2>1. y \in 1 .. n /\ Max(T) \in 1 .. n /\ y # Max(T) /\ y <= Max(T)
    BY <1>2, <1>3
  <2> QED
    BY <2>1
<1> QED
  BY <1>2, <1>3

\* The values of such a function stay where a step leads.
LEMMA FoldStays ==
    ASSUME NEW n \in Nat, NEW G, NEW f, f[{}] \in G,
           \A T \in SUBSET (1 .. n) : T # {} /\ f[T \ {Max(T)}] \in G => f[T] \in G
    PROVE  \A T \in SUBSET (1 .. n) : f[T] \in G
<1> DEFINE Bad == {k \in 0 .. n : \E T \in SUBSET (1 .. k) : f[T] \notin G}
<1> SUFFICES ASSUME NEW B \in SUBSET (1 .. n), f[B] \notin G
             PROVE  FALSE
  OBVIOUS
<1>1. Bad \in SUBSET Nat /\ n \in Bad
  OBVIOUS
<1>2. PICK k \in Bad : \A y \in Bad : k <= y
  <2> HIDE DEF Bad
  <2> QED
    BY <1>1, LeastExists
<1>3. k \in 0 .. n
  OBVIOUS
<1>4. PICK T \in SUBSET (1 .. k) : f[T] \notin G
  OBVIOUS
<1>5. T \in SUBSET (1 .. n) /\ T # {}
  <2>1. ASSUME NEW y \in T
        PROVE  y \in 1 .. n
    <3>1. y \in 1 .. k
      OBVIOUS
    <3> QED
      BY <1>3, <3>1
  <2> QED
    BY <1>4, <2>1
<1>6. f[T \ {Max(T)}] \notin G
  BY <1>4, <1>5
<1>7. Max(T) \in 1 .. k /\ T \ {Max(T)} \in SUBSET (1 .. Max(T) - 1)
  BY <1>3, <1>5, LastPosition
<1>8. Max(T) - 1 \in Bad
  BY <1>3, <1>6, <1>7
<1>9. k <= Max(T) - 1
  BY <1>2, <1>8
<1> QED
  BY <1>3, <1>7, <1>9

\* There is such a function, for any step from a value at a position.
FoldOf(f, n, base, F) ==
    \A T \in SUBSET (1 .. n) :
       f[T] = IF T = {} THEN base ELSE F[<<f[T \ {Max(T)}], Max(T)>>]

LEMMA FoldExists ==
    ASSUME NEW n \in Nat, NEW G, NEW base \in G, NEW F \in [G \X (1 .. n) -> G]
    PROVE  \E f \in [SUBSET (1 .. n) -> G] : FoldOf(f, n, base, F)
<1> DEFINE Is(f, k) == \A T \in SUBSET (1 .. k) :
                          f[T] = IF T = {} THEN base ELSE F[<<f[T \ {Max(T)}], Max(T)>>]
           Upto(k) == \E f \in [SUBSET (1 .. k) -> G] : Is(f, k)
           Without == {k \in 0 .. n : ~Upto(k)}
<1> SUFFICES ASSUME ~Upto(n)
             PROVE  FALSE
  BY DEF FoldOf
<1> HIDE DEF Upto
<1>1. PICK k \in Without : \A y \in Without : k <= y
  <2>1. Without \in SUBSET Nat /\ n \in Without
    OBVIOUS
  <2> HIDE DEF Without
  <2> QED
    BY <2>1, LeastExists
<1>2. k \in 0 .. n /\ ~Upto(k)
  OBVIOUS
<1>3. k # 0
  <2>1. SUFFICES ASSUME k = 0
                 PROVE  FALSE
    OBVIOUS
  <2> DEFINE f == [T \in SUBSET (1 .. k) |-> base]
  <2>2. f \in [SUBSET (1 .. k) -> G]
    OBVIOUS
  <2>3. \A T \in SUBSET (1 .. k) : T = {}
    BY <2>1
  <2>4. Is(f, k)
    BY <2>3
  <2> QED
    BY <1>2, <2>2, <2>4 DEF Upto
<1>4. k - 1 \in 0 .. n /\ k - 1 \notin Without
  <2>1. k - 1 \in 0 .. n /\ ~(k <= k - 1)
    BY <1>2, <1>3
  <2> QED
    BY <1>1, <2>1
<1>5. PICK g \in [SUBSET (1 .. k - 1) -> G] : Is(g, k - 1)
  BY <1>4 DEF Upto
<1> DEFINE f == [T \in SUBSET (1 .. k) |-> IF k \in T THEN F[<<g[T \ {k}], k>>] ELSE g[T]]
<1>6. ASSUME NEW T \in SUBSET (1 .. k)
      PROVE  /\ k \in T => T \ {k} \in SUBSET (1 .. k - 1) /\ Max(T) = k
             /\ k \notin T => T \in SUBSET (1 .. k - 1)
  <2>1. k \in Nat
    BY <1>2
  <2>2. ASSUME NEW y \in T, y # k
        PROVE  y \in 1 .. k - 1
    BY <2>1, <2>2
  <2>3. k \in T => Max(T) = k
    <3>1. SUFFICES ASSUME k \in T
                   PROVE  Max(T) = k
      OBVIOUS
    <3>2. Max(T) \in T /\ k \notin T \ {k}
      BY <2>1, <3>1, LastPosition
    <3>3. T \ {Max(T)} \in SUBSET (1 .. Max(T) - 1) /\ Max(T) \in 1 .. k
      BY <2>1, <3>1, LastPosition
    <3> QED
      BY <2>1, <3>1, <3>3
  <2> QED
    BY <2>2, <2>3
<1>7. f \in [SUBSET (1 .. k) -> G]
  <2>1. ASSUME NEW T \in SUBSET (1 .. k)
        PROVE  f[T] \in G
    <3>1. CASE k \in T
      <4>1. g[T \ {k}] \in G /\ k \in 1 .. n
        BY <1>2, <1>3, <1>6, <3>1
      <4> QED
        BY <3>1, <4>1
    <3>2. CASE k \notin T
      BY <1>6, <3>2
    <3> QED
      BY <3>1, <3>2
  <2> QED
    BY <2>1
<1>8. ASSUME NEW T \in SUBSET (1 .. k)
      PROVE  f[T] = IF T = {} THEN base ELSE F[<<f[T \ {Max(T)}], Max(T)>>]
  <2>1. CASE k \in T
    <3>1. Max(T) = k /\ T \ {k} \in SUBSET (1 .. k) /\ k \notin T \ {k}
      BY <1>6, <2>1
    <3>2. f[T \ {k}] = g[T \ {k}]
      BY <3>1
    <3> QED
      BY <2>1, <3>1, <3>2
  <2>2. CASE k \notin T /\ T # {}
    <3>1. T \in SUBSET (1 .. k - 1) /\ k - 1 \in Nat
      BY <1>2, <1>3, <1>6, <2>2
    <3>2. T \ {Max(T)} \in SUBSET (1 .. k) /\ k \notin T \ {Max(T)}
      BY <2>2
    <3>3. f[T] = g[T] /\ f[T \ {Max(T)}] = g[T \ {Max(T)}]
      BY <2>2, <3>2
    <3>4. g[T] = F[<<g[T \ {Max(T)}], Max(T)>>]
      BY <1>5, <2>2, <3>1
    <3> QED
      BY <2>2, <3>3, <3>4
  <2>3. CASE T = {}
    <3>1. {} \in SUBSET (1 .. k - 1) /\ k \notin {}
      OBVIOUS
    <3>2. g[{}] = base
      BY <1>5, <3>1
    <3> QED
      BY <2>3, <3>1, <3>2
  <2> QED
    BY <2>1, <2>2, <2>3
<1> HIDE DEF f
<1> QED
  BY <1>2, <1>7, <1>8 DEF Upto
=============================================================================
