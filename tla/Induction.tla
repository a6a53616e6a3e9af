------------------------------- MODULE Induction -------------------------------
(***************************************************************************)
(* Induction and recursion over an interval of numbers, stated of sets and *)
(* of functions, and lists, selected and sorted: what the proofs about     *)
(* plans, packages and walks rest on.                                      *)
(***************************************************************************)
EXTENDS Naturals, Sequences, SequencesExt, FiniteSetsExt, ListOps, FiniteSetTheorems, SequenceTheorems, WellFoundedInduction, TLAPS

\* Every set of naturals that is not empty has a least element.
LEMMA LeastElement ==
    ASSUME NEW T \in SUBSET Nat, T # {}
    PROVE  \E m \in T : \A n \in T : m <= n
<1>1. PICK m \in T : \A n \in T : ~(<<n, m>> \in OpToRel(<, Nat))
  BY NatLessThanWellFounded, WFMin
<1>2. \A n \in T : ~(n < m)
  BY <1>1, Zenon DEF OpToRel
<1> QED
  BY <1>2

\* Some naturals, all below a bound, have a greatest.
LEMMA GreatestElement ==
    ASSUME NEW N \in Nat, NEW T \in SUBSET (1 .. N), T # {}
    PROVE  Max(T) \in T /\ \A n \in T : n <= Max(T)
<1> DEFINE U == {N - n : n \in T}
<1>1. U \in SUBSET Nat /\ U # {}
  <2>1. \A n \in T : N - n \in Nat
    OBVIOUS
  <2> QED
    BY <2>1
<1>7. \A n \in T : N - n \in U
  OBVIOUS
<1>8. \A m \in U : \E n \in T : m = N - n
  OBVIOUS
<1> HIDE DEF U
<1>2. PICK m \in U : \A n \in U : m <= n
  BY <1>1, LeastElement
<1>3. N - m \in T /\ \A n \in T : n <= N - m
  <2>1. PICK k \in T : m = N - k
    BY <1>8
  <2>2. N - m = k
    BY <2>1
  <2>3. ASSUME NEW n \in T PROVE n <= k
    <3>1. N - k <= N - n
      BY <1>2, <1>7, <2>1
    <3> QED
      BY <3>1
  <2> QED
    BY <2>2, <2>3
<1>4. \E x \in T : \A y \in T : x >= y
  BY <1>3
<1>5. Max(T) \in T /\ \A n \in T : Max(T) >= n
  BY <1>4 DEF Max
<1> QED
  BY <1>5

\* Induction: what holds at N follows from what holds below it.
LEMMA UpTo ==
    ASSUME NEW N \in Nat, NEW P \in SUBSET (0 .. N),
           \A n \in 0 .. N : (\A m \in 0 .. n - 1 : m \in P) => n \in P
    PROVE  P = 0 .. N
<1> DEFINE T == (0 .. N) \ P
<1> SUFFICES ASSUME T # {} PROVE FALSE
  OBVIOUS
<1>1. T \in SUBSET Nat
  OBVIOUS
<1>2. \E n \in T : \A m \in T : n <= m
  <2> HIDE DEF T
  <2> QED
    BY <1>1, LeastElement
<1>3. PICK n \in T : \A m \in T : n <= m
  BY <1>2
<1>4. \A m \in 0 .. n - 1 : m \in P
  BY <1>3
<1> QED
  BY <1>3, <1>4

\* The values of f follow from each other by a step, from the base on.
Determined(f, N, base, step) == f[0] = base /\ \A n \in 1 .. N : f[n] = step[<<n, f[n - 1]>>]

\* Recursion: the values of a function are determined one after the other.
LEMMA Recursion ==
    ASSUME NEW N \in Nat, NEW S, NEW base \in S, NEW step \in [(1 .. N) \X S -> S]
    PROVE  \E f \in [0 .. N -> S] : Determined(f, N, base, step)
<1> DEFINE Is(f, M) == f \in [0 .. M -> S] /\ f[0] = base /\ \A n \in 1 .. M : f[n] = step[<<n, f[n - 1]>>]
           P == {M \in 0 .. N : \E f : Is(f, M)}
<1>1. ASSUME NEW n \in 0 .. N, \A m \in 0 .. n - 1 : m \in P
      PROVE  n \in P
  <2>1. CASE n = 0
    <3>1. Is([m \in 0 .. 0 |-> base], 0)
      OBVIOUS
    <3> QED
      BY <2>1, <3>1
  <2>2. CASE n > 0
    <3>1. PICK g : Is(g, n - 1)
      BY <1>1, <2>2
    <3> DEFINE f == [m \in 0 .. n |-> IF m < n THEN g[m] ELSE step[<<n, g[n - 1]>>]]
    <3>2. step[<<n, g[n - 1]>>] \in S
      BY <2>2, <3>1
    <3>3. f \in [0 .. n -> S] /\ f[0] = base
      BY <2>2, <3>1, <3>2
    <3>4. ASSUME NEW m \in 1 .. n PROVE f[m] = step[<<m, f[m - 1]>>]
      <4>1. f[m - 1] = g[m - 1]
        OBVIOUS
      <4>2. CASE m < n
        <5>1. f[m] = g[m] /\ m \in 1 .. n - 1
          BY <4>2
        <5>2. g[m] = step[<<m, g[m - 1]>>]
          BY <3>1, <5>1
        <5> HIDE DEF f
        <5> QED
          BY <4>1, <5>1, <5>2
      <4>3. CASE m = n
        <5>1. f[m] = step[<<n, g[n - 1]>>]
          BY <4>3
        <5> HIDE DEF f
        <5> QED
          BY <4>1, <4>3, <5>1
      <4> QED
        BY <4>2, <4>3
    <3>5. Is(f, n)
      BY <3>3, <3>4
    <3> QED
      BY <3>5
  <2> QED
    BY <2>1, <2>2
<1> HIDE DEF Is
<1>2. P = 0 .. N
  BY <1>1, UpTo
<1> QED
  BY <1>2 DEF Is, Determined

-----------------------------------------------------------------------------
\* Lists: sequences without repetition.

\* The sequence lists a set, each element once.
Lists(s, S) == s \in Seq(S) /\ IsInjective(s) /\ ToSet(s) = S

LEMMA ListFacts ==
    ASSUME NEW S, NEW s, Lists(s, S)
    PROVE  /\ s \in Seq(S) /\ Len(s) \in Nat /\ DOMAIN s = 1 .. Len(s)
           /\ \A i \in 1 .. Len(s) : s[i] \in S
           /\ \A i, j \in 1 .. Len(s) : s[i] = s[j] => i = j
           /\ \A k \in S : \E i \in 1 .. Len(s) : s[i] = k
  BY DEF Lists, IsInjective, ToSet

\* A sequence is a list when each of its places holds another element of the set.
LEMMA ListOf ==
    ASSUME NEW S, NEW s \in Seq(S),
           \A i, j \in 1 .. Len(s) : s[i] = s[j] => i = j,
           \A k \in S : \E i \in 1 .. Len(s) : s[i] = k
    PROVE  Lists(s, S)
<1>1. DOMAIN s = 1 .. Len(s) /\ \A i \in 1 .. Len(s) : s[i] \in S
  OBVIOUS
<1> QED
  BY <1>1 DEF Lists, IsInjective, ToSet

LEMMA EmptyLists == Lists(<<>>, {})
  BY DEF Lists, IsInjective, ToSet

LEMMA AppendLists ==
    ASSUME NEW S, NEW s, Lists(s, S), NEW k, k \notin S
    PROVE  Lists(Append(s, k), S \cup {k})
<1> DEFINE z == Append(s, k)
<1>1. s \in Seq(S \cup {k}) /\ Len(s) \in Nat
  BY SeqMonotonic DEF Lists
<1>2. z \in Seq(S \cup {k}) /\ Len(z) = Len(s) + 1 /\ z[Len(s) + 1] = k
      /\ \A i \in 1 .. Len(s) : z[i] = s[i]
  BY <1>1
<1>3. \A i \in 1 .. Len(s) : s[i] \in S
  BY DEF Lists
<1> HIDE DEF z
<1>4. IsInjective(z)
  BY <1>1, <1>2, <1>3 DEF IsInjective, Lists
<1>5. ToSet(z) = S \cup {k}
  <2>1. \A x \in S : \E i \in 1 .. Len(s) : s[i] = x
    BY <1>1 DEF Lists, ToSet
  <2> QED
    BY <1>1, <1>2, <1>3, <2>1 DEF ToSet
<1>6. Lists(z, S \cup {k})
  BY <1>2, <1>4, <1>5 DEF Lists
<1> QED
  BY <1>6 DEF z

LEMMA SeqOfItsElements ==
    ASSUME NEW T, NEW s \in Seq(T)
    PROVE  s \in Seq(ToSet(s))
<1>1. Len(s) \in Nat /\ s \in [1 .. Len(s) -> T]
  OBVIOUS
<1>2. s \in [1 .. Len(s) -> ToSet(s)]
  BY <1>1 DEF ToSet
<1> QED
  BY <1>1, <1>2, SeqDef

\* A list is as long as the set is large.
LEMMA ListsAreAsLong == ASSUME NEW S, NEW s, Lists(s, S) PROVE IsFiniteSet(S) /\ Len(s) = Cardinality(S)
<1> DEFINE N == Len(s)
<1>1. N \in Nat /\ DOMAIN s = 1 .. N /\ s \in [1 .. N -> S]
  BY ListFacts
<1> HIDE DEF N
<1>2. s \in Bijection(1 .. N, S)
  BY <1>1, ListFacts DEF Bijection, Injection, Surjection, Lists, IsInjective, ToSet
<1>3. IsFiniteSet(1 .. N) /\ Cardinality(1 .. N) = N
  <2>1. 1 \in Int /\ N \in Int
    BY <1>1
  <2>2. Cardinality(1 .. N) = IF 1 > N THEN 0 ELSE N - 1 + 1
    BY <2>1, FS_Interval
  <2> QED
    BY <1>1, <2>1, <2>2, FS_Interval
<1>4. IsFiniteSet(S) /\ Cardinality(S) = Cardinality(1 .. N)
  <2>1. ExistsBijection(1 .. N, S)
    BY <1>2 DEF ExistsBijection
  <2> QED
    BY <1>3, <2>1, FS_Bijection
<1> QED
  BY <1>3, <1>4 DEF N

\* What a list selects of another, from its beginning on.
Selects(only, list, set) ==
    /\ only[0] = <<>>
    /\ \A n \in 1 .. Len(list) : only[n] = IF list[n] \in set THEN Append(only[n - 1], list[n]) ELSE only[n - 1]

LEMMA OnlyAlong ==
    ASSUME NEW K, NEW list \in Seq(K), NEW set
    PROVE  \E only : Selects(only, list, set) /\ Only(list, set) = only[Len(list)]
<1> DEFINE N == Len(list)
           Is(f) == f = [n \in 0 .. N |-> IF n = 0 THEN <<>>
                                       ELSE IF list[n] \in set THEN Append(f[n - 1], list[n]) ELSE f[n - 1]]
           only == CHOOSE f : Is(f)
<1>1. N \in Nat /\ \A i \in 1 .. N : list[i] \in K
  OBVIOUS
<1>2. Is(only)
  <2> DEFINE step == [x \in (1 .. N) \X Seq(K) |->
                        IF list[x[1]] \in set THEN Append(x[2], list[x[1]]) ELSE x[2]]
  <2>1. step \in [(1 .. N) \X Seq(K) -> Seq(K)]
    BY <1>1
  <2>2. \A n \in 1 .. N, s \in Seq(K) :
           step[<<n, s>>] = IF list[n] \in set THEN Append(s, list[n]) ELSE s
    BY <1>1
  <2> HIDE DEF step
  <2>3. PICK f \in [0 .. N -> Seq(K)] : f[0] = <<>> /\ \A n \in 1 .. N : f[n] = step[<<n, f[n - 1]>>]
    <3>1. <<>> \in Seq(K) /\ N \in Nat
      BY <1>1
    <3> DEFINE S == Seq(K)
               base == <<>>
    <3>2. base \in S /\ step \in [(1 .. N) \X S -> S]
      BY <2>1, <3>1
    <3> HIDE DEF N, S, base
    <3>3. \E f \in [0 .. N -> S] : Determined(f, N, base, step)
      BY <3>1, <3>2, Recursion
    <3> QED
      BY <3>3 DEF S, base, Determined
  <2>4. ASSUME NEW n \in 0 .. N
        PROVE  f[n] = IF n = 0 THEN <<>>
                      ELSE IF list[n] \in set THEN Append(f[n - 1], list[n]) ELSE f[n - 1]
    <3>1. CASE n = 0
      BY <2>3, <3>1
    <3>2. CASE n # 0
      <4>1. n \in 1 .. N /\ n - 1 \in 0 .. N
        BY <1>1, <3>2
      <4>2. f[n - 1] \in Seq(K)
        BY <2>3, <4>1
      <4> QED
        BY <2>2, <2>3, <3>2, <4>1, <4>2
    <3> QED
      BY <3>1, <3>2
  <2>5. Is(f)
    BY <2>4
  <2> HIDE DEF Is
  <2> QED
    BY <2>5
<1>3. Only(list, set) = only[N]
  BY DEF Only
<1>4. Selects(only, list, set)
  <2>1. \A n \in 0 .. N : only[n] = IF n = 0 THEN <<>>
             ELSE IF list[n] \in set THEN Append(only[n - 1], list[n]) ELSE only[n - 1]
    <3>1. ASSUME NEW f, Is(f), NEW n \in 0 .. N
          PROVE  f[n] = IF n = 0 THEN <<>> ELSE IF list[n] \in set THEN Append(f[n - 1], list[n]) ELSE f[n - 1]
      BY <3>1
    <3> HIDE DEF Is, only
    <3> QED
      BY <1>2, <3>1
  <2> HIDE DEF only
  <2>2. 0 \in 0 .. N /\ \A n \in 1 .. N : n \in 0 .. N /\ n # 0
    BY <1>1
  <2> QED
    BY <2>1, <2>2 DEF Selects
<1> HIDE DEF only
<1> QED
  BY <1>3, <1>4

\* What Only lists: the elements of the sequence that are in the set, each once when
\* the sequence repeats none.
LEMMA OnlyLists ==
    ASSUME NEW K, NEW keys, Lists(keys, K), NEW set
    PROVE  Lists(Only(keys, set), K \cap set)
<1> DEFINE N == Len(keys)
           Read(n) == {keys[i] : i \in 1 .. n}
<1>1. /\ keys \in Seq(K) /\ N \in Nat
      /\ \A i \in 1 .. N : keys[i] \in K
      /\ \A i, j \in 1 .. N : keys[i] = keys[j] => i = j
      /\ \A k \in K : \E i \in 1 .. N : keys[i] = k
  BY ListFacts
<1>2. PICK only : Selects(only, keys, set) /\ Only(keys, set) = only[N]
  BY <1>1, OnlyAlong
<1>3. Only(keys, set) = only[N]
  BY <1>2
<1>4. only[0] = <<>> /\ \A n \in 1 .. N :
        only[n] = IF keys[n] \in set THEN Append(only[n - 1], keys[n]) ELSE only[n - 1]
  BY <1>2 DEF Selects
<1> DEFINE P == {n \in 0 .. N : Lists(only[n], Read(n) \cap set)}
<1>5. ASSUME NEW n \in 0 .. N, \A m \in 0 .. n - 1 : m \in P
      PROVE  n \in P
  <2>1. CASE n = 0
    <3>1. Read(n) \cap set = {}
      BY <2>1
    <3> QED
      BY <1>4, <2>1, <3>1, EmptyLists
  <2>2. CASE n # 0
    <3>1. n \in 1 .. N /\ n - 1 \in 0 .. n - 1
      BY <1>1, <2>2
    <3>2. Lists(only[n - 1], Read(n - 1) \cap set)
      BY <1>5, <3>1
    <3>3. Read(n) = Read(n - 1) \cup {keys[n]}
      <4>1. \A i : i \in 1 .. n <=> (i \in 1 .. n - 1 \/ i = n)
        BY <3>1
      <4> QED
        BY <4>1
    <3>4. keys[n] \notin Read(n - 1)
      <4>1. \A i \in 1 .. n - 1 : i \in 1 .. N /\ i # n
        BY <1>1
      <4> QED
        BY <1>1, <3>1, <4>1
    <3> HIDE DEF Read
    <3>5. CASE keys[n] \in set
      <4>1. only[n] = Append(only[n - 1], keys[n])
        BY <1>4, <3>1, <3>5
      <4>2. Read(n) \cap set = (Read(n - 1) \cap set) \cup {keys[n]}
        BY <3>3, <3>5
      <4>3. Lists(only[n], Read(n) \cap set)
        BY <3>2, <3>4, <4>1, <4>2, AppendLists
      <4> QED
        BY <4>3
    <3>6. CASE keys[n] \notin set
      <4>1. only[n] = only[n - 1] /\ Read(n) \cap set = Read(n - 1) \cap set
        BY <1>4, <3>1, <3>3, <3>6
      <4> QED
        BY <3>2, <4>1
    <3> QED
      BY <3>5, <3>6
  <2> QED
    BY <2>1, <2>2
<1>6. N \in P
  <2> HIDE DEF P
  <2>1. P = 0 .. N
    <3>1. P \in SUBSET (0 .. N)
      BY DEF P
    <3> QED
      BY <1>1, <1>5, <3>1, UpTo
  <2> QED
    BY <1>1, <2>1
<1>7. Read(N) = K
  BY <1>1
<1> QED
  BY <1>3, <1>6, <1>7

-----------------------------------------------------------------------------
\* Sorting.

\* A list of S, from its beginning on: each element is in the rest and is one that no
\* other of the rest is before.
FirstOf(rest, before) == CHOOSE x \in rest : \A y \in rest : <<y, x>> \notin before
Sorts(sorted, S, before) ==
    /\ sorted[0] = <<>>
    /\ \A n \in 1 .. Cardinality(S) :
          sorted[n] = Append(sorted[n - 1], FirstOf(S \ ToSet(sorted[n - 1]), before))

\* Whatever is before what, a first of a set is a member of it, in every set but {}.
WellSorted(S, before) == \A T \in SUBSET S : T # {} => \E x \in T : \A y \in T : <<y, x>> \notin before

LEMMA SortedAlong ==
    ASSUME NEW S, IsFiniteSet(S), NEW before, WellSorted(S, before)
    PROVE  \E sorted : Sorts(sorted, S, before) /\ Sorted(S, before) = sorted[Cardinality(S)]
<1> DEFINE N == Cardinality(S)
           Is(f) == f = [n \in 0 .. N |-> IF n = 0 THEN <<>>
                                          ELSE Append(f[n - 1], FirstOf(S \ ToSet(f[n - 1]), before))]
           sorted == CHOOSE f : Is(f)
           Big == S \cup {FirstOf({}, before)}
<1>1. N \in Nat
  BY FS_CardinalityType
<1>5. \A T \in SUBSET S : FirstOf(T, before) \in Big
  <2> TAKE T \in SUBSET S
  <2>1. CASE T = {}
    BY <2>1
  <2>2. CASE T # {}
    <3>1. \E x \in T : \A y \in T : <<y, x>> \notin before
      BY <2>2 DEF WellSorted
    <3>2. FirstOf(T, before) \in T
      BY <3>1 DEF FirstOf
    <3> QED
      BY <3>2
  <2> QED
    BY <2>1, <2>2
<1> HIDE DEF N, Big
<1>2. Is(sorted)
  <2> DEFINE Next(s) == Append(s, FirstOf(S \ ToSet(s), before))
             step == [x \in (1 .. N) \X Seq(Big) |-> Next(x[2])]
  <2>0. \A s \in Seq(Big) : Next(s) \in Seq(Big)
    <3> TAKE s \in Seq(Big)
    <3>1. FirstOf(S \ ToSet(s), before) \in Big
      BY <1>5
    <3> QED
      BY <3>1
  <2> HIDE DEF Next
  <2>1. step \in [(1 .. N) \X Seq(Big) -> Seq(Big)]
    BY <2>0
  <2>2. \A n \in 1 .. N, s \in Seq(Big) : step[<<n, s>>] = Next(s)
    OBVIOUS
  <2> HIDE DEF step
  <2>3. PICK f \in [0 .. N -> Seq(Big)] : f[0] = <<>> /\ \A n \in 1 .. N : f[n] = step[<<n, f[n - 1]>>]
    <3> DEFINE T == Seq(Big)
               base == <<>>
    <3>2. base \in T /\ step \in [(1 .. N) \X T -> T]
      BY <2>1
    <3> HIDE DEF T, base
    <3>3. \E f \in [0 .. N -> T] : Determined(f, N, base, step)
      BY <1>1, <3>2, Recursion
    <3> QED
      BY <3>3 DEF T, base, Determined
  <2>4. ASSUME NEW n \in 0 .. N
        PROVE  f[n] = IF n = 0 THEN <<>> ELSE Next(f[n - 1])
    <3>1. CASE n = 0
      BY <2>3, <3>1
    <3>2. CASE n # 0
      <4>1. n \in 1 .. N /\ n - 1 \in 0 .. N
        BY <1>1, <3>2
      <4>2. f[n - 1] \in Seq(Big)
        BY <2>3, <4>1
      <4>3. f[n] = step[<<n, f[n - 1]>>]
        BY <2>3, <4>1
      <4>4. f[n] = Next(f[n - 1])
        BY <2>2, <4>1, <4>2, <4>3
      <4> QED
        BY <3>2, <4>4
    <3> QED
      BY <3>1, <3>2
  <2>6. f = [n \in 0 .. N |-> f[n]]
    BY <2>3
  <2>5. Is(f)
    <3>1. [n \in 0 .. N |-> f[n]] = [n \in 0 .. N |-> IF n = 0 THEN <<>> ELSE Next(f[n - 1])]
      BY <2>4
    <3>2. f = [n \in 0 .. N |-> IF n = 0 THEN <<>> ELSE Next(f[n - 1])]
      BY <2>6, <3>1
    <3> QED
      BY <3>2 DEF Next
  <2> HIDE DEF Is
  <2> QED
    BY <2>5
<1>3. Sorted(S, before) = sorted[N]
  BY DEF Sorted, FirstOf, ToSet, N
<1>4. Sorts(sorted, S, before)
  <2>1. \A n \in 0 .. N : sorted[n] = IF n = 0 THEN <<>> ELSE Append(sorted[n - 1], FirstOf(S \ ToSet(sorted[n - 1]), before))
    <3>1. ASSUME NEW f, Is(f), NEW n \in 0 .. N
          PROVE  f[n] = IF n = 0 THEN <<>> ELSE Append(f[n - 1], FirstOf(S \ ToSet(f[n - 1]), before))
      BY <3>1
    <3> HIDE DEF Is, sorted
    <3> QED
      BY <1>2, <3>1
  <2> HIDE DEF sorted
  <2>2. 0 \in 0 .. N /\ \A n \in 1 .. N : n \in 0 .. N /\ n # 0
    BY <1>1
  <2> QED
    BY <2>1, <2>2 DEF Sorts, N
<1> HIDE DEF sorted
<1> QED
  BY <1>3, <1>4 DEF N

\* How far a sorted list is sorted: what is listed is in order, and no other element is
\* before any of it.
Ranked(list, n, S, before) ==
    /\ list \in Seq(S) /\ Len(list) = n /\ IsInjective(list)
    /\ \A i, j \in 1 .. n : i < j => <<list[j], list[i]>> \notin before
    /\ \A i \in 1 .. n : \A y \in S \ ToSet(list) : <<y, list[i]>> \notin before

\* A sorted list has every element of the set once, and each after what is before it.
LEMMA SortedLists ==
    ASSUME NEW S, IsFiniteSet(S), NEW before, WellSorted(S, before)
    PROVE  /\ Lists(Sorted(S, before), S)
           /\ \A i, j \in 1 .. Len(Sorted(S, before)) : i < j => <<Sorted(S, before)[j], Sorted(S, before)[i]>> \notin before
<1> DEFINE N == Cardinality(S)
<1>1. N \in Nat
  BY FS_CardinalityType
<1>2. PICK sorted : Sorts(sorted, S, before) /\ Sorted(S, before) = sorted[N]
  BY SortedAlong
<1>0. \A n \in 1 .. N : sorted[n] = Append(sorted[n - 1], FirstOf(S \ ToSet(sorted[n - 1]), before))
  BY <1>2 DEF Sorts
<1>9. sorted[0] = <<>>
  BY <1>2 DEF Sorts
<1> DEFINE P == {n \in 0 .. N : Ranked(sorted[n], n, S, before)}
<1> HIDE DEF N
<1>3. ASSUME NEW n \in 0 .. N, \A m \in 0 .. n - 1 : m \in P
      PROVE  n \in P
  <2>1. CASE n = 0
    <3>1. Ranked(<<>>, 0, S, before)
      BY DEF Ranked, IsInjective
    <3> QED
      BY <1>9, <2>1, <3>1
  <2>2. CASE n # 0
    <3> DEFINE list == sorted[n - 1]
               x == FirstOf(S \ ToSet(list), before)
    <3>1. n \in 1 .. N /\ n - 1 \in 0 .. N /\ n \in Nat /\ n - 1 \in 0 .. n - 1
      BY <1>1, <2>2
    <3>2. Ranked(list, n - 1, S, before)
      BY <1>3, <3>1
    <3>3. sorted[n] = Append(list, x)
      BY <1>0, <3>1
    <3> HIDE DEF list
    <3>4. DOMAIN list = 1 .. n - 1 /\ list \in [1 .. n - 1 -> S] /\ ToSet(list) \subseteq S
      BY <3>1, <3>2 DEF Ranked, ToSet
    <3>5. S \ ToSet(list) # {}
      <4> SUFFICES ASSUME S \subseteq ToSet(list) PROVE FALSE
        OBVIOUS
      <4>1. list \in Surjection(1 .. n - 1, S)
        BY <3>4 DEF Surjection, ToSet
      <4>2. IsFiniteSet(1 .. n - 1) /\ Cardinality(1 .. n - 1) = n - 1
        <5>1. 1 \in Int /\ n - 1 \in Int
          BY <3>1
        <5>2. Cardinality(1 .. n - 1) = IF 1 > n - 1 THEN 0 ELSE (n - 1) - 1 + 1
          BY <5>1, FS_Interval
        <5>3. IsFiniteSet(1 .. n - 1)
          BY <5>1, FS_Interval
        <5> QED
          BY <3>1, <5>2, <5>3
      <4>3. Cardinality(S) <= Cardinality(1 .. n - 1)
        BY <4>1, <4>2, FS_Surjection
      <4> QED
        BY <1>1, <3>1, <4>2, <4>3 DEF N
    <3>6. x \in S \ ToSet(list) /\ \A y \in S \ ToSet(list) : <<y, x>> \notin before
      <4>1. \E z \in S \ ToSet(list) : \A y \in S \ ToSet(list) : <<y, z>> \notin before
        BY <3>5 DEF WellSorted
      <4> QED
        BY <4>1 DEF FirstOf
    <3> HIDE DEF x
    <3> DEFINE longer == Append(list, x)
    <3>7. /\ longer \in Seq(S) /\ Len(longer) = n /\ DOMAIN longer = 1 .. n
          /\ \A i \in 1 .. n - 1 : longer[i] = list[i]
          /\ longer[n] = x
      BY <3>1, <3>2, <3>6 DEF Ranked
    <3>8. ToSet(longer) = ToSet(list) \cup {x}
      <4>1. ASSUME NEW v PROVE v \in ToSet(longer) <=> v \in ToSet(list) \cup {x}
        <5>1. v \in ToSet(longer) <=> \E i \in 1 .. n : longer[i] = v
          BY <3>7 DEF ToSet
        <5>2. v \in ToSet(list) <=> \E i \in 1 .. n - 1 : list[i] = v
          BY <3>4 DEF ToSet
        <5>3. \A i \in 1 .. n : i = n \/ i \in 1 .. n - 1
          BY <3>1
        <5>4. n \in 1 .. n /\ \A i \in 1 .. n - 1 : i \in 1 .. n
          BY <3>1
        <5> HIDE DEF longer
        <5> QED
          BY <3>7, <5>1, <5>2, <5>3, <5>4
      <4> QED
        BY <4>1
    <3> HIDE DEF longer
    <3>10. \A i \in 1 .. n - 1 : list[i] \in ToSet(list)
      BY <3>4 DEF ToSet
    <3>11. \A i \in 1 .. n : i = n \/ i \in 1 .. n - 1
      BY <3>1
    <3>12. IsInjective(longer)
      <4> SUFFICES ASSUME NEW i \in 1 .. n, NEW j \in 1 .. n, longer[i] = longer[j] PROVE i = j
        BY <3>7 DEF IsInjective
      <4>1. CASE i \in 1 .. n - 1 /\ j \in 1 .. n - 1
        <5>1. list[i] = list[j]
          BY <3>7, <4>1
        <5> QED
          BY <3>2, <3>4, <4>1, <5>1 DEF Ranked, IsInjective
      <4>2. CASE i = n /\ j \in 1 .. n - 1
        BY <3>6, <3>7, <3>10, <4>2
      <4>3. CASE j = n /\ i \in 1 .. n - 1
        BY <3>6, <3>7, <3>10, <4>3
      <4> QED
        BY <3>11, <4>1, <4>2, <4>3
    <3>13. ASSUME NEW i \in 1 .. n, NEW j \in 1 .. n, i < j
           PROVE  <<longer[j], longer[i]>> \notin before
      <4>1. i \in 1 .. n - 1
        BY <3>1, <3>13
      <4>2. CASE j = n
        BY <3>2, <3>6, <3>7, <4>1, <4>2 DEF Ranked
      <4>3. CASE j \in 1 .. n - 1
        BY <3>2, <3>7, <3>13, <4>1, <4>3 DEF Ranked
      <4> QED
        BY <3>11, <4>2, <4>3
    <3>14. ASSUME NEW i \in 1 .. n, NEW y \in S \ ToSet(longer)
           PROVE  <<y, longer[i]>> \notin before
      <4>1. y \in S \ ToSet(list)
        BY <3>8
      <4>2. CASE i = n
        BY <3>6, <3>7, <4>1, <4>2
      <4>3. CASE i \in 1 .. n - 1
        BY <3>2, <3>7, <4>1, <4>3 DEF Ranked
      <4> QED
        BY <3>11, <4>2, <4>3
    <3>15. Ranked(longer, n, S, before)
      BY <3>7, <3>12, <3>13, <3>14 DEF Ranked
    <3> QED
      BY <3>3, <3>15 DEF longer
  <2> QED
    BY <2>1, <2>2
<1>4. P = 0 .. N
  <2> HIDE DEF P
  <2>1. P \in SUBSET (0 .. N)
    BY DEF P
  <2> QED
    BY <1>1, <1>3, <2>1, UpTo
<1> DEFINE list == sorted[N]
<1>5. Ranked(list, N, S, before)
  <2>1. N \in P
    BY <1>1, <1>4
  <2> QED
    BY <2>1
<1> HIDE DEF list, P
<1>6. list \in Injection(1 .. N, S)
  BY <1>5 DEF Ranked, Injection, IsInjective
<1>7. IsFiniteSet(1 .. N) /\ Cardinality(1 .. N) = N
  <2>1. 1 \in Int /\ N \in Int
    BY <1>1
  <2>2. Cardinality(1 .. N) = IF 1 > N THEN 0 ELSE N - 1 + 1
    BY <2>1, FS_Interval
  <2> QED
    BY <1>1, <2>1, <2>2, FS_Interval
<1>8. list \in Surjection(1 .. N, S)
  BY <1>6, <1>7, FS_Injection DEF N
<1>10. DOMAIN list = 1 .. N /\ \A x \in S : \E i \in 1 .. N : list[i] = x
  BY <1>5, <1>8 DEF Surjection, Ranked
<1>11. \A v : v \in ToSet(list) <=> v \in S
  BY <1>5, <1>10 DEF ToSet, Ranked
<1>12. list = Sorted(S, before)
  BY <1>2 DEF list
<1> QED
  BY <1>5, <1>11, <1>12 DEF Ranked, Lists

=============================================================================
