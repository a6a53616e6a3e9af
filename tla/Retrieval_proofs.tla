---------------------------- MODULE Retrieval_proofs ----------------------------
(***************************************************************************)
(* A request for metadata of an org, proved for any request, any sizes of  *)
(* chunks, any number of broken components and of faults: every key is     *)
(* answered once, a few failures are tolerated, many are not, and Profiles *)
(* are read with the components they are judged by.                        *)
(***************************************************************************)
EXTENDS Retrieval, Induction, FiniteSetTheorems, FunctionTheorems, SequenceTheorems, TLAPS

-----------------------------------------------------------------------------
\* Lists of keys, put together and cut in two.

LEMMA ConcatLists ==
    ASSUME NEW S, NEW s, Lists(s, S), NEW T, NEW t, Lists(t, T), S \cap T = {}
    PROVE  Lists(s \o t, S \cup T)
<1> DEFINE z == s \o t
<1>1. s \in Seq(S \cup T) /\ t \in Seq(S \cup T) /\ Len(s) \in Nat /\ Len(t) \in Nat
  BY SeqMonotonic, ListFacts
<1>2. z \in Seq(S \cup T) /\ Len(z) = Len(s) + Len(t)
      /\ \A i \in 1 .. Len(s) + Len(t) : z[i] = IF i <= Len(s) THEN s[i] ELSE t[i - Len(s)]
  BY <1>1, ConcatProperties
<1> HIDE DEF z
<1>3. ASSUME NEW i \in 1 .. Len(s) PROVE z[i] = s[i]
  BY <1>1, <1>2
<1>4. ASSUME NEW i \in 1 .. Len(t) PROVE z[Len(s) + i] = t[i]
  <2>1. Len(s) + i \in 1 .. Len(s) + Len(t) /\ ~(Len(s) + i <= Len(s)) /\ Len(s) + i - Len(s) = i
    BY <1>1
  <2> QED
    BY <1>2, <2>1
<1>5. ASSUME NEW i \in 1 .. Len(z)
      PROVE  i \in 1 .. Len(s) \/ \E j \in 1 .. Len(t) : i = Len(s) + j
  <2>1. i \in 1 .. Len(s) \/ i - Len(s) \in 1 .. Len(t)
    BY <1>1, <1>2
  <2>2. i = Len(s) + (i - Len(s))
    BY <1>1
  <2> QED
    BY <2>1, <2>2
<1>6. ASSUME NEW i \in 1 .. Len(z), NEW j \in 1 .. Len(z), z[i] = z[j]
      PROVE  i = j
  <2>1. (\A x \in 1 .. Len(s) : s[x] \in S) /\ \A x \in 1 .. Len(t) : t[x] \in T
    BY ListFacts
  <2>2. CASE i \in 1 .. Len(s) /\ j \in 1 .. Len(s)
    <3>1. s[i] = s[j]
      BY <1>3, <1>6, <2>2
    <3> QED
      BY <2>2, <3>1, ListFacts
  <2>3. CASE i \in 1 .. Len(s) /\ \E b \in 1 .. Len(t) : j = Len(s) + b
    BY <1>3, <1>4, <1>6, <2>1, <2>3
  <2>4. CASE j \in 1 .. Len(s) /\ \E a \in 1 .. Len(t) : i = Len(s) + a
    BY <1>3, <1>4, <1>6, <2>1, <2>4
  <2>5. ASSUME NEW a \in 1 .. Len(t), NEW b \in 1 .. Len(t), i = Len(s) + a, j = Len(s) + b
        PROVE  i = j
    <3>1. t[a] = t[b]
      BY <1>4, <1>6, <2>5
    <3> QED
      BY <2>5, <3>1, ListFacts
  <2> QED
    BY <1>5, <2>2, <2>3, <2>4, <2>5
<1>7. ASSUME NEW k \in S \cup T PROVE \E i \in 1 .. Len(z) : z[i] = k
  <2>1. CASE k \in S
    <3>1. PICK i \in 1 .. Len(s) : s[i] = k
      BY <2>1, ListFacts
    <3> QED
      BY <1>1, <1>2, <1>3, <3>1
  <2>2. CASE k \in T
    <3>1. PICK i \in 1 .. Len(t) : t[i] = k
      BY <2>2, ListFacts
    <3>2. Len(s) + i \in 1 .. Len(z)
      BY <1>1, <1>2
    <3> QED
      BY <1>4, <3>1, <3>2
  <2> QED
    BY <2>1, <2>2
<1>8. Lists(z, S \cup T)
  BY <1>2, <1>6, <1>7, ListOf
<1> QED
  BY <1>8 DEF z

\* A list cut in two: each part lists its own keys, and together they list all.
Parts(a, z, S) ==
    /\ Lists(a, ToSet(a)) /\ Lists(z, ToSet(z)) /\ a # <<>> /\ z # <<>>
    /\ ToSet(a) \cup ToSet(z) = S /\ ToSet(a) \cap ToSet(z) = {}

LEMMA CutLists ==
    ASSUME NEW S, NEW s, Lists(s, S), NEW mid, mid \in 1 .. Len(s) - 1
    PROVE  Parts(SubSeq(s, 1, mid), SubSeq(s, mid + 1, Len(s)), S)
<1> DEFINE a == SubSeq(s, 1, mid)
           z == SubSeq(s, mid + 1, Len(s))
<1>1. /\ s \in Seq(S) /\ Len(s) \in Nat /\ mid \in Int
      /\ \A i \in 1 .. Len(s) : s[i] \in S
      /\ \A i, j \in 1 .. Len(s) : s[i] = s[j] => i = j
      /\ \A k \in S : \E i \in 1 .. Len(s) : s[i] = k
  BY ListFacts
<1>2. a \in Seq(S) /\ Len(a) = mid /\ \A i \in 1 .. mid : a[i] = s[i]
  BY <1>1
<1>3. z \in Seq(S) /\ Len(z) = Len(s) - mid /\ \A i \in 1 .. Len(s) - mid : z[i] = s[mid + i]
  BY <1>1
<1> HIDE DEF a, z
<1>4. a # <<>> /\ z # <<>>
  BY <1>1, <1>2, <1>3
<1>5. DOMAIN a = 1 .. mid /\ DOMAIN z = 1 .. Len(s) - mid
  BY <1>1, <1>2, <1>3
<1>6. IsInjective(a) /\ IsInjective(z)
  <2>1. ASSUME NEW i \in 1 .. mid, NEW j \in 1 .. mid, a[i] = a[j]
        PROVE  i = j
    <3>1. i \in 1 .. Len(s) /\ j \in 1 .. Len(s)
      BY <1>1
    <3>2. s[i] = s[j]
      BY <1>2, <2>1
    <3> QED
      BY <1>1, <3>1, <3>2
  <2>2. ASSUME NEW i \in 1 .. Len(s) - mid, NEW j \in 1 .. Len(s) - mid, z[i] = z[j]
        PROVE  i = j
    <3>1. mid + i \in 1 .. Len(s) /\ mid + j \in 1 .. Len(s)
      BY <1>1
    <3>2. s[mid + i] = s[mid + j]
      BY <1>3, <2>2
    <3>3. mid + i = mid + j
      BY <1>1, <3>1, <3>2
    <3> QED
      BY <1>1, <3>3
  <2> QED
    BY <1>5, <2>1, <2>2 DEF IsInjective
<1>7. ToSet(a) \cap ToSet(z) = {}
  <2> SUFFICES ASSUME NEW i \in 1 .. mid, NEW j \in 1 .. Len(s) - mid, a[i] = z[j]
               PROVE  FALSE
    BY <1>5 DEF ToSet
  <2>1. i \in 1 .. Len(s) /\ mid + j \in 1 .. Len(s)
    BY <1>1
  <2>2. s[i] = s[mid + j]
    BY <1>2, <1>3
  <2>3. i = mid + j
    BY <1>1, <2>1, <2>2
  <2> QED
    BY <1>1, <2>3
<1>8. ToSet(a) \cup ToSet(z) = S
  <2>1. S \subseteq ToSet(a) \cup ToSet(z)
    <3> SUFFICES ASSUME NEW x \in S PROVE x \in ToSet(a) \cup ToSet(z)
      OBVIOUS
    <3>1. PICK i \in 1 .. Len(s) : s[i] = x
      BY <1>1
    <3>2. CASE i \in 1 .. mid
      BY <1>2, <1>5, <3>1, <3>2 DEF ToSet
    <3>3. CASE i \notin 1 .. mid
      <4>1. i - mid \in 1 .. Len(s) - mid /\ mid + (i - mid) = i
        BY <1>1, <3>3
      <4>2. z[i - mid] = x
        BY <1>3, <3>1, <4>1
      <4> QED
        BY <1>5, <4>1, <4>2 DEF ToSet
    <3> QED
      BY <3>2, <3>3
  <2>2. (\A i \in 1 .. mid : a[i] \in S) /\ \A i \in 1 .. Len(s) - mid : z[i] \in S
    BY <1>2, <1>3, <1>5
  <2> QED
    BY <1>5, <2>1, <2>2 DEF ToSet
<1>9. Lists(a, ToSet(a)) /\ Lists(z, ToSet(z))
  <2>1. a \in Seq(ToSet(a)) /\ z \in Seq(ToSet(z))
    BY <1>2, <1>3, SeqOfItsElements
  <2> QED
    BY <1>6, <2>1 DEF Lists
<1>10. Parts(a, z, S)
  BY <1>4, <1>7, <1>8, <1>9 DEF Parts
<1> QED
  BY <1>10 DEF a, z

-----------------------------------------------------------------------------
\* The plan.

\* The chunks are lists, none is empty, and together they list the keys of S.
Plans(p, S) ==
    /\ p \in Seq(Seq(Asked))
    /\ \A i \in 1 .. Len(p) : p[i] # <<>> /\ Lists(p[i], ToSet(p[i]))
    /\ \A i, j \in 1 .. Len(p) : i # j => ToSet(p[i]) \cap ToSet(p[j]) = {}
    /\ \A k : k \in S <=> \E i \in 1 .. Len(p) : k \in ToSet(p[i])

LEMMA NothingPlans == Plans(<<>>, {})
  BY DEF Plans

LEMMA OneChunkPlans ==
    ASSUME NEW S \in SUBSET Asked, NEW c, Lists(c, S), c # <<>>
    PROVE  Plans(<<c>>, S)
<1>1. c \in Seq(Asked) /\ ToSet(c) = S
  BY SeqMonotonic DEF Lists
<1>2. <<c>> \in Seq(Seq(Asked)) /\ Len(<<c>>) = 1 /\ <<c>>[1] = c /\ 1 .. 1 = {1}
  BY <1>1
<1> DEFINE p == <<c>>
<1> HIDE DEF p
<1>3. Plans(p, S)
  BY <1>1, <1>2 DEF Plans, p
<1> QED
  BY <1>3 DEF p

LEMMA ConcatPlans ==
    ASSUME NEW S, NEW p, Plans(p, S), NEW T, NEW q, Plans(q, T), S \cap T = {}
    PROVE  Plans(p \o q, S \cup T)
<1> DEFINE z == p \o q
<1>1. p \in Seq(Seq(Asked)) /\ q \in Seq(Seq(Asked)) /\ Len(p) \in Nat /\ Len(q) \in Nat
  BY DEF Plans
<1>2. z \in Seq(Seq(Asked)) /\ Len(z) = Len(p) + Len(q)
      /\ \A i \in 1 .. Len(p) + Len(q) : z[i] = IF i <= Len(p) THEN p[i] ELSE q[i - Len(p)]
  BY <1>1, ConcatProperties
<1> HIDE DEF z
<1>3. ASSUME NEW i \in 1 .. Len(p) PROVE z[i] = p[i]
  BY <1>1, <1>2
<1>4. ASSUME NEW i \in 1 .. Len(q) PROVE z[Len(p) + i] = q[i]
  <2>1. Len(p) + i \in 1 .. Len(p) + Len(q) /\ ~(Len(p) + i <= Len(p)) /\ Len(p) + i - Len(p) = i
    BY <1>1
  <2> QED
    BY <1>2, <2>1
<1>5. ASSUME NEW i \in 1 .. Len(z)
      PROVE  i \in 1 .. Len(p) \/ \E j \in 1 .. Len(q) : i = Len(p) + j
  <2>1. i \in 1 .. Len(p) \/ i - Len(p) \in 1 .. Len(q)
    BY <1>1, <1>2
  <2>2. i = Len(p) + (i - Len(p))
    BY <1>1
  <2> QED
    BY <2>1, <2>2
<1>6. ASSUME NEW i \in 1 .. Len(z)
      PROVE  z[i] # <<>> /\ Lists(z[i], ToSet(z[i]))
  <2>1. CASE i \in 1 .. Len(p)
    BY <1>3, <2>1 DEF Plans
  <2>2. ASSUME NEW j \in 1 .. Len(q), i = Len(p) + j
        PROVE  z[i] # <<>> /\ Lists(z[i], ToSet(z[i]))
    BY <1>4, <2>2 DEF Plans
  <2> QED
    BY <1>5, <2>1, <2>2
<1>7. ASSUME NEW i \in 1 .. Len(z), NEW j \in 1 .. Len(z), i # j
      PROVE  ToSet(z[i]) \cap ToSet(z[j]) = {}
  <2>1. (\A x \in 1 .. Len(p) : ToSet(p[x]) \subseteq S) /\ \A x \in 1 .. Len(q) : ToSet(q[x]) \subseteq T
    BY DEF Plans
  <2>2. CASE i \in 1 .. Len(p) /\ j \in 1 .. Len(p)
    BY <1>3, <1>7, <2>2 DEF Plans
  <2>3. CASE i \in 1 .. Len(p) /\ \E b \in 1 .. Len(q) : j = Len(p) + b
    <3>1. ToSet(z[i]) \subseteq S /\ ToSet(z[j]) \subseteq T
      BY <1>3, <1>4, <2>1, <2>3
    <3> QED
      BY <3>1
  <2>4. CASE j \in 1 .. Len(p) /\ \E a \in 1 .. Len(q) : i = Len(p) + a
    <3>1. ToSet(z[j]) \subseteq S /\ ToSet(z[i]) \subseteq T
      BY <1>3, <1>4, <2>1, <2>4
    <3> QED
      BY <3>1
  <2>5. ASSUME NEW a \in 1 .. Len(q), NEW b \in 1 .. Len(q), i = Len(p) + a, j = Len(p) + b
        PROVE  ToSet(z[i]) \cap ToSet(z[j]) = {}
    <3>1. z[i] = q[a] /\ z[j] = q[b] /\ a # b
      BY <1>4, <1>7, <2>5
    <3> QED
      BY <3>1 DEF Plans
  <2> QED
    BY <1>5, <2>2, <2>3, <2>4, <2>5
<1>8. ASSUME NEW k
      PROVE  k \in S \cup T <=> \E i \in 1 .. Len(z) : k \in ToSet(z[i])
  <2>1. ASSUME k \in S PROVE \E i \in 1 .. Len(z) : k \in ToSet(z[i])
    <3>1. PICK i \in 1 .. Len(p) : k \in ToSet(p[i])
      BY <2>1 DEF Plans
    <3>2. i \in 1 .. Len(z)
      BY <1>1, <1>2
    <3> QED
      BY <1>3, <3>1, <3>2
  <2>2. ASSUME k \in T PROVE \E i \in 1 .. Len(z) : k \in ToSet(z[i])
    <3>1. PICK i \in 1 .. Len(q) : k \in ToSet(q[i])
      BY <2>2 DEF Plans
    <3>2. Len(p) + i \in 1 .. Len(z)
      BY <1>1, <1>2
    <3> QED
      BY <1>4, <3>1, <3>2
  <2>3. ASSUME NEW i \in 1 .. Len(z), k \in ToSet(z[i]) PROVE k \in S \cup T
    <3>1. CASE i \in 1 .. Len(p)
      BY <1>3, <2>3, <3>1 DEF Plans
    <3>2. ASSUME NEW j \in 1 .. Len(q), i = Len(p) + j PROVE k \in T
      BY <1>4, <2>3, <3>2 DEF Plans
    <3> QED
      BY <1>5, <3>1, <3>2
  <2> QED
    BY <2>1, <2>2, <2>3
<1>9. Plans(z, S \cup T)
  BY <1>2, <1>6, <1>7, <1>8 DEF Plans
<1> QED
  BY <1>9 DEF z

LEMMA GrownPlans ==
    ASSUME NEW S, NEW p, Plans(p, S), p # <<>>, NEW k \in Asked, k \notin S
    PROVE  Plans([p EXCEPT ![Len(p)] = Append(@, k)], S \cup {k})
<1> DEFINE N == Len(p)
           c == Append(p[N], k)
           z == [p EXCEPT ![N] = c]
<1>1. p \in Seq(Seq(Asked)) /\ N \in Nat \ {0} /\ N \in 1 .. N
  BY EmptySeq DEF Plans
<1>2. p[N] \in Seq(Asked) /\ Lists(p[N], ToSet(p[N])) /\ k \notin ToSet(p[N])
  BY <1>1 DEF Plans
<1>3. Lists(c, ToSet(p[N]) \cup {k})
  BY <1>2, AppendLists
<1>4. c # <<>> /\ ToSet(c) = ToSet(p[N]) \cup {k} /\ c \in Seq(Asked)
  BY <1>2, <1>3 DEF Lists
<1>5. z \in Seq(Seq(Asked)) /\ Len(z) = N /\ z[N] = c /\ \A i \in 1 .. N : i # N => z[i] = p[i]
  BY <1>1, <1>4, ExceptSeq
<1>6. z = [p EXCEPT ![Len(p)] = Append(@, k)]
  OBVIOUS
<1> HIDE DEF z, c
<1>7. ASSUME NEW i \in 1 .. N
      PROVE  z[i] # <<>> /\ Lists(z[i], ToSet(z[i]))
  <2>1. Lists(c, ToSet(c))
    BY <1>3, <1>4
  <2>2. CASE i = N
    BY <1>4, <1>5, <2>1, <2>2
  <2>3. CASE i # N
    BY <1>5, <2>3 DEF Plans
  <2> QED
    BY <2>2, <2>3
<1>8. ASSUME NEW i \in 1 .. N, NEW j \in 1 .. N, i # j
      PROVE  ToSet(z[i]) \cap ToSet(z[j]) = {}
  <2>1. \A x \in 1 .. N : k \notin ToSet(p[x])
    BY DEF Plans
  <2>2. ToSet(p[i]) \cap ToSet(p[j]) = {}
    BY <1>8 DEF Plans
  <2>3. CASE i = N
    BY <1>4, <1>5, <1>8, <2>1, <2>2, <2>3
  <2>4. CASE j = N
    BY <1>4, <1>5, <1>8, <2>1, <2>2, <2>4
  <2>5. CASE i # N /\ j # N
    BY <1>5, <2>2, <2>5
  <2> QED
    BY <2>3, <2>4, <2>5
<1>9. ASSUME NEW x
      PROVE  x \in S \cup {k} <=> \E i \in 1 .. N : x \in ToSet(z[i])
  <2>1. x \in S <=> \E i \in 1 .. N : x \in ToSet(p[i])
    BY DEF Plans
  <2> QED
    BY <1>1, <1>4, <1>5, <2>1
<1>10. Plans(z, S \cup {k})
  BY <1>5, <1>7, <1>8, <1>9 DEF Plans
<1> QED
  BY <1>6, <1>10

\* A key more: in the last chunk, or in one of its own.
LEMMA FillPlans ==
    ASSUME NEW S, NEW p, Plans(p, S), NEW k \in Asked, k \notin S
    PROVE  Plans(Fill(p, k), S \cup {k})
<1>1. Lists(<<k>>, {k})
  <2>1. Lists(Append(<<>>, k), {} \cup {k})
    BY EmptyLists, AppendLists
  <2> QED
    BY <2>1
<1>2. Plans(<<<<k>>>>, {k})
  BY <1>1, OneChunkPlans
<1>3. Plans(p \o <<<<k>>>>, S \cup {k})
  BY <1>2, ConcatPlans
<1>4. Append(p, <<k>>) = p \o <<<<k>>>>
  BY AppendIsConcat DEF Plans
<1> QED
  BY <1>3, <1>4, GrownPlans DEF Fill

\* Filling chunks with the keys of a list plans them.
LEMMA FilledPlans ==
    ASSUME NEW R \in SUBSET Asked, NEW rest, Lists(rest, R)
    PROVE  LET plan[n \in 0 .. Len(rest)] == IF n = 0 THEN <<>> ELSE Fill(plan[n - 1], rest[n])
           IN  Plans(plan[Len(rest)], R)
<1> DEFINE N == Len(rest)
           Is(f) == f = [n \in 0 .. N |-> IF n = 0 THEN <<>> ELSE Fill(f[n - 1], rest[n])]
           plan == CHOOSE f : Is(f)
           Read(n) == {rest[i] : i \in 1 .. n}
           P == {n \in 0 .. N : Plans(plan[n], Read(n))}
<1>1. /\ N \in Nat
      /\ \A i \in 1 .. N : rest[i] \in Asked
      /\ \A i, j \in 1 .. N : rest[i] = rest[j] => i = j
      /\ \A k \in R : \E i \in 1 .. N : rest[i] = k
      /\ \A i \in 1 .. N : rest[i] \in R
  BY ListFacts
<1>2. Is(plan)
  <2> DEFINE S == Seq(Seq(Asked))
             base == <<>>
             step == [x \in (1 .. N) \X S |-> Fill(x[2], rest[x[1]])]
  <2>1. ASSUME NEW p \in S, NEW k \in Asked PROVE Fill(p, k) \in S
    <3>1. <<k>> \in Seq(Asked) /\ Append(p, <<k>>) \in S
      OBVIOUS
    <3>2. CASE p = <<>>
      BY <3>1, <3>2 DEF Fill
    <3>3. CASE p # <<>>
      <4>1. Len(p) \in 1 .. Len(p) /\ p[Len(p)] \in Seq(Asked)
        BY <3>3, EmptySeq
      <4>2. Append(p[Len(p)], k) \in Seq(Asked)
        BY <4>1
      <4>3. [p EXCEPT ![Len(p)] = Append(p[Len(p)], k)] \in S
        BY <4>1, <4>2, ExceptSeq
      <4> QED
        BY <3>1, <4>3 DEF Fill
    <3> QED
      BY <3>2, <3>3
  <2>2. step \in [(1 .. N) \X S -> S]
    BY <1>1, <2>1
  <2>3. \A n \in 1 .. N, p \in S : step[<<n, p>>] = Fill(p, rest[n])
    OBVIOUS
  <2>4. base \in S
    BY EmptySeq
  <2>5. N \in Nat
    BY <1>1
  <2> HIDE DEF step, S, base, N
  <2>6. \E f \in [0 .. N -> S] : Determined(f, N, base, step)
    BY <2>2, <2>4, <2>5, Recursion
  <2>7. PICK f \in [0 .. N -> S] : Determined(f, N, base, step)
    BY <2>6
  <2>8. f[0] = <<>>
    BY <2>7 DEF Determined, base
  <2>9. ASSUME NEW n \in 0 .. N
        PROVE  f[n] = IF n = 0 THEN <<>> ELSE Fill(f[n - 1], rest[n])
    <3>1. CASE n = 0
      BY <2>8, <3>1
    <3>2. CASE n # 0
      <4>1. n \in 1 .. N /\ n - 1 \in 0 .. N
        BY <2>5, <3>2
      <4>2. f[n - 1] \in S
        BY <2>7, <4>1
      <4>3. f[n] = step[<<n, f[n - 1]>>]
        BY <2>7, <4>1 DEF Determined
      <4> QED
        BY <2>3, <3>2, <4>1, <4>2, <4>3
    <3> QED
      BY <3>1, <3>2
  <2>10. Is(f)
    BY <2>9
  <2> HIDE DEF Is
  <2> QED
    BY <2>10
<1>3. plan[0] = <<>> /\ \A n \in 1 .. N : plan[n] = Fill(plan[n - 1], rest[n])
  <2>1. \A n \in 0 .. N : plan[n] = IF n = 0 THEN <<>> ELSE Fill(plan[n - 1], rest[n])
    <3>1. ASSUME NEW f, Is(f), NEW n \in 0 .. N
          PROVE  f[n] = IF n = 0 THEN <<>> ELSE Fill(f[n - 1], rest[n])
      BY <3>1
    <3> HIDE DEF Is, plan
    <3> QED
      BY <1>2, <3>1
  <2> HIDE DEF plan
  <2>2. 0 \in 0 .. N /\ \A n \in 1 .. N : n \in 0 .. N /\ n # 0
    BY <1>1
  <2> QED
    BY <2>1, <2>2
<1> HIDE DEF plan
<1>4. ASSUME NEW n \in 0 .. N, \A m \in 0 .. n - 1 : m \in P
      PROVE  n \in P
  <2>1. CASE n = 0
    <3>1. Read(n) = {}
      BY <2>1
    <3> HIDE DEF Read
    <3> QED
      BY <1>3, <2>1, <3>1, NothingPlans
  <2>2. CASE n # 0
    <3>1. n \in 1 .. N /\ n - 1 \in 0 .. n - 1
      BY <1>1, <2>2
    <3>2. Plans(plan[n - 1], Read(n - 1))
      BY <1>4, <3>1
    <3>3. Read(n) = Read(n - 1) \cup {rest[n]}
      <4>1. \A i : i \in 1 .. n <=> (i \in 1 .. n - 1 \/ i = n)
        BY <3>1
      <4> QED
        BY <4>1
    <3>4. rest[n] \notin Read(n - 1)
      <4>1. \A i \in 1 .. n - 1 : i \in 1 .. N /\ i # n
        BY <1>1
      <4> QED
        BY <1>1, <3>1, <4>1
    <3> HIDE DEF Read
    <3>5. Plans(Fill(plan[n - 1], rest[n]), Read(n))
      BY <1>1, <3>1, <3>2, <3>3, <3>4, FillPlans
    <3> QED
      BY <1>3, <3>1, <3>5
  <2> QED
    BY <2>1, <2>2
<1>5. N \in P
  <2> HIDE DEF P
  <2>1. P = 0 .. N
    <3>1. P \in SUBSET (0 .. N)
      BY DEF P
    <3> QED
      BY <1>1, <1>4, <3>1, UpTo
  <2> QED
    BY <1>1, <2>1
<1>6. Read(N) = R
  BY <1>1
<1>7. Plans(plan[N], R)
  BY <1>5, <1>6
<1> QED
  BY <1>7 DEF plan

\* The keys of the core chunk: Profiles, when there are any, and their pairs.
Core == IF ProfileLike = {} THEN {} ELSE ProfileLike \cup Paired

LEMMA RequestLists == Lists(Request, Asked)
  BY RetrievalAssumption DEF Lists, Asked

LEMMA CoreLists == Lists(CoreChunk, Core)
<1>1. Lists(Only(Request, ProfileLike), ProfileLike) /\ Lists(Only(Request, Paired), Paired)
  <2>1. Asked \cap ProfileLike = ProfileLike /\ Asked \cap Paired = Paired
    BY RetrievalAssumption
  <2>2. Lists(Only(Request, ProfileLike), Asked \cap ProfileLike)
        /\ Lists(Only(Request, Paired), Asked \cap Paired)
    BY RequestLists, OnlyLists
  <2> QED
    BY <2>1, <2>2
<1>2. CASE ProfileLike = {}
  <2>1. Only(Request, ProfileLike) = <<>>
    BY <1>1, <1>2, ListFacts, EmptySeq
  <2> QED
    BY <1>2, <2>1, EmptyLists DEF CoreChunk, Core
<1>3. CASE ProfileLike # {}
  <2>1. Only(Request, ProfileLike) # <<>>
    BY <1>1, <1>3 DEF Lists, ToSet
  <2>2. ProfileLike \cap Paired = {}
    BY RetrievalAssumption
  <2>3. Lists(Only(Request, ProfileLike) \o Only(Request, Paired), ProfileLike \cup Paired)
    BY <1>1, <2>2, ConcatLists
  <2> QED
    BY <1>3, <2>1, <2>3 DEF CoreChunk, Core
<1> QED
  BY <1>2, <1>3

\* The plan covers the request: every key is in one chunk, once, and the core chunk
\* is the first.
LEMMA PlanCoversTheRequest ==
    /\ Plans(PlanMaterializeChunks, Asked)
    /\ CoreChunk # <<>> => 1 \in DOMAIN PlanMaterializeChunks /\ PlanMaterializeChunks[1] = CoreChunk
<1> DEFINE R == Asked \ Core
           rest == Only(Request, Asked \ ToSet(CoreChunk))
           plan[n \in 0 .. Len(rest)] == IF n = 0 THEN <<>> ELSE Fill(plan[n - 1], rest[n])
           first == IF CoreChunk = <<>> THEN <<>> ELSE <<CoreChunk>>
<1>1. ToSet(CoreChunk) = Core /\ Core \subseteq Asked
  BY CoreLists, RetrievalAssumption DEF Lists, Core
<1>2. Lists(rest, R)
  <2>1. Lists(rest, Asked \cap (Asked \ ToSet(CoreChunk)))
    BY RequestLists, OnlyLists
  <2>2. Asked \cap (Asked \ ToSet(CoreChunk)) = R
    BY <1>1
  <2> QED
    BY <2>1, <2>2
<1> HIDE DEF rest
<1>3. Plans(plan[Len(rest)], R)
  BY <1>2, FilledPlans
<1>4. Plans(first, Core)
  <2>1. CASE CoreChunk = <<>>
    <3>1. Core = {}
      BY <1>1, <2>1 DEF ToSet
    <3> QED
      BY <2>1, <3>1, NothingPlans
  <2>2. CASE CoreChunk # <<>>
    BY <1>1, <2>2, CoreLists, OneChunkPlans
  <2> QED
    BY <2>1, <2>2
<1>5. PlanMaterializeChunks = first \o plan[Len(rest)]
  BY DEF PlanMaterializeChunks, rest
<1> HIDE DEF first, plan
<1>6. Plans(first \o plan[Len(rest)], Core \cup R)
  BY <1>3, <1>4, ConcatPlans
<1>7. Core \cup R = Asked
  BY <1>1
<1>8. ASSUME CoreChunk # <<>>
      PROVE  1 \in DOMAIN PlanMaterializeChunks /\ PlanMaterializeChunks[1] = CoreChunk
  <2>1. first = <<CoreChunk>>
    BY <1>8 DEF first
  <2>2. first \in Seq(Seq(Asked)) /\ plan[Len(rest)] \in Seq(Seq(Asked))
    BY <1>3, <1>4 DEF Plans
  <2>3. Len(first) = 1 /\ first[1] = CoreChunk
    BY <2>1
  <2> HIDE DEF first
  <2>4. Len(first \o plan[Len(rest)]) = 1 + Len(plan[Len(rest)])
        /\ (first \o plan[Len(rest)])[1] = first[1]
        /\ Len(plan[Len(rest)]) \in Nat
        /\ first \o plan[Len(rest)] \in Seq(Seq(Asked))
    <3> DEFINE q == plan[Len(rest)]
               z == first \o q
    <3>1. z \in Seq(Seq(Asked)) /\ Len(z) = Len(first) + Len(q)
          /\ \A i \in 1 .. Len(first) + Len(q) : z[i] = IF i <= Len(first) THEN first[i] ELSE q[i - Len(first)]
      BY <2>2, ConcatProperties
    <3>2. Len(q) \in Nat
      BY <2>2
    <3> HIDE DEF z, q
    <3>3. 1 \in 1 .. Len(first) + Len(q) /\ 1 <= Len(first)
      BY <2>3, <3>2
    <3> QED
      BY <2>3, <3>1, <3>2, <3>3 DEF z, q
  <2> QED
    BY <1>5, <2>3, <2>4
<1> QED
  BY <1>5, <1>6, <1>7, <1>8

-----------------------------------------------------------------------------
\* The conversion.

LEMMA ToleranceIsPositive ==
    ASSUME NEW keys \in Seq(Asked)
    PROVE  Tolerance(keys) \in Nat \ {0}
<1> DEFINE b == (FailurePercent * Len(keys) + 99) \div 100
           M == MinIsolatedFailures
<1>1. M \in Nat \ {0} /\ FailurePercent \in Nat /\ Len(keys) \in Nat
  BY RetrievalAssumption
<1>2. FailurePercent * Len(keys) \in Nat
  BY <1>1
<1>3. b \in Nat
  BY <1>2
<1> HIDE DEF b, M
<1>4. \E x \in {M, b} : \A y \in {M, b} : x >= y
  BY <1>1, <1>3
<1>5. Max({M, b}) \in {M, b} /\ \A y \in {M, b} : Max({M, b}) >= y
  BY <1>4 DEF Max
<1>6. Max({M, b}) \in Nat \ {0}
  BY <1>1, <1>3, <1>5
<1> QED
  BY <1>6 DEF Tolerance, b, M

\* The places after i up to j of items that do not convert.
Broken(items, i, j) == {n \in i + 1 .. j : items[n] \in org.unconvertible}

LEMMA BrokenAreFinite ==
    ASSUME NEW items, NEW i \in Nat, NEW j \in Nat
    PROVE  IsFiniteSet(Broken(items, i, j)) /\ Cardinality(Broken(items, i, j)) \in Nat
<1>1. IsFiniteSet(i + 1 .. j)
  BY FS_Interval
<1>2. Broken(items, i, j) \subseteq i + 1 .. j
  BY DEF Broken
<1> QED
  BY <1>1, <1>2, FS_Subset, FS_CardinalityType

\* The broken up to j are those up to m and those after it.
AddsUp(items, i, j, m) ==
    /\ Cardinality(Broken(items, i, j)) =
         Cardinality(Broken(items, i, m)) + Cardinality(Broken(items, m, j))
    /\ Broken(items, i, j) = Broken(items, i, m) \cup Broken(items, m, j)

LEMMA BrokenAddUp ==
    ASSUME NEW items, NEW i \in Nat, NEW j \in Nat, NEW m, m \in i .. j
    PROVE  AddsUp(items, i, j, m)
<1>1. m \in Nat
  OBVIOUS
<1>2. \A n : n \in i + 1 .. j <=> (n \in i + 1 .. m \/ n \in m + 1 .. j)
  BY <1>1
<1>3. \A n : ~(n \in i + 1 .. m /\ n \in m + 1 .. j)
  BY <1>1
<1>4. Broken(items, i, j) = Broken(items, i, m) \cup Broken(items, m, j)
  BY <1>2 DEF Broken
<1>5. Broken(items, i, m) \cap Broken(items, m, j) = {}
  BY <1>3 DEF Broken
<1>6. Cardinality(Broken(items, i, j)) = Cardinality(Broken(items, i, m))
        + Cardinality(Broken(items, m, j)) - Cardinality(Broken(items, i, m) \cap Broken(items, m, j))
  BY <1>1, <1>4, BrokenAreFinite, FS_Union
<1> QED
  BY <1>1, <1>4, <1>5, <1>6, BrokenAreFinite, FS_EmptySet DEF AddsUp

LEMMA MoreLost ==
    ASSUME NEW r, r = [threw |-> r.threw, left |-> r.left, lost |-> r.lost], NEW more
    PROVE  [r EXCEPT !.lost = @ \cup more]
             = [threw |-> r.threw, left |-> r.left, lost |-> r.lost \cup more]
<1>1. r \in [threw : {r.threw}, left : {r.left}, lost : {r.lost}]
  OBVIOUS
<1> QED
  BY <1>1

LEMMA HalfIsBetween ==
    ASSUME NEW d \in Nat, d >= 2
    PROVE  d \div 2 \in 1 .. d - 1
  OBVIOUS

\* What a call of the conversion comes to, whatever the halves it takes: it loses the
\* broken items one after the other, as long as its budget lasts.
Converted(items, c) ==
    LET broken == Cardinality(Broken(items, c.from, c.to))
    IN  [threw |-> broken > c.left,
         left  |-> IF broken > c.left THEN 0 ELSE c.left - broken,
         lost  |-> {items[n] : n \in {x \in Broken(items, c.from, c.to) :
                                        Cardinality(Broken(items, c.from, x)) <= c.left}}]

LEMMA ConvertedHolds ==
    ASSUME NEW items, NEW c, NEW b, b = Cardinality(Broken(items, c.from, c.to)), ~(b > c.left)
    PROVE  Converted(items, c) =
             [threw |-> FALSE, left |-> c.left - b,
              lost |-> {items[n] : n \in {x \in Broken(items, c.from, c.to) :
                                             Cardinality(Broken(items, c.from, x)) <= c.left}}]
<1>1. (b > c.left) = FALSE
  OBVIOUS
<1>2. (IF b > c.left THEN 0 ELSE c.left - b) = c.left - b
  OBVIOUS
<1> QED
  BY <1>1, <1>2, Zenon DEF Converted

LEMMA ConvertedThrows ==
    ASSUME NEW items, NEW c, NEW b, b = Cardinality(Broken(items, c.from, c.to)), b > c.left
    PROVE  Converted(items, c) =
             [threw |-> TRUE, left |-> 0,
              lost |-> {items[n] : n \in {x \in Broken(items, c.from, c.to) :
                                             Cardinality(Broken(items, c.from, x)) <= c.left}}]
<1>1. (b > c.left) = TRUE
  OBVIOUS
<1>2. (IF b > c.left THEN 0 ELSE c.left - b) = 0
  OBVIOUS
<1> QED
  BY <1>1, <1>2, Zenon DEF Converted

Clean(items, c) == \A n \in c.from + 1 .. c.to : items[n] \notin org.unconvertible
Alone(items, c) == c.to = c.from + 1 /\ items[c.to] \in org.unconvertible
Middle(c) == c.from + (c.to - c.from) \div 2
OfHalves(f, c) ==
    LET a == f[[c EXCEPT !.to = Middle(c)]]
        z == f[[c EXCEPT !.from = Middle(c), !.left = a.left]]
    IN  IF a.threw THEN a ELSE [z EXCEPT !.lost = @ \cup a.lost]

LEMMA ConversionOfClean ==
    ASSUME NEW items, NEW f, NEW c \in Calls(items), Len(items) \in Nat, Clean(items, c)
    PROVE  Conversion(items, f, c) = [threw |-> FALSE, left |-> c.left, lost |-> {}]
<1>1. ~Alone(items, c)
  BY DEF Calls, Clean, Alone
<1> QED
  BY <1>1, Zenon DEF Conversion, Clean, Alone

LEMMA ConversionOfOne ==
    ASSUME NEW items, NEW f, NEW c, ~Clean(items, c), Alone(items, c)
    PROVE  Conversion(items, f, c) =
             IF c.left = 0 THEN [threw |-> TRUE, left |-> 0, lost |-> {}]
             ELSE [threw |-> FALSE, left |-> c.left - 1, lost |-> {items[c.to]}]
  BY Zenon DEF Conversion, Clean, Alone

LEMMA ConversionOfHalves ==
    ASSUME NEW items, NEW f, NEW c, ~Clean(items, c), ~Alone(items, c)
    PROVE  Conversion(items, f, c) = OfHalves(f, c)
  BY Zenon DEF Conversion, Clean, Alone, Middle, OfHalves

\* The closed form satisfies the equation of the conversion ...
LEMMA ConvertedConverts ==
    ASSUME NEW items \in Seq(Asked), NEW f,
           f = [c \in Calls(items) |-> Converted(items, c)],
           NEW c \in Calls(items)
    PROVE  Converted(items, c) = Conversion(items, f, c)
<1> DEFINE N == Len(items)
           B(i, j) == Cardinality(Broken(items, i, j))
<1>1. /\ N \in Nat /\ Tolerance(items) \in Nat
      /\ c.from \in 0 .. N /\ c.to \in 0 .. N /\ c.left \in 0 .. Tolerance(items)
  BY ToleranceIsPositive DEF Calls
<1>2. \A i, j \in Nat : B(i, j) \in Nat
  BY BrokenAreFinite
<1>6. ASSUME NEW i \in Nat, NEW j \in Nat, NEW x \in i .. j
      PROVE  B(i, j) = B(i, x) + B(x, j) /\ Broken(items, i, j) = Broken(items, i, x) \cup Broken(items, x, j)
  <2>1. AddsUp(items, i, j, x)
    BY BrokenAddUp
  <2> QED
    BY <2>1 DEF AddsUp
<1>3. CASE Clean(items, c)
  <2>1. Broken(items, c.from, c.to) = {} /\ B(c.from, c.to) = 0
    BY <1>3, FS_EmptySet DEF Clean, Broken
  <2>2. ~(0 > c.left) /\ c.left - 0 = c.left
    BY <1>1
  <2>3. {items[n] : n \in {x \in Broken(items, c.from, c.to) : B(c.from, x) <= c.left}} = {}
    BY <2>1
  <2>4. Converted(items, c) = [threw |-> FALSE, left |-> c.left, lost |-> {}]
    BY <2>1, <2>2, <2>3, ConvertedHolds, Zenon
  <2> QED
    BY <1>1, <1>3, <2>4, ConversionOfClean
<1>4. CASE ~Clean(items, c) /\ Alone(items, c)
  <2>1. Broken(items, c.from, c.to) = {c.to}
    BY <1>1, <1>4 DEF Alone, Broken
  <2>2. B(c.from, c.to) = 1
    BY <2>1, FS_Singleton
  <2> DEFINE lossAt == {x \in Broken(items, c.from, c.to) : B(c.from, x) <= c.left}
  <2>3. CASE c.left = 0
    <3>1. ~(1 <= c.left) /\ 1 > c.left
      BY <2>3
    <3>2. lossAt = {}
      BY <2>1, <2>2, <3>1, Zenon
    <3>3. {items[n] : n \in lossAt} = {}
      BY <3>2
    <3>4. Converted(items, c) = [threw |-> TRUE, left |-> 0, lost |-> {}]
      BY <2>2, <3>1, <3>3, ConvertedThrows, Zenon
    <3> QED
      BY <1>4, <2>3, <3>4, ConversionOfOne
  <2>4. CASE c.left # 0
    <3>1. 1 <= c.left /\ ~(1 > c.left)
      BY <1>1, <2>4
    <3>2. lossAt = {c.to}
      BY <2>1, <2>2, <3>1, Zenon
    <3>3. {items[n] : n \in lossAt} = {items[c.to]}
      BY <3>2
    <3>4. Converted(items, c) = [threw |-> FALSE, left |-> c.left - 1, lost |-> {items[c.to]}]
      BY <2>2, <3>1, <3>3, ConvertedHolds, Zenon
    <3> QED
      BY <1>4, <2>4, <3>4, ConversionOfOne
  <2> QED
    BY <2>3, <2>4
<1>5. CASE ~Clean(items, c) /\ ~Alone(items, c)
  <2> DEFINE m == Middle(c)
             ca == [c EXCEPT !.to = m]
             a == Converted(items, ca)
             cz == [c EXCEPT !.from = m, !.left = a.left]
             z == Converted(items, cz)
             From(i, j, left) == {items[n] : n \in {x \in Broken(items, i, j) : B(i, x) <= left}}
  <2>1. c.from + 1 < c.to
    <3>1. PICK n \in c.from + 1 .. c.to : items[n] \in org.unconvertible
      BY <1>5 DEF Clean
    <3>2. ~(c.to = c.from + 1)
      BY <1>1, <1>5, <3>1 DEF Alone
    <3> QED
      BY <1>1, <3>1, <3>2
  <2>2. /\ m \in c.from + 1 .. c.to - 1 /\ m \in 0 .. N /\ m \in Nat
        /\ m \in c.from .. c.to /\ c.from \in Nat /\ c.to \in Nat
    <3>1. c.to - c.from \in Nat /\ c.to - c.from >= 2
      BY <1>1, <2>1
    <3> DEFINE half == (c.to - c.from) \div 2
    <3>2. half \in 1 .. c.to - c.from - 1
      BY <3>1, HalfIsBetween
    <3>3. m = c.from + half
      BY DEF Middle
    <3> HIDE DEF half, m
    <3> QED
      BY <1>1, <2>1, <3>2, <3>3
  <2> HIDE DEF m
  <2>3. B(c.from, c.to) = B(c.from, m) + B(m, c.to)
        /\ Broken(items, c.from, c.to) = Broken(items, c.from, m) \cup Broken(items, m, c.to)
    BY <1>6, <2>2
  <2>4. B(c.from, m) \in Nat /\ B(m, c.to) \in Nat /\ c.left \in Nat
    <3>1. c.left \in Nat
      BY <1>1
    <3> QED
      BY <1>2, <2>2, <3>1
  <2>5. ca \in Calls(items) /\ ca.from = c.from /\ ca.to = m /\ ca.left = c.left
    BY <1>1, <2>2 DEF Calls
  <2>6. /\ a.threw = (B(c.from, m) > c.left)
        /\ a.left = IF B(c.from, m) > c.left THEN 0 ELSE c.left - B(c.from, m)
        /\ a.lost = From(c.from, m, c.left)
    BY <2>5 DEF Converted
  <2>7. a.left \in 0 .. Tolerance(items)
    BY <1>1, <2>4, <2>6
  <2>8. a = [threw |-> a.threw, left |-> a.left, lost |-> a.lost]
    BY DEF Converted
  <2> HIDE DEF ca, a
  <2>9. cz \in Calls(items) /\ cz.from = m /\ cz.to = c.to /\ cz.left = a.left
    BY <1>1, <2>2, <2>7 DEF Calls
  <2>10. /\ z.threw = (B(m, c.to) > a.left)
         /\ z.left = IF B(m, c.to) > a.left THEN 0 ELSE a.left - B(m, c.to)
         /\ z.lost = From(m, c.to, a.left)
         /\ z = [threw |-> z.threw, left |-> z.left, lost |-> z.lost]
    BY <2>9 DEF Converted
  <2> HIDE DEF cz, z
  <2>11. Conversion(items, f, c) = IF a.threw THEN a ELSE [z EXCEPT !.lost = @ \cup a.lost]
    <3>1. f[ca] = a /\ f[cz] = z
      BY <2>5, <2>9 DEF a, z
    <3>2. ca = [c EXCEPT !.to = Middle(c)] /\ cz = [c EXCEPT !.from = Middle(c), !.left = a.left]
      BY DEF ca, cz, m
    <3>3. f[[c EXCEPT !.to = Middle(c)]] = a
      BY <3>1, <3>2, Zenon
    <3>4. f[[c EXCEPT !.from = Middle(c), !.left = a.left]] = z
      BY <3>1, <3>2, Zenon
    <3>5. Conversion(items, f, c) = OfHalves(f, c)
      BY <1>5, ConversionOfHalves
    <3> QED
      BY <3>3, <3>4, <3>5, Zenon DEF OfHalves
  <2>12. ASSUME NEW x \in Broken(items, m, c.to)
         PROVE  x \in Nat /\ B(c.from, x) = B(c.from, m) + B(m, x) /\ B(m, x) \in Nat
    <3>1. x \in Nat /\ m \in c.from .. x
      BY <2>2 DEF Broken
    <3>2. B(c.from, x) = B(c.from, m) + B(m, x)
      BY <1>6, <2>2, <3>1
    <3> QED
      BY <1>2, <2>2, <3>1, <3>2
  <2>13. ASSUME NEW x \in Broken(items, c.from, m)
         PROVE  x \in Nat /\ B(c.from, x) \in Nat /\ B(c.from, x) <= B(c.from, m)
    <3>1. x \in Nat /\ x \in c.from .. m
      BY <2>2 DEF Broken
    <3>2. B(c.from, m) = B(c.from, x) + B(x, m)
      BY <1>6, <2>2, <3>1
    <3>3. B(c.from, x) \in Nat /\ B(x, m) \in Nat
      BY <1>2, <2>2, <3>1
    <3> QED
      BY <3>1, <3>2, <3>3
  <2>14. CASE B(c.from, m) > c.left
    <3>1. From(c.from, c.to, c.left) = From(c.from, m, c.left)
      <4>1. \A x \in Broken(items, m, c.to) : ~(B(c.from, x) <= c.left)
        BY <2>4, <2>12, <2>14
      <4>2. {x \in Broken(items, c.from, c.to) : B(c.from, x) <= c.left}
              = {x \in Broken(items, c.from, m) : B(c.from, x) <= c.left}
        BY <2>3, <4>1
      <4> QED
        BY <4>2
    <3>2. B(c.from, c.to) > c.left
      BY <2>3, <2>4, <2>14
    <3>3. Converted(items, c) = [threw |-> TRUE, left |-> 0, lost |-> From(c.from, m, c.left)]
      BY <3>1, <3>2 DEF Converted
    <3>4. a = [threw |-> TRUE, left |-> 0, lost |-> From(c.from, m, c.left)]
      BY <2>6, <2>8, <2>14
    <3> QED
      BY <2>6, <2>11, <2>14, <3>3, <3>4
  <2>15. CASE ~(B(c.from, m) > c.left)
    <3>1. a.left = c.left - B(c.from, m) /\ ~a.threw
      BY <2>6, <2>15
    <3>2. From(c.from, c.to, c.left) = From(m, c.to, a.left) \cup From(c.from, m, c.left)
      <4>1. \A x \in Broken(items, c.from, m) : B(c.from, x) <= c.left
        BY <2>4, <2>13, <2>15
      <4>2. \A x \in Broken(items, m, c.to) : B(c.from, x) <= c.left <=> B(m, x) <= a.left
        BY <2>4, <2>12, <3>1
      <4>3. {x \in Broken(items, c.from, c.to) : B(c.from, x) <= c.left}
              = {x \in Broken(items, m, c.to) : B(m, x) <= a.left}
                  \cup {x \in Broken(items, c.from, m) : B(c.from, x) <= c.left}
        BY <2>3, <4>1, <4>2
      <4> QED
        BY <4>3
    <3>3. (B(c.from, c.to) > c.left) = (B(m, c.to) > a.left)
      BY <2>3, <2>4, <3>1
    <3>4. ~(B(c.from, c.to) > c.left) => c.left - B(c.from, c.to) = a.left - B(m, c.to)
      BY <2>3, <2>4, <3>1
    <3>5. Converted(items, c) = [threw |-> z.threw, left |-> z.left, lost |-> z.lost \cup a.lost]
      BY <2>6, <2>10, <3>2, <3>3, <3>4 DEF Converted
    <3>6. [z EXCEPT !.lost = @ \cup a.lost] = [threw |-> z.threw, left |-> z.left, lost |-> z.lost \cup a.lost]
      BY <2>10, MoreLost
    <3> QED
      BY <2>11, <3>1, <3>5, <3>6
  <2> QED
    BY <2>14, <2>15
<1> QED
  BY <1>3, <1>4, <1>5

\* The halves of a call are calls, and shorter.
LEMMA HalvesAreCalls ==
    ASSUME NEW items \in Seq(Asked), NEW c \in Calls(items), ~Clean(items, c), ~Alone(items, c),
           NEW left \in 0 .. Tolerance(items)
    PROVE  LET ca == [c EXCEPT !.to = Middle(c)]
               cz == [c EXCEPT !.from = Middle(c), !.left = left]
           IN  /\ ca \in Calls(items) /\ ca.to - ca.from <= c.to - c.from - 1
               /\ cz \in Calls(items) /\ cz.to - cz.from <= c.to - c.from - 1
               /\ c.to - c.from - 1 \in Nat
<1> DEFINE N == Len(items)
           m == Middle(c)
           half == (c.to - c.from) \div 2
<1>1. /\ N \in Nat /\ Tolerance(items) \in Nat
      /\ c.from \in 0 .. N /\ c.to \in 0 .. N /\ c.left \in 0 .. Tolerance(items)
  BY ToleranceIsPositive DEF Calls
<1>2. c.from + 1 < c.to
  <2>1. PICK n \in c.from + 1 .. c.to : items[n] \in org.unconvertible
    BY DEF Clean
  <2>2. ~(c.to = c.from + 1)
    BY <1>1, <2>1 DEF Alone
  <2> QED
    BY <1>1, <2>1, <2>2
<1>3. half \in 1 .. c.to - c.from - 1
  <2>1. c.to - c.from \in Nat /\ c.to - c.from >= 2
    BY <1>1, <1>2
  <2> QED
    BY <2>1, HalfIsBetween
<1>4. m = c.from + half
  BY DEF Middle
<1> HIDE DEF half, m
<1>5. m \in 0 .. N /\ m - c.from <= c.to - c.from - 1 /\ c.to - m <= c.to - c.from - 1
      /\ c.to - c.from - 1 \in Nat
  <2> DEFINE from == c.from
             to == c.to
  <2>1. from \in 0 .. N /\ to \in 0 .. N /\ half \in 1 .. to - from - 1 /\ m = from + half /\ from + 1 < to
    BY <1>1, <1>2, <1>3, <1>4
  <2> HIDE DEF from, to, N
  <2>2. N \in Nat
    BY <1>1 DEF N
  <2>3. m \in 0 .. N
    BY <2>1, <2>2
  <2>4. m - from <= to - from - 1 /\ to - m <= to - from - 1 /\ to - from - 1 \in Nat
    BY <2>1, <2>2
  <2> QED
    BY <2>3, <2>4 DEF from, to
<1> DEFINE ca == [c EXCEPT !.to = m]
           cz == [c EXCEPT !.from = m, !.left = left]
<1>6. ca \in Calls(items) /\ ca.from = c.from /\ ca.to = m
  BY <1>1, <1>5 DEF Calls
<1>7. cz \in Calls(items) /\ cz.from = m /\ cz.to = c.to
  BY <1>1, <1>5 DEF Calls
<1> HIDE DEF ca, cz
<1>8. ca \in Calls(items) /\ ca.to - ca.from <= c.to - c.from - 1
      /\ cz \in Calls(items) /\ cz.to - cz.from <= c.to - c.from - 1
      /\ c.to - c.from - 1 \in Nat
  BY <1>5, <1>6, <1>7
<1> QED
  BY <1>8 DEF ca, cz, m

\* ... and is what the conversion comes to.
LEMMA ConversionIs ==
    ASSUME NEW items \in Seq(Asked)
    PROVE  ConvertWithIsolation(items) =
             Converted(items, [from |-> 0, to |-> Len(items), left |-> Tolerance(items)])
<1> DEFINE N == Len(items)
           Is(f) == f = [c \in Calls(items) |-> Conversion(items, f, c)]
           convert == CHOOSE f : Is(f)
           h == [c \in Calls(items) |-> Converted(items, c)]
           P == {m \in 0 .. N : \A c \in Calls(items) : c.to - c.from <= m => convert[c] = h[c]}
           all == [from |-> 0, to |-> N, left |-> Tolerance(items)]
<1>1. N \in Nat /\ Tolerance(items) \in Nat
  BY ToleranceIsPositive
<1>2. \A c \in Calls(items) : h[c] = Converted(items, c) /\ h[c] = Conversion(items, h, c)
  BY ConvertedConverts
<1>3. Is(convert)
  <2>1. Is(h)
    BY <1>2
  <2> HIDE DEF Is, h
  <2> QED
    BY <2>1
<1>4. \A c \in Calls(items) : convert[c] = Conversion(items, convert, c)
  <2>1. ASSUME NEW f, Is(f), NEW c \in Calls(items)
        PROVE  f[c] = Conversion(items, f, c)
    BY <2>1
  <2> HIDE DEF Is, convert
  <2> QED
    BY <1>3, <2>1
<1> HIDE DEF convert
<1>5. ASSUME NEW n \in 0 .. N, \A m \in 0 .. n - 1 : m \in P
      PROVE  n \in P
  <2> SUFFICES ASSUME NEW c \in Calls(items), c.to - c.from <= n
               PROVE  convert[c] = h[c]
    BY DEF P
  <2>1. c.from \in 0 .. N /\ c.to \in 0 .. N
    BY DEF Calls
  <2>2. Conversion(items, convert, c) = Conversion(items, h, c)
    <3>1. CASE Clean(items, c)
      BY <1>1, <3>1, ConversionOfClean
    <3>2. CASE ~Clean(items, c) /\ Alone(items, c)
      BY <3>2, ConversionOfOne
    <3>3. CASE ~Clean(items, c) /\ ~Alone(items, c)
      <4> DEFINE ca == [c EXCEPT !.to = Middle(c)]
                 a == h[ca]
                 cz == [c EXCEPT !.from = Middle(c), !.left = a.left]
      <4>1. 0 \in 0 .. Tolerance(items)
        BY <1>1
      <4>2. ca \in Calls(items) /\ ca.to - ca.from <= c.to - c.from - 1 /\ c.to - c.from - 1 \in Nat
        BY <3>3, <4>1, HalvesAreCalls
      <4>3. a.left \in 0 .. Tolerance(items)
        <5>1. a = Converted(items, ca)
          BY <1>2, <4>2
        <5>2. ca.left \in 0 .. Tolerance(items) /\ ca.from \in Nat /\ ca.to \in Nat
          BY <1>1, <4>2 DEF Calls
        <5> DEFINE b == Cardinality(Broken(items, ca.from, ca.to))
        <5>3. b \in Nat
          BY <5>2, BrokenAreFinite
        <5> HIDE DEF ca, b
        <5>4. Converted(items, ca).left = IF b > ca.left THEN 0 ELSE ca.left - b
          BY DEF Converted, b
        <5> HIDE DEF a
        <5> QED
          BY <1>1, <5>1, <5>2, <5>3, <5>4
      <4>4. cz \in Calls(items) /\ cz.to - cz.from <= c.to - c.from - 1
        BY <3>3, <4>3, HalvesAreCalls
      <4>5. c.to - c.from - 1 \in 0 .. n - 1
        BY <2>1, <4>2
      <4>6. \A d \in Calls(items) : d.to - d.from <= c.to - c.from - 1 => convert[d] = h[d]
        BY <1>5, <4>5
      <4>7. convert[ca] = a /\ h[ca] = a /\ convert[cz] = h[cz]
        BY <4>2, <4>4, <4>6
      <4>8. OfHalves(convert, c) = OfHalves(h, c)
        BY <4>7, Zenon DEF OfHalves
      <4> QED
        BY <3>3, <4>8, ConversionOfHalves
    <3> QED
      BY <3>1, <3>2, <3>3
  <2> QED
    BY <1>2, <1>4, <2>2
<1>6. N \in P
  <2> HIDE DEF P
  <2>1. P = 0 .. N
    <3>1. P \in SUBSET (0 .. N)
      BY DEF P
    <3> QED
      BY <1>1, <1>5, <3>1, UpTo
  <2> QED
    BY <1>1, <2>1
<1>7. all \in Calls(items) /\ all.to - all.from <= N
  BY <1>1 DEF Calls
<1>8. convert[all] = Converted(items, all)
  BY <1>2, <1>6, <1>7
<1>9. ConvertWithIsolation(items) = convert[all]
  BY DEF ConvertWithIsolation, convert
<1> QED
  BY <1>8, <1>9

\* As many of a list as it has places.
PlacesIn(s, T) == {i \in 1 .. Len(s) : s[i] \in T}

LEMMA PlacesOfAList ==
    ASSUME NEW S, NEW s, Lists(s, S), NEW T
    PROVE  /\ {s[i] : i \in PlacesIn(s, T)} = S \cap T
           /\ IsFiniteSet(S \cap T) /\ Cardinality(S \cap T) = Cardinality(PlacesIn(s, T))
<1> DEFINE places == {i \in 1 .. Len(s) : s[i] \in T}
           of == [i \in places |-> s[i]]
           there == S \cap T
<1>1. /\ Len(s) \in Nat
      /\ \A i \in 1 .. Len(s) : s[i] \in S
      /\ \A i, j \in 1 .. Len(s) : s[i] = s[j] => i = j
      /\ \A k \in S : \E i \in 1 .. Len(s) : s[i] = k
  BY ListFacts
<1>2. {s[i] : i \in places} = there
  BY <1>1
<1>3. of \in [places -> there]
  BY <1>2
<1>4. \A i, j \in places : of[i] = of[j] => i = j
  BY <1>1
<1>5. \A k \in there : \E i \in places : of[i] = k
  BY <1>1
<1>6. IsFiniteSet(places)
  <2>1. IsFiniteSet(1 .. Len(s)) /\ places \subseteq 1 .. Len(s)
    BY <1>1, FS_Interval
  <2> QED
    BY <2>1, FS_Subset
<1> HIDE DEF of, places, there
<1>7. of \in Bijection(places, there)
  BY <1>3, <1>4, <1>5, Fun_IsBij
<1>8. ExistsBijection(places, there)
  BY <1>7, Fun_ExistsBij
<1>9. IsFiniteSet(there) /\ Cardinality(there) = Cardinality(places)
  BY <1>6, <1>8, FS_Bijection
<1> QED
  BY <1>2, <1>9 DEF places, there, PlacesIn

\* The conversion of a list throws when more of it are broken than it tolerates, and
\* loses just the broken ones when it does not.
LEMMA ConversionOfAList ==
    ASSUME NEW S \in SUBSET Asked, NEW s, Lists(s, S)
    PROVE  LET conv == ConvertWithIsolation(s)
               bad == S \cap org.unconvertible
           IN  /\ conv.threw <=> Cardinality(bad) > Tolerance(s)
               /\ ~conv.threw => conv.lost = bad
<1> DEFINE N == Len(s)
           tol == Tolerance(s)
           all == [from |-> 0, to |-> N, left |-> tol]
           bad == S \cap org.unconvertible
           conv == ConvertWithIsolation(s)
           broken == Broken(s, 0, N)
<1>1. s \in Seq(Asked) /\ N \in Nat /\ tol \in Nat
  <2>1. s \in Seq(S)
    BY DEF Lists
  <2>2. s \in Seq(Asked)
    BY <2>1, SeqMonotonic
  <2> QED
    BY <2>2, ToleranceIsPositive
<1>2. broken = {i \in 1 .. N : s[i] \in org.unconvertible}
  BY <1>1 DEF Broken
<1>3. {s[i] : i \in broken} = bad /\ Cardinality(bad) = Cardinality(broken) /\ Cardinality(broken) \in Nat
  <2>1. Cardinality(broken) \in Nat
    BY <1>1, BrokenAreFinite
  <2> DEFINE places == PlacesIn(s, org.unconvertible)
  <2>2. {s[i] : i \in places} = bad /\ Cardinality(bad) = Cardinality(places)
    BY PlacesOfAList
  <2> HIDE DEF broken
  <2>3. broken = places
    BY <1>2 DEF PlacesIn
  <2> QED
    BY <2>1, <2>2, <2>3
<1>4. conv = Converted(s, all)
  BY <1>1, ConversionIs
<1>5. conv.threw = (Cardinality(broken) > tol)
  BY <1>4 DEF Converted
<1>6. ASSUME ~conv.threw PROVE conv.lost = bad
  <2>1. conv.lost = {s[n] : n \in {x \in broken : Cardinality(Broken(s, 0, x)) <= tol}}
    BY <1>4 DEF Converted
  <2>2. ASSUME NEW x \in broken
        PROVE  Cardinality(Broken(s, 0, x)) <= tol
    <3>1. x \in Nat /\ x \in 0 .. N
      BY <1>1 DEF Broken
    <3>2. AddsUp(s, 0, N, x)
      BY <1>1, <3>1, BrokenAddUp
    <3>3. Cardinality(Broken(s, 0, x)) \in Nat /\ Cardinality(Broken(s, x, N)) \in Nat
      BY <1>1, <3>1, BrokenAreFinite
    <3>4. ~(Cardinality(broken) > tol)
      BY <1>5, <1>6
    <3> QED
      BY <1>1, <1>3, <3>2, <3>3, <3>4 DEF AddsUp
  <2>3. {x \in broken : Cardinality(Broken(s, 0, x)) <= tol} = broken
    BY <2>2
  <2> HIDE DEF broken, conv
  <2> QED
    BY <1>3, <2>1, <2>3
<1>7. (conv.threw <=> Cardinality(bad) > tol) /\ (~conv.threw => conv.lost = bad)
  BY <1>3, <1>5, <1>6
<1> QED
  BY <1>7

\* What a retrieve of a list of keys answers.
LEMMA RetrieveOfAList ==
    ASSUME NEW S \in SUBSET Asked, NEW keys, Lists(keys, S)
    PROVE  LET there == Only(keys, Asked \ org.gone)
               bad == (S \ org.gone) \cap org.unconvertible
               r == Retrieve(keys)
           IN  /\ Lists(there, S \ org.gone)
               /\ r.threw <=> S \cap org.poison # {} \/ Cardinality(bad) > Tolerance(there)
               /\ ~r.threw => /\ r.files = S \ (org.gone \cup org.unconvertible)
                              /\ r.missing = {<<k, "gone">> : k \in S \cap org.gone}
                                              \cup {<<k, "convert">> : k \in bad}
<1> DEFINE there == Only(keys, Asked \ org.gone)
           T == S \ org.gone
           bad == T \cap org.unconvertible
           conv == ConvertWithIsolation(there)
           r == Retrieve(keys)
<1>1. Lists(there, T)
  <2>1. Lists(there, S \cap (Asked \ org.gone))
    BY OnlyLists
  <2>2. S \cap (Asked \ org.gone) = T
    OBVIOUS
  <2> QED
    BY <2>1, <2>2
<1>2. ToSet(keys) = S /\ ToSet(there) = T
  BY <1>1 DEF Lists
<1>3. (conv.threw <=> Cardinality(bad) > Tolerance(there)) /\ (~conv.threw => conv.lost = bad)
  <2> HIDE DEF there
  <2> QED
    BY <1>1, ConversionOfAList
<1>4. /\ r.threw = (ToSet(keys) \cap org.poison # {} \/ conv.threw)
      /\ r.files = ToSet(there) \ conv.lost
      /\ r.missing = {<<k, "gone">> : k \in ToSet(keys) \cap org.gone}
                       \cup {<<k, "convert">> : k \in conv.lost}
  BY DEF Retrieve
<1> HIDE DEF there, conv, r
<1>5. r.threw <=> S \cap org.poison # {} \/ Cardinality(bad) > Tolerance(there)
  BY <1>2, <1>3, <1>4
<1>6. ASSUME ~r.threw
      PROVE  /\ r.files = S \ (org.gone \cup org.unconvertible)
             /\ r.missing = {<<k, "gone">> : k \in S \cap org.gone} \cup {<<k, "convert">> : k \in bad}
  BY <1>2, <1>3, <1>4, <1>6
<1> QED
  BY <1>1, <1>5, <1>6 DEF there, r

-----------------------------------------------------------------------------
\* The inductive invariant.

States == {"waiting", "running", "done", "rejected"}
Reasons == {"gone", "convert", "retrieve"}
MissingKeys == {m[1] : m \in missing}
Settled == GotKeys \cup MissingKeys
GivenUp(i) == {m \in Lost("retrieve") : m[1] \in ToSet(chunks[i])}
Blameless == {m \in Lost("retrieve") : m[1] \notin org.poison}

ShapeInv ==
    /\ chunks = PlanMaterializeChunks
    /\ org \in [poison : SUBSET Asked, unconvertible : SUBSET Asked, gone : SUBSET Asked]
    /\ status \in {"connecting", "running", "failed", "done"}
    /\ chunk \in [DOMAIN chunks -> States]
    /\ budget \in [DOMAIN chunks -> Nat]
    /\ tasks \in SUBSET [chunk : DOMAIN chunks, keys : Seq(Asked)]
    /\ got \in SUBSET [key : Asked, with : SUBSET Asked]
    /\ missing \in SUBSET (Asked \X Reasons)
    /\ faults \in 0 .. MaxFaults

\* The retrieves in flight ask for keys of their chunk, and no two for the same.
TasksInv ==
    /\ \A t \in tasks : /\ t.keys # <<>> /\ Lists(t.keys, ToSet(t.keys))
                        /\ ToSet(t.keys) \subseteq ToSet(chunks[t.chunk])
                        /\ chunk[t.chunk] \in {"running", "rejected"}
    /\ \A t, u \in tasks : t # u => ToSet(t.keys) \cap ToSet(u.keys) = {}

\* A key is settled once, by a file or by a reason, and not while it is in flight.
AnswersInv ==
    /\ \A g, h \in got : g.key = h.key => g = h
    /\ \A m, n \in missing : m[1] = n[1] => m = n
    /\ GotKeys \cap MissingKeys = {}
    /\ \A t \in tasks : ToSet(t.keys) \cap Settled = {}

\* Until a chunk is rejected none of its keys is forgotten.
ChunksInv ==
    \A i \in DOMAIN chunks :
        /\ chunk[i] = "waiting" => ToSet(chunks[i]) \cap Settled = {}
        /\ chunk[i] \in {"running", "done"} =>
              \A k \in ToSet(chunks[i]) : k \in Settled \/ \E t \in tasks : t.chunk = i /\ k \in ToSet(t.keys)

StatusInv ==
    /\ status = "connecting" => \A i \in DOMAIN chunks : chunk[i] = "waiting"
    /\ status = "done" => \A i \in DOMAIN chunks : chunk[i] = "done"

\* What a chunk gave up and what it may still give up come to its tolerance, and a
\* key that nothing is wrong with was given up for a fault.
BudgetInv ==
    /\ \A i \in DOMAIN chunks : Cardinality(GivenUp(i)) + budget[i] = Tolerance(chunks[i])
    /\ Cardinality(Blameless) <= faults

\* No retrieve of the core chunk fails of itself.
CoreHolds ==
    /\ ToSet(CoreChunk) \cap org.poison = {}
    /\ Cardinality(ToSet(CoreChunk) \cap org.unconvertible) <= Tolerance(Only(CoreChunk, Asked \ org.gone))

\* ... and then the Profiles stay together with their pairs.
CoreInv ==
    (faults = 0 /\ CoreHolds) =>
        /\ \A g \in got : g.key \in ProfileLike => g.with = Core
        /\ \A t \in tasks : ToSet(t.keys) \cap ProfileLike # {} => t.keys = CoreChunk

RInv ==
    /\ ShapeInv /\ TasksInv /\ AnswersInv /\ ChunksInv /\ StatusInv
    /\ BudgetInv /\ CoreInv /\ AFewFailuresAreTolerated

\* What the plan says of the chunks.
LEMMA ChunkFacts ==
    ASSUME ShapeInv
    PROVE  /\ \A i \in DOMAIN chunks : /\ chunks[i] \in Seq(Asked) /\ chunks[i] # <<>>
                                       /\ Lists(chunks[i], ToSet(chunks[i]))
                                       /\ ToSet(chunks[i]) \subseteq Asked
                                       /\ Tolerance(chunks[i]) \in Nat \ {0}
           /\ \A i, j \in DOMAIN chunks : i # j => ToSet(chunks[i]) \cap ToSet(chunks[j]) = {}
           /\ \A k \in Asked : \E i \in DOMAIN chunks : k \in ToSet(chunks[i])
           /\ \A i \in DOMAIN chunks : ToSet(chunks[i]) \cap ProfileLike # {} => chunks[i] = CoreChunk
<1>1. Plans(chunks, Asked) /\ (CoreChunk # <<>> => 1 \in DOMAIN chunks /\ chunks[1] = CoreChunk)
  BY PlanCoversTheRequest DEF ShapeInv
<1>2. DOMAIN chunks = 1 .. Len(chunks) /\ \A i \in DOMAIN chunks : chunks[i] \in Seq(Asked)
  BY <1>1 DEF Plans
<1>3. \A i \in DOMAIN chunks : chunks[i] # <<>> /\ Lists(chunks[i], ToSet(chunks[i]))
  BY <1>1, <1>2 DEF Plans
<1>4. \A i \in DOMAIN chunks : ToSet(chunks[i]) \subseteq Asked /\ Tolerance(chunks[i]) \in Nat \ {0}
  <2>1. \A i \in DOMAIN chunks : \A k \in ToSet(chunks[i]) : k \in Asked
    BY <1>1, <1>2 DEF Plans
  <2> QED
    BY <1>2, <2>1, ToleranceIsPositive
<1>5. \A i, j \in DOMAIN chunks : i # j => ToSet(chunks[i]) \cap ToSet(chunks[j]) = {}
  BY <1>1, <1>2 DEF Plans
<1>6. \A k \in Asked : \E i \in DOMAIN chunks : k \in ToSet(chunks[i])
  BY <1>1, <1>2 DEF Plans
<1>7. ASSUME NEW i \in DOMAIN chunks, NEW k \in ToSet(chunks[i]) \cap ProfileLike
      PROVE  chunks[i] = CoreChunk
  <2>1. ToSet(CoreChunk) = Core
    BY CoreLists DEF Lists
  <2>2. k \in Core
    BY <1>7 DEF Core
  <2>3. CoreChunk # <<>>
    BY <2>1, <2>2 DEF ToSet
  <2>4. 1 \in DOMAIN chunks /\ chunks[1] = CoreChunk /\ k \in ToSet(chunks[1])
    BY <1>1, <2>1, <2>2, <2>3
  <2> QED
    BY <1>5, <1>7, <2>4
<1> QED
  BY <1>2, <1>3, <1>4, <1>5, <1>6, <1>7

LEMMA RInitHolds == RInit => RInv
<1> SUFFICES ASSUME RInit PROVE RInv
  OBVIOUS
<1> USE DEF RInit
<1>1. ShapeInv
  <2>1. chunk \in [DOMAIN chunks -> States]
    BY DEF States
  <2>2. org \in [poison : SUBSET Asked, unconvertible : SUBSET Asked, gone : SUBSET Asked]
    OBVIOUS
  <2>3. budget \in [DOMAIN chunks -> Nat]
    <3>1. Plans(chunks, Asked)
      BY PlanCoversTheRequest
    <3>2. \A i \in DOMAIN chunks : Tolerance(chunks[i]) \in Nat
      BY <3>1, ToleranceIsPositive DEF Plans
    <3> QED
      BY <3>2
  <2>4. 0 \in 0 .. MaxFaults
    BY RetrievalAssumption
  <2> QED
    BY <2>1, <2>2, <2>3, <2>4 DEF ShapeInv
<1>2. Settled = {} /\ \A i \in DOMAIN chunks : GivenUp(i) = {}
  BY DEF Settled, GotKeys, MissingKeys, GivenUp, Lost
<1>3. TasksInv /\ AnswersInv /\ ChunksInv /\ StatusInv
  BY <1>2 DEF TasksInv, AnswersInv, ChunksInv, StatusInv, GotKeys, MissingKeys
<1>4. BudgetInv
  <2>1. Blameless = {}
    BY DEF Blameless, Lost
  <2>2. \A i \in DOMAIN chunks : Tolerance(chunks[i]) \in Nat /\ budget[i] = Tolerance(chunks[i])
    BY <1>1, ChunkFacts
  <2> QED
    BY <1>2, <2>1, <2>2, FS_EmptySet DEF BudgetInv
<1>5. CoreInv /\ AFewFailuresAreTolerated
  BY DEF CoreInv, AFewFailuresAreTolerated
<1> QED
  BY <1>1, <1>3, <1>4, <1>5 DEF RInv

-----------------------------------------------------------------------------
\* The steps that settle the keys of a retrieve.

\* Files and reasons that account for the keys of K, each once.
Accounts(K, files, reasons) ==
    /\ files \in SUBSET [key : K, with : {K}] /\ reasons \in SUBSET (K \X Reasons)
    /\ \A m, n \in reasons : m[1] = n[1] => m = n
    /\ \A g \in files, m \in reasons : g.key # m[1]
    /\ \A k \in K : (\E g \in files : g.key = k) \/ \E m \in reasons : m[1] = k

LEMMA AnswerAccounts ==
    ASSUME NEW K \in SUBSET Asked, NEW keys, Lists(keys, K), ~Retrieve(keys).threw
    PROVE  LET r == Retrieve(keys)
           IN  /\ Accounts(K, {[key |-> k, with |-> K] : k \in r.files}, r.missing)
               /\ \A m \in r.missing : m[2] # "retrieve"
<1> DEFINE r == Retrieve(keys)
           bad == (K \ org.gone) \cap org.unconvertible
           files == {[key |-> k, with |-> K] : k \in r.files}
<1>1. r.files = K \ (org.gone \cup org.unconvertible)
      /\ r.missing = {<<k, "gone">> : k \in K \cap org.gone} \cup {<<k, "convert">> : k \in bad}
  BY RetrieveOfAList
<1> HIDE DEF r
<1>2. files \in SUBSET [key : K, with : {K}] /\ r.missing \in SUBSET (K \X Reasons)
  BY <1>1 DEF Reasons
<1>3. \A m \in r.missing : m \in K \X Reasons /\ m[2] # "retrieve" /\ (m[1] \in org.gone \/ m[1] \in org.unconvertible)
  BY <1>1 DEF Reasons
<1>4. \A m, n \in r.missing : m[1] = n[1] => m = n
  <2> SUFFICES ASSUME NEW m \in r.missing, NEW n \in r.missing, m[1] = n[1] PROVE m = n
    OBVIOUS
  <2>1. ASSUME m = <<m[1], "gone">>, m[1] \in org.gone, n[1] \in bad PROVE FALSE
    BY <2>1
  <2>2. ASSUME n = <<n[1], "gone">>, n[1] \in org.gone, m[1] \in bad PROVE FALSE
    BY <2>2
  <2>3. (m = <<m[1], "gone">> /\ m[1] \in org.gone) \/ (m = <<m[1], "convert">> /\ m[1] \in bad)
    BY <1>1
  <2>4. (n = <<n[1], "gone">> /\ n[1] \in org.gone) \/ (n = <<n[1], "convert">> /\ n[1] \in bad)
    BY <1>1
  <2> QED
    BY <2>1, <2>2, <2>3, <2>4
<1>5. \A g \in files, m \in r.missing : g.key # m[1]
  BY <1>1, <1>3
<1>6. ASSUME NEW k \in K
      PROVE (\E g \in files : g.key = k) \/ \E m \in r.missing : m[1] = k
  <2>1. CASE k \in org.gone
    <3>1. <<k, "gone">> \in r.missing /\ <<k, "gone">>[1] = k
      BY <1>1, <2>1
    <3> QED
      BY <3>1
  <2>2. CASE k \in bad
    <3>1. <<k, "convert">> \in r.missing /\ <<k, "convert">>[1] = k
      BY <1>1, <2>2
    <3> QED
      BY <3>1
  <2>3. CASE k \in r.files
    <3>1. [key |-> k, with |-> K] \in files /\ [key |-> k, with |-> K].key = k
      BY <2>3
    <3> QED
      BY <3>1
  <2> QED
    BY <1>1, <2>1, <2>2, <2>3
<1> HIDE DEF files
<1>7. Accounts(K, files, r.missing) /\ \A m \in r.missing : m[2] # "retrieve"
  BY <1>2, <1>3, <1>4, <1>5, <1>6 DEF Accounts
<1> QED
  BY <1>7 DEF r, files

\* The invariant of the keys, before what is counted.
KeysInv == TasksInv /\ AnswersInv /\ ChunksInv /\ StatusInv

LEMMA SettleTypes ==
    ASSUME ShapeInv, NEW t \in tasks, Settle(t)
    PROVE  /\ chunk' \in [DOMAIN chunks -> States]
           /\ \A i \in DOMAIN chunks :
                 chunk'[i] # chunk[i] => /\ i = t.chunk /\ chunk[i] = "running" /\ chunk'[i] = "done"
                                         /\ \A o \in Others(t) : o.chunk # i
<1>1. t.chunk \in DOMAIN chunks /\ chunk \in [DOMAIN chunks -> States] /\ "done" \in States
  BY DEF ShapeInv, States
<1> DEFINE last == chunk[t.chunk] = "running" /\ \A o \in Others(t) : o.chunk # t.chunk
<1>2. chunk' = IF last THEN [chunk EXCEPT ![t.chunk] = "done"] ELSE chunk
  BY DEF Settle
<1> HIDE DEF last
<1>3. chunk' \in [DOMAIN chunks -> States]
  BY <1>1, <1>2
<1>4. ASSUME NEW i \in DOMAIN chunks, chunk'[i] # chunk[i]
      PROVE  i = t.chunk /\ last /\ chunk'[i] = "done"
  BY <1>1, <1>2, <1>4
<1>5. ASSUME NEW i \in DOMAIN chunks, chunk'[i] # chunk[i]
      PROVE  /\ i = t.chunk /\ chunk[i] = "running" /\ chunk'[i] = "done"
             /\ \A o \in Others(t) : o.chunk # i
  BY <1>4, <1>5 DEF last
<1> QED
  BY <1>3, <1>5

\* The keys of a retrieve are settled: the chunk may be done with it.
LEMMA SettlingKeepsKeys ==
    ASSUME ShapeInv, KeysInv, NEW t \in tasks, NEW files, NEW reasons,
           Accounts(ToSet(t.keys), files, reasons),
           tasks' = Others(t), got' = got \cup files, missing' = missing \cup reasons,
           Settle(t), chunks' = chunks, status' = status
    PROVE  KeysInv'
<1> DEFINE K == ToSet(t.keys)
<1>1. /\ t.chunk \in DOMAIN chunks /\ K \subseteq ToSet(chunks[t.chunk])
      /\ chunk[t.chunk] \in {"running", "rejected"}
  BY DEF ShapeInv, KeysInv, TasksInv
<1>2. tasks' = tasks \ {t}
  BY DEF Others
<1>3. \A i \in DOMAIN chunks :
        chunk'[i] # chunk[i] => /\ i = t.chunk /\ chunk[i] = "running" /\ chunk'[i] = "done"
                                /\ \A o \in tasks' : o.chunk # i
  BY SettleTypes DEF Others
<1>4. \A u \in tasks' : /\ u \in tasks /\ u # t /\ u.chunk \in DOMAIN chunks
                       /\ chunk'[u.chunk] = chunk[u.chunk] /\ ToSet(u.keys) \cap K = {}
  BY <1>2, <1>3 DEF ShapeInv, KeysInv, TasksInv
<1>5. K \cap Settled = {}
  BY DEF KeysInv, AnswersInv
<1>6. GotKeys' = GotKeys \cup {g.key : g \in files} /\ MissingKeys' = MissingKeys \cup {m[1] : m \in reasons}
  BY DEF GotKeys, MissingKeys
<1>7. {g.key : g \in files} \cup {m[1] : m \in reasons} = K
      /\ {g.key : g \in files} \cap {m[1] : m \in reasons} = {}
  <2>1. \A g \in files : g.key \in K
    BY DEF Accounts
  <2>2. \A m \in reasons : m[1] \in K
    BY DEF Accounts
  <2> HIDE DEF K
  <2> QED
    BY <2>1, <2>2 DEF Accounts, K
<1>8. Settled' = Settled \cup K
  BY <1>6, <1>7 DEF Settled
<1>9. TasksInv'
  BY <1>4 DEF KeysInv, TasksInv
<1>10. AnswersInv'
  <2>1. ASSUME NEW g \in got', NEW h \in got', g.key = h.key
        PROVE  g = h
    <3>1. \A x \in files : x.key \in K /\ x.with = K /\ x = [key |-> x.key, with |-> x.with]
      BY DEF Accounts
    <3>2. \A x \in got : x.key \notin K
      BY <1>5 DEF Settled, GotKeys
    <3>3. \A x, y \in files : x.key = y.key => x = y
      BY <3>1
    <3> QED
      BY <2>1, <3>1, <3>2, <3>3 DEF KeysInv, AnswersInv
  <2>2. ASSUME NEW m \in missing', NEW n \in missing', m[1] = n[1]
        PROVE  m = n
    <3>1. \A x \in reasons : x[1] \in K
      BY DEF Accounts
    <3>2. \A x \in missing : x[1] \notin K
      BY <1>5 DEF Settled, MissingKeys
    <3> QED
      BY <2>2, <3>1, <3>2 DEF KeysInv, AnswersInv, Accounts
  <2>3. GotKeys' \cap MissingKeys' = {}
    BY <1>5, <1>6, <1>7 DEF KeysInv, AnswersInv, Settled
  <2>4. \A u \in tasks' : ToSet(u.keys) \cap Settled' = {}
    BY <1>4, <1>8 DEF KeysInv, AnswersInv
  <2> QED
    BY <2>1, <2>2, <2>3, <2>4 DEF AnswersInv
<1>11. ChunksInv'
  <2> SUFFICES ASSUME NEW i \in DOMAIN chunks
               PROVE  /\ chunk'[i] = "waiting" => ToSet(chunks[i]) \cap Settled' = {}
                      /\ chunk'[i] \in {"running", "done"} =>
                            \A k \in ToSet(chunks[i]) :
                               k \in Settled' \/ \E u \in tasks' : u.chunk = i /\ k \in ToSet(u.keys)
    BY DEF ChunksInv
  <2>1. ASSUME chunk'[i] = "waiting"
        PROVE  ToSet(chunks[i]) \cap Settled' = {}
    <3>1. chunk[i] = "waiting" /\ i # t.chunk
      BY <1>1, <1>3, <2>1
    <3>2. ToSet(chunks[i]) \cap K = {}
      BY <1>1, <3>1, ChunkFacts
    <3> QED
      BY <1>8, <3>1, <3>2 DEF KeysInv, ChunksInv
  <2>2. ASSUME chunk'[i] \in {"running", "done"}, NEW k \in ToSet(chunks[i]), k \notin Settled'
        PROVE  \E u \in tasks' : u.chunk = i /\ k \in ToSet(u.keys)
    <3>1. chunk[i] \in {"running", "done"}
      BY <1>3, <2>2
    <3>2. PICK u \in tasks : u.chunk = i /\ k \in ToSet(u.keys)
      BY <1>8, <2>2, <3>1 DEF KeysInv, ChunksInv
    <3>3. u # t
      BY <1>8, <2>2, <3>2
    <3> QED
      BY <1>2, <3>2, <3>3
  <2> QED
    BY <2>1, <2>2
<1>12. StatusInv'
  BY <1>1 DEF KeysInv, StatusInv
<1> QED
  BY <1>9, <1>10, <1>11, <1>12 DEF KeysInv

-----------------------------------------------------------------------------
\* The steps.

LEMMA AnsweredsAreFinite ==
    ASSUME ShapeInv
    PROVE  \A S \in SUBSET missing : IsFiniteSet(S) /\ Cardinality(S) \in Nat
<1>1. IsFiniteSet(Asked)
  <2>1. IsFiniteSet(Asked \cap Asked)
    BY RequestLists, PlacesOfAList
  <2> QED
    BY <2>1
<1>2. IsFiniteSet(Reasons)
  <2>1. IsFiniteSet({"gone"})
    BY FS_Singleton
  <2>2. IsFiniteSet({"gone"} \cup {"convert"})
    BY <2>1, FS_AddElement
  <2>3. IsFiniteSet(({"gone"} \cup {"convert"}) \cup {"retrieve"})
    BY <2>2, FS_AddElement
  <2>4. Reasons = ({"gone"} \cup {"convert"}) \cup {"retrieve"}
    BY DEF Reasons
  <2> QED
    BY <2>3, <2>4
<1>3. IsFiniteSet(Asked \X Reasons)
  BY <1>1, <1>2, FS_Product
<1>4. IsFiniteSet(missing)
  BY <1>3, FS_Subset DEF ShapeInv
<1> QED
  BY <1>4, FS_Subset, FS_CardinalityType

\* The core chunk, when it holds, is retrieved at once.
LEMMA CoreDoesNotThrow ==
    ASSUME ShapeInv, CoreHolds
    PROVE  ~Retrieve(CoreChunk).threw
<1> DEFINE there == Only(CoreChunk, Asked \ org.gone)
           bad == (Core \ org.gone) \cap org.unconvertible
           all == Core \cap org.unconvertible
<1>1. Core \subseteq Asked /\ ToSet(CoreChunk) = Core
  BY CoreLists, RetrievalAssumption DEF Core, Lists
<1>2. Retrieve(CoreChunk).threw <=> Core \cap org.poison # {} \/ Cardinality(bad) > Tolerance(there)
  BY <1>1, CoreLists, RetrieveOfAList
<1>3. Lists(there, Core \ org.gone)
  BY <1>1, CoreLists, RetrieveOfAList
<1>4. IsFiniteSet(all) /\ bad \in SUBSET all
  BY CoreLists, PlacesOfAList
<1>5. Cardinality(bad) \in Nat /\ Cardinality(all) \in Nat /\ Cardinality(bad) <= Cardinality(all)
  BY <1>4, FS_Subset, FS_CardinalityType
<1>6. Tolerance(there) \in Nat
  <2>1. there \in Seq(Asked)
    BY <1>1, <1>3, SeqMonotonic DEF Lists
  <2> QED
    BY <2>1, ToleranceIsPositive
<1>7. Cardinality(all) <= Tolerance(there) /\ Core \cap org.poison = {}
  BY <1>1 DEF CoreHolds
<1> HIDE DEF all, bad, there
<1> QED
  BY <1>2, <1>5, <1>6, <1>7

LEMMA ConnectKeeps == RInv /\ Connect => RInv'
<1> SUFFICES ASSUME RInv, Connect PROVE RInv'
  OBVIOUS
<1>1. /\ chunks' = chunks /\ org' = org /\ chunk' = chunk /\ budget' = budget
      /\ tasks' = tasks /\ got' = got /\ missing' = missing /\ status = "connecting"
      /\ status' \in {"running", "failed"} /\ faults \in Nat
      /\ faults' \in {faults, faults + 1} /\ faults' \in 0 .. MaxFaults
      /\ status' = "failed" => faults' = faults + 1
  BY RetrievalAssumption DEF Connect, RInv, ShapeInv
<1>2. ShapeInv'
  BY <1>1 DEF RInv, ShapeInv
<1>3. TasksInv' /\ AnswersInv' /\ ChunksInv' /\ StatusInv'
  BY <1>1
     DEF RInv, TasksInv, AnswersInv, ChunksInv, StatusInv, Settled, GotKeys, MissingKeys
<1>4. BudgetInv'
  <2>1. Cardinality(Blameless) \in Nat
    BY AnsweredsAreFinite DEF RInv, Blameless, Lost
  <2>2. Blameless' = Blameless /\ \A i \in DOMAIN chunks : GivenUp(i)' = GivenUp(i)
    BY <1>1 DEF Blameless, GivenUp, Lost
  <2> QED
    BY <1>1, <2>1, <2>2 DEF RInv, BudgetInv
<1>5. CoreInv'
  BY <1>1 DEF RInv, CoreInv, CoreHolds
<1>6. AFewFailuresAreTolerated'
  BY <1>1 DEF AFewFailuresAreTolerated
<1> QED
  BY <1>2, <1>3, <1>4, <1>5, <1>6 DEF RInv

LEMMA FinishKeeps == RInv /\ Finish => RInv'
<1> SUFFICES ASSUME RInv, Finish PROVE RInv'
  OBVIOUS
<1>1. /\ chunks' = chunks /\ org' = org /\ chunk' = chunk /\ budget' = budget /\ faults' = faults
      /\ tasks' = tasks /\ got' = got /\ missing' = missing /\ status' = "done"
      /\ \A i \in DOMAIN chunks : chunk[i] = "done"
  BY DEF Finish
<1>2. ShapeInv'
  BY <1>1 DEF RInv, ShapeInv
<1>3. TasksInv' /\ AnswersInv' /\ ChunksInv'
  <2>1. Settled' = Settled /\ GotKeys' = GotKeys /\ MissingKeys' = MissingKeys
    BY <1>1 DEF Settled, GotKeys, MissingKeys
  <2>2. TasksInv'
    BY <1>1 DEF RInv, TasksInv
  <2>3. AnswersInv'
    BY <1>1, <2>1 DEF RInv, AnswersInv
  <2>4. ChunksInv'
    BY <1>1, <2>1 DEF RInv, ChunksInv
  <2> QED
    BY <2>2, <2>3, <2>4
<1>4. StatusInv'
  BY <1>1 DEF StatusInv
<1>5. BudgetInv'
  BY <1>1 DEF RInv, BudgetInv, Blameless, GivenUp, Lost
<1>6. CoreInv' /\ AFewFailuresAreTolerated'
  BY <1>1 DEF RInv, CoreInv, CoreHolds, AFewFailuresAreTolerated
<1> QED
  BY <1>2, <1>3, <1>4, <1>5, <1>6 DEF RInv

LEMMA TakeChunkKeeps ==
    ASSUME RInv, NEW i \in DOMAIN chunks, TakeChunk(i)
    PROVE  RInv'
<1> DEFINE n == [chunk |-> i, keys |-> chunks[i]]
<1>1. /\ chunks' = chunks /\ org' = org /\ status' = status /\ budget' = budget /\ faults' = faults
      /\ tasks' = tasks \cup {n} /\ got' = got /\ missing' = missing
      /\ status \in {"running", "failed"} /\ chunk[i] = "waiting"
      /\ chunk' = [chunk EXCEPT ![i] = "running"]
  BY DEF TakeChunk
<1>2. chunk \in [DOMAIN chunks -> States]
  BY DEF RInv, ShapeInv
<1>3. chunk'[i] = "running" /\ \A j \in DOMAIN chunks : j # i => chunk'[j] = chunk[j]
  BY <1>1, <1>2
<1>4. chunks[i] \in Seq(Asked) /\ chunks[i] # <<>> /\ Lists(chunks[i], ToSet(chunks[i]))
  BY ChunkFacts DEF RInv
<1>5. n.chunk = i /\ n.keys = chunks[i] /\ n \in [chunk : DOMAIN chunks, keys : Seq(Asked)]
  BY <1>4
<1>6. \A u \in tasks : /\ u.chunk \in DOMAIN chunks /\ u.chunk # i
                      /\ chunk'[u.chunk] = chunk[u.chunk] /\ ToSet(u.keys) \cap ToSet(chunks[i]) = {}
  <2> SUFFICES ASSUME NEW u \in tasks
               PROVE  /\ u.chunk \in DOMAIN chunks /\ u.chunk # i
                      /\ chunk'[u.chunk] = chunk[u.chunk] /\ ToSet(u.keys) \cap ToSet(chunks[i]) = {}
    OBVIOUS
  <2>1. u.chunk \in DOMAIN chunks /\ u.chunk # i /\ ToSet(u.keys) \subseteq ToSet(chunks[u.chunk])
    BY <1>1 DEF RInv, ShapeInv, TasksInv
  <2>2. ToSet(chunks[u.chunk]) \cap ToSet(chunks[i]) = {}
    BY <2>1, ChunkFacts DEF RInv
  <2> QED
    BY <1>3, <2>1, <2>2
<1>7. Settled' = Settled /\ GotKeys' = GotKeys /\ MissingKeys' = MissingKeys
  BY <1>1 DEF Settled, GotKeys, MissingKeys
<1> HIDE DEF n
<1>8. ShapeInv'
  <2>1. chunk' \in [DOMAIN chunks -> States]
    BY <1>1, <1>2 DEF States
  <2> QED
    BY <1>1, <1>5, <2>1 DEF RInv, ShapeInv
<1>9. TasksInv'
  BY <1>1, <1>3, <1>4, <1>5, <1>6 DEF RInv, TasksInv
<1>10. AnswersInv'
  <2>1. ToSet(chunks[i]) \cap Settled = {}
    BY <1>1 DEF RInv, ChunksInv
  <2>2. \A u \in tasks' : ToSet(u.keys) \cap Settled' = {}
    BY <1>1, <1>5, <1>7, <2>1 DEF RInv, AnswersInv
  <2> QED
    BY <1>1, <1>7, <2>2 DEF RInv, AnswersInv
<1>11. ChunksInv'
  <2> SUFFICES ASSUME NEW j \in DOMAIN chunks
               PROVE  /\ chunk'[j] = "waiting" => ToSet(chunks[j]) \cap Settled = {}
                      /\ chunk'[j] \in {"running", "done"} =>
                            \A k \in ToSet(chunks[j]) :
                               k \in Settled \/ \E u \in tasks' : u.chunk = j /\ k \in ToSet(u.keys)
    BY <1>1, <1>7 DEF ChunksInv
  <2>1. CASE j = i
    BY <1>1, <1>3, <1>5, <2>1
  <2>2. CASE j # i
    BY <1>1, <1>3, <2>2 DEF RInv, ChunksInv
  <2> QED
    BY <2>1, <2>2
<1>12. StatusInv'
  BY <1>1 DEF StatusInv
<1>13. BudgetInv'
  BY <1>1 DEF RInv, BudgetInv, Blameless, GivenUp, Lost
<1>14. CoreInv'
  <2>1. ToSet(chunks[i]) \cap ProfileLike # {} => chunks[i] = CoreChunk
    BY ChunkFacts DEF RInv
  <2> QED
    BY <1>1, <1>5, <2>1 DEF RInv, CoreInv, CoreHolds
<1>15. AFewFailuresAreTolerated'
  BY <1>1 DEF RInv, AFewFailuresAreTolerated
<1> QED
  BY <1>8, <1>9, <1>10, <1>11, <1>12, <1>13, <1>14, <1>15 DEF RInv

LEMMA AnsweredKeeps ==
    ASSUME RInv, NEW t \in tasks, Answered(t)
    PROVE  RInv'
<1> DEFINE K == ToSet(t.keys)
           r == Retrieve(t.keys)
           files == {[key |-> k, with |-> K] : k \in r.files}
           reasons == r.missing
<1>1. /\ chunks' = chunks /\ org' = org /\ status' = status /\ budget' = budget /\ faults' = faults
      /\ tasks' = Others(t) /\ got' = got \cup files /\ missing' = missing \cup reasons /\ Settle(t)
      /\ ~r.threw
  BY DEF Answered
<1>2. t.keys # <<>> /\ Lists(t.keys, K) /\ K \subseteq Asked
      /\ t \in [chunk : DOMAIN chunks, keys : Seq(Asked)]
  <2>1. t \in [chunk : DOMAIN chunks, keys : Seq(Asked)] /\ Lists(t.keys, K) /\ t.keys # <<>>
    BY DEF RInv, ShapeInv, TasksInv
  <2>2. K \subseteq Asked
    BY <2>1 DEF ToSet
  <2> QED
    BY <2>1, <2>2
<1>3. Accounts(K, files, reasons) /\ \A m \in reasons : m[2] # "retrieve"
  BY <1>1, <1>2, AnswerAccounts
<1> HIDE DEF K, files, reasons, r
<1>4. KeysInv'
  BY <1>1, <1>3, SettlingKeepsKeys DEF RInv, KeysInv, K
<1>5. ShapeInv'
  <2>1. chunk' \in [DOMAIN chunks -> States]
    BY <1>1, SettleTypes DEF RInv
  <2>2. files \subseteq [key : Asked, with : SUBSET Asked] /\ reasons \subseteq Asked \X Reasons
    BY <1>2, <1>3 DEF Accounts
  <2> QED
    BY <1>1, <2>1, <2>2 DEF RInv, ShapeInv, Others
<1>6. BudgetInv'
  <2>1. Lost("retrieve")' = Lost("retrieve")
    BY <1>1, <1>3 DEF Lost
  <2>2. Blameless' = Blameless /\ \A i \in DOMAIN chunks : GivenUp(i)' = GivenUp(i)
    BY <1>1, <2>1 DEF Blameless, GivenUp
  <2> QED
    BY <1>1, <2>2 DEF RInv, BudgetInv
<1>7. CoreInv'
  <2> SUFFICES ASSUME faults = 0, CoreHolds
               PROVE  /\ \A g \in got' : g.key \in ProfileLike => g.with = Core
                      /\ \A u \in tasks' : ToSet(u.keys) \cap ProfileLike # {} => u.keys = CoreChunk
    BY <1>1 DEF CoreInv, CoreHolds
  <2>1. ASSUME NEW g \in files, g.key \in ProfileLike PROVE g.with = Core
    <3>1. g.key \in K /\ g.with = K
      BY <1>3 DEF Accounts
    <3>2. t.keys = CoreChunk
      BY <2>1, <3>1 DEF RInv, CoreInv, K
    <3> QED
      BY <3>1, <3>2, CoreLists DEF K, Lists
  <2> QED
    BY <1>1, <2>1 DEF RInv, CoreInv, Others
<1>8. AFewFailuresAreTolerated'
  BY <1>1 DEF RInv, AFewFailuresAreTolerated
<1> QED
  BY <1>4, <1>5, <1>6, <1>7, <1>8 DEF RInv, KeysInv

LEMMA BisectedKeeps ==
    ASSUME RInv, NEW t \in tasks, Bisected(t)
    PROVE  RInv'
<1> DEFINE K == ToSet(t.keys)
           mid == Len(t.keys) \div 2
           a == SubSeq(t.keys, 1, mid)
           z == SubSeq(t.keys, mid + 1, Len(t.keys))
           ta == [t EXCEPT !.keys = a]
           tz == [t EXCEPT !.keys = z]
<1>1. /\ chunks' = chunks /\ org' = org /\ status' = status /\ chunk' = chunk /\ budget' = budget
      /\ tasks' = Others(t) \cup Halves(t) /\ got' = got /\ missing' = missing
      /\ Threw(t) /\ Len(t.keys) > 1
  BY DEF Bisected
<1>2. Halves(t) = {ta, tz}
  BY DEF Halves, HalvesAt
<1>3. /\ t \in [chunk : DOMAIN chunks, keys : Seq(Asked)] /\ Lists(t.keys, K)
      /\ K \subseteq ToSet(chunks[t.chunk]) /\ chunk[t.chunk] \in {"running", "rejected"}
      /\ K \cap Settled = {}
  BY DEF RInv, ShapeInv, TasksInv, AnswersInv
<1>4. mid \in 1 .. Len(t.keys) - 1 /\ Len(t.keys) \in Nat
  <2>1. Len(t.keys) \in Nat /\ Len(t.keys) >= 2
    BY <1>1, <1>3
  <2> QED
    BY <2>1, HalfIsBetween
<1>5. a \in Seq(Asked) /\ z \in Seq(Asked)
  BY <1>3, <1>4
<1> HIDE DEF mid
<1>6. Parts(a, z, K)
  BY <1>3, <1>4, CutLists
<1> HIDE DEF a, z
<1>7. /\ ta.keys = a /\ ta.chunk = t.chunk /\ ta \in [chunk : DOMAIN chunks, keys : Seq(Asked)]
      /\ tz.keys = z /\ tz.chunk = t.chunk /\ tz \in [chunk : DOMAIN chunks, keys : Seq(Asked)]
  BY <1>3, <1>5
<1> HIDE DEF ta, tz, K
<1>8. \A u \in tasks' : u = ta \/ u = tz \/ (u \in tasks /\ u # t /\ ToSet(u.keys) \cap K = {})
  BY <1>1, <1>2 DEF Others, RInv, TasksInv, K
<1>9. faults' \in 0 .. MaxFaults /\ faults \in Nat /\ (faults' = faults \/ faults' = faults + 1)
      /\ (faults' = 0 => faults = 0 /\ Retrieve(t.keys).threw)
  BY <1>1, RetrievalAssumption DEF Threw, RInv, ShapeInv
<1>10. Settled' = Settled /\ GotKeys' = GotKeys /\ MissingKeys' = MissingKeys
  BY <1>1 DEF Settled, GotKeys, MissingKeys
<1>11. ShapeInv'
  BY <1>1, <1>7, <1>8, <1>9 DEF RInv, ShapeInv
<1>12. TasksInv'
  <2>1. ASSUME NEW u \in tasks'
        PROVE  /\ u.keys # <<>> /\ Lists(u.keys, ToSet(u.keys))
               /\ ToSet(u.keys) \subseteq ToSet(chunks[u.chunk]) /\ chunk[u.chunk] \in {"running", "rejected"}
    BY <1>3, <1>6, <1>7, <1>8 DEF Parts, RInv, TasksInv
  <2>2. ASSUME NEW u \in tasks', NEW v \in tasks', u # v
        PROVE  ToSet(u.keys) \cap ToSet(v.keys) = {}
    <3>1. CASE u \in tasks /\ v \in tasks
      BY <2>2, <3>1 DEF RInv, TasksInv
    <3>2. ToSet(ta.keys) \subseteq K /\ ToSet(tz.keys) \subseteq K /\ ToSet(ta.keys) \cap ToSet(tz.keys) = {}
      BY <1>6, <1>7 DEF Parts
    <3>3. CASE (u = ta \/ u = tz) /\ (v = ta \/ v = tz)
      BY <2>2, <3>2, <3>3
    <3>4. CASE (u = ta \/ u = tz) /\ ToSet(v.keys) \cap K = {}
      BY <3>2, <3>4
    <3>5. CASE (v = ta \/ v = tz) /\ ToSet(u.keys) \cap K = {}
      BY <3>2, <3>5
    <3> QED
      BY <1>8, <3>1, <3>3, <3>4, <3>5
  <2> QED
    BY <1>1, <2>1, <2>2 DEF TasksInv
<1>13. AnswersInv'
  <2>1. \A u \in tasks' : ToSet(u.keys) \cap Settled' = {}
    <3>1. ToSet(ta.keys) \subseteq K /\ ToSet(tz.keys) \subseteq K
      BY <1>6, <1>7 DEF Parts
    <3> QED
      BY <1>3, <1>8, <1>10, <3>1 DEF RInv, AnswersInv
  <2> QED
    BY <1>1, <1>10, <2>1 DEF RInv, AnswersInv
<1>14. ChunksInv'
  <2>1. ASSUME NEW i \in DOMAIN chunks, chunk[i] \in {"running", "done"}, NEW k \in ToSet(chunks[i]), k \notin Settled
        PROVE  \E u \in tasks' : u.chunk = i /\ k \in ToSet(u.keys)
    <3>1. PICK u \in tasks : u.chunk = i /\ k \in ToSet(u.keys)
      BY <2>1 DEF RInv, ChunksInv
    <3>2. CASE u # t
      BY <1>1, <3>1, <3>2 DEF Others
    <3>3. CASE u = t
      <4>1. ta \in tasks' /\ tz \in tasks'
        BY <1>1, <1>2
      <4>2. k \in ToSet(ta.keys) \/ k \in ToSet(tz.keys)
        BY <1>6, <1>7, <3>1, <3>3 DEF Parts, K
      <4> QED
        BY <1>7, <3>1, <3>3, <4>1, <4>2
    <3> QED
      BY <3>2, <3>3
  <2> QED
    BY <1>1, <1>10, <2>1 DEF RInv, ChunksInv
<1>15. StatusInv'
  BY <1>1 DEF RInv, StatusInv
<1>16. BudgetInv'
  <2>1. Cardinality(Blameless) \in Nat
    BY AnsweredsAreFinite DEF RInv, Blameless, Lost
  <2>2. Blameless' = Blameless /\ \A i \in DOMAIN chunks : GivenUp(i)' = GivenUp(i)
    BY <1>1 DEF Blameless, GivenUp, Lost
  <2> QED
    BY <1>1, <1>9, <2>1, <2>2 DEF RInv, BudgetInv
<1>17. CoreInv'
  <2> SUFFICES ASSUME faults' = 0, CoreHolds
               PROVE  /\ \A g \in got : g.key \in ProfileLike => g.with = Core
                      /\ \A u \in tasks' : ToSet(u.keys) \cap ProfileLike # {} => u.keys = CoreChunk
    BY <1>1 DEF CoreInv, CoreHolds
  <2>1. K \cap ProfileLike = {}
    <3>1. t.keys # CoreChunk
      BY <1>9, CoreDoesNotThrow DEF RInv
    <3> QED
      BY <1>9, <3>1 DEF RInv, CoreInv, K
  <2>2. ToSet(ta.keys) \subseteq K /\ ToSet(tz.keys) \subseteq K
    BY <1>6, <1>7 DEF Parts
  <2> QED
    BY <1>8, <1>9, <2>1, <2>2 DEF RInv, CoreInv
<1>18. AFewFailuresAreTolerated'
  BY <1>1, <1>9 DEF RInv, AFewFailuresAreTolerated
<1> QED
  BY <1>11, <1>12, <1>13, <1>14, <1>15, <1>16, <1>17, <1>18 DEF RInv

\* A retrieve of one key.
LEMMA RetrieveOfOne ==
    ASSUME RInv, NEW t \in tasks, Len(t.keys) = 1
    PROVE  LET k == t.keys[1]
           IN  /\ t \in [chunk : DOMAIN chunks, keys : Seq(Asked)]
               /\ k \in Asked /\ ToSet(t.keys) = {k} /\ k \notin Settled
               /\ k \in ToSet(chunks[t.chunk])
               /\ Retrieve(t.keys).threw => k \in org.poison
<1> DEFINE k == t.keys[1]
           there == Only(t.keys, Asked \ org.gone)
           bad == ({k} \ org.gone) \cap org.unconvertible
<1>1. /\ t \in [chunk : DOMAIN chunks, keys : Seq(Asked)] /\ Lists(t.keys, ToSet(t.keys))
      /\ ToSet(t.keys) \subseteq ToSet(chunks[t.chunk]) /\ ToSet(t.keys) \cap Settled = {}
  BY DEF RInv, ShapeInv, TasksInv, AnswersInv
<1>2. k \in Asked /\ ToSet(t.keys) = {k}
  BY <1>1 DEF ToSet
<1>3. Lists(t.keys, {k}) /\ {k} \in SUBSET Asked
  BY <1>1, <1>2
<1>4. Lists(there, {k} \ org.gone)
      /\ (Retrieve(t.keys).threw <=> {k} \cap org.poison # {} \/ Cardinality(bad) > Tolerance(there))
  BY <1>3, RetrieveOfAList
<1>5. Tolerance(there) \in Nat \ {0}
  <2>1. there \in Seq({k} \ org.gone) /\ {k} \ org.gone \subseteq Asked
    BY <1>2, <1>4 DEF Lists
  <2>2. there \in Seq(Asked)
    <3> HIDE DEF there
    <3> QED
      BY <2>1, SeqMonotonic
  <2> QED
    BY <2>2, ToleranceIsPositive
<1>6. Cardinality(bad) \in Nat /\ Cardinality(bad) <= 1
  <2>1. IsFiniteSet({k}) /\ Cardinality({k}) = 1 /\ bad \in SUBSET {k}
    BY FS_Singleton
  <2> HIDE DEF bad
  <2>2. IsFiniteSet(bad) /\ Cardinality(bad) <= Cardinality({k})
    BY <2>1, FS_Subset
  <2> QED
    BY <2>1, <2>2, FS_CardinalityType
<1>7. Retrieve(t.keys).threw => k \in org.poison
  <2> HIDE DEF bad, there
  <2> QED
    BY <1>4, <1>5, <1>6
<1> QED
  BY <1>1, <1>2, <1>7

LEMMA IsolatedKeeps ==
    ASSUME RInv, NEW t \in tasks, Isolated(t)
    PROVE  RInv'
<1> DEFINE k == t.keys[1]
           i == t.chunk
           m == <<k, "retrieve">>
<1>1. /\ chunks' = chunks /\ org' = org /\ status' = status /\ got' = got
      /\ tasks' = Others(t) /\ missing' = missing \cup {m} /\ Settle(t)
      /\ budget' = [budget EXCEPT ![i] = @ - 1] /\ budget[i] > 0
      /\ Threw(t) /\ Len(t.keys) = 1
  BY DEF Isolated, Isolates, Spend
<1>2. /\ i \in DOMAIN chunks /\ k \in Asked /\ ToSet(t.keys) = {k} /\ k \notin Settled
      /\ k \in ToSet(chunks[i]) /\ (Retrieve(t.keys).threw => k \in org.poison)
  BY <1>1, RetrieveOfOne
<1>3. faults' \in 0 .. MaxFaults /\ faults \in Nat /\ (faults' = faults \/ faults' = faults + 1)
      /\ (faults' = faults => Retrieve(t.keys).threw) /\ (faults' = 0 => faults = 0)
  BY <1>1, RetrievalAssumption DEF Threw, RInv, ShapeInv
<1>4. m \in Asked \X Reasons /\ m[1] = k /\ m[2] = "retrieve" /\ m \notin missing
  <2>1. k \notin MissingKeys
    BY <1>2 DEF Settled
  <2> QED
    BY <1>2, <2>1 DEF MissingKeys, Reasons
<1> HIDE DEF m
<1>5. KeysInv'
  <2>1. Accounts(ToSet(t.keys), {}, {m})
    BY <1>2, <1>4 DEF Accounts, Reasons, m
  <2>2. got' = got \cup {} /\ KeysInv /\ ShapeInv
    BY <1>1 DEF RInv, KeysInv
  <2> QED
    BY <1>1, <2>1, <2>2, SettlingKeepsKeys
<1>6. budget' \in [DOMAIN chunks -> Nat] /\ budget'[i] = budget[i] - 1
      /\ \A j \in DOMAIN chunks : j # i => budget'[j] = budget[j]
  <2>1. budget \in [DOMAIN chunks -> Nat] /\ budget[i] - 1 \in Nat
    BY <1>1, <1>2 DEF RInv, ShapeInv
  <2> HIDE DEF i
  <2> QED
    BY <1>1, <1>2, <2>1
<1> HIDE DEF k, i
<1>7. ShapeInv'
  <2>1. chunk' \in [DOMAIN chunks -> States]
    BY <1>1, SettleTypes DEF RInv
  <2> QED
    BY <1>1, <1>3, <1>4, <1>6, <2>1 DEF RInv, ShapeInv, Others
<1>8. BudgetInv'
  <2>1. Lost("retrieve")' = Lost("retrieve") \cup {m}
    BY <1>1, <1>4 DEF Lost
  <2>2. GivenUp(i)' = GivenUp(i) \cup {m} /\ m \notin GivenUp(i)
    BY <1>1, <1>2, <1>4, <2>1 DEF GivenUp, Lost
  <2>3. \A j \in DOMAIN chunks : j # i => GivenUp(j)' = GivenUp(j)
    <3>1. \A j \in DOMAIN chunks : j # i => k \notin ToSet(chunks[j])
      BY <1>2, ChunkFacts DEF RInv
    <3> QED
      BY <1>1, <1>4, <2>1, <3>1 DEF GivenUp
  <2>4. IsFiniteSet(GivenUp(i)) /\ Cardinality(GivenUp(i)) \in Nat
        /\ IsFiniteSet(Blameless) /\ Cardinality(Blameless) \in Nat
    BY AnsweredsAreFinite DEF RInv, GivenUp, Blameless, Lost
  <2>5. Cardinality(GivenUp(i)') = Cardinality(GivenUp(i)) + 1
    <3> DEFINE S == GivenUp(i)
    <3> HIDE DEF S
    <3>1. IsFiniteSet(S) /\ m \notin S
      BY <2>2, <2>4 DEF S
    <3>2. Cardinality(S \cup {m}) = Cardinality(S) + 1
      BY <3>1, FS_AddElement
    <3> QED
      BY <2>2, <3>2 DEF S
  <2>6. ASSUME NEW j \in DOMAIN chunks
        PROVE  Cardinality(GivenUp(j)') + budget'[j] = Tolerance(chunks[j])
    <3>1. Cardinality(GivenUp(j)) + budget[j] = Tolerance(chunks[j]) /\ budget[j] \in Nat
      BY DEF RInv, BudgetInv, ShapeInv
    <3>2. CASE j = i
      BY <1>6, <2>4, <2>5, <3>1, <3>2
    <3>3. CASE j # i
      BY <1>6, <2>3, <3>1, <3>3
    <3> QED
      BY <3>2, <3>3
  <2>7. Cardinality(Blameless') <= faults'
    <3>1. Cardinality(Blameless) <= faults
      BY DEF RInv, BudgetInv
    <3>2. CASE k \in org.poison
      <4>1. Blameless' = Blameless
        BY <1>1, <1>4, <2>1, <3>2 DEF Blameless
      <4> QED
        BY <1>3, <2>4, <3>1, <4>1
    <3>3. CASE k \notin org.poison
      <4>1. Blameless' = Blameless \cup {m} /\ m \notin Blameless
        BY <1>1, <1>4, <2>1, <3>3 DEF Blameless, Lost
      <4>2. faults' = faults + 1
        BY <1>2, <1>3, <3>3
      <4>3. Cardinality(Blameless \cup {m}) = Cardinality(Blameless) + 1
        BY <2>4, <4>1, FS_AddElement
      <4> QED
        BY <1>3, <2>4, <3>1, <4>1, <4>2, <4>3
    <3> QED
      BY <3>2, <3>3
  <2>8. \A j \in DOMAIN chunks : Tolerance(chunks[j])' = Tolerance(chunks[j])
    BY <1>1 DEF Tolerance
  <2> QED
    BY <1>1, <2>6, <2>7, <2>8 DEF BudgetInv
<1>9. CoreInv'
  <2> SUFFICES ASSUME faults' = 0, CoreHolds
               PROVE  /\ \A g \in got : g.key \in ProfileLike => g.with = Core
                      /\ \A u \in tasks' : ToSet(u.keys) \cap ProfileLike # {} => u.keys = CoreChunk
    BY <1>1 DEF CoreInv, CoreHolds
  <2> QED
    BY <1>1, <1>3 DEF RInv, CoreInv, Others
<1>10. AFewFailuresAreTolerated'
  BY <1>1, <1>3 DEF RInv, AFewFailuresAreTolerated
<1> QED
  BY <1>5, <1>7, <1>8, <1>9, <1>10 DEF RInv, KeysInv

\* A chunk is rejected for a key that nothing was left to give up for: without a
\* fault, one poisoned key more than was tolerated.
LEMMA RejectedHasBroken ==
    ASSUME RInv, NEW t \in tasks, Len(t.keys) = 1, ~Isolates(t), faults = 0, Retrieve(t.keys).threw
    PROVE  Cardinality(ToSet(chunks[t.chunk]) \cap org.poison)
             > (IF Len(chunks[t.chunk]) = 1 THEN 0 ELSE Tolerance(chunks[t.chunk]))
<1> DEFINE k == t.keys[1]
           i == t.chunk
           broken == ToSet(chunks[i]) \cap org.poison
<1>1. /\ i \in DOMAIN chunks /\ k \notin Settled /\ k \in ToSet(chunks[i]) /\ k \in org.poison
  BY RetrieveOfOne
<1> HIDE DEF k, i
<1>2. /\ chunks[i] \in Seq(Asked) /\ chunks[i] # <<>> /\ Lists(chunks[i], ToSet(chunks[i]))
      /\ Tolerance(chunks[i]) \in Nat
  BY <1>1, ChunkFacts DEF RInv
<1>3. IsFiniteSet(broken) /\ Cardinality(broken) \in Nat /\ k \in broken
  <2>1. IsFiniteSet(broken)
    BY <1>2, PlacesOfAList
  <2> QED
    BY <1>1, <2>1, FS_CardinalityType
<1>4. CASE Len(chunks[i]) = 1
  <2>1. {k} \in SUBSET broken /\ Cardinality({k}) = 1
    BY <1>3, FS_Singleton
  <2> HIDE DEF broken
  <2>2. Cardinality({k}) <= Cardinality(broken)
    BY <1>3, <2>1, FS_Subset
  <2>3. Cardinality(broken) > 0
    BY <1>3, <2>1, <2>2
  <2> QED
    BY <1>4, <2>3 DEF broken, i
<1>5. CASE Len(chunks[i]) # 1
  <2> DEFINE up == GivenUp(i)
             names == {m[1] : m \in up}
             name == [m \in up |-> m[1]]
  <2>1. budget[i] = 0
    <3>1. Len(chunks[i]) > 1 /\ budget[i] \in Nat
      BY <1>1, <1>2, <1>5 DEF RInv, ShapeInv
    <3>2. ~(Len(chunks[i]) > 1 /\ budget[i] > 0)
      BY DEF Isolates, i
    <3> QED
      BY <3>1, <3>2
  <2>2. IsFiniteSet(up) /\ Cardinality(up) \in Nat /\ IsFiniteSet(Blameless) /\ Cardinality(Blameless) \in Nat
    BY AnsweredsAreFinite DEF RInv, GivenUp, Blameless, Lost
  <2>3. Cardinality(up) = Tolerance(chunks[i])
    BY <1>1, <1>2, <2>1, <2>2 DEF RInv, BudgetInv
  <2>4. Blameless = {}
    <3>1. Cardinality(Blameless) = 0
      BY <2>2 DEF RInv, BudgetInv
    <3> QED
      BY <2>2, <3>1, FS_EmptySet
  <2>5. \A m \in up : m \in missing /\ m[1] \in broken /\ m[1] # k
    <3>1. k \notin MissingKeys
      BY <1>1 DEF Settled
    <3> QED
      BY <2>4, <3>1 DEF GivenUp, Blameless, Lost, MissingKeys
  <2>6. \A m, n \in up : m[1] = n[1] => m = n
    BY <2>5 DEF RInv, AnswersInv
  <2>7. names \in SUBSET broken /\ k \notin names
    BY <2>5
  <2> HIDE DEF up, broken
  <2>8. name \in Bijection(up, names)
    <3>1. name \in [up -> names]
      OBVIOUS
    <3>2. \A m, n \in up : name[m] = name[n] => m = n
      BY <2>6
    <3>3. \A y \in names : \E m \in up : name[m] = y
      OBVIOUS
    <3> QED
      BY <3>1, <3>2, <3>3, Fun_IsBij
  <2>9. IsFiniteSet(names) /\ Cardinality(names) = Cardinality(up)
    <3>1. ExistsBijection(up, names)
      BY <2>8 DEF ExistsBijection
    <3> HIDE DEF names
    <3> QED
      BY <2>2, <3>1, FS_Bijection
  <2> HIDE DEF names
  <2>10. Cardinality(names \cup {k}) = Cardinality(names) + 1
    BY <2>7, <2>9, FS_AddElement
  <2>11. names \cup {k} \in SUBSET broken
    BY <1>3, <2>7
  <2>12. Cardinality(names \cup {k}) <= Cardinality(broken)
    BY <1>3, <2>11, FS_Subset
  <2>13. Cardinality(broken) > Tolerance(chunks[i])
    BY <1>2, <1>3, <2>3, <2>9, <2>10, <2>12
  <2> QED
    BY <1>5, <2>13 DEF broken, i
<1> QED
  BY <1>4, <1>5

LEMMA RejectedKeeps ==
    ASSUME RInv, NEW t \in tasks, Rejected(t)
    PROVE  RInv'
<1>1. /\ chunks' = chunks /\ org' = org /\ status' = "failed" /\ budget' = budget
      /\ tasks' = Others(t) /\ got' = got /\ missing' = missing
      /\ chunk' = [chunk EXCEPT ![t.chunk] = "rejected"]
      /\ Threw(t) /\ Len(t.keys) = 1 /\ ~Isolates(t)
  BY DEF Rejected
<1>2. t.chunk \in DOMAIN chunks /\ chunk \in [DOMAIN chunks -> States]
  BY DEF RInv, ShapeInv
<1>3. chunk'[t.chunk] = "rejected" /\ \A j \in DOMAIN chunks : j # t.chunk => chunk'[j] = chunk[j]
  BY <1>1, <1>2
<1>4. faults' \in 0 .. MaxFaults /\ faults \in Nat /\ (faults' = faults \/ faults' = faults + 1)
      /\ (faults' = 0 => faults = 0 /\ Retrieve(t.keys).threw)
  BY <1>1, RetrievalAssumption DEF Threw, RInv, ShapeInv
<1>5. Settled' = Settled /\ GotKeys' = GotKeys /\ MissingKeys' = MissingKeys
  BY <1>1 DEF Settled, GotKeys, MissingKeys
<1>6. \A u \in tasks' : u \in tasks /\ u.chunk \in DOMAIN chunks
  BY <1>1 DEF Others, RInv, ShapeInv
<1>7. ShapeInv'
  <2>1. chunk' \in [DOMAIN chunks -> States]
    BY <1>1, <1>2 DEF States
  <2> QED
    BY <1>1, <1>4, <1>6, <2>1 DEF RInv, ShapeInv
<1>8. TasksInv'
  BY <1>1, <1>3, <1>6 DEF RInv, TasksInv
<1>9. AnswersInv'
  BY <1>1, <1>5, <1>6 DEF RInv, AnswersInv
<1>10. ChunksInv'
  <2> SUFFICES ASSUME NEW j \in DOMAIN chunks
               PROVE  /\ chunk'[j] = "waiting" => ToSet(chunks[j]) \cap Settled = {}
                      /\ chunk'[j] \in {"running", "done"} =>
                            \A k \in ToSet(chunks[j]) :
                               k \in Settled \/ \E u \in tasks' : u.chunk = j /\ k \in ToSet(u.keys)
    BY <1>1, <1>5 DEF ChunksInv
  <2>1. CASE j = t.chunk
    BY <1>3, <2>1
  <2>2. CASE j # t.chunk
    <3>1. \A u \in tasks : u.chunk = j => u \in tasks'
      BY <1>1, <2>2 DEF Others
    <3> QED
      BY <1>3, <2>2, <3>1 DEF RInv, ChunksInv
  <2> QED
    BY <2>1, <2>2
<1>11. StatusInv'
  BY <1>1 DEF StatusInv
<1>12. BudgetInv'
  <2>1. Cardinality(Blameless) \in Nat
    BY AnsweredsAreFinite DEF RInv, Blameless, Lost
  <2>2. Blameless' = Blameless /\ \A i \in DOMAIN chunks : GivenUp(i)' = GivenUp(i)
    BY <1>1 DEF Blameless, GivenUp, Lost
  <2> QED
    BY <1>1, <1>4, <2>1, <2>2 DEF RInv, BudgetInv
<1>13. CoreInv'
  BY <1>1, <1>4, <1>6 DEF RInv, CoreInv, CoreHolds
<1>14. AFewFailuresAreTolerated'
  <2> SUFFICES ASSUME faults' = 0
               PROVE  \E i \in DOMAIN chunks :
                         Cardinality(ToSet(chunks[i]) \cap org.poison)
                           > (IF Len(chunks[i]) = 1 THEN 0 ELSE Tolerance(chunks[i]))
    BY <1>1 DEF AFewFailuresAreTolerated, Tolerance
  <2>1. Cardinality(ToSet(chunks[t.chunk]) \cap org.poison)
          > (IF Len(chunks[t.chunk]) = 1 THEN 0 ELSE Tolerance(chunks[t.chunk]))
    BY <1>1, <1>4, RejectedHasBroken
  <2> QED
    BY <1>2, <2>1
<1> QED
  BY <1>7, <1>8, <1>9, <1>10, <1>11, <1>12, <1>13, <1>14 DEF RInv

LEMMA RStepHolds == RInv /\ [RNext]_rvars => RInv'
<1> SUFFICES ASSUME RInv, [RNext]_rvars PROVE RInv'
  OBVIOUS
<1>1. CASE UNCHANGED rvars
  <2>1. /\ chunks' = chunks /\ org' = org /\ status' = status /\ chunk' = chunk /\ budget' = budget
        /\ tasks' = tasks /\ got' = got /\ missing' = missing /\ faults' = faults
    BY <1>1 DEF rvars
  <2>2. Settled' = Settled /\ GotKeys' = GotKeys /\ MissingKeys' = MissingKeys
    BY <2>1 DEF Settled, GotKeys, MissingKeys
  <2>3. ShapeInv' /\ TasksInv' /\ StatusInv'
    BY <2>1 DEF RInv, ShapeInv, TasksInv, StatusInv
  <2>4. AnswersInv'
    BY <2>1, <2>2 DEF RInv, AnswersInv
  <2>5. ChunksInv'
    BY <2>1, <2>2 DEF RInv, ChunksInv
  <2>6. BudgetInv'
    <3>1. Blameless' = Blameless /\ \A i \in DOMAIN chunks : GivenUp(i)' = GivenUp(i)
      BY <2>1 DEF Blameless, GivenUp, Lost
    <3> QED
      BY <2>1, <3>1 DEF RInv, BudgetInv
  <2>7. CoreInv' /\ AFewFailuresAreTolerated'
    BY <2>1 DEF RInv, CoreInv, CoreHolds, AFewFailuresAreTolerated
  <2> QED
    BY <2>3, <2>4, <2>5, <2>6, <2>7 DEF RInv
<1>2. CASE Connect
  BY <1>2, ConnectKeeps
<1>3. CASE Finish
  BY <1>3, FinishKeeps
<1>4. ASSUME NEW i \in DOMAIN chunks, TakeChunk(i) PROVE RInv'
  BY <1>4, TakeChunkKeeps
<1>5. ASSUME NEW t \in tasks, Answered(t) PROVE RInv'
  BY <1>5, AnsweredKeeps
<1>6. ASSUME NEW t \in tasks, Bisected(t) PROVE RInv'
  BY <1>6, BisectedKeeps
<1>7. ASSUME NEW t \in tasks, Isolated(t) PROVE RInv'
  BY <1>7, IsolatedKeeps
<1>8. ASSUME NEW t \in tasks, Rejected(t) PROVE RInv'
  BY <1>8, RejectedKeeps
<1> QED
  BY <1>1, <1>2, <1>3, <1>4, <1>5, <1>6, <1>7, <1>8 DEF RNext

-----------------------------------------------------------------------------
\* What the invariant says.

\* The inductive invariant holds of every request: what materialize planned, the
\* retrieves in flight, what was settled and what the chunks may still give up agree
\* (org-source.ts:379-510).
THEOREM RetrievalInvariance == RSpec => []RInv
<1>1. RInit => RInv
  BY RInitHolds
<1>2. RInv /\ [RNext]_rvars => RInv'
  BY RStepHolds
<1> QED
  BY <1>1, <1>2, PTL DEF RSpec

\* The state of a request keeps its shape; a budget stays within the tolerance it
\* began with, and a retrieve in flight asks for keys of its chunk.
THEOREM RetrievalTypeCorrect == RSpec => []RTypeOK
<1>1. RInv => RTypeOK
  <2> SUFFICES ASSUME RInv PROVE RTypeOK
    OBVIOUS
  <2>1. \A i \in DOMAIN chunks : budget[i] \in 0 .. Tolerance(chunks[i])
    <3> SUFFICES ASSUME NEW i \in DOMAIN chunks PROVE budget[i] \in 0 .. Tolerance(chunks[i])
      OBVIOUS
    <3>1. Cardinality(GivenUp(i)) \in Nat
      BY AnsweredsAreFinite DEF RInv, GivenUp, Lost
    <3>2. budget[i] \in Nat /\ Cardinality(GivenUp(i)) + budget[i] = Tolerance(chunks[i])
      BY DEF RInv, ShapeInv, BudgetInv
    <3> QED
      BY <3>1, <3>2
  <2>2. GotKeys \subseteq Asked
    BY DEF RInv, ShapeInv, GotKeys
  <2> QED
    BY <2>1, <2>2 DEF RInv, ShapeInv, TasksInv, States, RTypeOK
<1> QED
  BY <1>1, RetrievalInvariance, PTL

\* A request that comes back answers for every key it was asked for, once, in
\* whatever order its retrieves were answered (SourceTree, org-source.ts:379-415).
THEOREM EveryKeyIsAnsweredOnce == RSpec => []EveryKeyIsAnswered
<1>1. RInv => EveryKeyIsAnswered
  <2> SUFFICES ASSUME RInv, status = "done", NEW k \in Asked
               PROVE  Cardinality({g \in got : g.key = k}) + Cardinality({m \in missing : m[1] = k}) = 1
    BY DEF EveryKeyIsAnswered
  <2> DEFINE files == {g \in got : g.key = k}
             reasons == {m \in missing : m[1] = k}
  <2>1. k \in Settled
    <3>1. PICK i \in DOMAIN chunks : k \in ToSet(chunks[i])
      BY ChunkFacts DEF RInv
    <3>2. chunk[i] = "done" /\ \A t \in tasks : FALSE
      BY DEF RInv, StatusInv, TasksInv, ShapeInv
    <3> QED
      BY <3>1, <3>2 DEF RInv, ChunksInv
  <2>2. /\ \A g, h \in files : g = h
        /\ \A m, n \in reasons : m = n
        /\ files = {} \/ reasons = {}
    BY DEF RInv, AnswersInv, GotKeys, MissingKeys
  <2>3. files # {} \/ reasons # {}
    BY <2>1 DEF Settled, GotKeys, MissingKeys
  <2> HIDE DEF files, reasons
  <2>4. Cardinality({}) = 0
    BY FS_EmptySet
  <2>5. CASE files # {}
    <3>1. PICK g : files = {g}
      BY <2>2, <2>5
    <3>2. Cardinality(files) = 1 /\ Cardinality(reasons) = 0
      BY <2>2, <2>4, <2>5, <3>1, FS_Singleton
    <3> QED
      BY <3>2 DEF files, reasons
  <2>6. CASE files = {}
    <3>1. PICK m : reasons = {m}
      BY <2>2, <2>3, <2>6
    <3>2. Cardinality(files) = 0 /\ Cardinality(reasons) = 1
      BY <2>4, <2>6, <3>1, FS_Singleton
    <3> QED
      BY <3>2 DEF files, reasons
  <2> QED
    BY <2>5, <2>6
<1> QED
  BY <1>1, RetrievalInvariance, PTL

\* Without a fault of the network a request fails only for more broken keys in one
\* chunk than its tolerance, however the halves interleave on their one budget
\* (org-source.ts:452-510).
THEOREM AFewFailuresCostThemselves == RSpec => []AFewFailuresAreTolerated
<1>1. RInv => AFewFailuresAreTolerated
  BY DEF RInv
<1> QED
  BY <1>1, RetrievalInvariance, PTL

\* A chunk never gives up more than it tolerates, and gives up a key that nothing is
\* wrong with only for a fault (org-source.ts:475-486).
THEOREM ManyFailuresFail == RSpec => []ManyFailuresAreLoud
<1>1. RInv => ManyFailuresAreLoud
  <2> SUFFICES ASSUME RInv PROVE ManyFailuresAreLoud
    OBVIOUS
  <2>1. ASSUME NEW i \in DOMAIN chunks
        PROVE  Cardinality({m \in Lost("retrieve") : m[1] \in ToSet(chunks[i])}) <= Tolerance(chunks[i])
    <3>1. Cardinality(GivenUp(i)) \in Nat
      BY AnsweredsAreFinite DEF RInv, GivenUp, Lost
    <3>2. budget[i] \in Nat /\ Cardinality(GivenUp(i)) + budget[i] = Tolerance(chunks[i])
      BY DEF RInv, ShapeInv, BudgetInv
    <3>3. Cardinality(GivenUp(i)) <= Tolerance(chunks[i])
      BY <3>1, <3>2
    <3> QED
      BY <3>3 DEF GivenUp
  <2>2. Cardinality({m \in Lost("retrieve") : m[1] \notin org.poison}) <= faults
    BY DEF RInv, BudgetInv, Blameless
  <2> QED
    BY <2>1, <2>2 DEF ManyFailuresAreLoud
<1> QED
  BY <1>1, RetrievalInvariance, PTL

\* A Profile of the core chunk was read with every component its entries are judged
\* by, unless a retrieve of that chunk failed (chunking.ts:126-159, coverage.ts:52-73).
THEOREM ProfilesAreReadWithTheirPairs == RSpec => []ProfileReadWithItsPairs
<1>1. RInv => ProfileReadWithItsPairs
  <2> SUFFICES ASSUME RInv, faults = 0, CoreHolds, NEW g \in got, g.key \in ProfileLike
               PROVE  Coverage("org", Asked, g.key) \subseteq g.with
    BY DEF ProfileReadWithItsPairs, CoreHolds
  <2>1. g.with = Core
    BY DEF RInv, CoreInv
  <2>2. g.key \in Asked
    BY DEF RInv, ShapeInv
  <2>3. Coverage("org", Asked, g.key) = Paired \cap Asked
    BY <2>2 DEF Coverage
  <2>4. ProfileLike # {}
    OBVIOUS
  <2>5. Paired \subseteq Core
    BY <2>4 DEF Core
  <2> QED
    BY <2>1, <2>3, <2>5
<1> QED
  BY <1>1, RetrievalInvariance, PTL

=============================================================================
