--------------------------- MODULE Algorithms_proofs ---------------------------
(***************************************************************************)
(* The pure parts of the core library, proved for any input: an error of   *)
(* the analyzers needs evidence, impact is reachability, hash and diff     *)
(* agree, and a merge keeps the edits and a Profile what was not read.     *)
(***************************************************************************)
EXTENDS Algorithms, Induction, FiniteSetTheorems, SequenceTheorems

-----------------------------------------------------------------------------
\* The question asked is one of the questions.

Posed(topic, questions) == Asking(topic) => question \in questions
Among(questions) == UNION {questions[tag] : tag \in DOMAIN questions}
AskedOK ==
    /\ Posed("documents", Among(DocumentPairs)) /\ Posed("merge", Merges) /\ Posed("grants", Among(Grants))
    /\ Posed("analysis", Contexts) /\ Posed("impact", Walks)
    /\ Posed("selection", Selections) /\ Posed("listing", Listings)

\* A question about a topic is one of the questions about it (the state is what an
\* analysis or a walk is given).
THEOREM QuestionsArePosed == ASpec => []AskedOK
<1>1. AInit => AskedOK
  BY DEF AInit, AskedOK, Posed, Asking
<1>2. AskedOK /\ [ANext]_avars => AskedOK'
  <2> SUFFICES ASSUME AskedOK, [ANext]_avars PROVE AskedOK'
    OBVIOUS
  <2>1. CASE UNCHANGED avars
    BY <2>1 DEF AskedOK, Posed, Asking, avars
  <2>2. CASE ANext
    <3>1. \E topic, questions : /\ Ask(topic, questions)
                               /\ \/ topic = "documents" /\ questions \subseteq Among(DocumentPairs)
                                  \/ topic = "grants" /\ questions \subseteq Among(Grants)
                                  \/ topic = "merge" /\ questions = Merges
                                  \/ topic = "analysis" /\ questions = Contexts
                                  \/ topic = "impact" /\ questions = Walks
                                  \/ topic = "selection" /\ questions = Selections
                                  \/ topic = "listing" /\ questions = Listings
      BY <2>2 DEF ANext, Among
    <3> QED
      BY <3>1 DEF Ask, AskedOK, Posed, Asking
  <2> QED
    BY <2>1, <2>2
<1> QED
  BY <1>1, <1>2, PTL DEF ASpec

-----------------------------------------------------------------------------
\* Lists.

\* What Only lists is what the list has of the set.
LEMMA OnlyElements ==
    ASSUME NEW S, NEW list \in Seq(S), NEW set
    PROVE  Only(list, set) \in Seq(S) /\ ToSet(Only(list, set)) = ToSet(list) \cap set
<1> DEFINE N == Len(list)
           Prefix(n) == {list[i] : i \in 1 .. n}
<1>1. N \in Nat /\ \A i \in 1 .. N : list[i] \in S
  OBVIOUS
<1>2. PICK only : Selects(only, list, set) /\ Only(list, set) = only[N]
  BY OnlyAlong
<1> DEFINE P == {n \in 0 .. N : only[n] \in Seq(S) /\ ToSet(only[n]) = Prefix(n) \cap set}
<1>3. ASSUME NEW n \in 0 .. N, \A m \in 0 .. n - 1 : m \in P
      PROVE  n \in P
  <2>1. CASE n = 0
    <3>1. only[n] = <<>>
      BY <1>2, <2>1 DEF Selects
    <3>2. Prefix(n) = {} /\ ToSet(<<>>) = {}
      BY <2>1 DEF ToSet
    <3>3. <<>> \in Seq(S)
      OBVIOUS
    <3> HIDE DEF Prefix
    <3> QED
      BY <3>1, <3>2, <3>3
  <2>2. CASE n # 0
    <3>1. n \in 1 .. N /\ n - 1 \in 0 .. n - 1
      BY <1>1, <2>2
    <3>2. only[n - 1] \in Seq(S) /\ ToSet(only[n - 1]) = Prefix(n - 1) \cap set
      BY <1>3, <3>1
    <3>3. Prefix(n) = Prefix(n - 1) \cup {list[n]}
      <4>1. \A i : i \in 1 .. n <=> (i \in 1 .. n - 1 \/ i = n)
        BY <3>1
      <4> QED
        BY <4>1
    <3>4. only[n] = IF list[n] \in set THEN Append(only[n - 1], list[n]) ELSE only[n - 1]
      BY <1>2, <3>1 DEF Selects
    <3> HIDE DEF Prefix
    <3>5. CASE list[n] \in set
      <4>1. \A s \in Seq(S), x \in S : Append(s, x) \in Seq(S) /\ ToSet(Append(s, x)) = ToSet(s) \cup {x}
        <5> SUFFICES ASSUME NEW s \in Seq(S), NEW x \in S
                     PROVE  Append(s, x) \in Seq(S) /\ ToSet(Append(s, x)) = ToSet(s) \cup {x}
          OBVIOUS
        <5>1. Len(Append(s, x)) = Len(s) + 1 /\ Len(s) \in Nat
          OBVIOUS
        <5>2. \A i \in 1 .. Len(s) : Append(s, x)[i] = s[i]
          OBVIOUS
        <5>3. Append(s, x)[Len(s) + 1] = x
          OBVIOUS
        <5>4. \A y : y \in ToSet(Append(s, x)) <=> y \in ToSet(s) \cup {x}
          <6>1. \A i : i \in 1 .. Len(s) + 1 <=> (i \in 1 .. Len(s) \/ i = Len(s) + 1)
            BY <5>1
          <6>2. DOMAIN s = 1 .. Len(s) /\ DOMAIN Append(s, x) = 1 .. Len(s) + 1
            BY <5>1
          <6> QED
            BY <5>2, <5>3, <6>1, <6>2 DEF ToSet
        <5> QED
          BY <5>4
      <4>2. list[n] \in S
        BY <1>1, <3>1
      <4>3. only[n] \in Seq(S) /\ ToSet(only[n]) = ToSet(only[n - 1]) \cup {list[n]}
        BY <3>2, <3>4, <3>5, <4>1, <4>2
      <4> QED
        BY <3>2, <3>3, <3>5, <4>3
    <3>6. CASE list[n] \notin set
      BY <3>2, <3>3, <3>4, <3>6
    <3> QED
      BY <3>5, <3>6
  <2> QED
    BY <2>1, <2>2
<1>4. P = 0 .. N
  <2> HIDE DEF N
  <2>1. P \in SUBSET (0 .. N)
    OBVIOUS
  <2> HIDE DEF P
  <2> QED
    BY <1>1, <1>3, <2>1, UpTo
<1>5. N \in P
  <2> HIDE DEF P
  <2> QED
    BY <1>1, <1>4
<1>6. Prefix(N) = ToSet(list)
  BY DEF ToSet
<1> QED
  BY <1>2, <1>5, <1>6

\* Only leaves out what is not in the set: of a list of which only the first is not,
\* the rest remains.
LEMMA OnlyRest ==
    ASSUME NEW S, NEW list \in Seq(S), NEW set, Len(list) > 0, list[1] \notin set,
           \A i \in 2 .. Len(list) : list[i] \in set
    PROVE  /\ Only(list, set) \in Seq(S) /\ Len(Only(list, set)) = Len(list) - 1
           /\ \A i \in 1 .. Len(list) - 1 : Only(list, set)[i] = list[i + 1]
<1> DEFINE N == Len(list)
           Rest(s, n) == s \in Seq(S) /\ Len(s) = n - 1 /\ \A i \in 1 .. n - 1 : s[i] = list[i + 1]
<1>1. N \in Nat /\ N > 0 /\ \A i \in 1 .. N : list[i] \in S
  OBVIOUS
<1>2. PICK only : Selects(only, list, set) /\ Only(list, set) = only[N]
  BY OnlyAlong
<1> DEFINE P == {n \in 0 .. N : n > 0 => Rest(only[n], n)}
<1>3. ASSUME NEW n \in 0 .. N, \A m \in 0 .. n - 1 : m \in P
      PROVE  n \in P
  <2>1. CASE n = 0
    BY <2>1
  <2>2. CASE n = 1
    <3>1. only[1] = <<>>
      <4>1. only[0] = <<>> /\ only[1] = IF list[1] \in set THEN Append(only[1 - 1], list[1]) ELSE only[1 - 1]
        BY <1>1, <1>2 DEF Selects
      <4>2. 1 - 1 = 0
        OBVIOUS
      <4> QED
        BY <4>1, <4>2
    <3>2. <<>> \in Seq(S) /\ Len(<<>>) = 0 /\ \A i \in 1 .. 0 : FALSE
      OBVIOUS
    <3>3. Rest(only[n], n)
      BY <2>2, <3>1, <3>2
    <3> QED
      BY <3>3
  <2>3. CASE n > 1
    <3>1. n \in 2 .. N /\ n - 1 \in 0 .. n - 1 /\ n - 1 > 0
      BY <1>1, <2>3
    <3>2. Rest(only[n - 1], n - 1)
      BY <1>3, <3>1
    <3>3. only[n] = Append(only[n - 1], list[n])
      <4>1. n \in 1 .. N /\ list[n] \in set
        BY <1>1, <3>1
      <4> QED
        BY <1>2, <4>1 DEF Selects
    <3>4. list[n] \in S
      BY <1>1, <3>1
    <3>5. Rest(only[n], n)
      BY <3>1, <3>2, <3>3, <3>4
    <3> QED
      BY <3>5
  <2> QED
    BY <2>1, <2>2, <2>3
<1>4. P = 0 .. N
  <2> HIDE DEF N, Rest
  <2>1. P \in SUBSET (0 .. N)
    OBVIOUS
  <2> HIDE DEF P
  <2> QED
    BY <1>1, <1>3, <2>1, UpTo
<1>5. N \in P
  <2> HIDE DEF P
  <2> QED
    BY <1>1, <1>4
<1> QED
  BY <1>1, <1>2, <1>5

-----------------------------------------------------------------------------
\* A Profile's grid.

Lacks(l, r, leftSaw, rightSaw) == (l = Absent /\ leftSaw) \/ (r = Absent /\ rightSaw)
Gone(entry) == entry.status # "conflict" /\ entry.resolved = Absent

\* What the comparison says of one entry.
LEMMA DiffOfEntry ==
    ASSUME NEW l, NEW r, NEW leftSaw, NEW rightSaw, l # Absent \/ r # Absent,
           l # Absent /\ r # Absent => (DeepEqual(l, r) => l = r)
    PROVE  /\ DiffPermission(l, r, leftSaw, rightSaw) \in {"new", "deleted"} => Lacks(l, r, leftSaw, rightSaw)
           /\ DiffPermission(l, r, leftSaw, rightSaw) = "identical" <=>
                 l = r \/ (l = Absent /\ ~leftSaw) \/ (r = Absent /\ ~rightSaw)
<1>1. CASE l # Absent /\ r # Absent
  <2>1. DiffPermission(l, r, leftSaw, rightSaw) = IF DeepEqual(l, r) THEN "identical" ELSE "changed"
    BY <1>1 DEF DiffPermission
  <2>2. DeepEqual(l, r) <=> l = r
    BY <1>1 DEF DeepEqual
  <2> QED
    BY <1>1, <2>1, <2>2
<1>2. CASE l # Absent /\ r = Absent
  <2>1. DiffPermission(l, r, leftSaw, rightSaw) = IF rightSaw THEN "deleted" ELSE "identical"
    BY <1>2 DEF DiffPermission
  <2> QED
    BY <1>2, <2>1 DEF Lacks
<1>3. CASE l = Absent /\ r # Absent
  <2>1. DiffPermission(l, r, leftSaw, rightSaw) = IF leftSaw THEN "new" ELSE "identical"
    BY <1>3 DEF DiffPermission
  <2> QED
    BY <1>3, <2>1 DEF Lacks
<1> QED
  BY <1>1, <1>2, <1>3

\* What a merge makes of it, in two ways and in three.
LEMMA TwoWayOfEntry ==
    ASSUME NEW l, NEW r, NEW leftSaw, NEW rightSaw, l # Absent \/ r # Absent
    PROVE  LET e == ResolveTwoWayCoverageAware(l, r, leftSaw, rightSaw)
           IN  /\ Gone(e) => Lacks(l, r, leftSaw, rightSaw)
               /\ e.status = "unchanged" <=> l = r \/ (l = Absent /\ ~leftSaw) \/ (r = Absent /\ ~rightSaw)
<1> DEFINE e == ResolveTwoWayCoverageAware(l, r, leftSaw, rightSaw)
<1>1. CASE (l = Absent /\ ~leftSaw) \/ (r = Absent /\ ~rightSaw)
  <2>1. e = [status |-> "unchanged", resolved |-> IF l # Absent THEN l ELSE r]
    BY <1>1 DEF ResolveTwoWayCoverageAware, Resolution
  <2> QED
    BY <1>1, <2>1 DEF Gone
<1>2. CASE ~((l = Absent /\ ~leftSaw) \/ (r = Absent /\ ~rightSaw))
  <2>1. e = ResolveTwoWay(l, r)
    BY <1>2 DEF ResolveTwoWayCoverageAware
  <2>2. CASE l = r
    <3>1. e = [status |-> "unchanged", resolved |-> l]
      BY <2>1, <2>2 DEF ResolveTwoWay, Resolution
    <3> QED
      BY <2>2, <3>1 DEF Gone
  <2>3. CASE l # Absent /\ r = Absent
    <3>1. e = [status |-> "take-left", resolved |-> l]
      BY <2>1, <2>3 DEF ResolveTwoWay, Resolution
    <3> QED
      BY <1>2, <2>3, <3>1 DEF Gone
  <2>4. CASE l = Absent /\ r # Absent
    <3>1. e = [status |-> "take-right", resolved |-> r]
      BY <2>1, <2>4 DEF ResolveTwoWay, Resolution
    <3> QED
      BY <1>2, <2>4, <3>1 DEF Gone
  <2>5. CASE l # r /\ l # Absent /\ r # Absent
    <3>1. e = [status |-> "conflict", resolved |-> Absent]
      BY <2>1, <2>5 DEF ResolveTwoWay, Resolution
    <3> QED
      BY <1>2, <2>5, <3>1 DEF Gone
  <2> QED
    BY <2>2, <2>3, <2>4, <2>5
<1> QED
  BY <1>1, <1>2

LEMMA ThreeWayOfEntry ==
    ASSUME NEW b, NEW l, NEW r, NEW leftSaw, NEW rightSaw, b # Absent \/ l # Absent \/ r # Absent,
           Gone(ResolveThreeWayCoverageAware(b, l, r, leftSaw, rightSaw))
    PROVE  Lacks(l, r, leftSaw, rightSaw)
<1> DEFINE changedLeft == b # l /\ (l # Absent \/ leftSaw)
           changedRight == b # r /\ (r # Absent \/ rightSaw)
           e == ResolveThreeWayCoverageAware(b, l, r, leftSaw, rightSaw)
<1>1. e = ThreeWay(b, l, r, changedLeft, changedRight)
  BY DEF ResolveThreeWayCoverageAware
<1>2. CASE ~changedLeft /\ ~changedRight
  <2>1. e = [status |-> "unchanged", resolved |-> b]
    BY <1>1, <1>2 DEF ThreeWay, Resolution
  <2> QED
    BY <1>2, <2>1 DEF Gone
<1>3. CASE changedLeft /\ ~changedRight
  <2>1. e = [status |-> "take-left", resolved |-> l]
    BY <1>1, <1>3 DEF ThreeWay, Resolution
  <2> QED
    BY <1>3, <2>1 DEF Gone, Lacks
<1>4. CASE ~changedLeft /\ changedRight
  <2>1. e = [status |-> "take-right", resolved |-> r]
    BY <1>1, <1>4 DEF ThreeWay, Resolution
  <2> QED
    BY <1>4, <2>1 DEF Gone, Lacks
<1>5. CASE changedLeft /\ changedRight
  <2>1. e = IF l = r THEN [status |-> "unchanged", resolved |-> l] ELSE [status |-> "conflict", resolved |-> Absent]
    BY <1>1, <1>5 DEF ThreeWay, Resolution
  <2> QED
    BY <1>5, <2>1 DEF Gone, Lacks
<1> QED
  BY <1>2, <1>3, <1>4, <1>5

\* A Profile as it is compared has the permissions of the one that was read, each
\* of them an item of its document.
LEMMA GridOfProfile ==
    ASSUME NEW tag \in DOMAIN PermissionCollections, NEW doc, Document(doc, tag)
    PROVE  /\ \A t : /\ ParseProfileLikeRoot(t, doc).tag = tag
                     /\ IndexByIdentity(ParseProfileLikeRoot(t, doc)) = IndexByIdentity(doc)
           /\ DOMAIN IndexByIdentity(doc) = Identities(doc)
           /\ \A k \in Identities(doc) : IndexByIdentity(doc)[k] \in ToSet(doc.items)
           /\ \A k : At(IndexByIdentity(doc), k) = Absent <=> k \notin Identities(doc)
<1>1. doc = [tag |-> tag, scalars |-> doc.scalars, items |-> doc.items] /\ doc # Absent /\ doc.tag = tag
      /\ doc.items \in Seq(ToSet(doc.items)) /\ Absent \notin ToSet(doc.items)
  <2>1. doc = [tag |-> tag, scalars |-> doc.scalars, items |-> doc.items]
    BY DEF Document
  <2>2. doc.tag = tag
    BY <2>1
  <2> QED
    BY <2>1, <2>2 DEF Document
<1>2. ASSUME NEW t
      PROVE  ParseProfileLikeRoot(t, doc).tag = tag
             /\ IndexByIdentity(ParseProfileLikeRoot(t, doc)) = IndexByIdentity(doc)
  <2> DEFINE p == ParseProfileLikeRoot(t, doc)
  <2>1. p = [doc EXCEPT !.scalars = [f \in (DOMAIN doc.scalars) \ VolatileFields |-> doc.scalars[f]]]
    BY <1>1 DEF ParseProfileLikeRoot
  <2>2. p.tag = doc.tag /\ p.items = doc.items
    BY <1>1, <2>1
  <2> HIDE DEF p
  <2>3. Identities(p) = Identities(doc)
    BY <2>2 DEF Identities, IdentityOf
  <2>4. IndexByIdentity(p) = IndexByIdentity(doc)
    BY <2>2, <2>3 DEF IndexByIdentity, IdentityOf
  <2> QED
    BY <1>1, <2>2, <2>4 DEF p
<1>3. DOMAIN IndexByIdentity(doc) = Identities(doc)
  BY DEF IndexByIdentity
<1>4. ASSUME NEW k \in Identities(doc) PROVE IndexByIdentity(doc)[k] \in ToSet(doc.items)
  <2> DEFINE T == {i \in DOMAIN doc.items : IdentityOf(doc, doc.items[i]) = k}
             N == Len(doc.items)
  <2>1. N \in Nat /\ DOMAIN doc.items = 1 .. N
    BY <1>1
  <2>2. T \in SUBSET (1 .. N) /\ T # {}
    BY <2>1 DEF Identities
  <2>3. IndexByIdentity(doc)[k] = doc.items[Max(T)]
    BY DEF IndexByIdentity
  <2> HIDE DEF T, N
  <2>4. Max(T) \in T
    BY <2>1, <2>2, GreatestElement
  <2> QED
    BY <2>1, <2>2, <2>3, <2>4 DEF ToSet
<1> QED
  BY <1>1, <1>2, <1>3, <1>4 DEF At

\* Documents of the same bytes have the same items, so their grids have the same entries.
LEMMA SameBytesSameItems ==
    ASSUME NEW tag, NEW l, NEW r, Document(l, tag), Document(r, tag), CanonicalizeXml(l) = CanonicalizeXml(r)
    PROVE  ToSet(l.items) = ToSet(r.items)
<1>1. ASSUME NEW doc, Document(doc, tag)
      PROVE  /\ CanonicalizeXml(doc).items = [k \in SortKeys(doc) |-> ItemsOf(doc, k)]
             /\ DOMAIN CanonicalizeXml(doc).items = SortKeys(doc)
             /\ \A k : ToSet(ItemsOf(doc, k)) = {x \in ToSet(doc.items) : SortKey(doc.tag, x) = k}
             /\ \A x \in ToSet(doc.items) : SortKey(doc.tag, x) \in SortKeys(doc)
  <2>1. /\ CanonicalizeXml(doc).items = [k \in SortKeys(doc) |-> ItemsOf(doc, k)]
        /\ DOMAIN CanonicalizeXml(doc).items = SortKeys(doc)
    BY DEF CanonicalizeXml, StripVolatileAndSort
  <2>2. ASSUME NEW k PROVE ToSet(ItemsOf(doc, k)) = {x \in ToSet(doc.items) : SortKey(doc.tag, x) = k}
    <3> DEFINE those == {x \in ToSet(doc.items) : SortKey(doc.tag, x) = k}
               S == ToSet(doc.items)
    <3>1. doc.items \in Seq(S)
      BY <1>1 DEF Document
    <3>2. those \subseteq S /\ ItemsOf(doc, k) = Only(doc.items, those)
      BY DEF ItemsOf
    <3>3. ToSet(Only(doc.items, those)) = S \cap those
      <4> HIDE DEF those
      <4>1. ToSet(Only(doc.items, those)) = ToSet(doc.items) \cap those
        <5> HIDE DEF S
        <5> QED
          BY <3>1, OnlyElements
      <4> QED
        BY <4>1
    <3> HIDE DEF S, those
    <3>4. ToSet(ItemsOf(doc, k)) = those
      BY <3>2, <3>3
    <3> QED
      BY <3>4 DEF those
  <2>3. \A x \in ToSet(doc.items) : SortKey(doc.tag, x) \in SortKeys(doc)
    BY DEF SortKeys, ToSet
  <2> QED
    BY <2>1, <2>2, <2>3
<1>2. SortKeys(l) = SortKeys(r) /\ \A k \in SortKeys(l) : ItemsOf(l, k) = ItemsOf(r, k)
  <2> DEFINE li == CanonicalizeXml(l).items
             ri == CanonicalizeXml(r).items
  <2>1. li = ri
    OBVIOUS
  <2>2. li = [k \in SortKeys(l) |-> ItemsOf(l, k)] /\ ri = [k \in SortKeys(r) |-> ItemsOf(r, k)]
    BY <1>1
  <2>3. DOMAIN li = SortKeys(l) /\ DOMAIN ri = SortKeys(r)
    BY <1>1
  <2> HIDE DEF li, ri
  <2> QED
    BY <2>1, <2>2, <2>3
<1>3. ASSUME NEW a, NEW z, Document(a, tag), Document(z, tag), SortKeys(a) = SortKeys(z),
             \A k \in SortKeys(a) : ItemsOf(a, k) = ItemsOf(z, k), NEW x \in ToSet(a.items)
      PROVE  x \in ToSet(z.items)
  <2>1. SortKey(a.tag, x) \in SortKeys(a) /\ x \in ToSet(ItemsOf(a, SortKey(a.tag, x)))
    BY <1>1, <1>3, Zenon
  <2> DEFINE k == SortKey(a.tag, x)
  <2>2. x \in ToSet(ItemsOf(z, k))
    BY <1>3, <2>1
  <2>3. ToSet(ItemsOf(z, k)) = {y \in ToSet(z.items) : SortKey(z.tag, y) = k}
    <3> HIDE DEF k
    <3>1. Document(z, tag)
      BY <1>3
    <3> QED
      BY <1>1, <3>1
  <2> HIDE DEF k
  <2> QED
    BY <2>2, <2>3
<1>4. \A x : x \in ToSet(l.items) <=> x \in ToSet(r.items)
  <2>1. \A x \in ToSet(l.items) : x \in ToSet(r.items)
    BY <1>2, <1>3
  <2>2. \A x \in ToSet(r.items) : x \in ToSet(l.items)
    BY <1>2, <1>3
  <2> QED
    BY <2>1, <2>2
<1> QED
  BY <1>4

LEMMA SameItemsSameIdentities ==
    ASSUME NEW l, NEW r, l.tag = r.tag, ToSet(l.items) = ToSet(r.items)
    PROVE  Identities(l) = Identities(r)
<1>1. ASSUME NEW doc PROVE Identities(doc) = {IdentityOf(doc, x) : x \in ToSet(doc.items)} \ {Blank}
  BY DEF Identities, ToSet
<1>2. \A x : IdentityOf(l, x) = IdentityOf(r, x)
  BY DEF IdentityOf
<1> QED
  BY <1>1, <1>2

-----------------------------------------------------------------------------
\* Which question of a grid is asked.

GrantsOK(q, tag) ==
    /\ tag \in DOMAIN PermissionCollections
    /\ Document(q.l, tag) /\ Document(q.r, tag) /\ (q.base # NoBase => Document(q.base, tag))
    /\ q.l # NoBase /\ q.r # NoBase
    /\ \A item \in ToSet(q.l.items) \cup ToSet(q.r.items) :
          item = [fields |-> item.fields, value |-> item.value, attr |-> item.attr]

VerdictOf(grid, k) == (CHOOSE e \in grid : e.at = k).status

\* The entries of the structural comparison of two Profiles.
LEMMA GridCompared ==
    ASSUME NEW tag, NEW q, GrantsOK(q, tag), NEW c
    PROVE  LET grid == DiffProfileLike(q.l, q.r, c)
               Verdict(k) == VerdictOf(grid, k)
               li == IndexByIdentity(q.l)
               ri == IndexByIdentity(q.r)
           IN  /\ \A k \in DOMAIN li \cup DOMAIN ri :
                     Verdict(<<"item", k>>) =
                        DiffPermission(At(li, k), At(ri, k), Covers(q.l, c.left, k), Covers(q.r, c.right, k))
               /\ \A f \in AlwaysDiffedScalarFields :
                     Verdict(<<"scalar", f>>) =
                        IF At(ParseProfileLikeRoot(tag, q.l).scalars, f) = At(ParseProfileLikeRoot(tag, q.r).scalars, f)
                        THEN "identical" ELSE "changed"
<1> DEFINE grid == DiffProfileLike(q.l, q.r, c)
           Verdict(k) == VerdictOf(grid, k)
           li == IndexByIdentity(q.l)
           ri == IndexByIdentity(q.r)
           l == ParseProfileLikeRoot(tag, q.l)
           r == ParseProfileLikeRoot(tag, q.r)
           Item(k) == [at |-> <<"item", k>>,
                       status |-> DiffPermission(At(li, k), At(ri, k), Covers(q.l, c.left, k), Covers(q.r, c.right, k))]
           Scalar(f) == [at |-> <<"scalar", f>>, status |-> IF At(l.scalars, f) = At(r.scalars, f) THEN "identical" ELSE "changed"]
<1>1. /\ q.l.tag = tag /\ q.r.tag = tag /\ l.tag = tag /\ r.tag = tag
      /\ IndexByIdentity(l) = li /\ IndexByIdentity(r) = ri
  <2>1. \A t : /\ ParseProfileLikeRoot(t, q.l).tag = tag /\ ParseProfileLikeRoot(t, q.r).tag = tag
               /\ IndexByIdentity(ParseProfileLikeRoot(t, q.l)) = li /\ IndexByIdentity(ParseProfileLikeRoot(t, q.r)) = ri
    BY GridOfProfile DEF GrantsOK
  <2>2. q.l.tag = tag /\ q.r.tag = tag
    <3>1. ASSUME NEW doc, Document(doc, tag) PROVE doc.tag = tag
      <4>1. doc = [tag |-> tag, scalars |-> doc.scalars, items |-> doc.items]
        BY <3>1 DEF Document
      <4> QED
        BY <4>1
    <3> QED
      BY <3>1 DEF GrantsOK
  <2> QED
    BY <2>1, <2>2
<1>2. \A k : Covers(l, c.left, k) = Covers(q.l, c.left, k) /\ Covers(r, c.right, k) = Covers(q.r, c.right, k)
  BY <1>1 DEF Covers
<1>3. grid = {Item(k) : k \in DOMAIN li \cup DOMAIN ri} \cup {Scalar(f) : f \in AlwaysDiffedScalarFields}
  <2>1. grid = {[at |-> <<"item", k>>,
                 status |-> DiffPermission(At(li, k), At(ri, k), Covers(l, c.left, k), Covers(r, c.right, k))] :
                    k \in DOMAIN li \cup DOMAIN ri}
               \cup {Scalar(f) : f \in AlwaysDiffedScalarFields}
    <3> HIDE DEF li, ri
    <3> QED
      BY <1>1 DEF DiffProfileLike
  <2> QED
    BY <1>2, <2>1
<1>4. /\ \A k : Item(k).at = <<"item", k>>
                 /\ Item(k).status = DiffPermission(At(li, k), At(ri, k), Covers(q.l, c.left, k), Covers(q.r, c.right, k))
      /\ \A f : Scalar(f).at = <<"scalar", f>>
                 /\ Scalar(f).status = IF At(l.scalars, f) = At(r.scalars, f) THEN "identical" ELSE "changed"
  OBVIOUS
<1> HIDE DEF grid, Item, Scalar, li, ri, l, r
<1>5. ASSUME NEW k \in DOMAIN li \cup DOMAIN ri PROVE (CHOOSE e \in grid : e.at = <<"item", k>>) = Item(k)
  <2>1. Item(k) \in grid /\ Item(k).at = <<"item", k>>
    BY <1>3, <1>4
  <2>2. \A e \in grid : e.at = <<"item", k>> => e = Item(k)
    <3> SUFFICES ASSUME NEW e \in grid, e.at = <<"item", k>> PROVE e = Item(k)
      OBVIOUS
    <3>1. CASE \E n \in DOMAIN li \cup DOMAIN ri : e = Item(n)
      BY <1>4, <3>1
    <3>2. CASE \E f \in AlwaysDiffedScalarFields : e = Scalar(f)
      BY <1>4, <3>2
    <3> QED
      BY <1>3, <3>1, <3>2
  <2> QED
    BY <2>1, <2>2
<1>6. ASSUME NEW f \in AlwaysDiffedScalarFields PROVE (CHOOSE e \in grid : e.at = <<"scalar", f>>) = Scalar(f)
  <2>1. Scalar(f) \in grid /\ Scalar(f).at = <<"scalar", f>>
    BY <1>3, <1>4
  <2>2. \A e \in grid : e.at = <<"scalar", f>> => e = Scalar(f)
    <3> SUFFICES ASSUME NEW e \in grid, e.at = <<"scalar", f>> PROVE e = Scalar(f)
      OBVIOUS
    <3>1. CASE \E n \in DOMAIN li \cup DOMAIN ri : e = Item(n)
      BY <1>4, <3>1
    <3>2. CASE \E g \in AlwaysDiffedScalarFields : e = Scalar(g)
      BY <1>4, <3>2
    <3> QED
      BY <1>3, <3>1, <3>2
  <2> QED
    BY <2>1, <2>2
<1> QED
  BY <1>4, <1>5, <1>6 DEF li, ri, l, r, grid, VerdictOf

\* What a merge makes of the entries and scalars of two Profiles.
LEMMA GridMerged ==
    ASSUME NEW tag, NEW q, GrantsOK(q, tag), NEW c
    PROVE  LET m  == MergeProfileLike(tag, q.base, q.l, q.r, c)
               li == IndexByIdentity(q.l)
               ri == IndexByIdentity(q.r)
           IN  /\ \A k \in DOMAIN m : \/ \E f \in AlwaysDiffedScalarFields : k = <<"scalar", f>>
                                     \/ \E n : k = <<"item", n>>
               /\ \A n : <<"item", n>> \in DOMAIN m =>
                     /\ Gone(m[<<"item", n>>]) =>
                           Lacks(At(li, n), At(ri, n), Covers(q.l, c.left, n), Covers(q.r, c.right, n))
                     /\ q.base = NoBase =>
                           /\ n \in DOMAIN li \cup DOMAIN ri
                           /\ m[<<"item", n>>].status = "unchanged" <=>
                                 \/ At(li, n) = At(ri, n)
                                 \/ At(li, n) = Absent /\ ~Covers(q.l, c.left, n)
                                 \/ At(ri, n) = Absent /\ ~Covers(q.r, c.right, n)
               /\ \A f \in AlwaysDiffedScalarFields :
                     q.base = NoBase => (m[<<"scalar", f>>].status = "unchanged" <=>
                        At(ParseProfileLikeRoot(tag, q.l).scalars, f) = At(ParseProfileLikeRoot(tag, q.r).scalars, f))
<1> DEFINE m  == MergeProfileLike(tag, q.base, q.l, q.r, c)
           li == IndexByIdentity(q.l)
           ri == IndexByIdentity(q.r)
           b == IF q.base = NoBase THEN NoBase ELSE ParseProfileLikeRoot(tag, q.base)
           l == ParseProfileLikeRoot(tag, q.l)
           r == ParseProfileLikeRoot(tag, q.r)
           bi == IF b = NoBase THEN <<>> ELSE IndexByIdentity(b)
           Entry(n) == IF b = NoBase \/ (At(bi, n) = Absent /\ ~Covers(l, c.base, n))
                       THEN ResolveTwoWayCoverageAware(At(li, n), At(ri, n), Covers(l, c.left, n), Covers(r, c.right, n))
                       ELSE ResolveThreeWayCoverageAware(At(bi, n), At(li, n), At(ri, n), Covers(l, c.left, n), Covers(r, c.right, n))
           D == DOMAIN bi \cup DOMAIN li \cup DOMAIN ri
           Scalar(f) == IF q.base = NoBase THEN ResolveTwoWay(At(l.scalars, f), At(r.scalars, f))
                        ELSE ResolveThreeWay(At(b.scalars, f), At(l.scalars, f), At(r.scalars, f))
           keys == {<<"scalar", f>> : f \in AlwaysDiffedScalarFields} \cup {<<"item", n>> : n \in D}
<1>1. /\ q.l.tag = tag /\ q.r.tag = tag /\ l.tag = tag /\ r.tag = tag
      /\ IndexByIdentity(l) = li /\ IndexByIdentity(r) = ri
      /\ \A n : (At(li, n) = Absent <=> n \notin DOMAIN li) /\ (At(ri, n) = Absent <=> n \notin DOMAIN ri)
  <2>1. ASSUME NEW doc, Document(doc, tag)
        PROVE  /\ doc.tag = tag /\ ParseProfileLikeRoot(tag, doc).tag = tag
               /\ IndexByIdentity(ParseProfileLikeRoot(tag, doc)) = IndexByIdentity(doc)
               /\ \A n : At(IndexByIdentity(doc), n) = Absent <=> n \notin DOMAIN IndexByIdentity(doc)
    <3>1. doc = [tag |-> tag, scalars |-> doc.scalars, items |-> doc.items] /\ tag \in DOMAIN PermissionCollections
      BY <2>1 DEF Document, GrantsOK
    <3>2. doc.tag = tag
      BY <3>1
    <3> QED
      BY <2>1, <3>1, <3>2, GridOfProfile
  <2>2. Document(q.l, tag) /\ Document(q.r, tag)
    BY DEF GrantsOK
  <2> QED
    BY <2>1, <2>2
<1>2. \A n : At(bi, n) = Absent => n \notin DOMAIN bi
  <2>1. CASE b = NoBase
    BY <2>1 DEF At
  <2>2. CASE b # NoBase
    <3>1. Document(q.base, tag) /\ b = ParseProfileLikeRoot(tag, q.base) /\ tag \in DOMAIN PermissionCollections
      BY <2>2 DEF GrantsOK
    <3>2. bi = IndexByIdentity(q.base)
      BY <2>2, <3>1, GridOfProfile
    <3>3. \A n : At(IndexByIdentity(q.base), n) = Absent <=> n \notin DOMAIN IndexByIdentity(q.base)
      BY <3>1, GridOfProfile
    <3> HIDE DEF bi
    <3> QED
      BY <3>2, <3>3
  <2> QED
    BY <2>1, <2>2
<1>3. \A n : Covers(l, c.left, n) = Covers(q.l, c.left, n) /\ Covers(r, c.right, n) = Covers(q.r, c.right, n)
  BY <1>1 DEF Covers
<1>4. m = [k \in keys |-> IF k[1] = "scalar" THEN Scalar(k[2]) ELSE Entry(k[2])]
  <2>1. MergeGrid(b, l, r, c) = [n \in D |-> Entry(n)]
    <3> HIDE DEF li, ri, b, l, r
    <3> QED
      BY <1>1 DEF MergeGrid
  <2>2. m = [k \in {<<"scalar", f>> : f \in AlwaysDiffedScalarFields} \cup {<<"item", n>> : n \in DOMAIN MergeGrid(b, l, r, c)} |->
               IF k[1] = "scalar" THEN Scalar(k[2]) ELSE MergeGrid(b, l, r, c)[k[2]]]
    BY DEF MergeProfileLike
  <2> HIDE DEF D, Entry, Scalar, b, l, r, m
  <2>3. DOMAIN MergeGrid(b, l, r, c) = D /\ \A n \in D : MergeGrid(b, l, r, c)[n] = Entry(n)
    BY <2>1
  <2>4. ASSUME NEW k \in keys
        PROVE  (IF k[1] = "scalar" THEN Scalar(k[2]) ELSE MergeGrid(b, l, r, c)[k[2]])
                  = IF k[1] = "scalar" THEN Scalar(k[2]) ELSE Entry(k[2])
    BY <2>3
  <2> HIDE DEF keys
  <2>5. m = [k \in keys |-> IF k[1] = "scalar" THEN Scalar(k[2]) ELSE MergeGrid(b, l, r, c)[k[2]]]
    BY <2>2, <2>3 DEF keys
  <2> QED
    BY <2>4, <2>5
<1> HIDE DEF m, Entry, Scalar, D
<1>5. DOMAIN m = keys
  BY <1>4
<1>6. ASSUME NEW n, <<"item", n>> \in keys
      PROVE  n \in D /\ m[<<"item", n>>] = Entry(n)
  <2>1. n \in D
    BY <1>6
  <2> QED
    BY <1>4, <1>6, <2>1
<1>7. ASSUME NEW n \in D
      PROVE  /\ Gone(Entry(n)) => Lacks(At(li, n), At(ri, n), Covers(q.l, c.left, n), Covers(q.r, c.right, n))
             /\ q.base = NoBase =>
                   /\ n \in DOMAIN li \cup DOMAIN ri
                   /\ Entry(n).status = "unchanged" <=>
                         \/ At(li, n) = At(ri, n)
                         \/ At(li, n) = Absent /\ ~Covers(q.l, c.left, n)
                         \/ At(ri, n) = Absent /\ ~Covers(q.r, c.right, n)
  <2> DEFINE x == At(li, n)
             y == At(ri, n)
             lc == Covers(q.l, c.left, n)
             rc == Covers(q.r, c.right, n)
  <2>1. CASE b = NoBase \/ (At(bi, n) = Absent /\ ~Covers(l, c.base, n))
    <3>1. n \notin DOMAIN bi
      <4>1. CASE b = NoBase
        BY <4>1
      <4>2. CASE b # NoBase
        BY <1>2, <2>1, <4>2
      <4> QED
        BY <4>1, <4>2
    <3>2. n \in DOMAIN li \cup DOMAIN ri
      BY <3>1 DEF D
    <3>3. x # Absent \/ y # Absent
      BY <1>1, <3>2
    <3>4. Entry(n) = ResolveTwoWayCoverageAware(x, y, lc, rc)
      BY <1>3, <2>1, Zenon DEF Entry
    <3> HIDE DEF x, y, lc, rc
    <3>5. LET e == ResolveTwoWayCoverageAware(x, y, lc, rc)
          IN  /\ Gone(e) => Lacks(x, y, lc, rc)
              /\ e.status = "unchanged" <=> x = y \/ (x = Absent /\ ~lc) \/ (y = Absent /\ ~rc)
      BY <3>3, TwoWayOfEntry
    <3>6. /\ Gone(Entry(n)) => Lacks(x, y, lc, rc)
          /\ Entry(n).status = "unchanged" <=> x = y \/ (x = Absent /\ ~lc) \/ (y = Absent /\ ~rc)
      BY <3>4, <3>5
    <3> QED
      BY <3>2, <3>6, Zenon DEF x, y, lc, rc
  <2>2. CASE ~(b = NoBase \/ (At(bi, n) = Absent /\ ~Covers(l, c.base, n)))
    <3>1. Entry(n) = ResolveThreeWayCoverageAware(At(bi, n), x, y, lc, rc)
      BY <1>3, <2>2, Zenon DEF Entry
    <3>2. At(bi, n) # Absent \/ x # Absent \/ y # Absent
      <4>1. n \in DOMAIN bi => At(bi, n) # Absent
        <5> HIDE DEF bi
        <5> QED
          BY <1>2
      <4> QED
        BY <1>1, <4>1 DEF D
    <3>3. q.base # NoBase
      BY <2>2
    <3> HIDE DEF x, y, lc, rc, bi
    <3>4. Gone(Entry(n)) => Lacks(x, y, lc, rc)
      BY <3>1, <3>2, ThreeWayOfEntry, Zenon
    <3> QED
      BY <3>3, <3>4, Zenon DEF x, y, lc, rc
  <2> QED
    BY <2>1, <2>2
<1>8. ASSUME NEW f \in AlwaysDiffedScalarFields, q.base = NoBase
      PROVE  m[<<"scalar", f>>].status = "unchanged" <=> At(l.scalars, f) = At(r.scalars, f)
  <2>1. <<"scalar", f>> \in keys
    OBVIOUS
  <2>2. m[<<"scalar", f>>] = Scalar(f)
    BY <1>4, <2>1
  <2>3. Scalar(f) = ResolveTwoWay(At(l.scalars, f), At(r.scalars, f))
    BY <1>8 DEF Scalar
  <2>4. ASSUME NEW x, NEW y PROVE ResolveTwoWay(x, y).status = "unchanged" <=> x = y
    BY DEF ResolveTwoWay, Resolution
  <2> QED
    BY <2>2, <2>3, <2>4
<1>9. \A k \in keys : \/ \E f \in AlwaysDiffedScalarFields : k = <<"scalar", f>>
                      \/ \E n : k = <<"item", n>>
  OBVIOUS
<1> HIDE DEF keys, li, ri, l, r
<1> QED
  BY <1>5, <1>6, <1>7, <1>8, <1>9, Zenon DEF m, li, ri, l, r

\* A set written as a list and read again is the set.
LEMMA ListedAndRead == ASSUME NEW S, IsFiniteSet(S) PROVE ToSet(SetToSeq(S)) = S
<1> DEFINE n == Cardinality(S)
<1>1. n \in Nat /\ ExistsBijection(1 .. n, S) /\ IsFiniteSet(1 .. n) /\ Cardinality(1 .. n) = n
  <2>1. n \in Nat /\ ExistsBijection(1 .. n, S)
    BY FS_CardinalityType
  <2> HIDE DEF n
  <2>2. IsFiniteSet(1 .. n) /\ Cardinality(1 .. n) = n
    <3>1. 1 \in Int /\ n \in Int
      BY <2>1
    <3>2. Cardinality(1 .. n) = IF 1 > n THEN 0 ELSE n - 1 + 1
      BY <3>1, FS_Interval
    <3> QED
      BY <2>1, <3>1, <3>2, FS_Interval
  <2> QED
    BY <2>1, <2>2
<1>2. SetToSeq(S) \in [1 .. n -> S] /\ IsInjective(SetToSeq(S))
  <2>1. \E f \in [1 .. n -> S] : IsInjective(f)
    BY <1>1 DEF ExistsBijection, Bijection, Injection
  <2> QED
    BY <2>1 DEF SetToSeq
<1> DEFINE f == SetToSeq(S)
<1> HIDE DEF f, n
<1>3. f \in Injection(1 .. n, S)
  BY <1>2 DEF f, Injection
<1>4. f \in Surjection(1 .. n, S)
  BY <1>1, <1>3, FS_Injection DEF n
<1>5. DOMAIN f = 1 .. n /\ (\A i \in 1 .. n : f[i] \in S) /\ \A x \in S : \E i \in 1 .. n : f[i] = x
  BY <1>2, <1>4 DEF f, Surjection
<1>6. \A x : x \in ToSet(f) <=> x \in S
  BY <1>5 DEF ToSet
<1> QED
  BY <1>6 DEF f

\* What merge.resolve reads of a document kept whole is the document.
LEMMA WholeIsRead ==
    ASSUME NEW tag, NEW doc, Document(doc, tag)
    PROVE  /\ Side(doc, FALSE).sha256 = CanonicalizeXml(doc) /\ CanonicalizeXml(doc) # Absent
           /\ ResolveSideContent(Side(doc, FALSE), FALSE).threw = FALSE
           /\ ResolveSideContent(Side(doc, FALSE), FALSE).content = doc
           /\ Git(doc, FALSE) # NoBase /\ Git(doc, FALSE).kind = "git-ref"
           /\ MaterializeOneComponent(Git(doc, FALSE).tree, FALSE) = doc
<1>1. doc # Absent /\ doc # NoBase /\ CanonicalizeXml(doc) # Absent /\ Git(doc, FALSE) # NoBase
  BY DEF Document
<1>2. Side(doc, FALSE) = [sha256 |-> CanonicalizeXml(doc), blob |-> doc, tree |-> Tree(doc, FALSE)]
  BY <1>1 DEF Side
<1>3. Side(doc, FALSE).sha256 = CanonicalizeXml(doc) /\ Side(doc, FALSE).blob = doc
  <2> DEFINE side == [sha256 |-> CanonicalizeXml(doc), blob |-> doc, tree |-> Tree(doc, FALSE)]
  <2>1. side.sha256 = CanonicalizeXml(doc) /\ side.blob = doc
    OBVIOUS
  <2> HIDE DEF side
  <2>2. Side(doc, FALSE) = side
    BY <1>2 DEF side
  <2> QED
    BY <2>1, <2>2, Zenon
<1>4. ResolveSideContent(Side(doc, FALSE), FALSE) = [threw |-> FALSE, content |-> doc]
  <2> DEFINE side == Side(doc, FALSE)
  <2>1. side.sha256 # Absent /\ side.blob = doc
    BY <1>1, <1>3
  <2> HIDE DEF side
  <2>2. ResolveSideContent(side, FALSE) = Read(side.blob)
    BY <2>1 DEF ResolveSideContent
  <2> QED
    BY <2>1, <2>2 DEF side, Read
<1>5. Git(doc, FALSE).kind = "git-ref" /\ Git(doc, FALSE).tree = Tree(doc, FALSE)
  <2>1. \A t : [kind |-> "git-ref", tree |-> t].kind = "git-ref" /\ [kind |-> "git-ref", tree |-> t].tree = t
    OBVIOUS
  <2>2. Git(doc, FALSE) = [kind |-> "git-ref", tree |-> Tree(doc, FALSE)]
    BY <1>1 DEF Git
  <2> QED
    BY <2>1, <2>2, Zenon
<1>6. MaterializeOneComponent(Tree(doc, FALSE), FALSE) = doc
  <2>1. Tree(doc, FALSE).shell = doc
    BY <1>1 DEF Tree
  <2> HIDE DEF Tree
  <2> QED
    BY <2>1 DEF MaterializeOneComponent
<1> QED
  <2>1. [threw |-> FALSE, content |-> doc].threw = FALSE /\ [threw |-> FALSE, content |-> doc].content = doc
    OBVIOUS
  <2> QED
    BY <1>1, <1>3, <1>4, <1>5, <1>6, <2>1, Zenon

\* Merging two Profiles: refused without their coverage, else what the library makes of them.
LEMMA ProfilesResolved ==
    ASSUME NEW tag, NEW q, GrantsOK(q, tag), NEW stored
    PROVE  LET row == DiffRow(tag, q.l, q.r, TRUE, FALSE)
               c == MergeCoverage(row, stored)
               resolved == MergeResolve(row, Git(q.base, FALSE), stored)
           IN  IF c = Absent THEN resolved.threw = TRUE
               ELSE resolved.threw = FALSE /\ resolved.entries = MergeProfileLike(tag, q.base, q.l, q.r, c)
<1> DEFINE row == DiffRow(tag, q.l, q.r, TRUE, FALSE)
           c == MergeCoverage(row, stored)
           git == Git(q.base, FALSE)
           left == ResolveSideContent(row.left, row.decomposed)
           right == ResolveSideContent(row.right, row.decomposed)
           base == IF git = NoBase THEN NoBase ELSE MaterializeOneComponent(git.tree, row.decomposed)
           resolved == MergeResolve(row, git, stored)
<1>1. /\ row.tag = tag /\ row.left = Side(q.l, FALSE) /\ row.right = Side(q.r, FALSE) /\ row.profileLike = TRUE
      /\ row.decomposed = FALSE /\ row.binary = FALSE
  BY DEF DiffRow
<1> HIDE DEF row
<1>2. left.threw = FALSE /\ left.content = q.l /\ right.threw = FALSE /\ right.content = q.r
  <2>1. left = ResolveSideContent(Side(q.l, FALSE), FALSE) /\ right = ResolveSideContent(Side(q.r, FALSE), FALSE)
    BY <1>1, Zenon
  <2>2. Document(q.l, tag) /\ Document(q.r, tag)
    BY DEF GrantsOK
  <2>3. \A doc : Document(doc, tag) => /\ ResolveSideContent(Side(doc, FALSE), FALSE).threw = FALSE
                                      /\ ResolveSideContent(Side(doc, FALSE), FALSE).content = doc
    BY WholeIsRead
  <2> HIDE DEF left, right
  <2> QED
    BY <2>1, <2>2, <2>3, Zenon
<1>3. base = q.base /\ (git # NoBase => git.kind = "git-ref")
  <2>1. CASE q.base = NoBase
    BY <2>1 DEF Git
  <2>2. CASE q.base # NoBase
    BY <1>1, <2>2, WholeIsRead DEF GrantsOK
  <2> QED
    BY <2>1, <2>2
<1>4. resolved = IF c = Absent THEN [threw |-> TRUE, entries |-> <<>>]
                 ELSE [threw |-> FALSE,
                       entries |-> MergeComponent(row.profileLike, row.tag, base, left.content, right.content, c)]
  <2>1. resolved = IF \/ row.binary \/ left.threw \/ right.threw
                      \/ (git # NoBase /\ git.kind # "git-ref") \/ (row.profileLike /\ c = Absent)
                   THEN [threw |-> TRUE, entries |-> <<>>]
                   ELSE [threw |-> FALSE,
                         entries |-> MergeComponent(row.profileLike, row.tag, base, left.content, right.content, c)]
    BY DEF MergeResolve
  <2> HIDE DEF left, right, base, git, c, resolved
  <2> QED
    BY <1>1, <1>2, <1>3, <2>1
<1>5. MergeComponent(row.profileLike, row.tag, base, left.content, right.content, c) = MergeProfileLike(tag, q.base, q.l, q.r, c)
  <2> HIDE DEF left, right, base, c
  <2> QED
    BY <1>1, <1>2, <1>3 DEF MergeComponent
<1> HIDE DEF left, right, base, git, c, resolved
<1>6. IF c = Absent THEN resolved.threw = TRUE
      ELSE resolved.threw = FALSE /\ resolved.entries = MergeProfileLike(tag, q.base, q.l, q.r, c)
  BY <1>4, <1>5
<1> QED
  BY <1>6 DEF c, resolved, git, row

\* A coverage a question is merged with: its own, or, of two sides whose entries are
\* the same ones, any.
Fits(q, c) ==
    \/ c.left = q.coverage.left /\ c.right = q.coverage.right
    \/ q.base = NoBase /\ Identities(q.l) = Identities(q.r)
ReadFor(q, tag, seen, k) == seen = Full \/ k \in seen \/ PermissionCollections[tag].alwaysComplete

LEMMA UnreadSurvives ==
    ASSUME NEW tag, NEW q, GrantsOK(q, tag), NEW c, Fits(q, c)
    PROVE  LET m == MergeProfileLike(tag, q.base, q.l, q.r, c)
               grid == DiffProfileLike(q.l, q.r, q.coverage)
               l == IndexByIdentity(q.l)
               r == IndexByIdentity(q.r)
               Verdict(k) == VerdictOf(grid, k)
               SeenToLack(k) == \/ At(l, k) = Absent /\ ReadFor(q, tag, q.coverage.left, k)
                                \/ At(r, k) = Absent /\ ReadFor(q, tag, q.coverage.right, k)
           IN  /\ \A k \in DOMAIN l \cup DOMAIN r : Verdict(<<"item", k>>) \in {"new", "deleted"} => SeenToLack(k)
               /\ \A k \in {n \in DOMAIN m : n[1] = "item"} :
                     (m[k].status # "conflict" /\ m[k].resolved = Absent) => SeenToLack(k[2])
               /\ q.base = NoBase => \A k \in DOMAIN m : (m[k].status = "unchanged") = (Verdict(k) = "identical")
<1> DEFINE m == MergeProfileLike(tag, q.base, q.l, q.r, c)
           grid == DiffProfileLike(q.l, q.r, q.coverage)
           l == IndexByIdentity(q.l)
           r == IndexByIdentity(q.r)
           Verdict(k) == VerdictOf(grid, k)
           SawLeft(k) == Covers(q.l, q.coverage.left, k)
           SawRight(k) == Covers(q.r, q.coverage.right, k)
           SeenToLack(k) == \/ At(l, k) = Absent /\ ReadFor(q, tag, q.coverage.left, k)
                            \/ At(r, k) = Absent /\ ReadFor(q, tag, q.coverage.right, k)
           ParsedLeft == ParseProfileLikeRoot(tag, q.l).scalars
           ParsedRight == ParseProfileLikeRoot(tag, q.r).scalars
<1>1. /\ q.l.tag = tag /\ q.r.tag = tag
      /\ DOMAIN l = Identities(q.l) /\ DOMAIN r = Identities(q.r)
      /\ (\A k \in DOMAIN l : l[k] \in ToSet(q.l.items)) /\ (\A k \in DOMAIN r : r[k] \in ToSet(q.r.items))
      /\ \A k : (At(l, k) = Absent <=> k \notin DOMAIN l) /\ (At(r, k) = Absent <=> k \notin DOMAIN r)
  <2>1. ASSUME NEW doc, Document(doc, tag)
        PROVE  /\ doc.tag = tag
               /\ DOMAIN IndexByIdentity(doc) = Identities(doc)
               /\ \A k \in Identities(doc) : IndexByIdentity(doc)[k] \in ToSet(doc.items)
               /\ \A k : At(IndexByIdentity(doc), k) = Absent <=> k \notin Identities(doc)
    <3>1. doc = [tag |-> tag, scalars |-> doc.scalars, items |-> doc.items] /\ tag \in DOMAIN PermissionCollections
      BY <2>1 DEF Document, GrantsOK
    <3>2. doc.tag = tag
      BY <3>1
    <3> QED
      BY <2>1, <3>1, <3>2, GridOfProfile
  <2>2. Document(q.l, tag) /\ Document(q.r, tag)
    BY DEF GrantsOK
  <2> QED
    BY <2>1, <2>2
<1>10. /\ \A k \in DOMAIN l \cup DOMAIN r :
            Verdict(<<"item", k>>) =
                DiffPermission(At(l, k), At(r, k), Covers(q.l, q.coverage.left, k), Covers(q.r, q.coverage.right, k))
       /\ \A f \in AlwaysDiffedScalarFields :
            Verdict(<<"scalar", f>>) =
                IF At(ParsedLeft, f) = At(ParsedRight, f) THEN "identical" ELSE "changed"
  BY GridCompared
<1>11. /\ \A k \in DOMAIN m : \/ \E f \in AlwaysDiffedScalarFields : k = <<"scalar", f>>
                            \/ \E n : k = <<"item", n>>
       /\ \A n : <<"item", n>> \in DOMAIN m =>
            /\ Gone(m[<<"item", n>>]) =>
                  Lacks(At(l, n), At(r, n), Covers(q.l, c.left, n), Covers(q.r, c.right, n))
            /\ q.base = NoBase =>
                  /\ n \in DOMAIN l \cup DOMAIN r
                  /\ m[<<"item", n>>].status = "unchanged" <=>
                        \/ At(l, n) = At(r, n)
                        \/ At(l, n) = Absent /\ ~Covers(q.l, c.left, n)
                        \/ At(r, n) = Absent /\ ~Covers(q.r, c.right, n)
       /\ \A f \in AlwaysDiffedScalarFields :
            q.base = NoBase => (m[<<"scalar", f>>].status = "unchanged" <=> At(ParsedLeft, f) = At(ParsedRight, f))
  BY GridMerged
<1>2. \A k : SeenToLack(k) <=> Lacks(At(l, k), At(r, k), SawLeft(k), SawRight(k))
  BY <1>1, Zenon DEF Lacks, Covers, IsCovered, ReadFor
<1>3. ASSUME NEW k \in DOMAIN l \cup DOMAIN r
      PROVE  /\ Verdict(<<"item", k>>) \in {"new", "deleted"} => SeenToLack(k)
             /\ Verdict(<<"item", k>>) = "identical" <=>
                   At(l, k) = At(r, k) \/ (At(l, k) = Absent /\ ~SawLeft(k)) \/ (At(r, k) = Absent /\ ~SawRight(k))
  <2> DEFINE x == At(l, k)
             y == At(r, k)
             a == SawLeft(k)
             z == SawRight(k)
  <2>1. Verdict(<<"item", k>>) = DiffPermission(x, y, a, z)
    BY <1>10
  <2>2. x # Absent \/ y # Absent
    BY <1>1
  <2>3. x # Absent /\ y # Absent => (DeepEqual(x, y) => x = y)
    <3> SUFFICES ASSUME x # Absent, y # Absent, DeepEqual(x, y) PROVE x = y
      OBVIOUS
    <3>1. x \in ToSet(q.l.items) /\ y \in ToSet(q.r.items)
      <4> HIDE DEF l, r
      <4> QED
        BY <1>1 DEF At
    <3> HIDE DEF x, y
    <3>2. /\ x = [fields |-> x.fields, value |-> x.value, attr |-> x.attr]
          /\ y = [fields |-> y.fields, value |-> y.value, attr |-> y.attr]
      BY <3>1 DEF GrantsOK
    <3>3. x.fields = y.fields /\ x.value = y.value /\ x.attr = y.attr
      BY DEF DeepEqual
    <3> QED
      BY <3>2, <3>3
  <2> HIDE DEF x, y, a, z, Verdict
  <2>4. /\ DiffPermission(x, y, a, z) \in {"new", "deleted"} => Lacks(x, y, a, z)
        /\ DiffPermission(x, y, a, z) = "identical" <=> x = y \/ (x = Absent /\ ~a) \/ (y = Absent /\ ~z)
    BY <2>2, <2>3, DiffOfEntry
  <2>5. SeenToLack(k) <=> Lacks(x, y, a, z)
    BY <1>2 DEF x, y, a, z
  <2> HIDE DEF SeenToLack
  <2>6. /\ Verdict(<<"item", k>>) \in {"new", "deleted"} => SeenToLack(k)
        /\ Verdict(<<"item", k>>) = "identical" <=> x = y \/ (x = Absent /\ ~a) \/ (y = Absent /\ ~z)
    BY <2>1, <2>4, <2>5
  <2> QED
    BY <2>6 DEF x, y, a, z
<1>4. ASSUME NEW f \in AlwaysDiffedScalarFields
      PROVE  Verdict(<<"scalar", f>>) = "identical" <=> At(ParsedLeft, f) = At(ParsedRight, f)
  <2>1. Verdict(<<"scalar", f>>) = IF At(ParsedLeft, f) = At(ParsedRight, f) THEN "identical" ELSE "changed"
    BY <1>10
  <2> HIDE DEF Verdict, ParsedLeft, ParsedRight
  <2> QED
    BY <2>1
<1>5. ASSUME NEW n, <<"item", n>> \in DOMAIN m
      PROVE  /\ Gone(m[<<"item", n>>]) => SeenToLack(n)
             /\ q.base = NoBase => ((m[<<"item", n>>].status = "unchanged") <=> (Verdict(<<"item", n>>) = "identical"))
  <2> DEFINE e == m[<<"item", n>>]
             x == At(l, n)
             y == At(r, n)
             a == Covers(q.l, c.left, n)
             z == Covers(q.r, c.right, n)
  <2>1. /\ Gone(e) => Lacks(x, y, a, z)
        /\ q.base = NoBase =>
              /\ n \in DOMAIN l \cup DOMAIN r
              /\ e.status = "unchanged" <=> x = y \/ (x = Absent /\ ~a) \/ (y = Absent /\ ~z)
    <3> HIDE DEF m, l, r
    <3> QED
      BY <1>5, <1>11, Zenon
  <2>2. CASE c.left = q.coverage.left /\ c.right = q.coverage.right
    <3>1. (a <=> SawLeft(n)) /\ (z <=> SawRight(n))
      BY <2>2, Zenon
    <3> HIDE DEF m, e, x, y, a, z, Verdict, SeenToLack, SawLeft, SawRight
    <3>2. SeenToLack(n) <=> Lacks(x, y, SawLeft(n), SawRight(n))
      BY <1>2 DEF x, y
    <3>3. Gone(e) => SeenToLack(n)
      BY <2>1, <3>1, <3>2, Zenon DEF Lacks
    <3>4. q.base = NoBase => (e.status = "unchanged" <=> Verdict(<<"item", n>>) = "identical")
      BY <1>3, <2>1, <3>1, Zenon DEF x, y
    <3> QED
      BY <3>3, <3>4 DEF e
  <2>3. CASE q.base = NoBase /\ Identities(q.l) = Identities(q.r)
    <3> HIDE DEF m, e, a, z, Verdict, SeenToLack, SawLeft, SawRight
    <3>1. n \in DOMAIN l /\ n \in DOMAIN r
      BY <1>1, <2>1, <2>3
    <3>2. x # Absent /\ y # Absent
      BY <1>1, <3>1
    <3>3. ~Gone(e)
      BY <2>1, <3>2, Zenon DEF Lacks
    <3>4. e.status = "unchanged" <=> x = y
      BY <2>1, <2>3, <3>2, Zenon
    <3>5. Verdict(<<"item", n>>) = "identical" <=> x = y
      BY <1>3, <3>1, <3>2
    <3> QED
      BY <3>3, <3>4, <3>5 DEF e
  <2> QED
    BY <2>2, <2>3 DEF Fits
<1>6. ASSUME NEW k \in DOMAIN m
      PROVE  \/ \E f \in AlwaysDiffedScalarFields : k = <<"scalar", f>>
             \/ \E n : k = <<"item", n>>
  BY <1>6, <1>11
<1>7. \A k \in {n \in DOMAIN m : n[1] = "item"} : Gone(m[k]) => SeenToLack(k[2])
  <2> SUFFICES ASSUME NEW k \in DOMAIN m, k[1] = "item", Gone(m[k]) PROVE SeenToLack(k[2])
    OBVIOUS
  <2> HIDE DEF m, SeenToLack
  <2>1. PICK n : k = <<"item", n>>
    <3>1. \A f : <<"scalar", f>>[1] = "scalar"
      OBVIOUS
    <3> QED
      BY <1>6, <3>1
  <2>2. k[2] = n
    BY <2>1
  <2> QED
    BY <1>5, <2>1, <2>2
<1>8. ASSUME q.base = NoBase, NEW k \in DOMAIN m
      PROVE  (m[k].status = "unchanged") <=> (Verdict(k) = "identical")
  <2>1. CASE \E f \in AlwaysDiffedScalarFields : k = <<"scalar", f>>
    <3>1. PICK f \in AlwaysDiffedScalarFields : k = <<"scalar", f>>
      BY <2>1
    <3>2. m[<<"scalar", f>>].status = "unchanged" <=> At(ParsedLeft, f) = At(ParsedRight, f)
      BY <1>8, <1>11
    <3> HIDE DEF m, Verdict, ParsedLeft, ParsedRight
    <3> QED
      BY <1>4, <3>1, <3>2
  <2>2. CASE \E n : k = <<"item", n>>
    <3> HIDE DEF m, Verdict
    <3> QED
      BY <1>5, <1>8, <2>2
  <2> QED
    BY <1>6, <2>1, <2>2
<1> HIDE DEF m, Verdict, SeenToLack
<1>9. /\ \A k \in DOMAIN l \cup DOMAIN r : Verdict(<<"item", k>>) \in {"new", "deleted"} => SeenToLack(k)
      /\ \A k \in {n \in DOMAIN m : n[1] = "item"} :
             (m[k].status # "conflict" /\ m[k].resolved = Absent) => SeenToLack(k[2])
      /\ q.base = NoBase => \A k \in DOMAIN m : (m[k].status = "unchanged") = (Verdict(k) = "identical")
  <2>1. \A k \in DOMAIN l \cup DOMAIN r : Verdict(<<"item", k>>) \in {"new", "deleted"} => SeenToLack(k)
    BY <1>3
  <2>2. \A k \in {n \in DOMAIN m : n[1] = "item"} :
             (m[k].status # "conflict" /\ m[k].resolved = Absent) => SeenToLack(k[2])
    BY <1>7 DEF Gone
  <2>3. q.base = NoBase => \A k \in DOMAIN m : (m[k].status = "unchanged") = (Verdict(k) = "identical")
    BY <1>8
  <2> QED
    BY <2>1, <2>2, <2>3
<1> QED
  BY <1>9, Zenon DEF m, Verdict, SeenToLack, grid, l, r

\* The coverage a merge is made with fits: it is the recorded one, read back from
\* what was written of it, unless the sides are of the same bytes.
LEMMA CoverageFits ==
    ASSUME NEW tag, NEW q, GrantsOK(q, tag),
           \A seen \in {q.coverage.left, q.coverage.right} :
               seen # Full => IsFiniteSet(seen) /\ ToJsonSideCoverage(seen) # Full,
           SerializeProfileCoverage(q.coverage) # Absent,
           ~(q.base # NoBase /\ CanonicalizeXml(q.l) = CanonicalizeXml(q.r))
    PROVE  Fits(q, MergeCoverage(DiffRow(tag, q.l, q.r, TRUE, FALSE), SerializeProfileCoverage(q.coverage)))
<1> DEFINE row == DiffRow(tag, q.l, q.r, TRUE, FALSE)
           written == SerializeProfileCoverage(q.coverage)
           c == MergeCoverage(row, written)
<1>1. row.left.sha256 = CanonicalizeXml(q.l) /\ row.right.sha256 = CanonicalizeXml(q.r)
  <2>1. row.left = Side(q.l, FALSE) /\ row.right = Side(q.r, FALSE)
    BY DEF DiffRow
  <2>2. Document(q.l, tag) /\ Document(q.r, tag)
    BY DEF GrantsOK
  <2>3. \A doc : Document(doc, tag) => Side(doc, FALSE).sha256 = CanonicalizeXml(doc)
    BY WholeIsRead
  <2> HIDE DEF row
  <2> QED
    BY <2>1, <2>2, <2>3, Zenon
<1>2. CASE CanonicalizeXml(q.l) = CanonicalizeXml(q.r)
  <2>1. q.base = NoBase
    BY <1>2
  <2>2. Document(q.l, tag) /\ Document(q.r, tag)
    BY DEF GrantsOK
  <2>3. ToSet(q.l.items) = ToSet(q.r.items)
    BY <1>2, <2>2, SameBytesSameItems
  <2>4. q.l.tag = q.r.tag
    <3>1. /\ q.l = [tag |-> tag, scalars |-> q.l.scalars, items |-> q.l.items]
          /\ q.r = [tag |-> tag, scalars |-> q.r.scalars, items |-> q.r.items]
      BY <2>2 DEF Document
    <3>2. \A s, i : [tag |-> tag, scalars |-> s, items |-> i].tag = tag
      OBVIOUS
    <3> QED
      BY <3>1, <3>2
  <2> QED
    BY <2>1, <2>3, <2>4, SameItemsSameIdentities DEF Fits
<1>3. CASE CanonicalizeXml(q.l) # CanonicalizeXml(q.r)
  <2>1. c = DeserializeProfileCoverage(written)
    <3> HIDE DEF row, written
    <3> QED
      BY <1>1, <1>3 DEF MergeCoverage, written
  <2>2. \A seen \in {q.coverage.left, q.coverage.right} : FromJsonSideCoverage(ToJsonSideCoverage(seen)) = seen
    <3> SUFFICES ASSUME NEW seen \in {q.coverage.left, q.coverage.right}
                 PROVE  FromJsonSideCoverage(ToJsonSideCoverage(seen)) = seen
      OBVIOUS
    <3>1. CASE seen = Full
      BY <3>1 DEF FromJsonSideCoverage, ToJsonSideCoverage
    <3>2. CASE seen # Full
      <4>1. IsFiniteSet(seen) /\ ToJsonSideCoverage(seen) # Full /\ ToJsonSideCoverage(seen) = SetToSeq(seen)
        BY <3>2 DEF ToJsonSideCoverage
      <4>2. FromJsonSideCoverage(ToJsonSideCoverage(seen)) = ToSet(SetToSeq(seen))
        BY <4>1 DEF FromJsonSideCoverage
      <4> QED
        BY <4>1, <4>2, ListedAndRead
    <3> QED
      BY <3>1, <3>2
  <2>3. /\ written.left = ToJsonSideCoverage(q.coverage.left) /\ written.right = ToJsonSideCoverage(q.coverage.right)
    BY DEF SerializeProfileCoverage
  <2> HIDE DEF written, c
  <2>4. c.left = FromJsonSideCoverage(written.left) /\ c.right = FromJsonSideCoverage(written.right)
    <3>1. c = [left |-> FromJsonSideCoverage(written.left), right |-> FromJsonSideCoverage(written.right), base |-> Full]
      BY <2>1 DEF DeserializeProfileCoverage
    <3> QED
      BY <3>1
  <2>5. c.left = q.coverage.left /\ c.right = q.coverage.right
    BY <2>2, <2>3, <2>4
  <2> QED
    BY <2>5 DEF Fits, c, written
<1> QED
  BY <1>2, <1>3

\* An entry a Profile was not asked for survives comparison and merge, which agree on
\* whether there is a difference: the diff says new or deleted, and a merge leaves an
\* entry out, only of what a side read for it lacks (profiles.ts:151-296,
\* profile-merge.ts:66-153, routers/merge.ts:270-297).
THEOREM UnreadEntriesSurvive == ASpec => []UnreadPermissionsSurvive
<1>1. AskedOK => UnreadPermissionsSurvive
  <2> SUFFICES ASSUME AskedOK, Asking("grants") PROVE UnreadPermissionsSurvive
    BY DEF UnreadPermissionsSurvive
  <2> DEFINE q == question
             tag == question.l.tag
             row == DiffRow(tag, q.l, q.r, TRUE, FALSE)
             written == SerializeProfileCoverage(q.coverage)
             c == MergeCoverage(row, written)
             merged == MergeProfileLike(tag, q.base, q.l, q.r, q.coverage)
             grid == DiffProfileLike(q.l, q.r, q.coverage)
             l == IndexByIdentity(q.l)
             r == IndexByIdentity(q.r)
             stored == IF q.base # NoBase /\ row.left.sha256 = row.right.sha256 THEN {}
                       ELSE {MergeResolve(row, Git(q.base, FALSE), written).entries}
             SeenToLack(k) == \/ At(l, k) = Absent /\ ReadFor(q, tag, q.coverage.left, k)
                              \/ At(r, k) = Absent /\ ReadFor(q, tag, q.coverage.right, k)
             Says(m) == /\ \A k \in {n \in DOMAIN m : n[1] = "item"} :
                              (m[k].status # "conflict" /\ m[k].resolved = Absent) => SeenToLack(k[2])
                        /\ q.base = NoBase =>
                              \A k \in DOMAIN m : (m[k].status = "unchanged") = (VerdictOf(grid, k) = "identical")
  <2>1. PICK t \in DOMAIN Grants : q \in Grants[t]
    BY DEF AskedOK, Posed, Among
  <2>2. /\ GrantsOK(q, t)
        /\ \A seen \in {q.coverage.left, q.coverage.right} :
               seen # Full => IsFiniteSet(seen) /\ ToJsonSideCoverage(seen) # Full
        /\ written # Absent
        /\ MergeCoverage(DiffRow(t, q.l, q.r, TRUE, FALSE), written) # Absent
    <3>1. /\ DOMAIN Grants \subseteq DOMAIN PermissionCollections
          /\ \A doc \in {q.base, q.l, q.r} \ {NoBase} : Document(doc, t)
          /\ q.l # NoBase /\ q.r # NoBase
          /\ \A item \in ToSet(q.l.items) \cup ToSet(q.r.items) :
                item = [fields |-> item.fields, value |-> item.value, attr |-> item.attr]
      BY <2>1, GrantsAssumption
    <3>2. GrantsOK(q, t)
      <4> HIDE DEF q
      <4> QED
        BY <2>1, <3>1 DEF GrantsOK
    <3>3. /\ \A seen \in {q.coverage.left, q.coverage.right} :
                seen # Full => IsFiniteSet(seen) /\ ToJsonSideCoverage(seen) # Full
          /\ written # Absent
          /\ MergeCoverage(DiffRow(t, q.l, q.r, TRUE, FALSE), written) # Absent
      BY <2>1, GrantsAssumption
    <3> QED
      BY <3>2, <3>3
  <2>3. tag = t
    <3>1. q.l = [tag |-> t, scalars |-> q.l.scalars, items |-> q.l.items]
      BY <2>2 DEF GrantsOK, Document
    <3>2. \A s, i : [tag |-> t, scalars |-> s, items |-> i].tag = t
      OBVIOUS
    <3> QED
      BY <3>1, <3>2
  <2>4. row.left.sha256 = CanonicalizeXml(q.l) /\ row.right.sha256 = CanonicalizeXml(q.r) /\ CanonicalizeXml(q.l) # Absent
    <3>1. row.left = Side(q.l, FALSE) /\ row.right = Side(q.r, FALSE)
      BY DEF DiffRow
    <3>2. Document(q.l, t) /\ Document(q.r, t)
      BY <2>2 DEF GrantsOK
    <3>3. \A doc : Document(doc, t) => Side(doc, FALSE).sha256 = CanonicalizeXml(doc) /\ CanonicalizeXml(doc) # Absent
      BY WholeIsRead
    <3> HIDE DEF row
    <3> QED
      BY <3>1, <3>2, <3>3, Zenon
  <2> HIDE DEF q, tag
  <2>5. \A k \in DOMAIN l \cup DOMAIN r : VerdictOf(grid, <<"item", k>>) \in {"new", "deleted"} => SeenToLack(k)
    <3>1. Fits(q, q.coverage)
      BY DEF Fits
    <3> QED
      BY <2>2, <2>3, <3>1, UnreadSurvives
  <2>6. Says(merged)
    <3>1. Fits(q, q.coverage)
      BY DEF Fits
    <3> QED
      BY <2>2, <2>3, <3>1, UnreadSurvives
  <2>7. ASSUME NEW m \in stored PROVE Says(m)
    <3>1. ~(q.base # NoBase /\ CanonicalizeXml(q.l) = CanonicalizeXml(q.r)) /\ m = MergeResolve(row, Git(q.base, FALSE), written).entries
      <4> HIDE DEF row, written
      <4> QED
        BY <2>4, <2>7
    <3>2. Fits(q, c) /\ c # Absent
      BY <2>2, <2>3, <3>1, CoverageFits
    <3>3. m = MergeProfileLike(tag, q.base, q.l, q.r, c)
      BY <2>2, <2>3, <3>1, <3>2, ProfilesResolved
    <3> HIDE DEF c
    <3> QED
      BY <2>2, <2>3, <3>2, <3>3, UnreadSurvives
  <2>8. MergeResolve(row, Git(q.base, FALSE), Absent).threw = (row.left.sha256 # row.right.sha256)
    <3> DEFINE none == MergeCoverage(row, Absent)
    <3>1. (none = Absent) <=> row.left.sha256 # row.right.sha256
      <4>1. CASE row.left.sha256 = row.right.sha256
        <5>1. none = [left |-> Full, right |-> Full, base |-> Full] /\ c = [left |-> Full, right |-> Full, base |-> Full]
          <6> HIDE DEF row, written
          <6> QED
            BY <2>4, <4>1 DEF MergeCoverage
        <5>2. c # Absent
          BY <2>2, <2>3
        <5> HIDE DEF none, c, row
        <5> QED
          BY <4>1, <5>1, <5>2
      <4>2. CASE row.left.sha256 # row.right.sha256
        <5> HIDE DEF row
        <5> QED
          BY <4>2 DEF MergeCoverage
      <4> QED
        BY <4>1, <4>2
    <3>2. IF none = Absent THEN MergeResolve(row, Git(q.base, FALSE), Absent).threw = TRUE
          ELSE MergeResolve(row, Git(q.base, FALSE), Absent).threw = FALSE
      BY <2>2, <2>3, ProfilesResolved
    <3> HIDE DEF none, row
    <3> QED
      BY <3>1, <3>2
  <2>9. \A m \in {merged} \cup stored : Says(m)
    BY <2>6, <2>7
  <2>10. \A x \in {IndexByIdentity(question.l)}, y \in {IndexByIdentity(question.r)},
            g \in {DiffProfileLike(question.l, question.r, question.coverage)} :
            LET Verdict(k) == (CHOOSE e \in g : e.at = k).status
                ReadOn(side, k) == \/ question.coverage[side] = Full \/ k \in question.coverage[side]
                                   \/ PermissionCollections[question.l.tag].alwaysComplete
                Lacking(k) == (At(x, k) = Absent /\ ReadOn("left", k)) \/ (At(y, k) = Absent /\ ReadOn("right", k))
            IN  /\ \A k \in DOMAIN x \cup DOMAIN y : Verdict(<<"item", k>>) \in {"new", "deleted"} => Lacking(k)
                /\ \A m \in {merged} \cup stored :
                      /\ \A k \in {n \in DOMAIN m : n[1] = "item"} :
                            (m[k].status # "conflict" /\ m[k].resolved = Absent) => Lacking(k[2])
                      /\ question.base = NoBase =>
                            \A k \in DOMAIN m : (m[k].status = "unchanged") = (Verdict(k) = "identical")
    <3> DEFINE ReadOn(side, k) == \/ question.coverage[side] = Full \/ k \in question.coverage[side]
                                  \/ PermissionCollections[question.l.tag].alwaysComplete
               Lacking(k) == (At(l, k) = Absent /\ ReadOn("left", k)) \/ (At(r, k) = Absent /\ ReadOn("right", k))
               Verdict(k) == (CHOOSE e \in grid : e.at = k).status
    <3>1. q.coverage["left"] = q.coverage.left /\ q.coverage["right"] = q.coverage.right
      OBVIOUS
    <3>2. \A k : Lacking(k) <=> SeenToLack(k)
      <4> HIDE DEF l, r
      <4> QED
        BY <3>1, Zenon DEF q, tag, ReadFor
    <3>3. \A k : Verdict(k) = VerdictOf(grid, k)
      <4> HIDE DEF grid
      <4> QED
        BY Zenon DEF VerdictOf
    <3>4. \A k \in DOMAIN l \cup DOMAIN r : Verdict(<<"item", k>>) \in {"new", "deleted"} => Lacking(k)
      <4> HIDE DEF Verdict, Lacking, SeenToLack, l, r, grid
      <4> QED
        BY <2>5, <3>2, <3>3, Zenon
    <3>5. \A m \in {merged} \cup stored :
             /\ \A k \in {n \in DOMAIN m : n[1] = "item"} :
                   (m[k].status # "conflict" /\ m[k].resolved = Absent) => Lacking(k[2])
             /\ question.base = NoBase =>
                   \A k \in DOMAIN m : (m[k].status = "unchanged") = (Verdict(k) = "identical")
      <4> SUFFICES ASSUME NEW m \in {merged} \cup stored
                   PROVE  /\ \A k \in {n \in DOMAIN m : n[1] = "item"} :
                                (m[k].status # "conflict" /\ m[k].resolved = Absent) => Lacking(k[2])
                          /\ question.base = NoBase =>
                                \A k \in DOMAIN m : (m[k].status = "unchanged") = (Verdict(k) = "identical")
        BY Zenon
      <4>1. Says(m)
        <5> HIDE DEF merged, stored, Says
        <5> QED
          BY <2>9
      <4> HIDE DEF merged, stored, Verdict, Lacking, SeenToLack, l, r, grid
      <4> QED
        BY <4>1, <3>2, <3>3, Zenon DEF q
    <3> HIDE DEF merged, stored
    <3> SUFFICES ASSUME NEW x \in {IndexByIdentity(question.l)}, NEW y \in {IndexByIdentity(question.r)},
                        NEW g \in {DiffProfileLike(question.l, question.r, question.coverage)}
                 PROVE  LET V(k) == (CHOOSE e \in g : e.at = k).status
                            On(side, k) == \/ question.coverage[side] = Full \/ k \in question.coverage[side]
                                           \/ PermissionCollections[question.l.tag].alwaysComplete
                            Lacks2(k) == (At(x, k) = Absent /\ On("left", k)) \/ (At(y, k) = Absent /\ On("right", k))
                        IN  /\ \A k \in DOMAIN x \cup DOMAIN y : V(<<"item", k>>) \in {"new", "deleted"} => Lacks2(k)
                            /\ \A m \in {merged} \cup stored :
                                  /\ \A k \in {n \in DOMAIN m : n[1] = "item"} :
                                        (m[k].status # "conflict" /\ m[k].resolved = Absent) => Lacks2(k[2])
                                  /\ question.base = NoBase =>
                                        \A k \in DOMAIN m : (m[k].status = "unchanged") = (V(k) = "identical")
      BY Zenon
    <3>6. x = l /\ y = r /\ g = grid
      BY Zenon DEF q
    <3> DEFINE V(k) == (CHOOSE e \in g : e.at = k).status
               Lack(k) == (At(x, k) = Absent /\ ReadOn("left", k)) \/ (At(y, k) = Absent /\ ReadOn("right", k))
    <3>7. \A k : V(k) = VerdictOf(g, k)
      BY Zenon DEF VerdictOf
    <3> HIDE DEF V
    <3>8. \A k : V(k) = Verdict(k)
      <4> HIDE DEF grid, Verdict
      <4> QED
        BY <3>3, <3>6, <3>7, Zenon
    <3> HIDE DEF l, r, grid, ReadOn
    <3>9. \A k : Lack(k) <=> Lacking(k)
      BY <3>6, Zenon
    <3> HIDE DEF Verdict, Lacking, Lack
    <3>10. \A k \in DOMAIN x \cup DOMAIN y : V(<<"item", k>>) \in {"new", "deleted"} => Lack(k)
      BY <3>4, <3>6, <3>8, <3>9, Zenon
    <3>11. \A m \in {merged} \cup stored :
             /\ \A k \in {n \in DOMAIN m : n[1] = "item"} :
                   (m[k].status # "conflict" /\ m[k].resolved = Absent) => Lack(k[2])
             /\ question.base = NoBase =>
                   \A k \in DOMAIN m : (m[k].status = "unchanged") = (V(k) = "identical")
      BY <3>5, <3>8, <3>9, Zenon
    <3> QED
      BY <3>10, <3>11, Zenon DEF V, Lack, ReadOn
  <2> QED
    BY <2>8, <2>10, Zenon DEF UnreadPermissionsSurvive, q, tag
<1> QED
  BY <1>1, QuestionsArePosed, PTL

-----------------------------------------------------------------------------
\* The merge of any component.

LEMMA ThreeOfThree == \A b, l, r : Cardinality({b, l, r}) = 3 <=> b # l /\ b # r /\ l # r
<1> SUFFICES ASSUME NEW b, NEW l, NEW r PROVE Cardinality({b, l, r}) = 3 <=> b # l /\ b # r /\ l # r
  OBVIOUS
<1>1. IsFiniteSet({b}) /\ Cardinality({b}) = 1
  BY FS_Singleton
<1>2. IsFiniteSet({b} \cup {l}) /\ Cardinality({b} \cup {l}) = IF l \in {b} THEN 1 ELSE 2
  <2>1. Cardinality({b} \cup {l}) = IF l \in {b} THEN Cardinality({b}) ELSE Cardinality({b}) + 1
    BY <1>1, FS_AddElement
  <2> QED
    BY <1>1, <2>1, FS_AddElement
<1>3. Cardinality(({b} \cup {l}) \cup {r}) = IF r \in {b} \cup {l} THEN Cardinality({b} \cup {l}) ELSE Cardinality({b} \cup {l}) + 1
  BY <1>2, FS_AddElement
<1>4. ({b} \cup {l}) \cup {r} = {b, l, r}
  OBVIOUS
<1> DEFINE two == Cardinality({b} \cup {l})
           three == Cardinality(({b} \cup {l}) \cup {r})
<1>5. /\ two = IF l = b THEN 1 ELSE 2
      /\ three = IF r = b \/ r = l THEN two ELSE two + 1
  BY <1>2, <1>3
<1>6. Cardinality({b, l, r}) = three
  BY <1>4
<1> HIDE DEF two, three
<1> QED
  BY <1>5, <1>6

Statuses == {"unchanged", "take-left", "take-right", "conflict"}

\* What becomes of one entry.
LEMMA EntryInTwoWays ==
    \A l, r : /\ ResolveTwoWay(l, r).status \in Statuses
              /\ ResolveTwoWay(l, r).status = "conflict" <=> l # Absent /\ r # Absent /\ l # r
<1> SUFFICES ASSUME NEW l, NEW r
             PROVE  /\ ResolveTwoWay(l, r).status \in Statuses
                    /\ ResolveTwoWay(l, r).status = "conflict" <=> l # Absent /\ r # Absent /\ l # r
  OBVIOUS
<1>1. \A s, v : Resolution(s, v).status = s
  BY DEF Resolution
<1>2. CASE l = r
  <2>1. ResolveTwoWay(l, r) = Resolution("unchanged", l)
    BY <1>2 DEF ResolveTwoWay
  <2> QED
    BY <1>1, <1>2, <2>1 DEF Statuses
<1>3. CASE l # Absent /\ r = Absent
  <2>1. ResolveTwoWay(l, r) = Resolution("take-left", l)
    BY <1>3 DEF ResolveTwoWay
  <2> QED
    BY <1>1, <1>3, <2>1 DEF Statuses
<1>4. CASE l = Absent /\ r # Absent
  <2>1. ResolveTwoWay(l, r) = Resolution("take-right", r)
    BY <1>4 DEF ResolveTwoWay
  <2> QED
    BY <1>1, <1>4, <2>1 DEF Statuses
<1>5. CASE l # Absent /\ r # Absent /\ l # r
  <2>1. ResolveTwoWay(l, r) = Resolution("conflict", Absent)
    BY <1>5 DEF ResolveTwoWay
  <2> QED
    BY <1>1, <1>5, <2>1 DEF Statuses
<1> QED
  BY <1>2, <1>3, <1>4, <1>5

LEMMA EntryInThreeWays ==
    \A b, l, r :
        LET e == ResolveThreeWay(b, l, r)
        IN  /\ e.status \in Statuses /\ (e.status = "conflict" <=> b # l /\ b # r /\ l # r)
            /\ \A v \in {l, r} : v # b => e.status = "conflict" \/ e.resolved = v
<1> SUFFICES ASSUME NEW b, NEW l, NEW r
             PROVE  LET e == ResolveThreeWay(b, l, r)
                    IN  /\ e.status \in Statuses /\ (e.status = "conflict" <=> b # l /\ b # r /\ l # r)
                        /\ \A v \in {l, r} : v # b => e.status = "conflict" \/ e.resolved = v
  OBVIOUS
<1> DEFINE e == ResolveThreeWay(b, l, r)
<1>1. \A s, v : Resolution(s, v).status = s /\ Resolution(s, v).resolved = v
  BY DEF Resolution
<1>2. CASE b = l /\ b = r
  <2>1. e = Resolution("unchanged", b)
    BY <1>2 DEF ResolveThreeWay, ThreeWay
  <2> QED
    BY <1>1, <1>2, <2>1 DEF Statuses
<1>3. CASE b # l /\ b = r
  <2>1. e = Resolution("take-left", l)
    BY <1>3 DEF ResolveThreeWay, ThreeWay
  <2> QED
    BY <1>1, <1>3, <2>1 DEF Statuses
<1>4. CASE b = l /\ b # r
  <2>1. e = Resolution("take-right", r)
    BY <1>4 DEF ResolveThreeWay, ThreeWay
  <2> QED
    BY <1>1, <1>4, <2>1 DEF Statuses
<1>5. CASE b # l /\ b # r
  <2>1. e = IF l = r THEN Resolution("unchanged", l) ELSE Resolution("conflict", Absent)
    BY <1>5 DEF ResolveThreeWay, ThreeWay
  <2>2. CASE l = r
    BY <1>1, <1>5, <2>1, <2>2 DEF Statuses
  <2>3. CASE l # r
    BY <1>1, <1>5, <2>1, <2>3 DEF Statuses
  <2> QED
    BY <2>2, <2>3
<1> QED
  BY <1>2, <1>3, <1>4, <1>5

LEMMA FiniteImage ==
    ASSUME NEW S, IsFiniteSet(S), NEW f
    PROVE  IsFiniteSet({f[x] : x \in S})
<1> DEFINE T == {f[x] : x \in S}
<1>1. [x \in S |-> f[x]] \in Surjection(S, T)
  BY DEF Surjection
<1> HIDE DEF T
<1>2. IsFiniteSet(T)
  BY <1>1, FS_Surjection
<1> QED
  BY <1>2 DEF T

\* A document has finitely many entries.
LEMMA EntriesAreFinite ==
    ASSUME NEW doc, doc = Absent \/ Document(doc, doc.tag)
    PROVE  IsFiniteSet(DOMAIN DecomposeGeneric(doc))
<1>1. CASE doc = Absent
  <2>1. DOMAIN DecomposeGeneric(doc) = {}
    BY <1>1 DEF DecomposeGeneric
  <2> QED
    BY <2>1, FS_EmptySet
<1>2. CASE doc # Absent
  <2> DEFINE clean == StripVolatileAndSort(doc)
             scalars == {g \in DOMAIN clean.scalars : clean.scalars[g] # Absent}
             S == {<<"scalar", f>> : f \in scalars}
             I == {<<"item", n>> : n \in SortKeys(doc)}
  <2>1. /\ IsFiniteSet(DOMAIN doc.scalars) /\ doc.items \in Seq(ToSet(doc.items))
    BY <1>2 DEF Document
  <2>2. DOMAIN DecomposeGeneric(doc) = S \cup I
    <3>1. DOMAIN ByKey(doc) = SortKeys(doc)
      BY DEF ByKey
    <3> QED
      BY <1>2, <3>1 DEF DecomposeGeneric
  <2>3. IsFiniteSet(S)
    <3>1. DOMAIN clean.scalars = (DOMAIN doc.scalars) \ VolatileFields
      BY DEF StripVolatileAndSort
    <3>2. scalars \in SUBSET (DOMAIN doc.scalars)
      BY <3>1
    <3> HIDE DEF scalars
    <3>3. IsFiniteSet(scalars)
      BY <2>1, <3>2, FS_Subset
    <3> DEFINE named == [f \in scalars |-> <<"scalar", f>>]
    <3>4. IsFiniteSet({named[f] : f \in scalars})
      <4> HIDE DEF named
      <4> QED
        BY <3>3, FiniteImage
    <3>5. S = {named[f] : f \in scalars}
      BY DEF scalars
    <3> QED
      BY <3>4, <3>5
  <2>4. IsFiniteSet(I)
    <3>1. IsFiniteSet(DOMAIN doc.items)
      <4>1. DOMAIN doc.items = 1 .. Len(doc.items) /\ Len(doc.items) \in Nat
        BY <2>1
      <4>2. IsFiniteSet(1 .. Len(doc.items))
        <5>1. 1 \in Int /\ Len(doc.items) \in Int
          BY <4>1
        <5> QED
          BY <5>1, FS_Interval
      <4> QED
        BY <4>1, <4>2
    <3>2. IsFiniteSet(SortKeys(doc))
      <4> DEFINE keyOf == [i \in DOMAIN doc.items |-> SortKey(doc.tag, doc.items[i])]
      <4>1. IsFiniteSet({keyOf[i] : i \in DOMAIN doc.items})
        <5> HIDE DEF keyOf
        <5> QED
          BY <3>1, FiniteImage
      <4>2. SortKeys(doc) = {keyOf[i] : i \in DOMAIN doc.items}
        BY DEF SortKeys
      <4> QED
        BY <4>1, <4>2
    <3> DEFINE named == [n \in SortKeys(doc) |-> <<"item", n>>]
    <3>3. IsFiniteSet({named[n] : n \in SortKeys(doc)})
      <4> HIDE DEF named
      <4> QED
        BY <3>2, FiniteImage
    <3>4. I = {named[n] : n \in SortKeys(doc)}
      OBVIOUS
    <3> QED
      BY <3>3, <3>4
  <2> HIDE DEF S, I
  <2> QED
    BY <2>2, <2>3, <2>4, FS_Union
<1> QED
  BY <1>1, <1>2

EntriesOf(doc) == IF doc = NoBase THEN <<>> ELSE DecomposeGeneric(doc)
MergesOK(q) ==
    /\ q.l # NoBase /\ q.r # NoBase /\ Absent # NoBase
    /\ \A doc \in {q.base, q.l, q.r} : doc = NoBase \/ doc = Absent \/ Document(doc, doc.tag)

\* What the library makes of any two documents and their ancestor.
KeepsEdit(m, b, side, k) == At(side, k) # At(b, k) => (m[k].status = "conflict" \/ m[k].resolved = At(side, k))
AskedFor(q, b, l, r, k) ==
    IF q.base = NoBase THEN Absent \notin {At(l, k), At(r, k)} /\ l[k] # r[k]
    ELSE Cardinality({At(b, k), At(l, k), At(r, k)}) = 3

LEMMA DocumentsMerged ==
    ASSUME NEW q, MergesOK(q)
    PROVE  LET m == MergeGeneric(q.base, q.l, q.r)
               b == EntriesOf(q.base)
               l == EntriesOf(q.l)
               r == EntriesOf(q.r)
           IN  /\ DOMAIN l \cup DOMAIN r \subseteq DOMAIN m /\ IsFiniteSet(DOMAIN m)
               /\ \A k \in DOMAIN m :
                     /\ m[k].status \in Statuses
                     /\ m[k].status = "conflict" <=> AskedFor(q, b, l, r, k)
                     /\ q.base # NoBase => KeepsEdit(m, b, l, k) /\ KeepsEdit(m, b, r, k)
<1> DEFINE m == MergeGeneric(q.base, q.l, q.r)
           b == EntriesOf(q.base)
           l == EntriesOf(q.l)
           r == EntriesOf(q.r)
           keys == DOMAIN b \cup DOMAIN l \cup DOMAIN r
<1>1. m = [k \in keys |-> IF q.base = NoBase THEN ResolveTwoWay(At(l, k), At(r, k))
                          ELSE ResolveThreeWay(At(b, k), At(l, k), At(r, k))]
  BY DEF MergesOK, MergeGeneric, EntriesOf
<1>2. IsFiniteSet(keys)
  <2>1. ASSUME NEW doc \in {q.base, q.l, q.r} PROVE IsFiniteSet(DOMAIN EntriesOf(doc))
    <3>1. CASE doc = NoBase
      <4>1. DOMAIN EntriesOf(doc) = {}
        BY <3>1 DEF EntriesOf
      <4> QED
        BY <4>1, FS_EmptySet
    <3>2. CASE doc # NoBase
      <4>1. EntriesOf(doc) = DecomposeGeneric(doc) /\ (doc = Absent \/ Document(doc, doc.tag))
        BY <3>2 DEF EntriesOf, MergesOK
      <4> QED
        BY <4>1, EntriesAreFinite
    <3> QED
      BY <3>1, <3>2
  <2>2. IsFiniteSet(DOMAIN b) /\ IsFiniteSet(DOMAIN l) /\ IsFiniteSet(DOMAIN r)
    BY <2>1
  <2> HIDE DEF b, l, r
  <2>3. IsFiniteSet(DOMAIN b \cup DOMAIN l)
    BY <2>2, FS_Union
  <2> QED
    BY <2>2, <2>3, FS_Union
<1>3. \A side, k : At(side, k) # Absent => k \in DOMAIN side /\ side[k] = At(side, k)
  BY DEF At
<1> HIDE DEF m, b, l, r
<1>4. DOMAIN m = keys
  BY <1>1
<1>5. ASSUME NEW k \in keys
      PROVE  /\ m[k].status \in Statuses
             /\ m[k].status = "conflict" <=> AskedFor(q, b, l, r, k)
             /\ q.base # NoBase => KeepsEdit(m, b, l, k) /\ KeepsEdit(m, b, r, k)
  <2> DEFINE e == m[k]
             bk == At(b, k)
             lk == At(l, k)
             rk == At(r, k)
  <2>1. e = IF q.base = NoBase THEN ResolveTwoWay(lk, rk) ELSE ResolveThreeWay(bk, lk, rk)
    BY <1>1
  <2>2. CASE q.base = NoBase
    <3>1. AskedFor(q, b, l, r, k) <=> lk # Absent /\ rk # Absent /\ lk # rk
      BY <1>3, <2>2 DEF AskedFor
    <3> HIDE DEF e, lk, rk
    <3>2. e = ResolveTwoWay(lk, rk)
      BY <2>1, <2>2
    <3>3. e.status \in Statuses /\ (e.status = "conflict" <=> lk # Absent /\ rk # Absent /\ lk # rk)
      BY <3>2, EntryInTwoWays
    <3> QED
      BY <2>2, <3>1, <3>3 DEF e
  <2>3. CASE q.base # NoBase
    <3>1. AskedFor(q, b, l, r, k) <=> bk # lk /\ bk # rk /\ lk # rk
      BY <2>3, ThreeOfThree DEF AskedFor
    <3> HIDE DEF e, bk, lk, rk
    <3>2. e = ResolveThreeWay(bk, lk, rk)
      BY <2>1, <2>3
    <3>3. /\ e.status \in Statuses /\ (e.status = "conflict" <=> bk # lk /\ bk # rk /\ lk # rk)
          /\ \A v \in {lk, rk} : v # bk => e.status = "conflict" \/ e.resolved = v
      BY <3>2, EntryInThreeWays
    <3>4. KeepsEdit(m, b, l, k) /\ KeepsEdit(m, b, r, k)
      BY <3>3 DEF KeepsEdit, e, bk, lk, rk
    <3> QED
      BY <3>1, <3>3, <3>4 DEF e
  <2> QED
    BY <2>2, <2>3
<1> HIDE DEF keys
<1>6. DOMAIN l \cup DOMAIN r \subseteq DOMAIN m
  BY <1>4 DEF keys
<1>7. IsFiniteSet(DOMAIN m)
  BY <1>2, <1>4
<1>8. \A k \in DOMAIN m : /\ m[k].status \in Statuses
                          /\ m[k].status = "conflict" <=> AskedFor(q, b, l, r, k)
                          /\ q.base # NoBase => KeepsEdit(m, b, l, k) /\ KeepsEdit(m, b, r, k)
  BY <1>4, <1>5
<1> QED
  BY <1>6, <1>7, <1>8 DEF m, b, l, r

\* A document that was cut into files is read as it was.
LEMMA PiecesAreRead ==
    ASSUME NEW doc, doc = Absent \/ Document(doc, doc.tag)
    PROVE  MaterializeOneComponent(Tree(doc, TRUE), TRUE) = doc
<1>1. CASE doc = Absent
  <2>1. Tree(doc, TRUE).shell = Absent
    BY <1>1 DEF Tree
  <2> HIDE DEF Tree
  <2> QED
    BY <1>1, <2>1 DEF MaterializeOneComponent
<1>2. CASE doc # Absent
  <2> DEFINE n == Len(doc.items)
             piece == [i \in DOMAIN doc.items |-> [parent |-> "O", item |-> doc.items[i]]]
             other == <<[parent |-> "P", item |-> doc]>>
             children == other \o piece
             S == {[parent |-> "P", item |-> doc]} \cup {[parent |-> "O", item |-> x] : x \in ToSet(doc.items)}
             shell == [doc EXCEPT !.items = <<>>]
             tree == Tree(doc, TRUE)
             mine == {c \in ToSet(children) : c.parent = "O"}
             own == Only(children, mine)
  <2>1. /\ doc = [tag |-> doc.tag, scalars |-> doc.scalars, items |-> doc.items] /\ doc.items \in Seq(ToSet(doc.items))
        /\ n \in Nat /\ DOMAIN doc.items = 1 .. n /\ tree.shell # Absent
    <3>1. /\ doc = [tag |-> doc.tag, scalars |-> doc.scalars, items |-> doc.items] /\ doc.items \in Seq(ToSet(doc.items))
          /\ tree.shell # Absent
      <4> HIDE DEF tree
      <4> QED
        BY <1>2, Zenon DEF Document, tree
    <3>2. \A T : \A list \in Seq(T) : Len(list) \in Nat /\ DOMAIN list = 1 .. Len(list)
      OBVIOUS
    <3> HIDE DEF tree
    <3> QED
      BY <3>1, <3>2
  <2>2. tree.name = "O" /\ tree.shell = shell /\ tree.children = children
    BY <1>2 DEF Tree
  <2>3. piece \in Seq(S) /\ Len(piece) = n /\ other \in Seq(S) /\ Len(other) = 1
    <3>1. \A i \in 1 .. n : doc.items[i] \in ToSet(doc.items)
      BY <2>1 DEF ToSet
    <3>2. piece \in [1 .. n -> S]
      BY <2>1, <3>1
    <3>3. \A f \in [1 .. n -> S] : f \in Seq(S) /\ Len(f) = n
      BY <2>1
    <3>4. \A x \in S : <<x>> \in Seq(S) /\ Len(<<x>>) = 1
      OBVIOUS
    <3>5. [parent |-> "P", item |-> doc] \in S
      OBVIOUS
    <3> HIDE DEF S, n, piece
    <3>6. piece \in Seq(S) /\ Len(piece) = n
      BY <3>2, <3>3
    <3> QED
      BY <3>4, <3>5, <3>6
  <2>4. /\ children \in Seq(S) /\ Len(children) = n + 1 /\ children[1] = [parent |-> "P", item |-> doc]
        /\ \A i \in 1 .. n : children[i + 1] = [parent |-> "O", item |-> doc.items[i]]
    <3>1. \A s, t \in Seq(S) : Len(s) = 1 /\ Len(t) = n =>
             /\ s \o t \in Seq(S) /\ Len(s \o t) = n + 1 /\ (s \o t)[1] = s[1]
             /\ \A i \in 1 .. n : (s \o t)[i + 1] = t[i]
      <4> HIDE DEF S, n
      <4> SUFFICES ASSUME NEW s \in Seq(S), NEW t \in Seq(S), Len(s) = 1, Len(t) = n
                   PROVE  /\ s \o t \in Seq(S) /\ Len(s \o t) = n + 1 /\ (s \o t)[1] = s[1]
                          /\ \A i \in 1 .. n : (s \o t)[i + 1] = t[i]
        OBVIOUS
      <4>0. /\ s \o t \in Seq(S) /\ Len(s \o t) = Len(s) + Len(t)
            /\ \A i \in 1 .. Len(s) + Len(t) : (s \o t)[i] = IF i <= Len(s) THEN s[i] ELSE t[i - Len(s)]
        BY ConcatProperties
      <4>1. s \o t \in Seq(S) /\ Len(s \o t) = n + 1
        BY <2>1, <4>0
      <4>2. (s \o t)[1] = s[1]
        BY <2>1, <4>0
      <4>3. ASSUME NEW i \in 1 .. n PROVE (s \o t)[i + 1] = t[i]
        <5>1. i + 1 \in 1 .. Len(s) + Len(t) /\ ~(i + 1 <= Len(s)) /\ i + 1 - Len(s) = i
          BY <2>1
        <5> QED
          BY <4>0, <5>1
      <4> QED
        BY <4>1, <4>2, <4>3
    <3>2. other[1] = [parent |-> "P", item |-> doc] /\ \A i \in 1 .. n : piece[i] = [parent |-> "O", item |-> doc.items[i]]
      BY <2>1
    <3> HIDE DEF other, piece, S, n
    <3> QED
      BY <2>3, <3>1, <3>2
  <2> HIDE DEF children, S
  <2>5. children[1] \notin mine /\ \A i \in 2 .. Len(children) : children[i] \in mine
    <3>1. DOMAIN children = 1 .. n + 1
      BY <2>1, <2>4
    <3>2. \A x : [parent |-> "P", item |-> x].parent = "P" /\ [parent |-> "O", item |-> x].parent = "O"
      OBVIOUS
    <3>3. children[1].parent = "P"
      BY <2>4, <3>2
    <3>4. ASSUME NEW i \in 2 .. n + 1 PROVE children[i].parent = "O" /\ children[i] \in ToSet(children)
      <4>1. i - 1 \in 1 .. n /\ i - 1 + 1 = i /\ i \in 1 .. n + 1
        BY <2>1
      <4>2. children[i] = [parent |-> "O", item |-> doc.items[i - 1]]
        BY <2>4, <4>1
      <4> QED
        BY <3>1, <3>2, <4>1, <4>2 DEF ToSet
    <3> QED
      BY <2>4, <3>3, <3>4
  <2> HIDE DEF mine
  <2>6. /\ own \in Seq(S) /\ Len(own) = n /\ \A i \in 1 .. n : own[i] = [parent |-> "O", item |-> doc.items[i]]
    <3>1. /\ own \in Seq(S) /\ Len(own) = Len(children) - 1
          /\ \A i \in 1 .. Len(children) - 1 : own[i] = children[i + 1]
      BY <2>1, <2>4, <2>5, OnlyRest
    <3>2. Len(children) - 1 = n
      BY <2>1, <2>4
    <3> HIDE DEF own, n
    <3> QED
      BY <2>4, <3>1, <3>2
  <2> HIDE DEF own
  <2>7. MaterializeOneComponent(tree, TRUE) =
           IF own = <<>> THEN shell ELSE [shell EXCEPT !.items = [i \in DOMAIN own |-> own[i].item]]
    <3> HIDE DEF tree, shell
    <3> QED
      BY <2>1, <2>2 DEF MaterializeOneComponent, ComposeDecomposedComponent, mine, own
  <2>8. [i \in DOMAIN own |-> own[i].item] = doc.items
    <3>1. DOMAIN own = 1 .. n /\ \A i \in 1 .. n : own[i].item = doc.items[i]
      <4>1. \A x : [parent |-> "O", item |-> x].item = x
        OBVIOUS
      <4>2. \A i \in 1 .. n : own[i].item = doc.items[i]
        BY <2>6, <4>1
      <4>3. DOMAIN own = 1 .. n
        <5> HIDE DEF n
        <5> QED
          BY <2>6
      <4> QED
        BY <4>2, <4>3
    <3>2. doc.items = [i \in 1 .. n |-> doc.items[i]]
      BY <2>1
    <3> HIDE DEF n
    <3> QED
      BY <3>1, <3>2
  <2>9. own = <<>> => doc.items = <<>>
    <3>1. own = <<>> => n = 0
      BY <2>1, <2>6
    <3> QED
      BY <2>1, <3>1
  <2>10. doc = [shell EXCEPT !.items = doc.items]
    BY <2>1
  <2> HIDE DEF shell, tree, n
  <2>11. CASE own = <<>>
    <3>1. doc = shell
      BY <2>1, <2>9, <2>11 DEF shell
    <3> QED
      BY <2>7, <2>11, <3>1 DEF tree
  <2>12. CASE own # <<>>
    BY <2>7, <2>8, <2>10, <2>12 DEF tree
  <2> QED
    BY <2>11, <2>12
<1> QED
  BY <1>1, <1>2

\* What merge.resolve reads of a side or of the ancestor, kept whole or in files.
LEMMA SidesAreRead ==
    ASSUME NEW doc, doc = Absent \/ Document(doc, doc.tag), NEW decomposed \in BOOLEAN
    PROVE  /\ ResolveSideContent(Side(doc, decomposed), decomposed) = [threw |-> FALSE, content |-> doc]
           /\ MaterializeOneComponent(Tree(doc, decomposed), decomposed) = doc
<1>1. MaterializeOneComponent(Tree(doc, decomposed), decomposed) = doc
  <2>1. CASE decomposed
    <3>1. decomposed = TRUE
      BY <2>1
    <3> QED
      BY <3>1, PiecesAreRead
  <2>2. CASE ~decomposed
    <3>1. decomposed = FALSE
      BY <2>2
    <3>2. Tree(doc, FALSE).shell = doc
      BY DEF Tree
    <3> HIDE DEF Tree
    <3>3. MaterializeOneComponent(Tree(doc, FALSE), FALSE) = doc
      BY <3>2 DEF MaterializeOneComponent
    <3> QED
      BY <3>1, <3>3
  <2> QED
    BY <2>1, <2>2
<1>2. /\ Side(doc, decomposed).sha256 = IF doc = Absent THEN Absent ELSE CanonicalizeXml(doc)
      /\ Side(doc, decomposed).blob = doc /\ Side(doc, decomposed).tree = Tree(doc, decomposed)
  <2>1. \A h, w, t : /\ [sha256 |-> h, blob |-> w, tree |-> t].sha256 = h
                     /\ [sha256 |-> h, blob |-> w, tree |-> t].blob = w
                     /\ [sha256 |-> h, blob |-> w, tree |-> t].tree = t
    OBVIOUS
  <2> DEFINE hash == IF doc = Absent THEN Absent ELSE CanonicalizeXml(doc)
             tree == Tree(doc, decomposed)
  <2>2. Side(doc, decomposed) = [sha256 |-> hash, blob |-> doc, tree |-> tree]
    BY DEF Side
  <2> HIDE DEF hash, tree
  <2>3. Side(doc, decomposed).sha256 = hash /\ Side(doc, decomposed).blob = doc /\ Side(doc, decomposed).tree = tree
    <3> DEFINE record == [sha256 |-> hash, blob |-> doc, tree |-> tree]
    <3>1. record.sha256 = hash /\ record.blob = doc /\ record.tree = tree
      BY <2>1
    <3> HIDE DEF record
    <3>2. Side(doc, decomposed) = record
      BY <2>2 DEF record
    <3> QED
      BY <3>1, <3>2, Zenon
  <2> QED
    BY <2>3 DEF hash, tree
<1> DEFINE side == Side(doc, decomposed)
<1>3. CASE doc = Absent
  <2>1. side.sha256 = Absent
    BY <1>2, <1>3
  <2> HIDE DEF side
  <2>2. ResolveSideContent(side, decomposed) = Read(Absent)
    BY <2>1 DEF ResolveSideContent
  <2> QED
    BY <1>1, <1>3, <2>2 DEF Read, side
<1>4. CASE doc # Absent
  <2>1. Document(doc, doc.tag)
    BY <1>4
  <2>2. CanonicalizeXml(doc) # Absent /\ Tree(doc, TRUE) # Absent
    BY <2>1 DEF Document
  <2>3. side.sha256 # Absent /\ side.blob = doc /\ side.tree = Tree(doc, decomposed)
    BY <1>2, <1>4, <2>2
  <2> HIDE DEF side
  <2>4. CASE ~decomposed
    <3>1. ResolveSideContent(side, decomposed) = Read(side.blob)
      BY <2>3, <2>4 DEF ResolveSideContent
    <3> QED
      BY <1>1, <2>3, <3>1 DEF Read, side
  <2>5. CASE decomposed
    <3>1. decomposed = TRUE /\ side.tree # Absent
      BY <2>2, <2>3, <2>5
    <3>2. ResolveSideContent(side, decomposed) = Read(MaterializeOneComponent(side.tree, TRUE))
      BY <2>3, <3>1 DEF ResolveSideContent
    <3> QED
      BY <1>1, <2>3, <3>1, <3>2 DEF Read, side
  <2> QED
    BY <2>4, <2>5
<1> QED
  BY <1>3, <1>4

\* Merging two documents is never refused, and is what the library makes of them.
LEMMA DocumentsResolved ==
    ASSUME NEW q, MergesOK(q), NEW decomposed \in BOOLEAN,
           NoBase \notin {Git(Absent, TRUE), Git(Absent, FALSE)}
    PROVE  MergeResolve(DiffRow("", q.l, q.r, FALSE, decomposed), Git(q.base, decomposed), Absent).entries =
              MergeGeneric(q.base, q.l, q.r)
<1> DEFINE row == DiffRow("", q.l, q.r, FALSE, decomposed)
           c == MergeCoverage(row, Absent)
           git == Git(q.base, decomposed)
           left == ResolveSideContent(row.left, row.decomposed)
           right == ResolveSideContent(row.right, row.decomposed)
           base == IF git = NoBase THEN NoBase ELSE MaterializeOneComponent(git.tree, row.decomposed)
           resolved == MergeResolve(row, git, Absent)
<1>1. /\ row.left = Side(q.l, decomposed) /\ row.right = Side(q.r, decomposed) /\ row.profileLike = FALSE
      /\ row.decomposed = decomposed /\ row.binary = FALSE
  BY DEF DiffRow
<1> HIDE DEF row
<1>2. left.threw = FALSE /\ left.content = q.l /\ right.threw = FALSE /\ right.content = q.r
  <2>1. left = ResolveSideContent(Side(q.l, decomposed), decomposed) /\ right = ResolveSideContent(Side(q.r, decomposed), decomposed)
    BY <1>1, Zenon
  <2>2. \A doc \in {q.l, q.r} : doc = Absent \/ Document(doc, doc.tag)
    BY DEF MergesOK
  <2>3. left = [threw |-> FALSE, content |-> q.l] /\ right = [threw |-> FALSE, content |-> q.r]
    BY <2>1, <2>2, SidesAreRead
  <2>4. \A v : [threw |-> FALSE, content |-> v].threw = FALSE /\ [threw |-> FALSE, content |-> v].content = v
    OBVIOUS
  <2> HIDE DEF left, right
  <2> QED
    BY <2>3, <2>4, Zenon
<1>3. base = q.base /\ (git # NoBase => git.kind = "git-ref")
  <2>1. CASE q.base = NoBase
    BY <2>1 DEF Git
  <2>2. CASE q.base # NoBase
    <3>1. q.base = Absent \/ Document(q.base, q.base.tag)
      BY <2>2 DEF MergesOK
    <3>2. git # NoBase
      <4>1. CASE q.base = Absent
        BY <4>1
      <4>2. CASE Document(q.base, q.base.tag)
        BY <4>2 DEF Document
      <4> QED
        BY <3>1, <4>1, <4>2
    <3>3. git = [kind |-> "git-ref", tree |-> Tree(q.base, decomposed)]
      BY <2>2 DEF Git
    <3>4. \A t : [kind |-> "git-ref", tree |-> t].kind = "git-ref" /\ [kind |-> "git-ref", tree |-> t].tree = t
      OBVIOUS
    <3>5. git.kind = "git-ref" /\ git.tree = Tree(q.base, decomposed)
      <4> HIDE DEF git
      <4> QED
        BY <3>3, <3>4, Zenon
    <3>6. MaterializeOneComponent(Tree(q.base, decomposed), decomposed) = q.base
      BY <3>1, SidesAreRead
    <3> HIDE DEF git
    <3> QED
      BY <1>1, <3>2, <3>5, <3>6
  <2> QED
    BY <2>1, <2>2
<1>4. resolved = [threw |-> FALSE,
                  entries |-> MergeComponent(row.profileLike, row.tag, base, left.content, right.content, c)]
  <2>1. resolved = IF \/ row.binary \/ left.threw \/ right.threw
                      \/ (git # NoBase /\ git.kind # "git-ref") \/ (row.profileLike /\ c = Absent)
                   THEN [threw |-> TRUE, entries |-> <<>>]
                   ELSE [threw |-> FALSE,
                         entries |-> MergeComponent(row.profileLike, row.tag, base, left.content, right.content, c)]
    BY DEF MergeResolve
  <2> HIDE DEF left, right, base, git, c, resolved
  <2> QED
    BY <1>1, <1>2, <1>3, <2>1
<1>5. MergeComponent(row.profileLike, row.tag, base, left.content, right.content, c) = MergeGeneric(q.base, q.l, q.r)
  <2> HIDE DEF left, right, base, c
  <2> QED
    BY <1>1, <1>2, <1>3 DEF MergeComponent
<1> HIDE DEF left, right, base, git, c, resolved
<1>6. resolved.entries = MergeGeneric(q.base, q.l, q.r)
  BY <1>4, <1>5
<1> QED
  BY <1>6 DEF resolved, git, row

\* What the panel counts and lists as open, of picks made for conflicts.
Entries(m) == IsFiniteSet(DOMAIN m) /\ \A k \in DOMAIN m : m[k].status \in Statuses
OfStatus(m, s) == {k \in DOMAIN m : m[k].status = s}
OpenOf(m, picks) == OfStatus(m, "conflict") \ DOMAIN picks

LEMMA EntriesByStatus ==
    ASSUME NEW m, Entries(m)
    PROVE  /\ \A s : IsFiniteSet(OfStatus(m, s)) /\ Cardinality(OfStatus(m, s)) \in Nat
           /\ Cardinality(OfStatus(m, "unchanged")) + (Cardinality(OfStatus(m, "take-left")) + Cardinality(OfStatus(m, "take-right")))
                 + Cardinality(OfStatus(m, "conflict")) = Cardinality(DOMAIN m)
<1>1. \A s : IsFiniteSet(OfStatus(m, s)) /\ Cardinality(OfStatus(m, s)) \in Nat
  <2> SUFFICES ASSUME NEW s PROVE IsFiniteSet(OfStatus(m, s)) /\ Cardinality(OfStatus(m, s)) \in Nat
    OBVIOUS
  <2>1. OfStatus(m, s) \in SUBSET (DOMAIN m) /\ IsFiniteSet(DOMAIN m)
    BY DEF OfStatus, Entries
  <2>2. IsFiniteSet(OfStatus(m, s))
    BY <2>1, FS_Subset
  <2> QED
    BY <2>2, FS_CardinalityType
<1>2. ASSUME NEW S, NEW T, IsFiniteSet(S), IsFiniteSet(T), S \cap T = {}
      PROVE  IsFiniteSet(S \cup T) /\ Cardinality(S \cup T) = Cardinality(S) + Cardinality(T)
  <2>1. Cardinality(S \cup T) = Cardinality(S) + Cardinality(T) - Cardinality(S \cap T) /\ IsFiniteSet(S \cup T)
    BY <1>2, FS_Union
  <2>2. Cardinality(S \cap T) = 0 /\ Cardinality(S) \in Nat /\ Cardinality(T) \in Nat
    BY <1>2, FS_EmptySet, FS_CardinalityType
  <2> QED
    BY <2>1, <2>2
<1> DEFINE u == OfStatus(m, "unchanged")
           a == OfStatus(m, "take-left")
           z == OfStatus(m, "take-right")
           c == OfStatus(m, "conflict")
<1>3. u \cap a = {} /\ (u \cup a) \cap z = {} /\ ((u \cup a) \cup z) \cap c = {}
  BY DEF OfStatus
<1>4. ((u \cup a) \cup z) \cup c = DOMAIN m
  <2>1. \A k : k \in ((u \cup a) \cup z) \cup c <=> k \in DOMAIN m
    BY DEF OfStatus, Entries, Statuses
  <2> QED
    BY <2>1
<1>5. /\ IsFiniteSet(u) /\ IsFiniteSet(a) /\ IsFiniteSet(z) /\ IsFiniteSet(c)
      /\ Cardinality(u) \in Nat /\ Cardinality(a) \in Nat /\ Cardinality(z) \in Nat /\ Cardinality(c) \in Nat
  BY <1>1
<1> HIDE DEF u, a, z, c
<1>6. IsFiniteSet(u \cup a) /\ Cardinality(u \cup a) = Cardinality(u) + Cardinality(a)
  BY <1>2, <1>3, <1>5
<1>7. IsFiniteSet((u \cup a) \cup z) /\ Cardinality((u \cup a) \cup z) = Cardinality(u \cup a) + Cardinality(z)
  BY <1>2, <1>3, <1>5, <1>6
<1>8. Cardinality(((u \cup a) \cup z) \cup c) = Cardinality((u \cup a) \cup z) + Cardinality(c)
  BY <1>2, <1>3, <1>5, <1>7
<1>9. Cardinality(u) + (Cardinality(a) + Cardinality(z)) + Cardinality(c) = Cardinality(DOMAIN m)
  BY <1>4, <1>5, <1>6, <1>7, <1>8
<1> QED
  BY <1>1, <1>9 DEF u, a, z, c

LEMMA PanelIsOpen ==
    ASSUME NEW m, NEW l, NEW r, Entries(m), Absent \notin {"left", "right"}
    PROVE  PanelAsksForTheRest(m, l, r)
<1> DEFINE conflicts == {k \in DOMAIN m : m[k].status = "conflict"}
           tabs == GroupMergeEntriesByCategory("items", m)
           Open(picks) == UNION {FilterMergeEntries(m, tabs[t], "all", picks, TRUE) : t \in DOMAIN tabs}
           once(first, second) == ApplyResolution(ApplyResolution(<<>>, first, "left"), second, "right")
           counts == ComputeResolutionCounts(m, <<>>)
           Answers(picks) == \A p \in DOMAIN picks : picks[p] \in {"left", "right"}
<1>1. UNION {tabs[t] : t \in DOMAIN tabs} = DOMAIN m
  <2>1. /\ DOMAIN tabs = {CategoryOf("items", k) : k \in DOMAIN m}
        /\ \A t \in DOMAIN tabs : tabs[t] = {k \in DOMAIN m : CategoryOf("items", k) = t}
    BY DEF GroupMergeEntriesByCategory
  <2> HIDE DEF tabs
  <2>2. \A k : k \in DOMAIN m <=> \E t \in DOMAIN tabs : k \in tabs[t]
    BY <2>1
  <2> QED
    BY <2>2
<1>2. ASSUME NEW picks PROVE Open(picks) = OpenOf(m, picks)
  <2> HIDE DEF tabs
  <2>1. \A shown : FilterMergeEntries(m, shown, "all", picks, TRUE) =
                      {k \in shown : m[k].status = "conflict" /\ k \notin DOMAIN picks}
    BY DEF FilterMergeEntries
  <2>2. \A k : k \in Open(picks) <=> k \in OpenOf(m, picks)
    <3>1. \A k : k \in Open(picks) <=> \E t \in DOMAIN tabs : k \in FilterMergeEntries(m, tabs[t], "all", picks, TRUE)
      OBVIOUS
    <3>2. \A k : k \in OpenOf(m, picks) <=> k \in DOMAIN m /\ m[k].status = "conflict" /\ k \notin DOMAIN picks
      BY DEF OpenOf, OfStatus
    <3>3. \A k : k \in DOMAIN m <=> \E t \in DOMAIN tabs : k \in tabs[t]
      BY <1>1
    <3> HIDE DEF Open
    <3>4. \A k : k \in Open(picks) <=> \E t \in DOMAIN tabs : k \in tabs[t] /\ m[k].status = "conflict" /\ k \notin DOMAIN picks
      <4> SUFFICES ASSUME NEW k
                   PROVE  k \in Open(picks) <=> \E t \in DOMAIN tabs : k \in tabs[t] /\ m[k].status = "conflict" /\ k \notin DOMAIN picks
        OBVIOUS
      <4>1. \A t : k \in FilterMergeEntries(m, tabs[t], "all", picks, TRUE)
                      <=> k \in tabs[t] /\ m[k].status = "conflict" /\ k \notin DOMAIN picks
        BY <2>1
      <4> QED
        BY <3>1, <4>1, Zenon
    <3> QED
      BY <3>2, <3>3, <3>4, Zenon
  <2> HIDE DEF Open
  <2> QED
    BY <2>2
<1> HIDE DEF tabs
<1>3. ASSUME NEW picks, Answers(picks)
      PROVE  /\ ComputeResolutionCounts(m, picks).conflictsOpen = Cardinality(Open(picks))
             /\ \A k \in conflicts :
                   EffectiveValue(m[k], At(l, k), At(r, k), At(picks, k)) =
                      IF k \in Open(picks) THEN Absent ELSE At(IF picks[k] = "left" THEN l ELSE r, k)
  <2>1. Open(picks) = OpenOf(m, picks)
    BY <1>2
  <2> HIDE DEF Open
  <2>2. ComputeResolutionCounts(m, picks).conflictsOpen = Cardinality(OpenOf(m, picks))
    <3> DEFINE c == OfStatus(m, "conflict")
    <3>1. ComputeResolutionCounts(m, picks).conflictsOpen = Cardinality(c) - Cardinality(c \cap DOMAIN picks)
      BY DEF ComputeResolutionCounts, OfStatus
    <3>2. IsFiniteSet(c)
      BY EntriesByStatus
    <3> HIDE DEF c
    <3>3. Cardinality(c \ DOMAIN picks) = Cardinality(c) - Cardinality(c \cap DOMAIN picks)
      BY <3>2, FS_Difference
    <3> QED
      BY <3>1, <3>3 DEF OpenOf, c
  <2>3. ASSUME NEW k \in conflicts
        PROVE  EffectiveValue(m[k], At(l, k), At(r, k), At(picks, k)) =
                  IF k \in OpenOf(m, picks) THEN Absent ELSE At(IF picks[k] = "left" THEN l ELSE r, k)
    <3> DEFINE lk == At(l, k)
               rk == At(r, k)
               choice == At(picks, k)
    <3>1. m[k].status = "conflict" /\ (k \in OpenOf(m, picks) <=> k \notin DOMAIN picks)
      BY DEF OpenOf, OfStatus
    <3>2. At(IF picks[k] = "left" THEN l ELSE r, k) = IF picks[k] = "left" THEN lk ELSE rk
      OBVIOUS
    <3>3. choice = IF k \in DOMAIN picks THEN picks[k] ELSE Absent
      BY DEF At
    <3>4. k \in DOMAIN picks => picks[k] \in {"left", "right"}
      BY <1>3
    <3> HIDE DEF lk, rk, choice
    <3>5. CASE k \notin DOMAIN picks
      <4>1. choice = Absent
        BY <3>3, <3>5
      <4>2. EffectiveValue(m[k], lk, rk, choice) = Absent
        BY <3>1, <4>1 DEF EffectiveValue
      <4> QED
        BY <3>1, <3>5, <4>2 DEF lk, rk, choice
    <3>6. CASE k \in DOMAIN picks /\ picks[k] = "left"
      <4>1. EffectiveValue(m[k], lk, rk, choice) = lk
        BY <3>1, <3>3, <3>6 DEF EffectiveValue
      <4> QED
        BY <3>1, <3>2, <3>6, <4>1 DEF lk, rk, choice
    <3>7. CASE k \in DOMAIN picks /\ picks[k] = "right"
      <4>1. EffectiveValue(m[k], lk, rk, choice) = rk
        BY <3>1, <3>3, <3>7 DEF EffectiveValue
      <4> QED
        BY <3>1, <3>2, <3>7, <4>1 DEF lk, rk, choice
    <3> QED
      BY <3>4, <3>5, <3>6, <3>7
  <2> QED
    BY <2>1, <2>2, <2>3
<1>4. ASSUME NEW first, NEW second, NEW picks \in {once(first, second), ClearResolution(once(first, second), first)}
      PROVE  Answers(picks)
  <2>1. Answers(once(first, second))
    BY DEF ApplyResolution
  <2> HIDE DEF once
  <2>2. Answers(ClearResolution(once(first, second), first))
    BY <2>1 DEF ClearResolution
  <2> HIDE DEF Answers
  <2> QED
    BY <1>4, <2>1, <2>2
<1>5. counts.unchanged + counts.autoResolved + counts.conflictsTotal = Cardinality(DOMAIN m)
  <2>1. /\ counts.unchanged = Cardinality(OfStatus(m, "unchanged"))
        /\ counts.autoResolved = Cardinality(OfStatus(m, "take-left")) + Cardinality(OfStatus(m, "take-right"))
        /\ counts.conflictsTotal = Cardinality(OfStatus(m, "conflict"))
    <3>1. \A s \in Statuses : Summarize(m)[s] = Cardinality(OfStatus(m, s))
      BY DEF Summarize, OfStatus, Statuses
    <3> DEFINE summary == Summarize(m)
               total == OfStatus(m, "conflict")
    <3>2. counts = [unchanged |-> summary["unchanged"], autoResolved |-> summary["take-left"] + summary["take-right"],
                    conflictsTotal |-> Cardinality(total),
                    conflictsResolved |-> Cardinality(total \cap DOMAIN <<>>),
                    conflictsOpen |-> Cardinality(total) - Cardinality(total \cap DOMAIN <<>>)]
      BY DEF ComputeResolutionCounts, OfStatus
    <3>3. /\ summary["unchanged"] = Cardinality(OfStatus(m, "unchanged"))
          /\ summary["take-left"] = Cardinality(OfStatus(m, "take-left"))
          /\ summary["take-right"] = Cardinality(OfStatus(m, "take-right"))
      <4> HIDE DEF summary
      <4> QED
        BY <3>1 DEF summary, Statuses
    <3> HIDE DEF summary, counts
    <3> QED
      BY <3>2, <3>3
  <2> HIDE DEF counts
  <2> QED
    BY <2>1, EntriesByStatus
<1> HIDE DEF Answers, once, Open, conflicts, counts
<1>6. \A first, second \in conflicts : \A picks \in {once(first, second), ClearResolution(once(first, second), first)} :
         /\ ComputeResolutionCounts(m, picks).conflictsOpen = Cardinality(Open(picks))
         /\ \A k \in conflicts :
               EffectiveValue(m[k], At(l, k), At(r, k), At(picks, k)) =
                  IF k \in Open(picks) THEN Absent ELSE At(IF picks[k] = "left" THEN l ELSE r, k)
  BY <1>3, <1>4
<1> QED
  BY <1>1, <1>5, <1>6, Zenon DEF PanelAsksForTheRest, conflicts, tabs, Open, once, counts

\* A merge keeps every edit or asks, asks where it must, and forgets no entry; in files
\* or whole it is the same; and the panel lists and counts as open what was not decided
\* (resolve.ts:32-60, generic-merge.ts:16-65, routers/merge.ts:86-301, merge-resolution.ts:49-143).
THEOREM EditsAreKept == ASpec => []MergeKeepsEdits
<1>1. AskedOK => MergeKeepsEdits
  <2> SUFFICES ASSUME AskedOK, Asking("merge") PROVE MergeKeepsEdits
    BY DEF MergeKeepsEdits
  <2> DEFINE q == question
             M == MergeGeneric(q.base, q.l, q.r)
             B == EntriesOf(q.base)
             L == EntriesOf(q.l)
             R == EntriesOf(q.r)
             Resolve(decomposed) == MergeResolve(DiffRow("", question.l, question.r, FALSE, decomposed),
                                                 Git(question.base, decomposed), Absent)
  <2>1. q \in Merges
    BY DEF AskedOK, Posed
  <2>2. MergesOK(q) /\ Absent \notin {"left", "right"} /\ NoBase \notin {Git(Absent, TRUE), Git(Absent, FALSE)}
    <3>1. /\ q.l # NoBase /\ q.r # NoBase /\ Absent \notin {NoBase, "left", "right"}
          /\ NoBase \notin {Git(Absent, TRUE), Git(Absent, FALSE)}
          /\ \A doc \in {q.base, q.l, q.r} \ {Absent, NoBase} : Document(doc, doc.tag)
      BY <2>1, MergesAssumption
    <3> HIDE DEF q
    <3>2. \A doc \in {q.base, q.l, q.r} : doc = NoBase \/ doc = Absent \/ Document(doc, doc.tag)
      BY <3>1, Zenon
    <3> QED
      BY <3>1, <3>2 DEF MergesOK
  <2>3. Resolve(FALSE).entries = M /\ Resolve(TRUE).entries = M
    BY <2>2, DocumentsResolved
  <2>4. /\ DOMAIN L \cup DOMAIN R \subseteq DOMAIN M /\ IsFiniteSet(DOMAIN M)
        /\ \A k \in DOMAIN M :
              /\ M[k].status \in Statuses
              /\ M[k].status = "conflict" <=> AskedFor(q, B, L, R, k)
              /\ q.base # NoBase => KeepsEdit(M, B, L, k) /\ KeepsEdit(M, B, R, k)
    BY <2>2, DocumentsMerged
  <2> HIDE DEF M, B, L, R, Resolve
  <2>5. PanelAsksForTheRest(M, L, R)
    BY <2>2, <2>4, PanelIsOpen DEF Entries
  <2>6. \A k \in DOMAIN M : (M[k].status = "conflict") = AskedFor(q, B, L, R, k)
    BY <2>4 DEF AskedFor
  <2> DEFINE Found(m, b, l, r) ==
                /\ DOMAIN l \cup DOMAIN r \subseteq DOMAIN m
                /\ \A k \in DOMAIN m :
                      /\ (m[k].status = "conflict") = AskedFor(q, b, l, r, k)
                      /\ q.base # NoBase => KeepsEdit(m, b, l, k) /\ KeepsEdit(m, b, r, k)
                /\ Resolve(TRUE).entries = m
                /\ PanelAsksForTheRest(m, l, r)
  <2>7. Found(M, B, L, R)
    BY <2>3, <2>4, <2>5, <2>6
  <2> HIDE DEF Found
  <2>8. \A m \in {Resolve(FALSE).entries}, b \in {EntriesOf(q.base)}, l \in {EntriesOf(q.l)}, r \in {EntriesOf(q.r)} :
           Found(m, b, l, r)
    BY <2>3, <2>7 DEF B, L, R
  <2> QED
    BY <2>8, Zenon DEF MergeKeepsEdits, Found, Resolve, EntriesOf, KeepsEdit, AskedFor, q
<1> QED
  BY <1>1, QuestionsArePosed, PTL

-----------------------------------------------------------------------------
\* The canonical form and the structured diff.

LEMMA ScalarMirrored == \A l, r : DiffScalar(r, l) = Mirror(DiffScalar(l, r)) /\ (DiffScalar(l, r) = "identical" <=> l = r)
<1> SUFFICES ASSUME NEW l, NEW r
             PROVE  DiffScalar(r, l) = Mirror(DiffScalar(l, r)) /\ (DiffScalar(l, r) = "identical" <=> l = r)
  OBVIOUS
<1>1. /\ Mirror("identical") = "identical" /\ Mirror("changed") = "changed"
      /\ Mirror("new") = "deleted" /\ Mirror("deleted") = "new"
  BY DEF Mirror
<1>2. \A x, y : /\ x = y => DiffScalar(x, y) = "identical"
                /\ x # y /\ x = Absent => DiffScalar(x, y) = "new"
                /\ x # y /\ y = Absent => DiffScalar(x, y) = "deleted"
                /\ x # y /\ x # Absent /\ y # Absent => DiffScalar(x, y) = "changed"
  BY DEF DiffScalar
<1> QED
  BY <1>1, <1>2

LEMMA ItemMirrored ==
    \A l, r : /\ DiffItem(r, l) = Mirror(DiffItem(l, r))
              /\ DiffItem(l, r) = "identical" => (l = Absent <=> r = Absent) /\ Semantic(l) = Semantic(r)
              /\ l = r => DiffItem(l, r) = "identical"
<1> SUFFICES ASSUME NEW l, NEW r
             PROVE  /\ DiffItem(r, l) = Mirror(DiffItem(l, r))
                    /\ DiffItem(l, r) = "identical" => (l = Absent <=> r = Absent) /\ Semantic(l) = Semantic(r)
                    /\ l = r => DiffItem(l, r) = "identical"
  OBVIOUS
<1>1. /\ Mirror("identical") = "identical" /\ Mirror("changed") = "changed"
      /\ Mirror("new") = "deleted" /\ Mirror("deleted") = "new"
  BY DEF Mirror
<1>2. \A x, y : /\ x = Absent /\ y # Absent => DiffItem(x, y) = "new"
                /\ x # Absent /\ y = Absent => DiffItem(x, y) = "deleted"
                /\ (x = Absent <=> y = Absent) =>
                      DiffItem(x, y) = IF Semantic(x) = Semantic(y) THEN "identical" ELSE "changed"
  <2> HIDE DEF Semantic
  <2> QED
    BY DEF DiffItem
<1>3. CASE l = Absent <=> r = Absent
  <2>1. CASE Semantic(l) = Semantic(r)
    BY <1>1, <1>2, <1>3, <2>1, Zenon
  <2>2. CASE Semantic(l) # Semantic(r)
    <3>1. DiffItem(l, r) = "changed" /\ DiffItem(r, l) = "changed"
      BY <1>2, <1>3, <2>2, Zenon
    <3>2. l # r
      BY <2>2
    <3> QED
      BY <1>1, <3>1, <3>2
  <2> QED
    BY <2>1, <2>2
<1>4. CASE l = Absent /\ r # Absent
  BY <1>1, <1>2, <1>4
<1>5. CASE l # Absent /\ r = Absent
  BY <1>1, <1>2, <1>5
<1> QED
  BY <1>3, <1>4, <1>5

ScalarsOf(doc) == StripVolatileAndSort(doc).scalars
ScalarVerdict(l, r, f) == DiffScalar(At(ScalarsOf(l), f), At(ScalarsOf(r), f))
ItemVerdict(l, r, k) == DiffItem(At(Matched(l, r), k), At(Matched(r, l), k))
DiffEntry(at, status) == [at |-> at, status |-> status]
OfScalar(e, l, r) ==
    \E f \in DOMAIN ScalarsOf(l) \cup DOMAIN ScalarsOf(r) : e = DiffEntry(<<"scalar", f>>, ScalarVerdict(l, r, f))
OfItem(e, l, r) ==
    \E k \in DOMAIN Matched(l, r) \cup DOMAIN Matched(r, l) : e = DiffEntry(<<"item", k>>, ItemVerdict(l, r, k))

\* The entries of a structured diff.
LEMMA DiffEntries ==
    ASSUME NEW l, NEW r
    PROVE  /\ \A e : e \in DiffXml(l, r) <=> OfScalar(e, l, r) \/ OfItem(e, l, r)
           /\ IsAllIdentical(DiffXml(l, r)) <=>
                 /\ \A f \in DOMAIN ScalarsOf(l) \cup DOMAIN ScalarsOf(r) : ScalarVerdict(l, r, f) = "identical"
                 /\ \A k \in DOMAIN Matched(l, r) \cup DOMAIN Matched(r, l) : ItemVerdict(l, r, k) = "identical"
<1>1. \A e : e \in DiffXml(l, r) <=> OfScalar(e, l, r) \/ OfItem(e, l, r)
  BY Zenon DEF DiffXml, OfScalar, OfItem, DiffEntry, ScalarVerdict, ItemVerdict, ScalarsOf
<1>2. \A at, s : DiffEntry(at, s).status = s
  BY DEF DiffEntry
<1>3. ASSUME IsAllIdentical(DiffXml(l, r)), NEW f \in DOMAIN ScalarsOf(l) \cup DOMAIN ScalarsOf(r)
      PROVE  ScalarVerdict(l, r, f) = "identical"
  <2>1. DiffEntry(<<"scalar", f>>, ScalarVerdict(l, r, f)) \in DiffXml(l, r)
    BY <1>1, Zenon DEF OfScalar
  <2> QED
    BY <1>2, <1>3, <2>1, Zenon DEF IsAllIdentical
<1>4. ASSUME IsAllIdentical(DiffXml(l, r)), NEW k \in DOMAIN Matched(l, r) \cup DOMAIN Matched(r, l)
      PROVE  ItemVerdict(l, r, k) = "identical"
  <2>1. DiffEntry(<<"item", k>>, ItemVerdict(l, r, k)) \in DiffXml(l, r)
    BY <1>1, Zenon DEF OfItem
  <2> QED
    BY <1>2, <1>4, <2>1, Zenon DEF IsAllIdentical
<1>5. ASSUME \A f \in DOMAIN ScalarsOf(l) \cup DOMAIN ScalarsOf(r) : ScalarVerdict(l, r, f) = "identical",
             \A k \in DOMAIN Matched(l, r) \cup DOMAIN Matched(r, l) : ItemVerdict(l, r, k) = "identical"
      PROVE  IsAllIdentical(DiffXml(l, r))
  <2> SUFFICES ASSUME NEW e \in DiffXml(l, r) PROVE e.status = "identical"
    BY Zenon DEF IsAllIdentical
  <2>1. CASE OfScalar(e, l, r)
    BY <1>2, <1>5, <2>1, Zenon DEF OfScalar
  <2>2. CASE OfItem(e, l, r)
    BY <1>2, <1>5, <2>2, Zenon DEF OfItem
  <2> QED
    BY <1>1, <2>1, <2>2
<1> QED
  BY <1>1, <1>3, <1>4, <1>5, Zenon

\* The other way round.
LEMMA DiffMirrored ==
    ASSUME NEW l, NEW r
    PROVE  /\ DiffXml(r, l) = {[e EXCEPT !.status = Mirror(@)] : e \in DiffXml(l, r)}
           /\ IsAllIdentical(DiffXml(r, l)) <=> IsAllIdentical(DiffXml(l, r))
<1>1. \A f : ScalarVerdict(r, l, f) = Mirror(ScalarVerdict(l, r, f))
  BY ScalarMirrored DEF ScalarVerdict
<1>2. \A k : ItemVerdict(r, l, k) = Mirror(ItemVerdict(l, r, k))
  BY ItemMirrored DEF ItemVerdict
<1> DEFINE Turned(e) == [e EXCEPT !.status = Mirror(@)]
<1>3. \A at, s : Turned(DiffEntry(at, s)) = DiffEntry(at, Mirror(s))
  BY DEF DiffEntry
<1> HIDE DEF Turned
<1>4. ASSUME NEW e \in DiffXml(r, l) PROVE \E d \in DiffXml(l, r) : e = Turned(d)
  <2>1. CASE OfScalar(e, r, l)
    <3>1. PICK f \in DOMAIN ScalarsOf(l) \cup DOMAIN ScalarsOf(r) : e = DiffEntry(<<"scalar", f>>, ScalarVerdict(r, l, f))
      BY <2>1 DEF OfScalar
    <3> DEFINE d == DiffEntry(<<"scalar", f>>, ScalarVerdict(l, r, f))
    <3>2. d \in DiffXml(l, r)
      BY DiffEntries DEF OfScalar
    <3>3. e = Turned(d)
      BY <1>1, <1>3, <3>1, Zenon
    <3> QED
      BY <3>2, <3>3
  <2>2. CASE OfItem(e, r, l)
    <3>1. PICK k \in DOMAIN Matched(l, r) \cup DOMAIN Matched(r, l) : e = DiffEntry(<<"item", k>>, ItemVerdict(r, l, k))
      BY <2>2 DEF OfItem
    <3> DEFINE d == DiffEntry(<<"item", k>>, ItemVerdict(l, r, k))
    <3>2. d \in DiffXml(l, r)
      BY DiffEntries DEF OfItem
    <3>3. e = Turned(d)
      BY <1>2, <1>3, <3>1, Zenon
    <3> QED
      BY <3>2, <3>3
  <2> QED
    BY <2>1, <2>2, DiffEntries
<1>5. ASSUME NEW d \in DiffXml(l, r) PROVE Turned(d) \in DiffXml(r, l)
  <2>1. CASE OfScalar(d, l, r)
    <3>1. PICK f \in DOMAIN ScalarsOf(l) \cup DOMAIN ScalarsOf(r) : d = DiffEntry(<<"scalar", f>>, ScalarVerdict(l, r, f))
      BY <2>1 DEF OfScalar
    <3>2. Turned(d) = DiffEntry(<<"scalar", f>>, ScalarVerdict(r, l, f))
      BY <1>1, <1>3, <3>1, Zenon
    <3> QED
      BY <3>2, DiffEntries DEF OfScalar
  <2>2. CASE OfItem(d, l, r)
    <3>1. PICK k \in DOMAIN Matched(l, r) \cup DOMAIN Matched(r, l) : d = DiffEntry(<<"item", k>>, ItemVerdict(l, r, k))
      BY <2>2 DEF OfItem
    <3>2. Turned(d) = DiffEntry(<<"item", k>>, ItemVerdict(r, l, k))
      BY <1>2, <1>3, <3>1, Zenon
    <3> QED
      BY <3>2, DiffEntries DEF OfItem
  <2> QED
    BY <2>1, <2>2, DiffEntries
<1>6. DiffXml(r, l) = {Turned(e) : e \in DiffXml(l, r)}
  <2>1. \A e : e \in DiffXml(r, l) <=> e \in {Turned(d) : d \in DiffXml(l, r)}
    BY <1>4, <1>5, Zenon
  <2> QED
    BY <2>1
<1>7. IsAllIdentical(DiffXml(r, l)) <=> IsAllIdentical(DiffXml(l, r))
  <2>1. \A s : Mirror(s) = "identical" <=> s = "identical"
    BY DEF Mirror
  <2>2. /\ \A f : ScalarVerdict(r, l, f) = "identical" <=> ScalarVerdict(l, r, f) = "identical"
        /\ \A k : ItemVerdict(r, l, k) = "identical" <=> ItemVerdict(l, r, k) = "identical"
    BY <1>1, <1>2, <2>1
  <2> QED
    BY <2>2, DiffEntries
<1> QED
  BY <1>6, <1>7 DEF Turned

\* The parts of a canonical form, and the items one key stands for.
LEMMA CanonicalParts ==
    ASSUME NEW doc, Document(doc, doc.tag)
    PROVE  /\ CanonicalizeXml(doc) = [tag |-> doc.tag, scalars |-> ScalarsOf(doc), items |-> [k \in SortKeys(doc) |-> ItemsOf(doc, k)]]
           /\ DOMAIN ByKey(doc) = SortKeys(doc) /\ \A k \in SortKeys(doc) : ByKey(doc)[k] = Last(ItemsOf(doc, k))
           /\ DOMAIN ScalarsOf(doc) = (DOMAIN doc.scalars) \ VolatileFields
           /\ ScalarsOf(doc) = [f \in (DOMAIN doc.scalars) \ VolatileFields |-> ScalarsOf(doc)[f]]
           /\ \A f \in DOMAIN ScalarsOf(doc) : ScalarsOf(doc)[f] # Absent
           /\ \A k \in SortKeys(doc) : Len(ItemsOf(doc, k)) = 1 =>
                 /\ ItemsOf(doc, k) = <<ByKey(doc)[k]>>
                 /\ ByKey(doc)[k] \in ToSet(doc.items) /\ ByKey(doc)[k] # Absent
<1>1. /\ doc.items \in Seq(ToSet(doc.items)) /\ Absent \notin ToSet(doc.items)
      /\ \A f \in DOMAIN doc.scalars : doc.scalars[f] # Absent
  BY DEF Document
<1>2. ScalarsOf(doc) = [f \in (DOMAIN doc.scalars) \ VolatileFields |-> doc.scalars[f]]
  BY DEF ScalarsOf, StripVolatileAndSort
<1>3. CanonicalizeXml(doc) = [tag |-> doc.tag, scalars |-> ScalarsOf(doc), items |-> [k \in SortKeys(doc) |-> ItemsOf(doc, k)]]
  <2> DEFINE items == [k \in SortKeys(doc) |-> ItemsOf(doc, k)]
  <2>1. CanonicalizeXml(doc) = [tag |-> doc.tag, scalars |-> [f \in (DOMAIN doc.scalars) \ VolatileFields |-> doc.scalars[f]],
                                items |-> items]
    BY DEF CanonicalizeXml, StripVolatileAndSort
  <2> HIDE DEF items
  <2>2. CanonicalizeXml(doc) = [tag |-> doc.tag, scalars |-> ScalarsOf(doc), items |-> items]
    BY <1>2, <2>1
  <2> QED
    BY <2>2 DEF items
<1>4. DOMAIN ByKey(doc) = SortKeys(doc) /\ \A k \in SortKeys(doc) : ByKey(doc)[k] = Last(ItemsOf(doc, k))
  BY DEF ByKey
<1>5. ASSUME NEW k \in SortKeys(doc), Len(ItemsOf(doc, k)) = 1
      PROVE  /\ ItemsOf(doc, k) = <<ByKey(doc)[k]>>
             /\ ByKey(doc)[k] \in ToSet(doc.items) /\ ByKey(doc)[k] # Absent
  <2> DEFINE those == {x \in ToSet(doc.items) : SortKey(doc.tag, x) = k}
             S == ToSet(doc.items)
             s == ItemsOf(doc, k)
  <2>1. s = Only(doc.items, those)
    BY DEF ItemsOf
  <2> HIDE DEF those, S
  <2>2. s \in Seq(S)
    <3>1. doc.items \in Seq(S)
      BY <1>1 DEF S
    <3>2. Only(doc.items, those) \in Seq(S)
      BY <3>1, OnlyElements
    <3> QED
      BY <2>1, <3>2
  <2>3. ByKey(doc)[k] = s[Len(s)]
    BY <1>4 DEF Last
  <2> HIDE DEF s
  <2>4. Len(s) = 1
    BY <1>5 DEF s
  <2>5. \A t \in Seq(S) : Len(t) = 1 => t = <<t[1]>> /\ t[1] \in S
    <3> SUFFICES ASSUME NEW t \in Seq(S), Len(t) = 1 PROVE t = <<t[1]>> /\ t[1] \in S
      OBVIOUS
    <3>1. t[1] \in S
      <4>1. 1 \in 1 .. Len(t)
        OBVIOUS
      <4> QED
        BY <4>1, ElementOfSeq
    <3>2. <<t[1]>> \in Seq(S) /\ Len(<<t[1]>>) = 1 /\ <<t[1]>>[1] = t[1]
      BY <3>1
    <3>3. \A i \in 1 .. 1 : t[i] = <<t[1]>>[i]
      BY <3>2
    <3> DEFINE u == <<t[1]>>
    <3> HIDE DEF u
    <3>4. u \in Seq(S) /\ Len(u) = Len(t) /\ \A i \in 1 .. Len(t) : t[i] = u[i]
      BY <3>2, <3>3 DEF u
    <3>5. t = u
      BY <3>4, SeqEqual
    <3> QED
      BY <3>1, <3>5 DEF u
  <2>6. s = <<ByKey(doc)[k]>> /\ ByKey(doc)[k] \in S
    BY <2>2, <2>3, <2>4, <2>5
  <2> QED
    BY <1>1, <2>6 DEF s, S
<1>6. /\ DOMAIN ScalarsOf(doc) = (DOMAIN doc.scalars) \ VolatileFields
      /\ ScalarsOf(doc) = [f \in (DOMAIN doc.scalars) \ VolatileFields |-> ScalarsOf(doc)[f]]
      /\ \A f \in DOMAIN ScalarsOf(doc) : ScalarsOf(doc)[f] # Absent
  BY <1>1, <1>2
<1> QED
  BY <1>3, <1>4, <1>5, <1>6

\* What is compared as one value.
LEMMA ValueParts ==
    ASSUME NEW doc, Document(doc, doc.tag), IsValue(doc), NEW other, IsValue(other)
    PROVE  /\ DOMAIN Matched(doc, other) \subseteq {<<"value">>}
           /\ doc.items = <<>> => SortKeys(doc) = {} /\ At(Matched(doc, other), <<"value">>) = Absent
           /\ doc.items # <<>> => /\ doc.items = <<doc.items[1]>> /\ SortKeys(doc) = {SortKey(doc.tag, doc.items[1])}
                                 /\ doc.items[1] \in ToSet(doc.items) /\ doc.items[1] # Absent
                                 /\ <<"value">> \in DOMAIN Matched(doc, other)
                                 /\ At(Matched(doc, other), <<"value">>) = doc.items[1]
                                 /\ \A k \in SortKeys(doc) : Last(ItemsOf(doc, k)) = doc.items[1]
<1> DEFINE items == doc.items
           S == ToSet(doc.items)
<1>1. items \in Seq(S) /\ Absent \notin S /\ Len(items) <= 1
  BY DEF Document, IsValue
<1>2. Matched(doc, other) = [k \in {<<"value">> : i \in DOMAIN items} |-> items[1]]
  BY DEF Matched
<1>3. SortKeys(doc) = {SortKey(doc.tag, items[i]) : i \in DOMAIN items}
  BY DEF SortKeys
<1>4. S = {items[i] : i \in DOMAIN items}
  BY DEF ToSet
<1>5. \A k : ItemsOf(doc, k) = Only(items, {x \in S : SortKey(doc.tag, x) = k})
  BY DEF ItemsOf
<1> HIDE DEF items, S
<1>6. CASE items = <<>>
  <2>1. DOMAIN items = {}
    BY <1>6
  <2> QED
    BY <1>2, <1>3, <1>6, <2>1 DEF At, items
<1>7. CASE items # <<>>
  <2>1. Len(items) = 1 /\ DOMAIN items = {1}
    <3>1. \A t \in Seq(S) : t # <<>> => Len(t) \in Nat /\ Len(t) # 0 /\ DOMAIN t = 1 .. Len(t)
      OBVIOUS
    <3>2. Len(items) \in Nat /\ Len(items) # 0 /\ Len(items) <= 1 /\ DOMAIN items = 1 .. Len(items)
      BY <1>1, <1>7, <3>1
    <3>3. Len(items) = 1
      BY <3>2
    <3> QED
      BY <3>2, <3>3
  <2>2. items = <<items[1]>> /\ items[1] \in S /\ S = {items[1]}
    BY <1>1, <1>4, <2>1
  <2>3. items[1] # Absent /\ SortKeys(doc) = {SortKey(doc.tag, items[1])}
    BY <1>1, <1>3, <2>1, <2>2
  <2>4. DOMAIN Matched(doc, other) = {<<"value">>} /\ Matched(doc, other)[<<"value">>] = items[1]
    BY <1>2, <2>1
  <2>5. ASSUME NEW k \in SortKeys(doc) PROVE Last(ItemsOf(doc, k)) = items[1]
    <3> DEFINE those == {x \in S : SortKey(doc.tag, x) = k}
               s == ItemsOf(doc, k)
    <3>1. those = {items[1]}
      BY <2>2, <2>3, <2>5
    <3>2. s = Only(items, those)
      BY <1>5
    <3> HIDE DEF those, s
    <3>3. s \in Seq(S) /\ ToSet(s) = {items[1]}
      <4>1. ToSet(items) = S
        BY <1>4 DEF ToSet
      <4>2. Only(items, those) \in Seq(S) /\ ToSet(Only(items, those)) = ToSet(items) \cap those
        BY <1>1, OnlyElements
      <4> QED
        BY <2>2, <3>1, <3>2, <4>1, <4>2
    <3>4. Len(s) \in DOMAIN s
      <4>1. \E i \in DOMAIN s : TRUE
        BY <3>3 DEF ToSet
      <4>2. DOMAIN s = 1 .. Len(s) /\ Len(s) \in Nat
        BY <3>3
      <4> QED
        BY <4>1, <4>2
    <3>5. s[Len(s)] \in ToSet(s)
      BY <3>4 DEF ToSet
    <3> QED
      BY <3>3, <3>5 DEF Last, s
  <2> QED
    BY <1>7, <2>2, <2>3, <2>4, <2>5 DEF At, items, S
<1> QED
  BY <1>6, <1>7

\* What has the same hash has no difference to show.
LEMMA SameHashNoDifference ==
    ASSUME NEW l, NEW r, Document(l, l.tag), Document(r, r.tag), CanonicalizeXml(l) = CanonicalizeXml(r)
    PROVE  IsAllIdentical(DiffXml(l, r))
<1> DEFINE li == [k \in SortKeys(l) |-> ItemsOf(l, k)]
           ri == [k \in SortKeys(r) |-> ItemsOf(r, k)]
<1>1. ScalarsOf(l) = ScalarsOf(r) /\ li = ri
  <2>1. \A t, s, i : [tag |-> t, scalars |-> s, items |-> i].scalars = s /\ [tag |-> t, scalars |-> s, items |-> i].items = i
    OBVIOUS
  <2>2. /\ CanonicalizeXml(l) = [tag |-> l.tag, scalars |-> ScalarsOf(l), items |-> li]
        /\ CanonicalizeXml(r) = [tag |-> r.tag, scalars |-> ScalarsOf(r), items |-> ri]
    BY CanonicalParts
  <2> HIDE DEF li, ri
  <2> DEFINE lf == [tag |-> l.tag, scalars |-> ScalarsOf(l), items |-> li]
             rf == [tag |-> r.tag, scalars |-> ScalarsOf(r), items |-> ri]
  <2>3. lf.scalars = ScalarsOf(l) /\ lf.items = li /\ rf.scalars = ScalarsOf(r) /\ rf.items = ri
    BY <2>1
  <2>4. lf = rf
    BY <2>2
  <2> HIDE DEF lf, rf
  <2> QED
    BY <2>3, <2>4
<1>2. SortKeys(l) = SortKeys(r) /\ \A k \in SortKeys(l) : ItemsOf(l, k) = ItemsOf(r, k)
  <2>1. /\ DOMAIN li = SortKeys(l) /\ \A k \in SortKeys(l) : li[k] = ItemsOf(l, k)
        /\ DOMAIN ri = SortKeys(r) /\ \A k \in SortKeys(r) : ri[k] = ItemsOf(r, k)
    OBVIOUS
  <2> HIDE DEF li, ri
  <2> QED
    BY <1>1, <2>1
<1>3. \A k : At(Matched(l, r), k) = At(Matched(r, l), k)
  <2>1. CASE IsValue(l) /\ IsValue(r)
    <3>1. At(Matched(l, r), <<"value">>) = At(Matched(r, l), <<"value">>)
      <4>1. CASE l.items = <<>>
        BY <1>2, <2>1, <4>1, ValueParts
      <4>2. CASE l.items # <<>>
        <5>1. SortKey(l.tag, l.items[1]) \in SortKeys(l) /\ r.items # <<>>
          BY <1>2, <2>1, <4>2, ValueParts
        <5>2. l.items[1] = r.items[1]
          BY <1>2, <2>1, <4>2, <5>1, ValueParts
        <5> QED
          BY <2>1, <4>2, <5>1, <5>2, ValueParts
      <4> QED
        BY <4>1, <4>2
    <3>2. DOMAIN Matched(l, r) \subseteq {<<"value">>} /\ DOMAIN Matched(r, l) \subseteq {<<"value">>}
      BY <2>1, ValueParts
    <3> QED
      BY <3>1, <3>2 DEF At
  <2>2. CASE ~(IsValue(l) /\ IsValue(r))
    <3>1. Matched(l, r) = ByKey(l) /\ Matched(r, l) = ByKey(r)
      BY <2>2 DEF Matched
    <3>2. \A k : At(ByKey(l), k) = At(ByKey(r), k)
      BY <1>2, CanonicalParts DEF At
    <3> QED
      BY <3>1, <3>2
  <2> QED
    BY <2>1, <2>2
<1>4. \A f : ScalarVerdict(l, r, f) = "identical"
  BY <1>1, ScalarMirrored DEF ScalarVerdict
<1>5. \A k : ItemVerdict(l, r, k) = "identical"
  BY <1>3, ItemMirrored DEF ItemVerdict
<1> QED
  BY <1>4, <1>5, DiffEntries

\* And the other way, of documents whose items have keys of their own.
LEMMA NoDifferenceSameHash ==
    ASSUME NEW l, NEW r, Document(l, l.tag), Document(r, r.tag), l.tag = r.tag,
           WellKeyed(l), WellKeyed(r), AttributesAgree(l, r), IsAllIdentical(DiffXml(l, r))
    PROVE  CanonicalizeXml(l) = CanonicalizeXml(r)
<1> DEFINE ls == ScalarsOf(l)
           rs == ScalarsOf(r)
           lk == Matched(l, r)
           rk == Matched(r, l)
           li == [k \in SortKeys(l) |-> ItemsOf(l, k)]
           ri == [k \in SortKeys(r) |-> ItemsOf(r, k)]
<1>1. /\ CanonicalizeXml(l) = [tag |-> l.tag, scalars |-> ls, items |-> li]
      /\ CanonicalizeXml(r) = [tag |-> r.tag, scalars |-> rs, items |-> ri]
  BY CanonicalParts
<1>2. /\ \A f \in DOMAIN ls \cup DOMAIN rs : At(ls, f) = At(rs, f)
      /\ \A k \in DOMAIN lk \cup DOMAIN rk :
            (At(lk, k) = Absent <=> At(rk, k) = Absent) /\ Semantic(At(lk, k)) = Semantic(At(rk, k))
  <2>1. /\ \A f \in DOMAIN ls \cup DOMAIN rs : ScalarVerdict(l, r, f) = "identical"
        /\ \A k \in DOMAIN lk \cup DOMAIN rk : ItemVerdict(l, r, k) = "identical"
    BY DiffEntries
  <2> QED
    BY <2>1, ScalarMirrored, ItemMirrored, Zenon DEF ScalarVerdict, ItemVerdict
<1>3. ls = rs
  <2>1. /\ \A f \in DOMAIN ls : ls[f] # Absent
        /\ \A f \in DOMAIN rs : rs[f] # Absent
    BY CanonicalParts
  <2>2. \E D : ls = [f \in D |-> ls[f]]
    BY CanonicalParts
  <2>3. \E D : rs = [f \in D |-> rs[f]]
    BY CanonicalParts
  <2> HIDE DEF ls, rs
  <2>4. \A f : (f \in DOMAIN ls <=> f \in DOMAIN rs) /\ (f \in DOMAIN ls => ls[f] = rs[f])
    BY <1>2, <2>1 DEF At
  <2>5. DOMAIN ls = DOMAIN rs
    BY <2>4
  <2> QED
    BY <2>2, <2>3, <2>4, <2>5
<1>4. ASSUME IsValue(l) /\ IsValue(r)
      PROVE  li = ri
  <2>1. (At(lk, <<"value">>) = Absent <=> At(rk, <<"value">>) = Absent) /\ Semantic(At(lk, <<"value">>)) = Semantic(At(rk, <<"value">>))
    <3>1. CASE <<"value">> \in DOMAIN lk \cup DOMAIN rk
      BY <1>2, <3>1
    <3>2. CASE <<"value">> \notin DOMAIN lk \cup DOMAIN rk
      BY <3>2 DEF At
    <3> QED
      BY <3>1, <3>2
  <2>2. l.items = r.items
    <3>1. CASE l.items = <<>>
      BY <1>4, <2>1, <3>1, ValueParts
    <3>2. CASE l.items # <<>>
      <4>1. r.items # <<>>
        BY <1>4, <2>1, <3>2, ValueParts
      <4>2. Semantic(l.items[1]) = Semantic(r.items[1])
        BY <1>4, <2>1, <3>2, <4>1, ValueParts
      <4>3. l.items[1] = r.items[1]
        BY <1>4, <3>2, <4>1, <4>2, ValueParts, Zenon DEF AttributesAgree
      <4> QED
        BY <1>4, <3>2, <4>1, <4>3, ValueParts, Zenon
    <3> QED
      BY <3>1, <3>2
  <2>3. SortKeys(l) = SortKeys(r)
    BY <2>2 DEF SortKeys
  <2>4. \A k : ItemsOf(l, k) = ItemsOf(r, k)
    BY <2>2 DEF ItemsOf
  <2> QED
    BY <2>3, <2>4
<1>5. ASSUME ~(IsValue(l) /\ IsValue(r))
      PROVE  li = ri
  <2>0. lk = ByKey(l) /\ rk = ByKey(r)
    BY <1>5 DEF Matched
  <2>1. /\ DOMAIN lk = SortKeys(l) /\ DOMAIN rk = SortKeys(r)
        /\ \A k \in SortKeys(l) : ItemsOf(l, k) = <<lk[k]>> /\ lk[k] \in ToSet(l.items) /\ lk[k] # Absent
        /\ \A k \in SortKeys(r) : ItemsOf(r, k) = <<rk[k]>> /\ rk[k] \in ToSet(r.items) /\ rk[k] # Absent
    <3>1. /\ \A k \in SortKeys(l) : Len(ItemsOf(l, k)) = 1
          /\ \A k \in SortKeys(r) : Len(ItemsOf(r, k)) = 1
      BY DEF WellKeyed
    <3> QED
      BY <2>0, <3>1, CanonicalParts
  <2> HIDE DEF lk, rk
  <2>2. \A k : k \in SortKeys(l) <=> k \in SortKeys(r)
    BY <1>2, <2>1 DEF At
  <2>3. \A k \in SortKeys(l) : ItemsOf(l, k) = ItemsOf(r, k)
    <3> SUFFICES ASSUME NEW k \in SortKeys(l) PROVE ItemsOf(l, k) = ItemsOf(r, k)
      OBVIOUS
    <3>1. k \in SortKeys(r)
      BY <2>2
    <3>2. At(lk, k) = lk[k] /\ At(rk, k) = rk[k]
      BY <2>1, <3>1 DEF At
    <3>3. Semantic(lk[k]) = Semantic(rk[k])
      BY <1>2, <2>1, <3>2
    <3>4. lk[k] = rk[k]
      BY <2>1, <3>1, <3>3, Zenon DEF AttributesAgree
    <3> QED
      BY <2>1, <3>1, <3>4
  <2>4. SortKeys(l) = SortKeys(r)
    BY <2>2
  <2> QED
    BY <2>3, <2>4
<1> HIDE DEF ls, rs, li, ri
<1> QED
  BY <1>1, <1>3, <1>4, <1>5

\* A component whose hash says unchanged has no difference to show, one called identical
\* has the same hash if its keys tell its items apart, and the other way round every
\* verdict is mirrored (normalize.ts:99-204, differ.ts:8-218, dispatch.ts:70-141).
THEOREM HashAndDiffAre == ASpec => []HashAndDiffAgree
<1>1. AskedOK => HashAndDiffAgree
  <2> SUFFICES ASSUME AskedOK, Asking("documents") PROVE HashAndDiffAgree
    BY DEF HashAndDiffAgree
  <2> DEFINE l == question.l
             r == question.r
             same == CanonicalizeXml(l) = CanonicalizeXml(r)
             there == DiffXml(l, r)
             back == DiffXml(r, l)
  <2>1. PICK tag \in DOMAIN DocumentPairs : question \in DocumentPairs[tag]
    BY DEF AskedOK, Posed, Among
  <2>2. Document(l, tag) /\ Document(r, tag)
    BY <2>1, DocumentsAssumption
  <2> HIDE DEF l, r
  <2>3. l.tag = tag /\ r.tag = tag /\ l # Absent /\ r # Absent
    <3>1. \A doc : Document(doc, tag) => doc = [tag |-> tag, scalars |-> doc.scalars, items |-> doc.items] /\ doc # Absent
      BY Zenon DEF Document
    <3>2. \A s, i : [tag |-> tag, scalars |-> s, items |-> i].tag = tag
      OBVIOUS
    <3> QED
      BY <2>2, <3>1, <3>2
  <2>4. same => IsAllIdentical(there)
    BY <2>2, <2>3, SameHashNoDifference
  <2>5. (WellKeyed(l) /\ WellKeyed(r) /\ AttributesAgree(l, r)) => (IsAllIdentical(there) => same)
    BY <2>2, <2>3, NoDifferenceSameHash
  <2>6. back = {[e EXCEPT !.status = Mirror(@)] : e \in there} /\ (IsAllIdentical(back) <=> IsAllIdentical(there))
    BY DiffMirrored
  <2>7. /\ DiffComponent(l, r, there) = IF same \/ IsAllIdentical(there) THEN "identical" ELSE "changed"
        /\ DiffComponent(r, l, back) = IF same \/ IsAllIdentical(back) THEN "identical" ELSE "changed"
    <3>1. \A differences : /\ DiffComponent(l, r, differences) = IF same \/ IsAllIdentical(differences) THEN "identical" ELSE "changed"
                           /\ DiffComponent(r, l, differences) = IF same \/ IsAllIdentical(differences) THEN "identical" ELSE "changed"
      <4> HIDE DEF IsAllIdentical
      <4> QED
        BY <2>3 DEF DiffComponent
    <3> QED
      BY <3>1
  <2>8. DiffComponent(l, Absent, there) = "deleted" /\ DiffComponent(Absent, l, back) = "new"
    BY <2>3 DEF DiffComponent
  <2>9. /\ Mirror("identical") = "identical" /\ Mirror("changed") = "changed" /\ Mirror("deleted") = "new"
    BY DEF Mirror
  <2>10. ((WellKeyed(l) /\ WellKeyed(r) /\ AttributesAgree(l, r)) => (DiffComponent(l, r, there) = "identical") = same)
    <3> HIDE DEF there, back
    <3> QED
      BY <2>4, <2>5, <2>7
  <2>11. \A side \in {r, Absent} : DiffComponent(side, l, back) = Mirror(DiffComponent(l, side, there))
    <3> HIDE DEF there, back, same
    <3> QED
      BY <2>6, <2>7, <2>8, <2>9
  <2> QED
    BY <2>4, <2>6, <2>10, <2>11, Zenon DEF HashAndDiffAgree, l, r
<1> QED
  BY <1>1, QuestionsArePosed, PTL

-----------------------------------------------------------------------------
\* Analyzers.

Gated(ctx) == A!Apex(ctx) # {} /\ A!GatedTarget(ctx)

\* The errors of an analysis, one by one.
GateError(e, ctx) ==
    /\ e = <<"production-run-local-tests-gate", A!NoKey>> /\ Gated(ctx)
    /\ ctx.target.coverage # Unknown /\ ctx.target.coverage < A!CoverageThreshold
    /\ ctx.testLevel \notin {"RunSpecifiedTests", "NoTestRun"} /\ ctx.testLevel # Unknown
NoTestRunError(e, ctx) ==
    e = <<"production-notestrun-invalid", A!NoKey>> /\ Gated(ctx) /\ ctx.testLevel = "NoTestRun"
SpecifiedTestsError(e, ctx) ==
    /\ e = <<"specified-tests-incomplete", A!NoKey>> /\ ctx.testLevel = "RunSpecifiedTests"
    /\ A!OfType(ctx, {"ApexClass"}) # {} /\ ctx.runTests = {}
MissingError(e, ctx) ==
    \E c \in ctx.package :
        /\ e = <<"missing-reference", c.key>> /\ c.parses
        /\ \E r \in A!ExtractReferences(c) \ A!Keys(ctx) :
              A!ExistsInTarget(ctx, r) = FALSE /\ A!Severity(r) = "error"
DeletedError(e, ctx) ==
    \E k \in ctx.destructive : /\ e = <<"deleting-referenced-component", k>> /\ ctx.exists # Unknown
                               /\ ~(A!Dependents(ctx, k) \subseteq ctx.destructive)
Mentioned(c, m) == A!FieldKey(IF m.object = "" THEN c.object ELSE m.object, m.name)
OnLayoutError(e, ctx) ==
    \E c \in ctx.package : \E m \in c.mentions :
        /\ e = <<"deleting-field-referenced-by-inpackage-layout", Mentioned(c, m)>>
        /\ c.key.type \in {"Layout"} /\ c.parses /\ Mentioned(c, m) \in ctx.destructive
Reported(e, ctx) ==
    \/ GateError(e, ctx) \/ NoTestRunError(e, ctx) \/ SpecifiedTestsError(e, ctx)
    \/ MissingError(e, ctx) \/ DeletedError(e, ctx) \/ OnLayoutError(e, ctx)

ErrorOf(e, findings) == \E f \in findings : f.severity = "error" /\ e = <<f.id, f.key>>

LEMMA FindingFields ==
    ASSUME NEW id, NEW severity, NEW key, NEW related
    PROVE  /\ A!Finding(id, severity, key, related).id = id
           /\ A!Finding(id, severity, key, related).severity = severity
           /\ A!Finding(id, severity, key, related).key = key
           /\ A!Finding(id, severity, key, related).related = related
  BY DEF A!Finding

LEMMA CoverageErrors ==
    ASSUME NEW ctx, NEW e
    PROVE  ErrorOf(e, A!Rules(ctx).coverage)
             <=> GateError(e, ctx) \/ NoTestRunError(e, ctx) \/ SpecifiedTestsError(e, ctx)
<1>1. A!Rules(ctx).coverage =
        A!RunLocalTestsGate(ctx) \cup A!NoTestRunInvalid(ctx) \cup A!SpecifiedTestsIncomplete(ctx)
          \cup A!TriggerWithoutTest(ctx) \cup A!LowIndividualCoverage(ctx) \cup A!TargetIsSandbox(ctx)
  BY DEF A!Rules
<1>2. ErrorOf(e, A!RunLocalTestsGate(ctx)) <=> GateError(e, ctx)
  <2> DEFINE holds == /\ A!Apex(ctx) # {} /\ A!GatedTarget(ctx)
                      /\ ctx.target.coverage # Unknown /\ ctx.target.coverage < A!CoverageThreshold
                      /\ ctx.testLevel \notin {"RunSpecifiedTests", "NoTestRun"}
             f == A!Finding("production-run-local-tests-gate",
                            IF ctx.testLevel = Unknown THEN "warning" ELSE "error", A!NoKey, {})
  <2>1. A!RunLocalTestsGate(ctx) = IF holds THEN {f} ELSE {}
    BY DEF A!RunLocalTestsGate
  <2>2. f.id = "production-run-local-tests-gate" /\ f.key = A!NoKey
        /\ (f.severity = "error" <=> ctx.testLevel # Unknown)
    BY FindingFields
  <2>3. GateError(e, ctx) <=> holds /\ e = <<"production-run-local-tests-gate", A!NoKey>> /\ ctx.testLevel # Unknown
    BY DEF GateError, Gated
  <2> HIDE DEF holds, f
  <2> QED
    BY <2>1, <2>2, <2>3 DEF ErrorOf
<1>3. ErrorOf(e, A!NoTestRunInvalid(ctx)) <=> NoTestRunError(e, ctx)
  <2> DEFINE f == A!Finding("production-notestrun-invalid", "error", A!NoKey, {})
  <2>1. A!NoTestRunInvalid(ctx) = IF Gated(ctx) /\ ctx.testLevel = "NoTestRun" THEN {f} ELSE {}
    BY DEF A!NoTestRunInvalid, Gated
  <2>2. f.id = "production-notestrun-invalid" /\ f.key = A!NoKey /\ f.severity = "error"
    BY FindingFields
  <2> HIDE DEF f
  <2> QED
    BY <2>1, <2>2 DEF ErrorOf, NoTestRunError
<1>4. ErrorOf(e, A!SpecifiedTestsIncomplete(ctx)) <=> SpecifiedTestsError(e, ctx)
  <2>1. CASE ctx.testLevel # "RunSpecifiedTests" \/ A!OfType(ctx, {"ApexClass"}) = {}
    BY <2>1 DEF ErrorOf, A!SpecifiedTestsIncomplete, SpecifiedTestsError
  <2>2. CASE ~(ctx.testLevel # "RunSpecifiedTests" \/ A!OfType(ctx, {"ApexClass"}) = {}) /\ ctx.runTests = {}
    <3>1. A!SpecifiedTestsIncomplete(ctx) = {A!Finding("specified-tests-incomplete", "error", A!NoKey, {})}
      BY <2>2 DEF A!SpecifiedTestsIncomplete
    <3> QED
      BY <2>2, <3>1, FindingFields DEF ErrorOf, SpecifiedTestsError
  <2>3. CASE ~(ctx.testLevel # "RunSpecifiedTests" \/ A!OfType(ctx, {"ApexClass"}) = {}) /\ ctx.runTests # {}
    <3>1. \A f \in A!SpecifiedTestsIncomplete(ctx) : f.severity = "warning"
      BY <2>3, FindingFields DEF A!SpecifiedTestsIncomplete
    <3> QED
      BY <2>3, <3>1 DEF ErrorOf, SpecifiedTestsError
  <2> QED
    BY <2>1, <2>2, <2>3
<1>5. \A f \in A!TriggerWithoutTest(ctx) \cup A!LowIndividualCoverage(ctx) \cup A!TargetIsSandbox(ctx) :
        f.severity # "error"
  BY FindingFields DEF A!TriggerWithoutTest, A!LowIndividualCoverage, A!TargetIsSandbox
<1> QED
  BY <1>1, <1>2, <1>3, <1>4, <1>5 DEF ErrorOf

LEMMA OtherErrors ==
    ASSUME NEW ctx, NEW e
    PROVE  /\ ErrorOf(e, A!Rules(ctx).dependency) <=> MissingError(e, ctx)
           /\ ~ErrorOf(e, A!Rules(ctx).permission)
           /\ ~ErrorOf(e, A!Rules(ctx).hardcoded)
           /\ ~ErrorOf(e, A!Rules(ctx).stale)
           /\ ErrorOf(e, A!Rules(ctx).destructive) <=> DeletedError(e, ctx) \/ OnLayoutError(e, ctx)
<1>1. /\ A!Rules(ctx).dependency = A!MissingReference(ctx)
      /\ A!Rules(ctx).permission = A!GrantsNonexistentTarget(ctx)
      /\ A!Rules(ctx).hardcoded = A!HardcodedId(ctx)
      /\ A!Rules(ctx).stale = A!ApiVersionFarBehind(ctx) \cup A!InactiveValidationRule(ctx)
                                \cup A!InactiveWorkflowRule(ctx) \cup A!FlowVersionStatus(ctx)
      /\ A!Rules(ctx).destructive = A!DeletingReferenced(ctx) \cup A!DeletingFieldOnLayout(ctx)
  BY DEF A!Rules
<1>2. ErrorOf(e, A!MissingReference(ctx)) <=> MissingError(e, ctx)
  <2> DEFINE gone(c)  == {r \in A!ExtractReferences(c) \ A!Keys(ctx) : A!ExistsInTarget(ctx, r) = FALSE}
             f(c, r)  == A!Finding("missing-reference", A!Severity(r), c.key, {r})
             found(c) == {f(c, r) : r \in gone(c)}
             parsed   == {d \in ctx.package : d.parses}
  <2>1. A!MissingReference(ctx) = UNION {found(c) : c \in parsed}
    BY DEF A!MissingReference
  <2>2. MissingError(e, ctx) <=>
           \E c \in parsed : e = <<"missing-reference", c.key>> /\ \E r \in gone(c) : A!Severity(r) = "error"
    BY DEF MissingError
  <2>3. \A c, r : f(c, r).id = "missing-reference" /\ f(c, r).key = c.key /\ f(c, r).severity = A!Severity(r)
    BY FindingFields
  <2>4. ASSUME NEW c, NEW g PROVE g \in found(c) <=> \E r \in gone(c) : g = f(c, r)
    OBVIOUS
  <2> HIDE DEF gone, found, parsed, f
  <2> QED
    BY <2>1, <2>2, <2>3, <2>4 DEF ErrorOf
<1>3. \A f \in A!GrantsNonexistentTarget(ctx) : f.severity # "error"
  <2> DEFINE refused(c) == {h \in c.grants : /\ h.granted /\ h.key \notin A!Keys(ctx)
                                             /\ A!ExistsInTarget(ctx, h.key) = FALSE}
             f(c, g)    == A!Finding("grants-nonexistent-target", "warning", c.key, {g.key})
             found(c)   == {f(c, g) : g \in refused(c)}
             granting   == {d \in A!OfType(ctx, {"Profile", "PermissionSet"}) : d.parses}
  <2>1. A!GrantsNonexistentTarget(ctx) = UNION {found(c) : c \in granting}
    BY DEF A!GrantsNonexistentTarget
  <2>2. ASSUME NEW c, NEW x \in found(c) PROVE x.severity # "error"
    <3>1. PICK g \in refused(c) : x = f(c, g)
      OBVIOUS
    <3> QED
      BY <3>1, FindingFields
  <2> HIDE DEF found, granting
  <2> QED
    BY <2>1, <2>2
<1>4. \A f \in A!HardcodedId(ctx) : f.severity # "error"
  BY FindingFields DEF A!HardcodedId
<1>5. \A f \in A!ApiVersionFarBehind(ctx) \cup A!InactiveValidationRule(ctx)
                 \cup A!InactiveWorkflowRule(ctx) \cup A!FlowVersionStatus(ctx) : f.severity # "error"
  BY FindingFields DEF A!ApiVersionFarBehind, A!InactiveValidationRule, A!InactiveWorkflowRule, A!FlowVersionStatus
<1>6. ErrorOf(e, A!DeletingReferenced(ctx)) <=> DeletedError(e, ctx)
  <2> DEFINE f(k) == A!Finding("deleting-referenced-component", "error", k, A!Dependents(ctx, k) \ ctx.destructive)
             named == {j \in ctx.destructive : ~(A!Dependents(ctx, j) \subseteq ctx.destructive)}
  <2>1. A!DeletingReferenced(ctx) = IF ctx.exists = Unknown THEN {} ELSE {f(k) : k \in named}
    BY DEF A!DeletingReferenced
  <2>2. \A k : f(k).id = "deleting-referenced-component" /\ f(k).key = k /\ f(k).severity = "error"
    BY FindingFields
  <2>3. DeletedError(e, ctx) <=>
           \E k \in named : e = <<"deleting-referenced-component", k>> /\ ctx.exists # Unknown
    BY DEF DeletedError
  <2> HIDE DEF f, named
  <2> QED
    BY <2>1, <2>2, <2>3 DEF ErrorOf
<1>7. ErrorOf(e, A!DeletingFieldOnLayout(ctx)) <=> OnLayoutError(e, ctx)
  <2> DEFINE named(c) == {A!FieldKey(IF m.object = "" THEN c.object ELSE m.object, m.name) : m \in c.mentions}
                            \cap ctx.destructive
             f(c, k)  == A!Finding("deleting-field-referenced-by-inpackage-layout", "error", k, {c.key})
             found(c) == {f(c, k) : k \in named(c)}
             layouts  == {d \in A!OfType(ctx, {"Layout"}) : d.parses}
  <2>1. A!DeletingFieldOnLayout(ctx) = UNION {found(c) : c \in layouts}
    BY DEF A!DeletingFieldOnLayout
  <2>2. \A c, k : /\ f(c, k).id = "deleting-field-referenced-by-inpackage-layout"
                  /\ f(c, k).key = k /\ f(c, k).severity = "error"
    BY FindingFields
  <2>3. OnLayoutError(e, ctx) <=>
           \E c \in layouts : \E k \in named(c) : e = <<"deleting-field-referenced-by-inpackage-layout", k>>
    BY DEF OnLayoutError, Mentioned, A!OfType
  <2>4. ASSUME NEW c, NEW g PROVE g \in found(c) <=> \E k \in named(c) : g = f(c, k)
    OBVIOUS
  <2> HIDE DEF found, layouts, named, f
  <2> QED
    BY <2>1, <2>2, <2>3, <2>4 DEF ErrorOf
<1> QED
  BY <1>1, <1>2, <1>3, <1>4, <1>5, <1>6, <1>7 DEF ErrorOf

LEMMA FindingsOf ==
    ASSUME NEW ctx, NEW disabled, NEW throwing
    PROVE  \A f : f \in A!RunAnalyzers(ctx, disabled, throwing) <=>
              \E a \in {"coverage", "dependency", "permission", "hardcoded", "stale", "destructive"} \ disabled :
                 f \in (IF a \in throwing THEN {A!Finding(a, "info", A!NoKey, {})} ELSE A!Rules(ctx)[a])
<1>1. DOMAIN A!Rules(ctx) = {"coverage", "dependency", "permission", "hardcoded", "stale", "destructive"}
  BY DEF A!Rules
<1> QED
  BY <1>1 DEF A!RunAnalyzers

LEMMA ErrorsAre ==
    ASSUME NEW ctx
    PROVE  \A e : e \in Errors(ctx) <=> Reported(e, ctx)
<1> SUFFICES ASSUME NEW e PROVE e \in Errors(ctx) <=> Reported(e, ctx)
  OBVIOUS
<1>1. e \in Errors(ctx) <=> ErrorOf(e, A!RunAnalyzers(ctx, {}, {}))
  BY DEF Errors, ErrorOf
<1>2. \A f : f \in A!RunAnalyzers(ctx, {}, {}) <=>
         \/ f \in A!Rules(ctx).coverage \/ f \in A!Rules(ctx).dependency \/ f \in A!Rules(ctx).permission
         \/ f \in A!Rules(ctx).hardcoded \/ f \in A!Rules(ctx).stale \/ f \in A!Rules(ctx).destructive
  BY FindingsOf
<1> QED
  BY <1>1, <1>2, CoverageErrors, OtherErrors DEF ErrorOf, Reported

\* Of two contexts the first knows less.
KnowsLess(less, ctx) ==
    /\ \A types : A!OfType(less, types) # {} => A!OfType(ctx, types) # {}
    /\ A!GatedTarget(less) => /\ A!GatedTarget(ctx)
                              /\ less.target.coverage # Unknown => less.target.coverage = ctx.target.coverage
    /\ less.testLevel = Unknown \/ less.testLevel = ctx.testLevel
    /\ less.runTests = ctx.runTests /\ less.destructive = ctx.destructive
    /\ A!Keys(less) = A!Keys(ctx)
    /\ \A c \in less.package : c.parses => c \in ctx.package
    /\ \A c \in ctx.package : \A r \in A!ExtractReferences(c) :
          A!ExistsInTarget(less, r) = FALSE => A!ExistsInTarget(ctx, r) = FALSE
    /\ less.exists # Unknown => ctx.exists # Unknown
    /\ less.edges \subseteq ctx.edges

\* Who knows less reports no error that who knows more does not.
LEMMA LessKnownFewerErrors ==
    ASSUME NEW less, NEW ctx, KnowsLess(less, ctx), Unknown \notin {"NoTestRun", "RunSpecifiedTests"}
    PROVE  Errors(less) \subseteq Errors(ctx)
<1> SUFFICES ASSUME NEW e, Reported(e, less) PROVE Reported(e, ctx)
  BY ErrorsAre
<1>1. Gated(less) => Gated(ctx) /\ (less.target.coverage # Unknown => less.target.coverage = ctx.target.coverage)
  BY DEF KnowsLess, Gated, A!Apex
<1>2. ASSUME GateError(e, less) PROVE GateError(e, ctx)
  BY <1>1, <1>2 DEF KnowsLess, GateError
<1>3. ASSUME NoTestRunError(e, less) PROVE NoTestRunError(e, ctx)
  BY <1>1, <1>3 DEF KnowsLess, NoTestRunError
<1>4. ASSUME SpecifiedTestsError(e, less) PROVE SpecifiedTestsError(e, ctx)
  BY <1>4 DEF KnowsLess, SpecifiedTestsError
<1>5. ASSUME MissingError(e, less) PROVE MissingError(e, ctx)
  BY <1>5 DEF KnowsLess, MissingError
<1>6. ASSUME DeletedError(e, less) PROVE DeletedError(e, ctx)
  <2>1. \A k : A!Dependents(less, k) \subseteq A!Dependents(ctx, k)
    BY DEF KnowsLess, A!Dependents
  <2> QED
    BY <1>6, <2>1 DEF KnowsLess, DeletedError
<1>7. ASSUME OnLayoutError(e, less) PROVE OnLayoutError(e, ctx)
  BY <1>7 DEF KnowsLess, OnLayoutError
<1> QED
  BY <1>2, <1>3, <1>4, <1>5, <1>6, <1>7 DEF Reported

LEMMA GatedMeans ==
    ASSUME NEW ctx, Unknown \notin BOOLEAN
    PROVE  A!GatedTarget(ctx) <=> /\ ctx.target # Unknown /\ ctx.target.sandbox # Unknown
                                  /\ (~ctx.target.sandbox) = TRUE
  BY DEF A!GatedTarget, A!IsProductionLike

\* Whatever is forgotten, less is known.
LEMMA ForgottenIsLess ==
    ASSUME NEW ctx \in Contexts, NEW less \in Forgotten(ctx)
    PROVE  KnowsLess(less, ctx)
<1> USE ContextsAssumption
<1>1. DOMAIN ctx = {"package", "destructive", "target", "exists", "edges", "testLevel", "runTests"}
  OBVIOUS
<1>2. \A c \in ctx.package : {"key", "parses"} \subseteq DOMAIN c
  OBVIOUS
<1> DEFINE Same(fields) == \A f \in fields : less[f] = ctx[f]
           P == "package"
           TargetLess == A!GatedTarget(less) =>
                            /\ A!GatedTarget(ctx)
                            /\ less.target.coverage # Unknown => less.target.coverage = ctx.target.coverage
           ExistsLess == \A c \in ctx.package : \A r \in A!ExtractReferences(c) :
                            A!ExistsInTarget(less, r) = FALSE => A!ExistsInTarget(ctx, r) = FALSE
           PackageLess == /\ \A types : A!OfType(less, types) # {} => A!OfType(ctx, types) # {}
                          /\ A!Keys(less) = A!Keys(ctx)
                          /\ \A c \in less.package : c.parses => c \in ctx.package
<1>3. less.target = ctx.target => TargetLess
  BY GatedMeans
<1>4. less.exists = ctx.exists => ExistsLess
  BY DEF A!ExistsInTarget
<1>5. less.package = ctx.package => PackageLess
  BY DEF A!OfType, A!Keys
<1>6. ASSUME TargetLess, ExistsLess, PackageLess, less.testLevel = Unknown \/ less.testLevel = ctx.testLevel,
             less.runTests = ctx.runTests, less.destructive = ctx.destructive,
             less.exists # Unknown => ctx.exists # Unknown, less.edges \subseteq ctx.edges
      PROVE  KnowsLess(less, ctx)
  BY <1>6 DEF KnowsLess
<1>7. CASE less = [ctx EXCEPT !.target = Unknown]
  <2>1. less.target = Unknown
    BY <1>1, <1>7
  <2>2. ~A!GatedTarget(less)
    BY <2>1, GatedMeans
  <2>3. TargetLess
    BY <2>2
  <2> HIDE DEF TargetLess, ExistsLess, PackageLess
  <2> QED
    BY <1>1, <1>4, <1>5, <1>6, <1>7, <2>3
<1>8. CASE less = [ctx EXCEPT !.exists = Unknown]
  <2>1. ExistsLess
    BY <1>1, <1>8 DEF A!ExistsInTarget
  <2> HIDE DEF TargetLess, ExistsLess, PackageLess
  <2> QED
    BY <1>1, <1>3, <1>5, <1>6, <1>8, <2>1
<1>9. CASE less = [ctx EXCEPT !.edges = {}]
  <2> HIDE DEF TargetLess, ExistsLess, PackageLess
  <2> QED
    BY <1>1, <1>3, <1>4, <1>5, <1>6, <1>9
<1>10. CASE less = [ctx EXCEPT !.testLevel = Unknown]
  <2> HIDE DEF TargetLess, ExistsLess, PackageLess
  <2> QED
    BY <1>1, <1>3, <1>4, <1>5, <1>6, <1>10
<1>11. CASE less = [ctx EXCEPT !.package = {[c EXCEPT !.parses = FALSE] : c \in @}]
  <2> DEFINE silent(c) == [c EXCEPT !.parses = FALSE]
  <2>1. less.package = {silent(c) : c \in ctx.package}
    BY <1>1, <1>11
  <2>2. \A c \in ctx.package : silent(c).key = c.key /\ silent(c).parses = FALSE
    BY <1>2
  <2> HIDE DEF silent
  <2>3. PackageLess
    <3>1. A!Keys(less) = A!Keys(ctx)
      <4>1. \A k : k \in A!Keys(less) <=> \E c \in ctx.package : k = silent(c).key
        BY <2>1 DEF A!Keys
      <4>2. \A k : k \in A!Keys(ctx) <=> \E c \in ctx.package : k = c.key
        BY DEF A!Keys
      <4>3. \A k : k \in A!Keys(less) <=> k \in A!Keys(ctx)
        BY <2>2, <4>1, <4>2
      <4> QED
        BY <4>3
    <3>2. ASSUME NEW types, A!OfType(less, types) # {} PROVE A!OfType(ctx, types) # {}
      BY <2>1, <2>2, <3>2 DEF A!OfType
    <3>3. \A c \in less.package : c.parses => c \in ctx.package
      BY <2>1, <2>2
    <3> QED
      BY <3>1, <3>2, <3>3
  <2> HIDE DEF TargetLess, ExistsLess, PackageLess
  <2> QED
    BY <1>1, <1>3, <1>4, <1>6, <1>11, <2>3
<1>12. CASE ctx.target # Unknown /\ \E f \in DOMAIN ctx.target : less = [ctx EXCEPT !.target = [@ EXCEPT ![f] = Unknown]]
  <2>1. PICK f \in DOMAIN ctx.target : less = [ctx EXCEPT !.target = [@ EXCEPT ![f] = Unknown]]
    BY <1>12
  <2>2. less.target = [ctx.target EXCEPT ![f] = Unknown]
    BY <1>1, <2>1
  <2>3. {"sandbox", "coverage"} \subseteq DOMAIN ctx.target
    BY <1>12
  <2>4. /\ less.target.sandbox = Unknown \/ less.target.sandbox = ctx.target.sandbox
        /\ less.target.coverage = Unknown \/ less.target.coverage = ctx.target.coverage
    BY <2>2, <2>3
  <2>5. TargetLess
    BY <1>12, <2>4, GatedMeans
  <2> HIDE DEF TargetLess, ExistsLess, PackageLess
  <2> QED
    BY <1>1, <1>4, <1>5, <1>6, <2>1, <2>5
<1>13. CASE ctx.exists # Unknown /\ \E k \in DOMAIN ctx.exists : less = [ctx EXCEPT !.exists = [@ EXCEPT ![k] = Unknown]]
  <2>1. PICK k \in DOMAIN ctx.exists : less = [ctx EXCEPT !.exists = [@ EXCEPT ![k] = Unknown]]
    BY <1>13
  <2>2. less.exists = [ctx.exists EXCEPT ![k] = Unknown]
    BY <1>1, <2>1
  <2>3. \A r \in DOMAIN ctx.exists : less.exists[r] = Unknown \/ less.exists[r] = ctx.exists[r]
    BY <2>2
  <2>4. ExistsLess
    BY <1>13, <2>3 DEF A!ExistsInTarget
  <2> HIDE DEF TargetLess, ExistsLess, PackageLess
  <2> QED
    BY <1>1, <1>3, <1>5, <1>6, <1>13, <2>1, <2>4
<1> QED
  BY <1>7, <1>8, <1>9, <1>10, <1>11, <1>12, <1>13 DEF Forgotten

LEMMA StubsReferToNothing == \A key : A!ExtractReferences(Stub(key)) = {}
<1> SUFFICES ASSUME NEW key PROVE A!ExtractReferences(Stub(key)) = {}
  OBVIOUS
<1>1. Stub(key).mentions = {} /\ Stub(key).recordTypes = {}
  BY DEF Stub
<1>2. A!Plain(Stub(key)) = {} /\ A!FormulaTokens(Stub(key)) = {}
  BY <1>1 DEF A!Plain, A!FormulaTokens
<1> QED
  BY <1>1, <1>2 DEF A!ExtractReferences

\* What the autofix adds settles every missing reference.
LEMMA AutofixSettles ==
    ASSUME NEW ctx \in Contexts
    PROVE  A!MissingReference(Completed(ctx)) = {}
<1> DEFINE all == Completed(ctx)
           added == {Stub(k) : k \in UNION {A!Autofix(ctx, f) : f \in A!MissingReference(ctx)}}
           gone(x, c) == {r \in A!ExtractReferences(c) \ A!Keys(x) : A!ExistsInTarget(x, r) = FALSE}
           found(x, c) == {A!Finding("missing-reference", A!Severity(r), c.key, {r}) : r \in gone(x, c)}
           parsed(x) == {d \in x.package : d.parses}
<1>1. \A x : A!MissingReference(x) = UNION {found(x, c) : c \in parsed(x)}
  BY DEF A!MissingReference
<1>2. all.package = ctx.package \cup added /\ all.exists = ctx.exists
  BY ContextsAssumption DEF Completed
<1>3. ASSUME NEW c \in parsed(all), NEW r \in gone(all, c) PROVE FALSE
  <2>1. c \in ctx.package
    <3>1. c \notin added
      BY <1>3, StubsReferToNothing
    <3> QED
      BY <1>2, <3>1
  <2>2. r \notin A!Keys(ctx) /\ A!ExistsInTarget(ctx, r) = FALSE
    BY <1>2 DEF A!Keys, A!ExistsInTarget
  <2>3. A!Finding("missing-reference", A!Severity(r), c.key, {r}) \in A!MissingReference(ctx)
    <3>1. r \in gone(ctx, c) /\ c \in parsed(ctx)
      BY <2>1, <2>2
    <3>2. A!Finding("missing-reference", A!Severity(r), c.key, {r}) \in found(ctx, c)
      BY <3>1
    <3> HIDE DEF found, parsed
    <3> QED
      BY <1>1, <3>1, <3>2
  <2>4. r \in A!Autofix(ctx, A!Finding("missing-reference", A!Severity(r), c.key, {r}))
    BY FindingFields DEF A!Autofix
  <2>5. Stub(r) \in added
    BY <2>3, <2>4
  <2>6. Stub(r).key = r
    BY DEF Stub
  <2>7. r \in A!Keys(all)
    BY <1>2, <2>5, <2>6 DEF A!Keys
  <2> QED
    BY <2>7
<1>4. \A c \in parsed(all) : found(all, c) = {}
  BY <1>3
<1> HIDE DEF found, parsed
<1> QED
  BY <1>1, <1>4

\* Not knowing is no error, an analyzer that throws hides nothing of the others, and
\* the autofix settles what it was offered for (registry.ts:61-90,
\* dependency-rules.ts:49-174, coverage-rules.ts:42-319, destructive-rules.ts:37-133).
THEOREM ErrorsAreEvidenced == ASpec => []ErrorsNeedEvidence
<1>1. AskedOK => ErrorsNeedEvidence
  <2> SUFFICES ASSUME AskedOK, Asking("analysis") PROVE ErrorsNeedEvidence!2
    BY DEF ErrorsNeedEvidence
  <2>1. question \in Contexts
    BY DEF AskedOK, Posed
  <2>2. \A less \in Forgotten(question) : Errors(less) \subseteq Errors(question)
    BY <2>1, ForgottenIsLess, LessKnownFewerErrors, ContextsAssumption
  <2>3. \A a : A!RunAnalyzers(question, {a}, {}) \subseteq A!RunAnalyzers(question, {}, {a})
    BY FindingsOf
  <2>4. A!MissingReference(Completed(question)) = {}
    BY <2>1, AutofixSettles
  <2> QED
    BY <2>2, <2>3, <2>4
<1> QED
  BY <1>1, QuestionsArePosed, PTL

-----------------------------------------------------------------------------
\* Walks: g has nodes, edges among them, the direction they are walked in, and seeds.

Along(g, x) == G!Next1(g.edges, x, g.direction)
AlongAny(g, X) == UNION {Along(g, x) : x \in X}
Closed(g) == g.seeds \subseteq g.nodes /\ \A x \in g.nodes : Along(g, x) \subseteq g.nodes
Route(g, p, n) == p \in [0 .. n -> g.nodes] /\ \A i \in 1 .. n : p[i] \in Along(g, p[i - 1])
\* Where the paths of a length end, within how many steps, and which no shorter one leads to.
Ends(g, n) == {y \in g.nodes : \E p \in [0 .. n -> g.nodes] : p[0] \in g.seeds /\ p[n] = y /\ Route(g, p, n)}
Within(g, n) == {y \in g.nodes : \E m \in 0 .. n : y \in Ends(g, m)}
Fresh(g, n) == {y \in Ends(g, n) : \A m \in 0 .. n - 1 : y \notin Ends(g, m)}

LEMMA EndsFromSeeds == ASSUME NEW g, Closed(g) PROVE Ends(g, 0) = g.seeds
<1>1. ASSUME NEW y \in g.seeds PROVE y \in Ends(g, 0)
  <2> DEFINE p == [i \in 0 .. 0 |-> y]
  <2>1. p \in [0 .. 0 -> g.nodes] /\ p[0] = y /\ Route(g, p, 0)
    BY DEF Closed, Route
  <2> HIDE DEF p
  <2> QED
    BY <2>1 DEF Ends, Closed
<1>2. Ends(g, 0) \subseteq g.seeds
  BY DEF Ends
<1> QED
  BY <1>1, <1>2

LEMMA EndsAlong ==
    ASSUME NEW g, Closed(g), NEW n \in Nat PROVE Ends(g, n + 1) = AlongAny(g, Ends(g, n))
<1>1. ASSUME NEW y \in Ends(g, n + 1) PROVE y \in AlongAny(g, Ends(g, n))
  <2>1. PICK p \in [0 .. n + 1 -> g.nodes] : p[0] \in g.seeds /\ p[n + 1] = y /\ Route(g, p, n + 1)
    BY <1>1 DEF Ends
  <2> DEFINE q == [i \in 0 .. n |-> p[i]]
  <2>2. q \in [0 .. n -> g.nodes] /\ q[0] = p[0] /\ q[n] = p[n] /\ Route(g, q, n)
    BY <2>1 DEF Route
  <2>3. p[n] \in Ends(g, n)
    <3> HIDE DEF q
    <3> QED
      BY <2>1, <2>2 DEF Ends
  <2>4. y \in Along(g, p[n])
    BY <2>1 DEF Route
  <2> QED
    BY <2>3, <2>4 DEF AlongAny
<1>2. ASSUME NEW x \in Ends(g, n), NEW y \in Along(g, x) PROVE y \in Ends(g, n + 1)
  <2>1. PICK p \in [0 .. n -> g.nodes] : p[0] \in g.seeds /\ p[n] = x /\ Route(g, p, n)
    BY DEF Ends
  <2> DEFINE q == [i \in 0 .. n + 1 |-> IF i = n + 1 THEN y ELSE p[i]]
  <2>2. y \in g.nodes
    BY DEF Ends, Closed
  <2>3. q \in [0 .. n + 1 -> g.nodes] /\ q[0] = p[0] /\ q[n + 1] = y
    BY <2>1, <2>2
  <2>4. \A i \in 1 .. n + 1 : q[i] \in Along(g, q[i - 1])
    <3> SUFFICES ASSUME NEW i \in 1 .. n + 1 PROVE q[i] \in Along(g, q[i - 1])
      OBVIOUS
    <3>1. q[i - 1] = p[i - 1]
      OBVIOUS
    <3>2. CASE i = n + 1
      <4>1. q[i] = y /\ q[i - 1] = x
        BY <2>1, <3>1, <3>2
      <4> QED
        BY <4>1
    <3>3. CASE i \in 1 .. n
      <4>1. q[i] = p[i] /\ p[i] \in Along(g, p[i - 1])
        BY <2>1, <3>3 DEF Route
      <4> HIDE DEF q
      <4> QED
        BY <3>1, <4>1
    <3> QED
      BY <3>2, <3>3
  <2> HIDE DEF q
  <2> QED
    BY <2>1, <2>2, <2>3, <2>4 DEF Ends, Route
<1> QED
  BY <1>1, <1>2 DEF AlongAny

\* One level of the search: what is new is a step away from what was new before.
LEMMA OneLevelOn ==
    ASSUME NEW g, Closed(g), NEW n \in Nat
    PROVE  /\ Fresh(g, n + 1) = AlongAny(g, Fresh(g, n)) \ Within(g, n)
           /\ Within(g, n + 1) = Within(g, n) \cup AlongAny(g, Fresh(g, n))
           /\ Within(g, n + 1) = Within(g, n) \cup Fresh(g, n + 1)
<1>1. ASSUME NEW y PROVE y \in Within(g, n) <=> \E m \in 0 .. n : y \in Ends(g, m)
  BY DEF Within, Ends
<1>2. \A y : y \in Within(g, n + 1) <=> y \in Within(g, n) \/ y \in Ends(g, n + 1)
  <2>1. \A y : y \in Within(g, n + 1) <=> \E m \in 0 .. n + 1 : y \in Ends(g, m)
    BY DEF Within, Ends
  <2> QED
    BY <1>1, <2>1
<1>3. \A y : y \in Fresh(g, n + 1) <=> y \in Ends(g, n + 1) /\ y \notin Within(g, n)
  BY <1>1 DEF Fresh
<1>4. ASSUME NEW x \in Ends(g, n), x \notin Fresh(g, n), NEW y \in Along(g, x) PROVE y \in Within(g, n)
  <2>1. PICK m \in 0 .. n - 1 : x \in Ends(g, m)
    BY <1>4 DEF Fresh
  <2>2. y \in Ends(g, m + 1)
    BY <2>1, EndsAlong DEF AlongAny
  <2> QED
    BY <1>1, <2>2
<1>5. \A y : y \in Ends(g, n + 1) => y \in Within(g, n) \/ y \in AlongAny(g, Fresh(g, n))
  BY <1>4, EndsAlong DEF AlongAny
<1>6. \A y : y \in AlongAny(g, Fresh(g, n)) => y \in Ends(g, n + 1)
  BY EndsAlong DEF AlongAny, Fresh
<1> QED
  BY <1>2, <1>3, <1>5, <1>6

LEMMA NoLevelYet ==
    ASSUME NEW g, Closed(g) PROVE Fresh(g, 0) = g.seeds /\ Within(g, 0) = g.seeds
<1>1. \A m : m \in 0 .. 0 <=> m = 0
  OBVIOUS
<1> QED
  BY <1>1, EndsFromSeeds DEF Fresh, Within, Closed

\* What a level of the search has found.
Found(g, n) == {f \in [key : g.nodes, depth : 1 .. n] : f.key \in Fresh(g, f.depth)}

LEMMA FoundOneLevelOn ==
    ASSUME NEW g, NEW n \in Nat
    PROVE  /\ Found(g, 0) = {}
           /\ Found(g, n + 1) = Found(g, n) \cup {[key |-> k, depth |-> n + 1] : k \in Fresh(g, n + 1)}
<1>1. Found(g, 0) = {}
  BY DEF Found
<1>2. \A m : Fresh(g, m) \subseteq g.nodes
  BY DEF Fresh, Ends
<1>3. ASSUME NEW f \in Found(g, n + 1), f \notin Found(g, n)
      PROVE  f \in {[key |-> k, depth |-> n + 1] : k \in Fresh(g, n + 1)}
  <2>1. f.depth = n + 1
    BY <1>3 DEF Found
  <2>2. f = [key |-> f.key, depth |-> n + 1] /\ f.key \in Fresh(g, n + 1)
    BY <2>1 DEF Found
  <2> QED
    BY <2>2
<1>4. ASSUME NEW f \in Found(g, n) PROVE f \in Found(g, n + 1)
  BY DEF Found
<1>5. ASSUME NEW k \in Fresh(g, n + 1) PROVE [key |-> k, depth |-> n + 1] \in Found(g, n + 1)
  BY <1>2 DEF Found
<1> QED
  BY <1>1, <1>3, <1>4, <1>5

\* The search finds what is fresh at each level up to its depth.
LEMMA ImpactIsFresh ==
    ASSUME NEW g, Closed(g), NEW depth \in Nat
    PROVE  G!TransitiveImpact(g.edges, g.seeds, g.direction, depth) = Found(g, depth)
<1> DEFINE next(last, n) ==
               LET new == AlongAny(g, last.frontier) \ last.visited
               IN  [visited  |-> last.visited \cup new, frontier |-> new,
                    found    |-> last.found \cup {[key |-> k, depth |-> n] : k \in new}]
           first == [visited |-> g.seeds, frontier |-> g.seeds, found |-> {}]
           level(n) == [visited |-> Within(g, n), frontier |-> Fresh(g, n), found |-> Found(g, n)]
           Is(f) == f = [n \in 0 .. depth |-> IF n = 0 THEN first ELSE next(f[n - 1], n)]
           witness == [n \in 0 .. depth |-> level(n)]
<1>1. level(0) = first
  BY NoLevelYet, FoundOneLevelOn
<1>2. ASSUME NEW n \in 1 .. depth PROVE level(n) = next(level(n - 1), n)
  <2> DEFINE m == n - 1
             new == AlongAny(g, Fresh(g, m)) \ Within(g, m)
  <2>1. m \in Nat /\ m + 1 = n
    OBVIOUS
  <2>2. new = Fresh(g, n) /\ Within(g, n) = Within(g, m) \cup new
        /\ Found(g, n) = Found(g, m) \cup {[key |-> k, depth |-> n] : k \in new}
    <3> HIDE DEF m
    <3> QED
      BY <2>1, OneLevelOn, FoundOneLevelOn
  <2>3. next(level(m), n) = [visited |-> Within(g, m) \cup new, frontier |-> new,
                             found |-> Found(g, m) \cup {[key |-> k, depth |-> n] : k \in new}]
    OBVIOUS
  <2> HIDE DEF new, next
  <2> QED
    BY <2>2, <2>3
<1>3. Is(witness)
  <2> HIDE DEF level, next, first
  <2> QED
    BY <1>1, <1>2
<1>4. ASSUME NEW f, Is(f) PROVE f[depth] = level(depth)
  <2> DEFINE agree == {n \in 0 .. depth : f[n] = level(n)}
  <2> HIDE DEF level, next, first
  <2>1. f[0] = first /\ \A n \in 1 .. depth : f[n] = next(f[n - 1], n)
    BY <1>4
  <2>2. ASSUME NEW n \in 0 .. depth, \A m \in 0 .. n - 1 : m \in agree PROVE n \in agree
    BY <1>1, <1>2, <2>1, <2>2
  <2>3. agree = 0 .. depth
    BY <2>2, UpTo
  <2> QED
    BY <2>3
<1>5. G!TransitiveImpact(g.edges, g.seeds, g.direction, depth) = (CHOOSE f : Is(f))[depth].found
  BY DEF G!TransitiveImpact, AlongAny, Along
<1> HIDE DEF Is
<1>6. Is(CHOOSE f : Is(f))
  BY <1>3
<1> QED
  BY <1>4, <1>5, <1>6

\* As many levels as there are nodes are enough: while something is fresh, a
\* level has reached a node more than the one before it.
LEMMA LevelsGrow ==
    ASSUME NEW g, Closed(g), IsFiniteSet(g.nodes), NEW N \in Nat, Fresh(g, N) # {}
    PROVE  N + 1 <= Cardinality(g.nodes)
<1> DEFINE P == {n \in 0 .. N : Fresh(g, n) # {} => n + 1 <= Cardinality(Within(g, n))}
<1>1. \A n : IsFiniteSet(Within(g, n)) /\ Cardinality(Within(g, n)) \in Nat
             /\ Cardinality(Within(g, n)) <= Cardinality(g.nodes)
  <2>1. \A n : Within(g, n) \subseteq g.nodes
    BY DEF Within
  <2> QED
    BY <2>1, FS_Subset, FS_CardinalityType
<1>2. ASSUME NEW n \in 0 .. N, \A m \in 0 .. n - 1 : m \in P PROVE n \in P
  <2> SUFFICES ASSUME Fresh(g, n) # {} PROVE n + 1 <= Cardinality(Within(g, n))
    OBVIOUS
  <2>1. CASE n = 0
    <3>1. Within(g, n) # {}
      BY <2>1, NoLevelYet
    <3> QED
      BY <1>1, <2>1, <3>1, FS_EmptySet
  <2>2. CASE n # 0
    <3> DEFINE m == n - 1
    <3>1. m \in Nat /\ m \in 0 .. n - 1 /\ m + 1 = n
      BY <2>2
    <3> HIDE DEF m
    <3>2. PICK y \in Fresh(g, n) : y \notin Within(g, m) /\ Within(g, m) \cup {y} \subseteq Within(g, n)
      BY <3>1, OneLevelOn
    <3>3. Fresh(g, m) # {}
      BY <3>1, OneLevelOn DEF AlongAny
    <3>4. m + 1 <= Cardinality(Within(g, m))
      BY <1>2, <3>1, <3>3
    <3>5. Cardinality(Within(g, m) \cup {y}) = Cardinality(Within(g, m)) + 1
      BY <1>1, <3>2, FS_AddElement
    <3>6. Cardinality(Within(g, m) \cup {y}) <= Cardinality(Within(g, n))
      BY <1>1, <3>2, FS_Subset
    <3> QED
      BY <1>1, <3>1, <3>4, <3>5, <3>6
  <2> QED
    BY <2>1, <2>2
<1>3. P = 0 .. N
  <2>1. P \in SUBSET (0 .. N)
    OBVIOUS
  <2> HIDE DEF P
  <2> QED
    BY <1>2, <2>1, UpTo
<1>4. N + 1 <= Cardinality(Within(g, N))
  BY <1>3
<1> QED
  BY <1>1, <1>4, FS_CardinalityType

LEMMA DeepEnough ==
    ASSUME NEW g, Closed(g), IsFiniteSet(g.nodes), NEW d \in Nat, NEW e \in Nat,
           d >= Cardinality(g.nodes), e >= Cardinality(g.nodes)
    PROVE  Found(g, d) = Found(g, e)
<1>1. \A n \in Nat : n > d \/ n > e => Fresh(g, n) = {}
  BY LevelsGrow, FS_CardinalityType
<1>2. ASSUME NEW f \in Found(g, d) PROVE f \in Found(g, e)
  BY <1>1 DEF Found
<1>3. ASSUME NEW f \in Found(g, e) PROVE f \in Found(g, d)
  BY <1>1 DEF Found
<1> QED
  BY <1>2, <1>3

\* What is found is what some path leads to, at the length of the shortest.
LEMMA FoundIsShortest ==
    ASSUME NEW g, Closed(g), NEW depth \in Nat
    PROVE  LET Reached(y) == {n \in 1 .. depth : y \in Ends(g, n)}
           IN  Found(g, depth) = {[key |-> y, depth |-> Min(Reached(y))] :
                                    y \in {z \in g.nodes \ g.seeds : Reached(z) # {}}}
<1> DEFINE Reached(y) == {n \in 1 .. depth : y \in Ends(g, n)}
           reached == {z \in g.nodes \ g.seeds : Reached(z) # {}}
<1>1. ASSUME NEW y, Reached(y) # {}
      PROVE  Min(Reached(y)) \in Reached(y) /\ \A n \in Reached(y) : Min(Reached(y)) <= n
  <2>1. Reached(y) \in SUBSET Nat
    OBVIOUS
  <2>2. \E m \in Reached(y) : \A n \in Reached(y) : m <= n
    <3> HIDE DEF Reached
    <3> QED
      BY <1>1, <2>1, LeastElement
  <2> HIDE DEF Reached
  <2> QED
    BY <2>2 DEF Min
<1>2. ASSUME NEW y, NEW m \in 1 .. depth
      PROVE  y \in Fresh(g, m) <=> y \in reached /\ m = Min(Reached(y))
  <2>1. y \in Fresh(g, m) <=> y \in Ends(g, m) /\ y \notin g.seeds /\ \A n \in 1 .. m - 1 : y \notin Ends(g, n)
    <3>1. \A n : n \in 0 .. m - 1 <=> n = 0 \/ n \in 1 .. m - 1
      OBVIOUS
    <3> QED
      BY <3>1, EndsFromSeeds DEF Fresh
  <2>2. ASSUME y \in Ends(g, m), \A n \in 1 .. m - 1 : y \notin Ends(g, n) PROVE m = Min(Reached(y))
    <3>1. m \in Reached(y)
      BY <2>2
    <3>2. \A n \in Reached(y) : n \in 1 .. depth /\ ~(n < m)
      BY <2>2
    <3> DEFINE k == Min(Reached(y))
    <3>3. k \in Reached(y) /\ k <= m
      <4> HIDE DEF Reached
      <4> QED
        BY <1>1, <3>1
    <3> HIDE DEF Reached, k
    <3>4. k \in 1 .. depth /\ ~(k < m)
      BY <3>2, <3>3
    <3>5. m = k
      BY <3>3, <3>4
    <3> QED
      BY <3>5 DEF k
  <2>3. ASSUME y \in reached, m = Min(Reached(y))
        PROVE  y \in Ends(g, m) /\ \A n \in 1 .. m - 1 : y \notin Ends(g, n)
    <3>1. m \in Reached(y) /\ \A n \in Reached(y) : m <= n
      <4> HIDE DEF Reached
      <4> QED
        BY <1>1, <2>3
    <3> QED
      BY <3>1
  <2>4. y \in Ends(g, m) => y \in g.nodes /\ Reached(y) # {}
    BY DEF Ends
  <2> HIDE DEF Reached
  <2> QED
    BY <2>1, <2>2, <2>3, <2>4
<1>3. ASSUME NEW f \in Found(g, depth)
      PROVE  f.key \in reached /\ f = [key |-> f.key, depth |-> Min(Reached(f.key))]
  <2>1. f.depth \in 1 .. depth /\ f.key \in Fresh(g, f.depth) /\ f = [key |-> f.key, depth |-> f.depth]
    BY DEF Found
  <2> HIDE DEF Reached, reached
  <2> QED
    BY <1>2, <2>1
<1>4. ASSUME NEW y \in reached PROVE [key |-> y, depth |-> Min(Reached(y))] \in Found(g, depth)
  <2>1. Min(Reached(y)) \in 1 .. depth
    <3>1. Min(Reached(y)) \in Reached(y)
      BY <1>1
    <3> QED
      BY <3>1
  <2> DEFINE m == Min(Reached(y))
  <2>2. y \in Fresh(g, m) /\ y \in g.nodes
    <3> HIDE DEF Reached
    <3> QED
      BY <1>2, <2>1
  <2> HIDE DEF m, Reached
  <2>3. m \in 1 .. depth
    BY <2>1 DEF m
  <2> QED
    BY <2>2, <2>3 DEF Found, m
<1>5. Found(g, depth) = {[key |-> y, depth |-> Min(Reached(y))] : y \in reached}
  <2> HIDE DEF Reached, reached
  <2> QED
    BY <1>3, <1>4
<1> QED
  BY <1>5

\* A node is seen from some level exactly when a path of at least a step leads to it.
Seen(g, to, n) == \E m \in 0 .. n - 1 : to \in AlongAny(g, Fresh(g, m))

LEMMA SeenIsReached ==
    ASSUME NEW g, Closed(g), NEW to, NEW depth \in Nat
    PROVE  Seen(g, to, depth) <=> \E n \in 1 .. depth : to \in Ends(g, n)
<1>1. ASSUME NEW m \in 0 .. depth - 1, to \in AlongAny(g, Fresh(g, m))
      PROVE  m + 1 \in 1 .. depth /\ to \in Ends(g, m + 1)
  BY <1>1, EndsAlong DEF AlongAny, Fresh
<1>2. ASSUME NEW n \in 1 .. depth, to \in Ends(g, n) PROVE Seen(g, to, depth)
  <2> DEFINE T == {k \in 1 .. depth : to \in Ends(g, k)}
  <2>1. T \in SUBSET Nat /\ T # {}
    BY <1>2
  <2>2. \E m \in T : \A k \in T : m <= k
    <3> HIDE DEF T
    <3> QED
      BY <2>1, LeastElement
  <2>3. PICK m \in T : \A k \in T : m <= k
    BY <2>2
  <2> DEFINE l == m - 1
  <2>4. l \in Nat /\ l + 1 = m /\ l \in 0 .. depth - 1
    OBVIOUS
  <2>5. to \in AlongAny(g, Ends(g, l))
    <3> HIDE DEF l
    <3> QED
      BY <2>3, <2>4, EndsAlong
  <2>6. PICK x \in Ends(g, l) : to \in Along(g, x)
    BY <2>5 DEF AlongAny
  <2>7. x \in Fresh(g, l)
    <3> SUFFICES ASSUME NEW k \in 0 .. l - 1, x \in Ends(g, k) PROVE FALSE
      BY DEF Fresh
    <3>1. to \in Ends(g, k + 1)
      BY <2>6, EndsAlong DEF AlongAny
    <3>2. k + 1 \in T /\ k + 1 < m
      BY <3>1
    <3> QED
      BY <2>3, <3>2
  <2> QED
    BY <2>4, <2>6, <2>7 DEF Seen, AlongAny
<1> QED
  BY <1>1, <1>2 DEF Seen

LEMMA ReferencesAreSeen ==
    ASSUME NEW g, Closed(g), NEW from, g.seeds = {from}, g.direction = "forward", NEW to, NEW depth \in Nat
    PROVE  G!References(g.edges, from, to, depth) =
               IF \E n \in 1 .. depth : to \in Ends(g, n) THEN "confirmed" ELSE "no-recorded-edge"
<1> DEFINE next(last, n) ==
               LET seen == AlongAny(g, last.frontier)
               IN  [visited   |-> last.visited \cup seen, frontier |-> seen \ last.visited,
                    confirmed |-> last.confirmed \/ to \in seen]
           first == [visited |-> {from}, frontier |-> {from}, confirmed |-> FALSE]
           level(n) == [visited |-> Within(g, n), frontier |-> Fresh(g, n), confirmed |-> Seen(g, to, n)]
           Is(f) == f = [n \in 0 .. depth |-> IF n = 0 THEN first ELSE next(f[n - 1], n)]
           witness == [n \in 0 .. depth |-> level(n)]
<1>1. level(0) = first
  <2>1. Seen(g, to, 0) = FALSE
    BY DEF Seen
  <2> QED
    BY <2>1, NoLevelYet
<1>2. ASSUME NEW n \in 1 .. depth PROVE level(n) = next(level(n - 1), n)
  <2> DEFINE m == n - 1
             seen == AlongAny(g, Fresh(g, m))
  <2>1. m \in Nat /\ m + 1 = n
    OBVIOUS
  <2>2. seen \ Within(g, m) = Fresh(g, n) /\ Within(g, n) = Within(g, m) \cup seen
    <3> HIDE DEF m
    <3> QED
      BY <2>1, OneLevelOn
  <2>3. Seen(g, to, n) = (Seen(g, to, m) \/ to \in seen)
    <3>1. \A k : k \in 0 .. n - 1 <=> k = m \/ k \in 0 .. m - 1
      OBVIOUS
    <3>2. Seen(g, to, n) <=> Seen(g, to, m) \/ to \in seen
      <4> HIDE DEF m
      <4> QED
        BY <2>1, <3>1 DEF Seen
    <3> QED
      BY <3>2 DEF Seen
  <2>4. next(level(m), n) = [visited |-> Within(g, m) \cup seen, frontier |-> seen \ Within(g, m),
                             confirmed |-> Seen(g, to, m) \/ to \in seen]
    OBVIOUS
  <2> HIDE DEF seen, next
  <2> QED
    BY <2>2, <2>3, <2>4
<1>3. Is(witness)
  <2> HIDE DEF level, next, first
  <2> QED
    BY <1>1, <1>2
<1>4. ASSUME NEW f, Is(f) PROVE f[depth] = level(depth)
  <2> DEFINE agree == {n \in 0 .. depth : f[n] = level(n)}
  <2> HIDE DEF level, next, first
  <2>1. f[0] = first /\ \A n \in 1 .. depth : f[n] = next(f[n - 1], n)
    BY <1>4
  <2>2. ASSUME NEW n \in 0 .. depth, \A m \in 0 .. n - 1 : m \in agree PROVE n \in agree
    BY <1>1, <1>2, <2>1, <2>2
  <2>3. agree = 0 .. depth
    BY <2>2, UpTo
  <2> QED
    BY <2>3
<1>5. G!References(g.edges, from, to, depth) =
        IF (CHOOSE f : Is(f))[depth].confirmed THEN "confirmed" ELSE "no-recorded-edge"
  BY DEF G!References, AlongAny, Along
<1> HIDE DEF Is
<1>6. Is(CHOOSE f : Is(f))
  BY <1>3
<1>7. (CHOOSE f : Is(f))[depth] = level(depth)
  BY <1>4, <1>6
<1>8. (CHOOSE f : Is(f))[depth].confirmed = Seen(g, to, depth)
  BY <1>7
<1> QED
  BY <1>5, <1>8, SeenIsReached

\* The edges a sync keeps for a walk, and what they say of two components: what an
\* answered edge of no excluded namespace says, or what a component read mentions.
Synced(walk) == G!SyncedEdges(walk.answered, walk.components, walk.excluded, walk.managed)
KeptNs(walk, ns) == ns = G!NoNamespace \/ (~walk.managed /\ ns \notin walk.excluded)
RefersIn(walk, x, y) ==
    \/ \E e \in walk.answered : e.from = x /\ e.to = y /\ KeptNs(walk, e.fromNs) /\ KeptNs(walk, e.toNs)
    \/ \E c \in walk.components : c.key = x /\ y \in c.names

LEMMA EdgeFields ==
    ASSUME NEW from, NEW to, NEW provenance, NEW fromNs, NEW toNs
    PROVE  /\ G!Edge(from, to, provenance, fromNs, toNs).from = from
           /\ G!Edge(from, to, provenance, fromNs, toNs).to = to
  BY DEF G!Edge

LEMMA ExtractedSays ==
    ASSUME NEW c PROVE \A x, y : (\E e \in G!ExtractEdges(c) : e.from = x /\ e.to = y) <=> x = c.key /\ y \in c.names
<1> DEFINE f(k) == G!Edge(c.key, k, "supplemented", G!ExtractNamespaceHeuristic(c.key.fullName),
                          G!ExtractNamespaceHeuristic(k.fullName))
<1>1. G!ExtractEdges(c) = {f(k) : k \in c.names}
  BY DEF G!ExtractEdges
<1>2. \A k : f(k).from = c.key /\ f(k).to = k
  BY EdgeFields
<1> HIDE DEF f
<1> QED
  BY <1>1, <1>2

LEMMA SyncedSays ==
    ASSUME NEW walk
    PROVE  \A x, y : (\E e \in Synced(walk) : e.from = x /\ e.to = y) <=> RefersIn(walk, x, y)
<1> DEFINE plain == G!FilterEdgesByNamespace(walk.answered, walk.excluded, walk.managed)
           read  == UNION {G!ExtractEdges(c) : c \in walk.components}
<1>1. Synced(walk) = plain \cup read
  BY DEF Synced, G!SyncedEdges
<1>2. plain = {e \in walk.answered : KeptNs(walk, e.fromNs) /\ KeptNs(walk, e.toNs)}
  BY DEF G!FilterEdgesByNamespace, KeptNs
<1> SUFFICES ASSUME NEW x, NEW y
             PROVE  (\E e \in Synced(walk) : e.from = x /\ e.to = y) <=> RefersIn(walk, x, y)
  OBVIOUS
<1>3. (\E e \in read : e.from = x /\ e.to = y) <=> \E c \in walk.components : c.key = x /\ y \in c.names
  <2>1. (\E e \in read : e.from = x /\ e.to = y)
           <=> \E c \in walk.components : \E e \in G!ExtractEdges(c) : e.from = x /\ e.to = y
    OBVIOUS
  <2>2. \A c : (\E e \in G!ExtractEdges(c) : e.from = x /\ e.to = y) <=> x = c.key /\ y \in c.names
    BY ExtractedSays
  <2> HIDE DEF read
  <2> QED
    BY <2>1, <2>2
<1>4. (\E e \in plain : e.from = x /\ e.to = y)
         <=> \E e \in walk.answered : e.from = x /\ e.to = y /\ KeptNs(walk, e.fromNs) /\ KeptNs(walk, e.toNs)
  BY <1>2
<1> HIDE DEF plain, read
<1> QED
  BY <1>1, <1>3, <1>4 DEF RefersIn

\* What a walk asks: its own nodes are finitely many and hold whatever it reaches.
NodesOf(walk) == (UNION {{e.from, e.to} : e \in walk.answered})
                     \cup (UNION {{c.key} \cup c.names : c \in walk.components}) \cup walk.seeds
Stepped(walk, x, y) == IF walk.direction = "forward" THEN RefersIn(walk, x, y) ELSE RefersIn(walk, y, x)
Walked(walk, seeds) == [nodes |-> NodesOf(walk), edges |-> Synced(walk), direction |-> walk.direction, seeds |-> seeds]

LEMMA NodesAreFinite == ASSUME NEW walk \in Walks PROVE IsFiniteSet(NodesOf(walk))
<1> DEFINE ends(e)     == {e.from, e.to}
           mentions(c) == {c.key} \cup c.names
           ofEdges     == {ends(e) : e \in walk.answered}
           ofRead      == {mentions(c) : c \in walk.components}
<1>1. /\ IsFiniteSet(walk.answered) /\ IsFiniteSet(walk.components) /\ IsFiniteSet(walk.seeds)
      /\ \A c \in walk.components : IsFiniteSet(c.names)
  BY WalksAssumption
<1>2. IsFiniteSet(ofEdges) /\ IsFiniteSet(ofRead)
  <2>1. [e \in walk.answered |-> ends(e)] \in Surjection(walk.answered, ofEdges)
    BY DEF Surjection
  <2>2. [c \in walk.components |-> mentions(c)] \in Surjection(walk.components, ofRead)
    BY DEF Surjection
  <2> HIDE DEF ofEdges, ofRead
  <2> QED
    BY <1>1, <2>1, <2>2, FS_Surjection
<1>3. \A S \in ofEdges : IsFiniteSet(S)
  <2>1. \A e : IsFiniteSet(ends(e))
    <3> SUFFICES ASSUME NEW e PROVE IsFiniteSet({e.from} \cup {e.to})
      <4>1. \A e : ends(e) = {e.from} \cup {e.to}
        OBVIOUS
      <4> QED
        BY <4>1
    <3> QED
      BY FS_Singleton, FS_Union
  <2> HIDE DEF ends
  <2> QED
    BY <2>1
<1>4. \A S \in ofRead : IsFiniteSet(S)
  <2>1. \A c \in walk.components : IsFiniteSet(mentions(c))
    BY <1>1, FS_Singleton, FS_Union
  <2> HIDE DEF mentions
  <2> QED
    BY <2>1
<1>5. NodesOf(walk) = ((UNION ofEdges) \cup (UNION ofRead)) \cup walk.seeds
  BY DEF NodesOf
<1>6. IsFiniteSet(UNION ofEdges) /\ IsFiniteSet(UNION ofRead)
  <2> HIDE DEF ofEdges, ofRead
  <2> QED
    BY <1>2, <1>3, <1>4, FS_UNION
<1> HIDE DEF ofEdges, ofRead
<1> QED
  BY <1>1, <1>5, <1>6, FS_Union

LEMMA StepsAlong ==
    ASSUME NEW walk \in Walks, NEW seeds PROVE \A x, y : y \in Along(Walked(walk, seeds), x) <=> Stepped(walk, x, y)
<1> SUFFICES ASSUME NEW x, NEW y PROVE y \in Along(Walked(walk, seeds), x) <=> Stepped(walk, x, y)
  OBVIOUS
<1> DEFINE kept == Synced(walk)
<1>1. \A a, b : (\E e \in kept : e.from = a /\ e.to = b) <=> RefersIn(walk, a, b)
  BY SyncedSays
<1>2. Along(Walked(walk, seeds), x) = G!Next1(kept, x, walk.direction)
  BY DEF Along, Walked
<1> HIDE DEF kept
<1>3. y \in G!Next1(kept, x, walk.direction) <=>
         IF walk.direction = "forward" THEN \E e \in kept : e.from = x /\ e.to = y
         ELSE \E e \in kept : e.from = y /\ e.to = x
  BY DEF G!Next1, G!Forward, G!Reverse
<1> QED
  BY <1>1, <1>2, <1>3 DEF Stepped

LEMMA WalksAreClosed ==
    ASSUME NEW walk \in Walks, NEW seeds, seeds \subseteq walk.seeds PROVE Closed(Walked(walk, seeds))
<1>1. \A x, y : Stepped(walk, x, y) => y \in NodesOf(walk)
  <2>1. \A x, y : RefersIn(walk, x, y) => x \in NodesOf(walk) /\ y \in NodesOf(walk)
    BY DEF RefersIn, NodesOf
  <2> QED
    BY <2>1 DEF Stepped
<1>2. seeds \subseteq NodesOf(walk)
  BY DEF NodesOf
<1>3. Walked(walk, seeds).nodes = NodesOf(walk) /\ Walked(walk, seeds).seeds = seeds
  BY DEF Walked
<1> QED
  BY <1>1, <1>2, <1>3, StepsAlong DEF Closed

PathOf(walk, x, y, n) ==
    \E p \in [0 .. n -> NodesOf(walk)] : p[0] = x /\ p[n] = y /\ \A i \in 1 .. n : Stepped(walk, p[i - 1], p[i])

LEMMA EndsArePaths ==
    ASSUME NEW walk \in Walks, NEW seeds, seeds \subseteq walk.seeds, NEW y \in NodesOf(walk), NEW n \in Nat
    PROVE  y \in Ends(Walked(walk, seeds), n) <=> \E x \in seeds : PathOf(walk, x, y, n)
<1> DEFINE g == Walked(walk, seeds)
<1>1. g.nodes = NodesOf(walk) /\ g.seeds = seeds
  BY DEF Walked
<1>2. \A a, b : b \in Along(g, a) <=> Stepped(walk, a, b)
  BY StepsAlong
<1> HIDE DEF g
<1>3. y \in Ends(g, n) <=> \E p \in [0 .. n -> NodesOf(walk)] :
         p[0] \in seeds /\ p[n] = y /\ \A i \in 1 .. n : Stepped(walk, p[i - 1], p[i])
  BY <1>1, <1>2 DEF Ends, Route
<1> QED
  BY <1>3 DEF PathOf, g

\* Impact is reachability, references are confirmed by paths, and the two ways of
\* asking for an edge agree (graph.ts:41-153, drizzle-dependency-graph.ts:38-73,
\* dependencies.ts:342-408).
THEOREM ImpactReachesAll == ASpec => []ImpactIsReachability
<1>1. AskedOK => ImpactIsReachability
  <2> SUFFICES ASSUME AskedOK, Asking("impact") PROVE ImpactIsReachability
    BY DEF ImpactIsReachability
  <2> DEFINE Kept(ns) == ns = G!NoNamespace \/ (~question.managed /\ ns \notin question.excluded)
             Refers(x, y) ==
                 \/ \E e \in question.answered : e.from = x /\ e.to = y /\ Kept(e.fromNs) /\ Kept(e.toNs)
                 \/ \E c \in question.components : c.key = x /\ y \in c.names
             nodes == (UNION {{e.from, e.to} : e \in question.answered})
                          \cup (UNION {{c.key} \cup c.names : c \in question.components}) \cup question.seeds
             synced == G!SyncedEdges(question.answered, question.components, question.excluded, question.managed)
             rows  == {[connection |-> "asked", edge |-> e] : e \in synced}
                          \cup {[connection |-> "other", edge |-> [e EXCEPT !.from = e.to, !.to = e.from]] : e \in synced}
             Step(x, y) == IF question.direction = "forward" THEN Refers(x, y) ELSE Refers(y, x)
             Path(x, y, n) == \E p \in [0 .. n -> nodes] : p[0] = x /\ p[n] = y /\ \A i \in 1 .. n : Step(p[i - 1], p[i])
             Reached(y) == {n \in 1 .. question.depth : \E x \in question.seeds : Path(x, y, n)}
             g == Walked(question, question.seeds)
             queried(d) == G!QueryImpact(rows, "asked", question.seeds, question.direction, d)
  <2>1. question \in Walks /\ question.depth \in Nat \ {0} /\ question.direction \in {"forward", "reverse"}
    BY WalksAssumption DEF AskedOK, Posed
  <2>2. nodes = NodesOf(question) /\ synced = Synced(question)
    BY DEF NodesOf, Synced
  <2>3. \A x, y, n : Path(x, y, n) <=> PathOf(question, x, y, n)
    BY DEF PathOf, NodesOf, Stepped, RefersIn, KeptNs
  <2>4. G!GraphOf(rows, "asked") = synced
    <3> DEFINE asked_(e) == [connection |-> "asked", edge |-> e]
               other(e)  == [connection |-> "other", edge |-> [e EXCEPT !.from = e.to, !.to = e.from]]
    <3>1. rows = {asked_(e) : e \in synced} \cup {other(e) : e \in synced}
      OBVIOUS
    <3>2. \A e : asked_(e).connection = "asked" /\ asked_(e).edge = e /\ other(e).connection = "other"
      OBVIOUS
    <3>3. "asked" # "other"
      OBVIOUS
    <3> HIDE DEF rows, synced, asked_, other
    <3>4. \A r : r \in rows /\ r.connection = "asked" <=> \E e \in synced : r = asked_(e)
      BY <3>1, <3>2, <3>3
    <3>5. \A e : e \in G!GraphOf(rows, "asked") <=> \E r \in rows : r.connection = "asked" /\ e = r.edge
      BY DEF G!GraphOf
    <3>6. \A e : e \in G!GraphOf(rows, "asked") <=> e \in synced
      BY <3>2, <3>4, <3>5
    <3> QED
      BY <3>6
  <2>5. /\ Closed(g) /\ g.nodes = nodes /\ g.seeds = question.seeds
        /\ g.edges = synced /\ g.direction = question.direction /\ IsFiniteSet(nodes)
    BY <2>1, <2>2, WalksAreClosed, NodesAreFinite DEF Walked
  <2>6. \A d \in Nat : queried(d) = Found(g, G!Depth(d))
    <3>1. \A d \in Nat : G!Depth(d) \in Nat
      BY DEF G!Depth, G!DefaultMaxDepth
    <3>2. \A d : queried(d) = G!TransitiveImpact(g.edges, g.seeds, g.direction, G!Depth(d))
      BY <2>4, <2>5 DEF G!QueryImpact
    <3> HIDE DEF g, queried
    <3> QED
      BY <2>5, <3>1, <3>2, ImpactIsFresh
  <2>7. \A y \in nodes : Reached(y) = {n \in 1 .. question.depth : y \in Ends(g, n)}
    <3>1. \A y \in nodes, n \in Nat : y \in Ends(g, n) <=> \E x \in question.seeds : Path(x, y, n)
      <4>1. question.seeds \subseteq question.seeds
        OBVIOUS
      <4>2. \A y \in NodesOf(question), n \in Nat :
               y \in Ends(g, n) <=> \E x \in question.seeds : PathOf(question, x, y, n)
        BY <2>1, <4>1, EndsArePaths
      <4> HIDE DEF nodes, Path, g, synced
      <4> QED
        BY <2>2, <2>3, <4>2
    <3> HIDE DEF Path, g, nodes
    <3> QED
      BY <2>1, <3>1
  <2>8. queried(question.depth) =
          {[key |-> y, depth |-> Min(Reached(y))] : y \in {z \in nodes \ question.seeds : Reached(z) # {}}}
    <3> DEFINE reached(y) == {n \in 1 .. question.depth : y \in Ends(g, n)}
    <3>1. Found(g, question.depth) =
            {[key |-> y, depth |-> Min(reached(y))] : y \in {z \in g.nodes \ g.seeds : reached(z) # {}}}
      <4> HIDE DEF g
      <4> QED
        BY <2>1, <2>5, FoundIsShortest
    <3>2. queried(question.depth) = Found(g, question.depth)
      <4>1. G!Depth(question.depth) = question.depth
        BY <2>1 DEF G!Depth
      <4> HIDE DEF queried, g
      <4> QED
        BY <2>1, <2>6, <4>1
    <3>3. \A y \in nodes : Reached(y) = reached(y)
      BY <2>7
    <3> HIDE DEF queried, g, reached, Reached, nodes
    <3> QED
      BY <2>5, <3>1, <3>2, <3>3
  <2>9. ASSUME question.depth >= Cardinality(nodes), G!DefaultMaxDepth >= Cardinality(nodes)
        PROVE  queried(0) = queried(question.depth)
    <3>1. G!Depth(0) = G!DefaultMaxDepth /\ G!Depth(question.depth) = question.depth /\ G!DefaultMaxDepth \in Nat
      BY <2>1 DEF G!Depth, G!DefaultMaxDepth
    <3> HIDE DEF queried, g, nodes
    <3>2. Found(g, G!DefaultMaxDepth) = Found(g, question.depth)
      BY <2>1, <2>5, <2>9, <3>1, DeepEnough
    <3> QED
      BY <2>1, <2>6, <3>1, <3>2
  <2>10. ASSUME question.direction = "forward", NEW x \in question.seeds, NEW y \in nodes
         PROVE  /\ (G!QueryReferences(rows, "asked", x, y, question.depth) = "confirmed")
                       = (\E n \in 1 .. question.depth : Path(x, y, n))
                /\ {e \in G!QueryForward(rows, "asked", x) : e.to = y} =
                       {e \in G!QueryReverse(rows, "asked", y) : e.from = x}
    <3> DEFINE from == Walked(question, {x})
               confirmed == \E n \in 1 .. question.depth : y \in Ends(from, n)
    <3>1. Closed(from) /\ from.seeds = {x} /\ from.direction = "forward" /\ from.edges = synced
      BY <2>1, <2>2, <2>10, WalksAreClosed DEF Walked
    <3>2. G!Depth(question.depth) = question.depth
      BY <2>1 DEF G!Depth
    <3>3. G!QueryReferences(rows, "asked", x, y, question.depth) =
            IF confirmed THEN "confirmed" ELSE "no-recorded-edge"
      <4>1. G!QueryReferences(rows, "asked", x, y, question.depth) = G!References(from.edges, x, y, question.depth)
        BY <2>4, <3>1, <3>2 DEF G!QueryReferences
      <4> HIDE DEF from, rows, synced
      <4>2. question.depth \in Nat
        BY <2>1
      <4>3. G!References(from.edges, x, y, question.depth) = IF confirmed THEN "confirmed" ELSE "no-recorded-edge"
        BY <3>1, <4>2, ReferencesAreSeen
      <4> QED
        BY <4>1, <4>3
    <3>4. confirmed <=> \E n \in 1 .. question.depth : Path(x, y, n)
      <4>1. \A n \in Nat : y \in Ends(from, n) <=> PathOf(question, x, y, n)
        <5>1. {x} \subseteq question.seeds /\ \A n : (\E w \in {x} : PathOf(question, w, y, n)) <=> PathOf(question, x, y, n)
          OBVIOUS
        <5>2. y \in NodesOf(question)
          BY <2>2
        <5> QED
          BY <2>1, <5>1, <5>2, EndsArePaths
      <4> HIDE DEF from, Path
      <4> QED
        BY <2>1, <2>3, <4>1
    <3>5. (G!QueryReferences(rows, "asked", x, y, question.depth) = "confirmed")
             = (\E n \in 1 .. question.depth : Path(x, y, n))
      <4> HIDE DEF rows, confirmed, Path
      <4> QED
        BY <3>3, <3>4
    <3>6. {e \in G!QueryForward(rows, "asked", x) : e.to = y} = {e \in G!QueryReverse(rows, "asked", y) : e.from = x}
      <4> HIDE DEF rows
      <4> QED
        BY DEF G!QueryForward, G!QueryReverse, G!Forward, G!Reverse
    <3> QED
      BY <3>5, <3>6
  <2> QED
    BY <2>8, <2>9, <2>10 DEF ImpactIsReachability
<1> QED
  BY <1>1, QuestionsArePosed, PTL

=============================================================================
