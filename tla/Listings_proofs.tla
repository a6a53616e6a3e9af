----------------------------- MODULE Listings_proofs -----------------------------
(***************************************************************************)
(* What is listed and what is chosen of it, proved for any input: a        *)
(* package is what was checked, and two sides with the same components     *)
(* list the same.                                                          *)
(***************************************************************************)
EXTENDS Algorithms_proofs

-----------------------------------------------------------------------------
\* Packages: the order of what is deployed, and what is deployed.

\* The instances share the library's operators.
LEMMA PackagesSpeakTheSame ==
    /\ \A S : K!Cardinality(S) = Cardinality(S)
    /\ \A S, before : K!Sorted(S, before) = Sorted(S, before)
    /\ \A list, set : K!Only(list, set) = Only(list, set)
    /\ \A list : K!ToSet(list) = ToSet(list)
<1>1. \A S : K!Cardinality(S) = Cardinality(S)
  BY DEF K!Cardinality, Cardinality
<1>2. \A S, before : K!Sorted(S, before) = Sorted(S, before)
  BY <1>1 DEF K!Sorted, Sorted
<1>3. \A list, set : K!Only(list, set) = Only(list, set)
  BY DEF K!Only, Only
<1>4. \A list : K!ToSet(list) = ToSet(list)
  BY DEF K!ToSet, ToSet
<1> QED
  BY <1>1, <1>2, <1>3, <1>4

\* A set that two numbers are known of has an element that is first by the one and,
\* among those, by the other.
LEMMA LexLeast ==
    ASSUME NEW T, T # {}, NEW f \in [T -> Nat], NEW g \in [T -> Nat]
    PROVE  \E x \in T : \A y \in T : f[x] < f[y] \/ (f[x] = f[y] /\ g[x] <= g[y])
<1> DEFINE U == {f[x] : x \in T}
<1>1. U \in SUBSET Nat /\ U # {}
  OBVIOUS
<1>2. (\A x \in T : f[x] \in U) /\ \A m \in U : \E x \in T : f[x] = m
  OBVIOUS
<1> HIDE DEF U
<1>3. PICK a \in U : \A m \in U : a <= m
  BY <1>1, LeastElement
<1> DEFINE V == {g[x] : x \in {y \in T : f[y] = a}}
<1>4. V \in SUBSET Nat /\ V # {}
  BY <1>2
<1>5. (\A x \in T : f[x] = a => g[x] \in V) /\ \A m \in V : \E x \in T : f[x] = a /\ g[x] = m
  OBVIOUS
<1> HIDE DEF V
<1>6. PICK b \in V : \A m \in V : b <= m
  BY <1>4, LeastElement
<1>7. PICK x \in T : f[x] = a /\ g[x] = b
  BY <1>5
<1>8. ASSUME NEW y \in T PROVE f[x] < f[y] \/ (f[x] = f[y] /\ g[x] <= g[y])
  <2>1. a <= f[y] /\ a \in Nat /\ f[y] \in Nat
    BY <1>1, <1>2, <1>3
  <2>2. f[y] = a => b <= g[y]
    BY <1>5, <1>6
  <2> QED
    BY <1>7, <2>1, <2>2
<1> QED
  BY <1>8

\* The type's place in the table is a number, whatever the type.
LEMMA TypesHaveAnOrder == \A type : K!OrderIndex(type) \in Nat
<1> TAKE type
<1>1. Len(K!TypeDeployOrder) = 4 /\ DOMAIN K!TypeDeployOrder = 1 .. 4
  BY DEF K!TypeDeployOrder
<1>2. CASE type \in K!ToSet(K!TypeDeployOrder)
  <2>1. \E i \in DOMAIN K!TypeDeployOrder : K!TypeDeployOrder[i] = type
    BY <1>2 DEF K!ToSet
  <2> DEFINE place == CHOOSE i \in DOMAIN K!TypeDeployOrder : K!TypeDeployOrder[i] = type
  <2>2. place \in DOMAIN K!TypeDeployOrder
    BY <2>1
  <2>3. K!OrderIndex(type) = place
    BY <1>2 DEF K!OrderIndex
  <2> HIDE DEF place
  <2> QED
    BY <1>1, <2>2, <2>3
<1>3. CASE type \notin K!ToSet(K!TypeDeployOrder)
  BY <1>1, <1>3 DEF K!OrderIndex
<1> QED
  BY <1>2, <1>3

\* TopologicalOrder is a stable sort: it lists what it is given, in order.
LEMMA PackagesAreOrdered ==
    ASSUME NEW C, NEW components \in Seq(C), \A c \in ToSet(components) : c.name \in Nat
    PROVE  /\ K!TopologicalOrder(components) \in Seq(C)
           /\ Len(K!TopologicalOrder(components)) = Len(components)
           /\ ToSet(K!TopologicalOrder(components)) = ToSet(components)
           /\ Ordered(K!TopologicalOrder(components))
           /\ IsInjective(components) => IsInjective(K!TopologicalOrder(components))
<1> DEFINE N == Len(components)
           S == 1 .. N
           Earlier(i, j) == K!Before(components[i], components[j])
           before == {p \in S \X S : Earlier(p[1], p[2]) \/ (p[1] < p[2] /\ ~Earlier(p[2], p[1]))}
           order == Sorted(S, before)
           list == K!TopologicalOrder(components)
<1>1. N \in Nat /\ DOMAIN components = S /\ components \in [S -> C]
  OBVIOUS
<1>2. list = [n \in S |-> components[order[n]]]
  <2> DEFINE places == DOMAIN components
             sooner == {p \in places \X places :
                           \/ K!Before(components[p[1]], components[p[2]])
                           \/ p[1] < p[2] /\ ~K!Before(components[p[2]], components[p[1]])}
  <2>1. list = [n \in places |-> components[K!Sorted(places, sooner)[n]]]
    BY DEF K!TopologicalOrder
  <2>2. sooner = before /\ places = S
    BY <1>1
  <2>3. K!Sorted(S, before) = order
    BY PackagesSpeakTheSame
  <2> HIDE DEF list, sooner, places, before, order, S
  <2> QED
    BY <2>1, <2>2, <2>3
<1> DEFINE f == [i \in S |-> K!OrderIndex(components[i].type)]
           g == [i \in S |-> components[i].name]
<1>3. f \in [S -> Nat] /\ g \in [S -> Nat]
  <2>1. \A i \in S : components[i] \in ToSet(components)
    BY <1>1 DEF ToSet
  <2> QED
    BY <2>1, TypesHaveAnOrder
<1>4. \A i, j \in S : Earlier(i, j) <=> f[i] < f[j] \/ (f[i] = f[j] /\ g[i] < g[j])
  BY DEF K!Before
<1>5. \A i, j \in S : <<i, j>> \in before <=> Earlier(i, j) \/ (i < j /\ ~Earlier(j, i))
  OBVIOUS
<1> HIDE DEF list, f, g, Earlier, before, N
<1>6. WellSorted(S, before)
  <2> SUFFICES ASSUME NEW T \in SUBSET S, T # {}
               PROVE  \E x \in T : \A y \in T : <<y, x>> \notin before
    BY DEF WellSorted
  <2> DEFINE ft == [i \in T |-> f[i]]
             gt == [i \in T |-> g[i]]
  <2>1. ft \in [T -> Nat] /\ gt \in [T -> Nat]
    BY <1>3
  <2>2. (\A i \in T : ft[i] = f[i]) /\ \A i \in T : gt[i] = g[i]
    OBVIOUS
  <2> HIDE DEF ft, gt
  <2>3. PICK z \in T : \A y \in T : ft[z] < ft[y] \/ (ft[z] = ft[y] /\ gt[z] <= gt[y])
    BY <2>1, LexLeast
  <2> DEFINE U == {i \in T : f[i] = f[z] /\ g[i] = g[z]}
  <2>4. U \in SUBSET Nat /\ U # {}
    <3>1. z \in U
      OBVIOUS
    <3>2. \A i \in S : i \in Nat
      BY <1>1
    <3> QED
      BY <3>1, <3>2
  <2>5. PICK x \in U : \A y \in U : x <= y
    <3> HIDE DEF U
    <3> QED
      BY <2>4, LeastElement
  <2>6. ASSUME NEW y \in T PROVE <<y, x>> \notin before
    <3>1. f[x] = f[z] /\ g[x] = g[z] /\ x \in S /\ y \in S
      BY <2>5
    <3>2. f[x] \in Nat /\ g[x] \in Nat /\ f[y] \in Nat /\ g[y] \in Nat
      BY <1>3, <3>1
    <3>3. f[x] < f[y] \/ (f[x] = f[y] /\ g[x] <= g[y])
      BY <2>2, <2>3, <3>1
    <3>4. f[x] = f[y] /\ g[x] = g[y] => x <= y
      BY <2>5, <3>1
    <3>5. ~Earlier(y, x)
      BY <1>4, <3>1, <3>2, <3>3
    <3>6. y < x => Earlier(x, y)
      <4>1. x \in Nat /\ y \in Nat
        BY <1>1, <3>1
      <4> QED
        BY <1>4, <3>1, <3>2, <3>3, <3>4, <4>1
    <3> QED
      BY <1>5, <3>1, <3>5, <3>6
  <2>7. x \in T
    BY <2>5
  <2> QED
    BY <2>6, <2>7
<1>7. IsFiniteSet(S) /\ Cardinality(S) = N
  <2>1. 1 \in Int /\ N \in Int
    BY <1>1
  <2>2. Cardinality(1 .. N) = IF 1 > N THEN 0 ELSE N - 1 + 1
    BY <2>1, FS_Interval
  <2> QED
    BY <1>1, <2>1, <2>2, FS_Interval
<1>8. /\ Lists(order, S) /\ Len(order) = N
      /\ \A i, j \in S : i < j => <<order[j], order[i]>> \notin before
  <2> HIDE DEF S
  <2>1. /\ Lists(order, S)
        /\ \A i, j \in 1 .. Len(order) : i < j => <<order[j], order[i]>> \notin before
    BY <1>6, <1>7, SortedLists
  <2>2. Len(order) = N
    BY <1>7, <2>1, ListsAreAsLong
  <2> QED
    BY <2>1, <2>2 DEF S
<1> HIDE DEF order
<1>9. DOMAIN order = S /\ (\A n \in S : order[n] \in S) /\ \A i \in S : \E n \in S : order[n] = i
  <2> HIDE DEF S
  <2>1. DOMAIN order = 1 .. N /\ (\A n \in 1 .. N : order[n] \in S) /\ \A i \in S : \E n \in 1 .. N : order[n] = i
    BY <1>8, ListFacts
  <2> QED
    BY <2>1 DEF S
<1>10. list \in Seq(C) /\ Len(list) = N /\ DOMAIN list = S /\ \A n \in S : list[n] = components[order[n]]
  <2>1. list \in [1 .. N -> C]
    BY <1>1, <1>2, <1>9
  <2> QED
    BY <1>1, <1>2, <2>1
<1>11. ToSet(list) = ToSet(components)
  <2>1. ASSUME NEW c PROVE c \in ToSet(list) <=> c \in ToSet(components)
    <3>1. c \in ToSet(list) <=> \E n \in S : components[order[n]] = c
      BY <1>10 DEF ToSet
    <3>2. c \in ToSet(components) <=> \E i \in S : components[i] = c
      BY <1>1 DEF ToSet
    <3> QED
      BY <1>9, <3>1, <3>2
  <2> QED
    BY <2>1
<1>12. Ordered(list)
  <2> SUFFICES ASSUME NEW i \in S, NEW j \in S, i < j PROVE ~K!Before(list[j], list[i])
    BY <1>10 DEF Ordered
  <2>1. ~Earlier(order[j], order[i])
    <3>1. order[i] \in S /\ order[j] \in S /\ <<order[j], order[i]>> \notin before
      BY <1>8, <1>9
    <3> QED
      BY <1>5, <3>1
  <2> QED
    BY <1>10, <2>1 DEF Earlier
<1>13. IsInjective(components) => IsInjective(list)
  <2> SUFFICES ASSUME IsInjective(components), NEW i \in S, NEW j \in S, list[i] = list[j] PROVE i = j
    BY <1>10 DEF IsInjective
  <2>1. components[order[i]] = components[order[j]] /\ order[i] \in S /\ order[j] \in S
    BY <1>9, <1>10
  <2>2. order[i] = order[j]
    BY <1>1, <2>1 DEF IsInjective
  <2> QED
    BY <1>8, <1>9, <2>2 DEF IsInjective, Lists
<1> QED
  BY <1>10, <1>11, <1>12, <1>13 DEF list, N

\* What a comparison found of each key, and which of them have one of some statuses.
KeysOfRows(q) == {r.key : r \in q.results}
FoundAs(q, statuses) == {r.key : r \in {s \in q.results : s.status \in statuses}}

LEMMA RowsAreTold ==
    ASSUME NEW q \in Selections
    PROVE  /\ IsFiniteSet(q.results)
           /\ \A r \in q.results : r.key.name \in Nat /\ r.status \in {"new", "changed", "deleted", "identical"}
           /\ \A r, s \in q.results : K!Id(r.key) = K!Id(s.key) => r = s
           /\ Lists(q.keys, ToSet(q.keys)) /\ KeysOfRows(q) \subseteq ToSet(q.keys)
  BY SelectionsAssumption DEF Lists, KeysOfRows

\* BuildPackage of keys of the results: what it deploys and deletes is what was found
\* new or changed, and deleted, of them; the row, the manifest and the XML agree.
PackageOf(pkg, q, sent, id) ==
    /\ pkg = [id |-> id, name |-> id, components |-> pkg.components, destructiveComponents |-> pkg.destructiveComponents]
    /\ Lists(pkg.components, sent \cap FoundAs(q, {"new", "changed"})) /\ Ordered(pkg.components)
    /\ Lists(pkg.destructiveComponents, sent \cap FoundAs(q, {"deleted"}))
BuiltOf(built, q, sent, id, mode) ==
    /\ PackageOf(built.row.pkg, q, sent, id)
    /\ built.row.mode = mode /\ built.manifest = K!ToManifest(built.row.pkg, mode)
    /\ built.xml = K!GeneratePackageXml(ToSet(built.row.pkg.components), ToSet(built.row.pkg.destructiveComponents), mode)

LEMMA PackageIsAsSent ==
    ASSUME NEW q \in Selections, NEW sent, NEW keys, Lists(keys, sent), sent \subseteq KeysOfRows(q), NEW id, NEW mode
    PROVE  BuiltOf(K!BuildPackage(id, keys, q.results, mode), q, sent, id, mode)
<1> DEFINE built == K!BuildPackage(id, keys, q.results, mode)
           pkg == built.row.pkg
           status == K!LoadDiffResultsByKey(q.results, keys)
           Of(statuses) == {k \in ToSet(keys) : K!Id(k) \in DOMAIN status /\ status[K!Id(k)] \in statuses}
           Take(statuses) == Only(keys, Of(statuses))
           result == [id |-> id, name |-> id, components |-> K!TopologicalOrder(Take({"new", "changed"})),
                      destructiveComponents |-> Take({"deleted"})]
<1>1. ToSet(keys) = sent
  BY DEF Lists
<1>2. \A k \in sent : \A r \in q.results : r.key = k => K!Id(k) \in DOMAIN status /\ status[K!Id(k)] = r.status
  <2> TAKE k \in sent
  <2> TAKE r \in q.results
  <2> HAVE r.key = k
  <2> DEFINE rows == {x \in q.results : x.key.type \in {j.type : j \in K!ToSet(keys)}}
  <2>1. r \in rows
    BY <1>1, PackagesSpeakTheSame
  <2>2. status = [i \in {K!Id(x.key) : x \in rows} |-> (CHOOSE x \in rows : K!Id(x.key) = i).status]
    BY DEF K!LoadDiffResultsByKey
  <2>3. rows \subseteq q.results
    OBVIOUS
  <2> HIDE DEF rows, status
  <2> DEFINE chosen == CHOOSE x \in rows : K!Id(x.key) = K!Id(k)
  <2>4. chosen \in rows /\ K!Id(chosen.key) = K!Id(k)
    BY <2>1
  <2>5. K!Id(k) \in {K!Id(x.key) : x \in rows}
    BY <2>1
  <2>6. K!Id(k) \in DOMAIN status /\ status[K!Id(k)] = chosen.status
    BY <2>2, <2>5
  <2> HIDE DEF chosen
  <2>7. chosen = r
    BY <2>1, <2>3, <2>4, RowsAreTold
  <2> QED
    BY <2>6, <2>7
<1>3. ASSUME NEW statuses PROVE sent \cap Of(statuses) = sent \cap FoundAs(q, statuses)
  <2>1. ASSUME NEW k \in sent PROVE k \in Of(statuses) <=> k \in FoundAs(q, statuses)
    <3>1. PICK r \in q.results : r.key = k
      BY DEF KeysOfRows
    <3>2. k \in Of(statuses) <=> r.status \in statuses
      BY <1>1, <1>2, <3>1
    <3>3. k \in FoundAs(q, statuses) <=> r.status \in statuses
      BY <3>1, RowsAreTold DEF FoundAs
    <3> QED
      BY <3>2, <3>3
  <2> QED
    BY <2>1
<1>4. \A statuses : Lists(Take(statuses), sent \cap FoundAs(q, statuses))
  <2> TAKE statuses
  <2>1. Lists(Only(keys, Of(statuses)), sent \cap Of(statuses))
    BY OnlyLists
  <2> QED
    BY <1>3, <2>1
<1>5. Lists(K!TopologicalOrder(Take({"new", "changed"})), sent \cap FoundAs(q, {"new", "changed"}))
      /\ Ordered(K!TopologicalOrder(Take({"new", "changed"})))
  <2> DEFINE C == sent \cap FoundAs(q, {"new", "changed"})
             taken == Take({"new", "changed"})
  <2>1. Lists(taken, C)
    BY <1>4
  <2>2. \A c \in C : c.name \in Nat
    BY RowsAreTold DEF KeysOfRows
  <2> HIDE DEF C, taken
  <2>3. taken \in Seq(C) /\ ToSet(taken) = C /\ IsInjective(taken)
    BY <2>1 DEF Lists
  <2>4. Lists(K!TopologicalOrder(taken), C) /\ Ordered(K!TopologicalOrder(taken))
    BY <2>2, <2>3, PackagesAreOrdered DEF Lists
  <2> QED
    BY <2>4 DEF C, taken
<1>6. built = [row |-> [pkg |-> result, mode |-> mode], manifest |-> K!ToManifest(result, mode),
               xml |-> K!GeneratePackageXml(K!ToSet(result.components), K!ToSet(result.destructiveComponents), mode)]
  BY PackagesSpeakTheSame DEF K!BuildPackage
<1>7. result.components = K!TopologicalOrder(Take({"new", "changed"})) /\ result.destructiveComponents = Take({"deleted"})
  OBVIOUS
<1>8. result = [id |-> id, name |-> id, components |-> result.components, destructiveComponents |-> result.destructiveComponents]
  BY <1>7
<1> HIDE DEF result, Take, built
<1>9. pkg = result
  BY <1>6
<1>10. built.row.mode = mode /\ built.manifest = K!ToManifest(result, mode)
       /\ built.xml = K!GeneratePackageXml(ToSet(result.components), ToSet(result.destructiveComponents), mode)
  BY <1>6, PackagesSpeakTheSame
<1>11. PackageOf(pkg, q, sent, id)
  BY <1>4, <1>5, <1>7, <1>8, <1>9 DEF PackageOf
<1> QED
  BY <1>9, <1>10, <1>11 DEF BuiltOf, built

\* What a package of results does where it is deployed.
LEMMA TheTargetBecomesTheSource ==
    ASSUME NEW q \in Selections, NEW pkg,
           ToSet(pkg.components) \subseteq FoundAs(q, {"new", "changed"}),
           ToSet(pkg.destructiveComponents) \subseteq FoundAs(q, {"deleted"})
    PROVE  TargetBecomesSource(q.results, pkg)
<1> DEFINE wizard == [source |-> "desired", target |-> "current"]
           sides  == K!ToServerSides(wizard)
           run    == K!Connections(sides)
           Holds(right, r) ==
               CASE r.status = IF right THEN "deleted" ELSE "new" -> Missing
                 [] r.status = "identical"                        -> "same"
                 [] OTHER                                         -> IF right THEN "right" ELSE "left"
           world  == [org \in {"desired", "current"} |->
                         [k \in {r.key : r \in q.results} |->
                             Holds(org = sides.right, CHOOSE r \in q.results : r.key = k)]]
           chosen == ToSet(pkg.components) \cup ToSet(pkg.destructiveComponents)
           after  == [world EXCEPT !.current = [k \in DOMAIN @ |-> world[IF k \in chosen THEN "desired" ELSE "current"][k]]]
<1>1. sides = [left |-> "current", right |-> "desired"] /\ run = [target |-> "current", source |-> "desired"]
      /\ K!Labels(sides) = wizard
  BY DEF K!ToServerSides, K!Connections, K!Labels
<1>2. \A r \in q.results : world["desired"][r.key] = Holds(TRUE, r) /\ world["current"][r.key] = Holds(FALSE, r)
  <2> TAKE r \in q.results
  <2> DEFINE c == CHOOSE x \in q.results : x.key = r.key
  <2>1. c \in q.results /\ c.key = r.key
    OBVIOUS
  <2>2. c = r
    BY <2>1, RowsAreTold
  <2>3. r.key \in {x.key : x \in q.results}
    OBVIOUS
  <2>4. world["desired"][r.key] = Holds("desired" = sides.right, c) /\ world["current"][r.key] = Holds("current" = sides.right, c)
    BY <2>3
  <2>5. ("desired" = sides.right) = TRUE /\ ("current" = sides.right) = FALSE
    BY <1>1
  <2> HIDE DEF c, world, Holds, sides
  <2> QED
    BY <2>2, <2>4, <2>5
<1>3. DOMAIN world = {"desired", "current"} /\ DOMAIN world["current"] = KeysOfRows(q)
  BY DEF KeysOfRows
<1>4. \A r \in q.results :
          /\ r.status = "deleted" => Holds(TRUE, r) = Missing
          /\ r.status \in {"new", "changed"} => Holds(TRUE, r) = "right"
  OBVIOUS
<1> HIDE DEF world, Holds, sides, run
<1> DEFINE Target(k) == IF k \in K!ToSet(pkg.destructiveComponents) THEN Missing
                        ELSE IF k \in K!ToSet(pkg.components) /\ world["desired"][k] # Missing THEN world["desired"][k]
                        ELSE world["current"][k]
           Expected(k) == world[IF k \in chosen THEN "desired" ELSE "current"][k]
<1>5. ASSUME NEW k \in KeysOfRows(q) PROVE Target(k) = Expected(k)
  <2>1. PICK r \in q.results : r.key = k
    BY DEF KeysOfRows
  <2>2. \A statuses : k \in FoundAs(q, statuses) <=> r.status \in statuses
    BY <2>1, RowsAreTold DEF FoundAs
  <2>3. k \in ToSet(pkg.components) => r.status \in {"new", "changed"} /\ world["desired"][k] = "right"
    BY <1>2, <1>4, <2>1, <2>2
  <2>4. k \in ToSet(pkg.destructiveComponents) => r.status = "deleted" /\ world["desired"][k] = Missing
    BY <1>2, <1>4, <2>1, <2>2
  <2>5. Missing # "right"
    BY SelectionsAssumption
  <2> QED
    BY <2>3, <2>4, <2>5, PackagesSpeakTheSame
<1>6. K!Deployed(world, run, pkg) = [world EXCEPT !["current"] = [k \in DOMAIN world["current"] |-> Target(k)]]
  BY <1>1, <1>3 DEF K!Deployed
<1>7. after = [world EXCEPT !["current"] = [k \in DOMAIN world["current"] |-> Expected(k)]]
  BY <1>3
<1>8. [k \in DOMAIN world["current"] |-> Target(k)] = [k \in DOMAIN world["current"] |-> Expected(k)]
  <2> HIDE DEF Target, Expected
  <2> QED
    BY <1>3, <1>5
<1> HIDE DEF after, Target, Expected
<1>9. K!Deployed(world, run, pkg) = after
  BY <1>6, <1>7, <1>8
<1> QED
  BY <1>1, <1>9 DEF TargetBecomesSource, world, Holds, sides, run, after

\* The results page groups rows by type, and shows all of them when all groups are open.
Grouped(groups, rows) ==
    /\ DOMAIN groups = {r.key.type : r \in rows}
    /\ \A t \in DOMAIN groups : groups[t].results = {r \in rows : r.key.type = t}
    /\ K!FlattenGroups(groups, DOMAIN groups).leaves = rows

LEMMA GroupsAreOfTypes == ASSUME NEW rows PROVE Grouped(K!GroupByType(rows), rows)
<1> DEFINE groups == K!GroupByType(rows)
           types == {r.key.type : r \in rows}
           Members(t) == {r \in rows : r.key.type = t}
<1>1. DOMAIN groups = types /\ \A t \in types : groups[t].results = Members(t)
  BY DEF K!GroupByType
<1>2. K!FlattenGroups(groups, types).leaves = UNION {groups[t].results : t \in types}
  BY <1>1 DEF K!FlattenGroups
<1>3. \A r \in rows : r.key.type \in types
  OBVIOUS
<1> HIDE DEF types, groups
<1>4. \A r : r \in (UNION {groups[t].results : t \in types}) <=> r \in rows
  BY <1>1, <1>3
<1>5. K!FlattenGroups(groups, DOMAIN groups).leaves = rows
  BY <1>1, <1>2, <1>4
<1> QED
  BY <1>1, <1>5 DEF types, groups, Grouped

\* A click ticks and clears what its filter shows.
ShownKeys(q) == {K!KeyToString(r.key) : r \in K!FilterResults(q.results, q.shown, Missing)}

LEMMA TickStaysOnTheScreen ==
    ASSUME NEW selected, selected \subseteq ShownKeys(question), NEW c
    PROVE  Tick(selected, c) \subseteq ShownKeys(question)
<1> DEFINE filtered == K!FilterResults(question.results, question.shown, Missing)
           groups == ShownGroups(question.shown)
           rows   == K!FlattenGroups(groups, DOMAIN groups)
           on     == {r \in rows.leaves : K!Id(r.key) = c.id}
<1>1. groups = K!GroupByType(filtered)
  BY DEF ShownGroups
<1>2. Grouped(groups, filtered) /\ rows.leaves = filtered
  <2> HIDE DEF filtered, groups
  <2>1. Grouped(groups, filtered)
    BY <1>1, GroupsAreOfTypes
  <2> QED
    BY <2>1 DEF Grouped
<1>3. \A r \in filtered : K!KeyToString(r.key) \in ShownKeys(question)
  BY DEF ShownKeys
<1>4. Tick(selected, c) = IF on = {} THEN selected
                          ELSE IF c.header THEN K!SetGroup(selected, groups[c.id[1]], c.to)
                          ELSE K!SetLeaf(selected, (CHOOSE r \in on : TRUE).key, c.to)
  BY DEF Tick
<1> HIDE DEF filtered, groups, rows
<1>5. ASSUME on # {} PROVE K!SetGroup(selected, groups[c.id[1]], c.to) \subseteq ShownKeys(question)
  <2>1. PICK r \in filtered : K!Id(r.key) = c.id
    BY <1>2, <1>5
  <2>2. c.id[1] = r.key.type /\ c.id[1] \in DOMAIN groups
    BY <1>2, <2>1 DEF K!Id, Grouped
  <2>3. K!GroupKeys(groups[c.id[1]]) \subseteq ShownKeys(question)
    BY <1>2, <1>3, <2>2 DEF K!GroupKeys, Grouped
  <2> QED
    BY <2>3 DEF K!SetGroup
<1>6. ASSUME on # {} PROVE K!SetLeaf(selected, (CHOOSE r \in on : TRUE).key, c.to) \subseteq ShownKeys(question)
  <2> DEFINE r == CHOOSE x \in on : TRUE
  <2>1. r \in on
    BY <1>6
  <2> HIDE DEF r
  <2>2. K!KeyToString(r.key) \in ShownKeys(question)
    BY <1>2, <1>3, <2>1
  <2>3. K!SetLeaf(selected, r.key, c.to) \subseteq ShownKeys(question)
    BY <2>2 DEF K!SetLeaf
  <2> QED
    BY <2>3 DEF r
<1> QED
  BY <1>4, <1>5, <1>6

\* So no sequence of clicks reaches what the filter hides.
LEMMA TickedIsShown ==
    ASSUME question \in Selections
    PROVE  K!PickSelected(question.results, Ticked) \subseteq K!FilterResults(question.results, question.shown, Missing)
<1> DEFINE clicks == question.clicks
           N == Len(clicks)
           S == SUBSET ShownKeys(question)
           base == {}
           step == [x \in (1 .. N) \X S |-> Tick(x[2], clicks[x[1]])]
           Is(f) == f = [n \in 0 .. N |-> IF n = 0 THEN {} ELSE Tick(f[n - 1], clicks[n])]
           ticked == CHOOSE f : Is(f)
<1>1. N \in Nat
  BY SelectionsAssumption
<1>2. base \in S /\ step \in [(1 .. N) \X S -> S]
  BY TickStaysOnTheScreen
<1>3. \A n \in 1 .. N, s \in S : step[<<n, s>>] = Tick(s, clicks[n])
  OBVIOUS
<1>4. PICK f \in [0 .. N -> S] : f[0] = {} /\ \A n \in 1 .. N : f[n] = step[<<n, f[n - 1]>>]
  <2> HIDE DEF N, S, step
  <2>1. base = {}
    OBVIOUS
  <2> HIDE DEF base
  <2>2. \E f \in [0 .. N -> S] : Determined(f, N, base, step)
    BY <1>1, <1>2, Recursion
  <2> QED
    BY <2>1, <2>2 DEF Determined
<1> HIDE DEF step, N, S
<1>5. ASSUME NEW n \in 0 .. N PROVE f[n] = IF n = 0 THEN {} ELSE Tick(f[n - 1], clicks[n])
  <2>1. CASE n = 0
    BY <1>4, <2>1
  <2>2. CASE n # 0
    <3>1. n \in 1 .. N /\ n - 1 \in 0 .. N
      BY <1>1, <2>2
    <3>2. f[n] = step[<<n, f[n - 1]>>] /\ f[n - 1] \in S
      BY <1>4, <3>1
    <3> QED
      BY <1>3, <2>2, <3>1, <3>2
  <2> QED
    BY <2>1, <2>2
<1>6. Is(f)
  <2>1. f = [n \in 0 .. N |-> f[n]]
    BY <1>4
  <2>2. [n \in 0 .. N |-> f[n]] = [n \in 0 .. N |-> IF n = 0 THEN {} ELSE Tick(f[n - 1], clicks[n])]
    BY <1>5
  <2> QED
    BY <2>1, <2>2
<1>7. Is(ticked)
  <2> HIDE DEF Is
  <2> QED
    BY <1>6
<1>8. Ticked = ticked[N]
  BY DEF Ticked, N
<1>9. \A g : Is(g) => \A n \in 0 .. N : g[n] = IF n = 0 THEN {} ELSE Tick(g[n - 1], clicks[n])
  OBVIOUS
<1> HIDE DEF Is, ticked, clicks
<1>10. \A n \in 0 .. N : ticked[n] = IF n = 0 THEN {} ELSE Tick(ticked[n - 1], clicks[n])
  BY <1>7, <1>9
<1> DEFINE P == {n \in 0 .. N : ticked[n] \subseteq ShownKeys(question)}
<1>11. ASSUME NEW n \in 0 .. N, \A m \in 0 .. n - 1 : m \in P
       PROVE  n \in P
  <2>1. CASE n = 0
    BY <1>10, <2>1
  <2>2. CASE n # 0
    <3>1. n - 1 \in 0 .. n - 1
      BY <1>1, <2>2
    <3>2. ticked[n - 1] \subseteq ShownKeys(question) /\ ticked[n] = Tick(ticked[n - 1], clicks[n])
      BY <1>10, <1>11, <2>2, <3>1
    <3> QED
      BY <3>2, TickStaysOnTheScreen
  <2> QED
    BY <2>1, <2>2
<1>12. Ticked \subseteq ShownKeys(question)
  <2>1. P = 0 .. N
    <3>1. P \in SUBSET (0 .. N)
      OBVIOUS
    <3> HIDE DEF P
    <3> QED
      BY <1>1, <1>11, <3>1, UpTo
  <2>2. N \in P
    BY <1>1, <2>1
  <2> QED
    BY <1>8, <2>2
<1>13. ASSUME NEW r \in question.results, K!KeyToString(r.key) \in Ticked
       PROVE  r \in K!FilterResults(question.results, question.shown, Missing)
  <2>1. PICK s \in K!FilterResults(question.results, question.shown, Missing) : K!KeyToString(r.key) = K!KeyToString(s.key)
    BY <1>12, <1>13 DEF ShownKeys
  <2>2. K!Id(r.key) = K!Id(s.key) /\ s \in question.results
    BY <2>1 DEF K!Id, K!KeyToString, K!FilterResults
  <2> QED
    BY <2>1, <2>2, RowsAreTold
<1> QED
  BY <1>13 DEF K!PickSelected

\* The place of a word of the table is a number.
LEMMA WordsHaveAPlace == \A word \in ToSet(K!Alphabetical) : K!Place(word) \in Nat
<1> TAKE word \in ToSet(K!Alphabetical)
<1>1. DOMAIN K!Alphabetical = 1 .. 9
  BY DEF K!Alphabetical
<1>2. \E i \in DOMAIN K!Alphabetical : K!Alphabetical[i] = word
  BY DEF ToSet
<1> DEFINE place == CHOOSE i \in DOMAIN K!Alphabetical : K!Alphabetical[i] = word
<1>3. place \in DOMAIN K!Alphabetical
  BY <1>2
<1>4. K!Place(word) = place
  BY DEF K!Place
<1> HIDE DEF place
<1> QED
  BY <1>1, <1>3, <1>4

\* However the selected rows are sorted and grouped, all of them are listed.
LEMMA SelectedRowsAreListed ==
    ASSUME NEW q \in Selections, NEW picked, picked \subseteq q.results,
           NEW sortKey \in {"type", "name", "status"}, NEW flatten \in BOOLEAN
    PROVE  K!BuildSelectedRows(K!FilterAndSortSelected(picked, Missing, sortKey), flatten, {}).leaves = picked
<1> DEFINE first(r) == CASE sortKey = "type"   -> K!Place(r.key.type)
                         [] sortKey = "name"   -> r.key.name
                         [] sortKey = "status" -> K!Place(r.status)
           second(r) == IF sortKey = "name" THEN K!Place(r.key.type) ELSE r.key.name
           before == {p \in picked \X picked : K!CompareByKey(sortKey, p[1], p[2])}
           list == K!FilterAndSortSelected(picked, Missing, sortKey)
<1>1. \A r \in picked : first(r) \in Nat /\ second(r) \in Nat
  <2> TAKE r \in picked
  <2>1. r.key.type \in ToSet(K!Alphabetical) /\ r.key.name \in Nat
        /\ r.status \in {"new", "changed", "deleted", "identical"}
    BY SelectionsAssumption
  <2>2. r.status \in ToSet(K!Alphabetical)
    <3>1. \A i \in 6 .. 9 : i \in DOMAIN K!Alphabetical
      BY DEF K!Alphabetical
    <3>2. K!Alphabetical[6] = "changed" /\ K!Alphabetical[7] = "deleted" /\ K!Alphabetical[8] = "identical" /\ K!Alphabetical[9] = "new"
      BY DEF K!Alphabetical
    <3> HIDE DEF first, second
    <3> QED
      BY <2>1, <3>1, <3>2 DEF ToSet
  <2>3. K!Place(r.key.type) \in Nat /\ K!Place(r.status) \in Nat
    BY <2>1, <2>2, WordsHaveAPlace
  <2> QED
    BY <2>1, <2>3
<1>2. \A r, s \in picked : K!CompareByKey(sortKey, r, s) <=> first(r) < first(s) \/ (first(r) = first(s) /\ second(r) < second(s))
  BY DEF K!CompareByKey
<1>3. list = Sorted(picked, before)
  <2>1. {r \in picked : Missing = Missing \/ r.key.name \in Missing} = picked
    OBVIOUS
  <2>2. list = K!Sorted(picked, before)
    BY <2>1 DEF K!FilterAndSortSelected
  <2> QED
    BY <2>2, PackagesSpeakTheSame
<1> HIDE DEF first, second, list
<1>4. WellSorted(picked, before)
  <2> SUFFICES ASSUME NEW T \in SUBSET picked, T # {}
               PROVE  \E x \in T : \A y \in T : <<y, x>> \notin before
    BY DEF WellSorted
  <2> DEFINE f == [r \in T |-> first(r)]
             g == [r \in T |-> second(r)]
  <2>1. f \in [T -> Nat] /\ g \in [T -> Nat]
    BY <1>1
  <2>2. \A r \in T : f[r] = first(r) /\ g[r] = second(r)
    OBVIOUS
  <2> HIDE DEF f, g
  <2>3. PICK x \in T : \A y \in T : f[x] < f[y] \/ (f[x] = f[y] /\ g[x] <= g[y])
    BY <2>1, LexLeast
  <2>4. ASSUME NEW y \in T PROVE ~K!CompareByKey(sortKey, y, x)
    <3>1. first(x) < first(y) \/ (first(x) = first(y) /\ second(x) <= second(y))
      BY <2>2, <2>3
    <3>2. first(x) \in Nat /\ first(y) \in Nat /\ second(x) \in Nat /\ second(y) \in Nat
      BY <1>1
    <3> QED
      BY <1>2, <3>1, <3>2
  <2> QED
    BY <2>4
<1> HIDE DEF before
<1>5. IsFiniteSet(picked)
  BY RowsAreTold, FS_Subset
<1>6. K!ToSet(list) = picked
  <2>1. Lists(Sorted(picked, before), picked)
    BY <1>4, <1>5, SortedLists
  <2> QED
    BY <1>3, <2>1, PackagesSpeakTheSame DEF Lists
<1>7. CASE flatten
  BY <1>6, <1>7 DEF K!BuildSelectedRows, list
<1>8. CASE ~flatten
  <2> DEFINE groups == K!GroupByType(picked)
  <2>1. K!BuildSelectedRows(list, flatten, {}) = K!FlattenGroups(groups, {r.key.type : r \in picked} \ {})
    BY <1>6, <1>8 DEF K!BuildSelectedRows
  <2>2. DOMAIN groups = {r.key.type : r \in picked} \ {} /\ K!FlattenGroups(groups, DOMAIN groups).leaves = picked
    BY GroupsAreOfTypes DEF Grouped
  <2> HIDE DEF groups
  <2> QED
    BY <2>1, <2>2 DEF list
<1> QED
  BY <1>7, <1>8

\* A group's header reads checked, or unchecked, exactly when ticking it, or clearing
\* it, would change nothing.
HeaderReads(selected, group) ==
    LET reads == K!ComputeGroupTriState(selected, group)
    IN  /\ (reads = "checked") = (K!SetGroup(selected, group, TRUE) = selected)
        /\ (reads = "unchecked") = (K!SetGroup(selected, group, FALSE) = selected)

LEMMA HeadersReadAsTheirRows ==
    ASSUME NEW selected, NEW group, group.results # {}
    PROVE  HeaderReads(selected, group)
<1> DEFINE keys == K!GroupKeys(group)
           reads == K!ComputeGroupTriState(selected, group)
<1>1. keys # {}
  BY DEF K!GroupKeys
<1>2. /\ reads = IF keys \cap selected = {} THEN "unchecked" ELSE IF keys \cap selected = keys THEN "checked" ELSE "indeterminate"
      /\ K!SetGroup(selected, group, TRUE) = selected \cup keys
      /\ K!SetGroup(selected, group, FALSE) = selected \ keys
  BY DEF K!ComputeGroupTriState, K!SetGroup
<1> HIDE DEF keys, reads
<1>3. reads = "checked" <=> selected \cup keys = selected
  BY <1>1, <1>2
<1>4. reads = "unchecked" <=> selected \ keys = selected
  BY <1>1, <1>2
<1> QED
  BY <1>2, <1>3, <1>4 DEF HeaderReads, reads

\* What is picked in the browser is in the draft, and the draft is what is sent: all of
\* it but what is identical is in the package.
IsTheDraft(pkg, picked) ==
    /\ \A k : k \in ToSet(pkg.components) <=> \E r \in picked : r.key = k /\ r.status \in {"new", "changed"}
    /\ \A k : k \in ToSet(pkg.destructiveComponents) <=> \E r \in picked : r.key = k /\ r.status = "deleted"

LEMMA TheDraftIsPackaged ==
    ASSUME NEW q \in Selections, NEW picked, picked \subseteq q.results, NEW keys, Lists(keys, {r.key : r \in picked}),
           NEW id, NEW mode
    PROVE  IsTheDraft(K!BuildPackage(id, keys, q.results, mode).row.pkg, picked)
<1> DEFINE sent == {r.key : r \in picked}
           pkg == K!BuildPackage(id, keys, q.results, mode).row.pkg
<1>1. sent \subseteq KeysOfRows(q)
  BY DEF KeysOfRows
<1>2. /\ Lists(pkg.components, sent \cap FoundAs(q, {"new", "changed"}))
      /\ Lists(pkg.destructiveComponents, sent \cap FoundAs(q, {"deleted"}))
  <2>1. Lists(keys, sent)
    OBVIOUS
  <2> HIDE DEF sent
  <2>2. BuiltOf(K!BuildPackage(id, keys, q.results, mode), q, sent, id, mode)
    BY <1>1, <2>1, PackageIsAsSent
  <2> QED
    BY <2>2 DEF BuiltOf, PackageOf
<1>3. ASSUME NEW k, NEW statuses
      PROVE  k \in sent \cap FoundAs(q, statuses) <=> \E r \in picked : r.key = k /\ r.status \in statuses
  <2>1. ASSUME k \in sent, k \in FoundAs(q, statuses) PROVE \E r \in picked : r.key = k /\ r.status \in statuses
    <3>1. PICK r \in picked : r.key = k
      BY <2>1
    <3>2. PICK s \in q.results : s.status \in statuses /\ s.key = k
      BY <2>1 DEF FoundAs
    <3>3. r = s
      BY <3>1, <3>2, RowsAreTold
    <3> QED
      BY <3>1, <3>2, <3>3
  <2>2. ASSUME NEW r \in picked, r.key = k, r.status \in statuses PROVE k \in sent /\ k \in FoundAs(q, statuses)
    BY <2>2 DEF FoundAs
  <2> QED
    BY <2>1, <2>2
<1> HIDE DEF sent, pkg
<1>4. ToSet(pkg.components) = sent \cap FoundAs(q, {"new", "changed"})
      /\ ToSet(pkg.destructiveComponents) = sent \cap FoundAs(q, {"deleted"})
  BY <1>2 DEF Lists
<1>5. \A k : k \in ToSet(pkg.components) <=> \E r \in picked : r.key = k /\ r.status \in {"new", "changed"}
  BY <1>3, <1>4
<1>6. ASSUME NEW k PROVE k \in ToSet(pkg.destructiveComponents) <=> \E r \in picked : r.key = k /\ r.status = "deleted"
  <2>1. k \in sent \cap FoundAs(q, {"deleted"}) <=> \E r \in picked : r.key = k /\ r.status \in {"deleted"}
    BY <1>3
  <2> QED
    BY <1>4, <2>1
<1> QED
  BY <1>5, <1>6 DEF IsTheDraft, pkg

\* The deploy page says what the package is.
LEMMA TheDeployPage ==
    ASSUME question \in Selections
    PROVE  DeployPageIsTruthful
<1> DEFINE results == question.results
           picked == K!PickSelected(results, Ticked)
           draft  == K!Draft(results, Ticked)
           sent   == Only(question.keys, draft.components \cup draft.destructiveComponents)
           built  == K!BuildPackage(1, sent, results, "post")
           pkg    == built.row.pkg
           Listed(sortKey, flatten) ==
               K!BuildSelectedRows(K!FilterAndSortSelected(picked, Missing, sortKey), flatten, {}).leaves
           members == K!BuildPackageXmlPreview(draft.components)
           groups == ShownGroups({})
           Told(components) == {i \in (DOMAIN members) \X UNION Range(members) :
                                   i[2] \in members[i[1]] /\ \E r \in K!Changed(components) : K!Id(r.key) = i}
<1>1. picked \subseteq results
  BY DEF K!PickSelected
<1>2. /\ draft.components = {r.key : r \in {s \in picked : s.status # "deleted"}}
      /\ draft.destructiveComponents = {r.key : r \in {s \in picked : s.status = "deleted"}}
  BY DEF K!Draft
<1>3. Lists(sent, {r.key : r \in picked})
  <2>1. draft.components \cup draft.destructiveComponents = {r.key : r \in picked}
    <3>1. \A k : k \in draft.components \cup draft.destructiveComponents <=> k \in {r.key : r \in picked}
      <4> HIDE DEF picked, draft
      <4> QED
        BY <1>2
    <3> QED
      BY <3>1
  <2>2. {r.key : r \in picked} \subseteq ToSet(question.keys)
    BY <1>1, RowsAreTold DEF KeysOfRows
  <2> DEFINE set == {r.key : r \in picked}
  <2> HIDE DEF set, picked, draft
  <2>3. Lists(Only(question.keys, set), ToSet(question.keys) \cap set) /\ sent = Only(question.keys, set)
    BY <2>1, RowsAreTold, OnlyLists DEF set
  <2>4. ToSet(question.keys) \cap set = set
    BY <2>2 DEF set
  <2> QED
    BY <2>3, <2>4 DEF set
<1> HIDE DEF draft, sent, picked
<1>4. /\ \A k : k \in ToSet(pkg.components) <=> \E r \in picked : r.key = k /\ r.status \in {"new", "changed"}
      /\ \A k : k \in ToSet(pkg.destructiveComponents) <=> \E r \in picked : r.key = k /\ r.status = "deleted"
  <2>1. IsTheDraft(pkg, picked)
    BY <1>1, <1>3, TheDraftIsPackaged
  <2> QED
    BY <2>1 DEF IsTheDraft
<1>5. built.xml.packageXml = {K!Id(c) : c \in ToSet(pkg.components)}
  <2> DEFINE keys == {r.key : r \in picked}
  <2>1. keys \subseteq KeysOfRows(question)
    BY <1>1 DEF KeysOfRows
  <2>2. Lists(sent, keys)
    BY <1>3
  <2> HIDE DEF keys
  <2>3. BuiltOf(built, question, keys, 1, "post")
    BY <2>1, <2>2, PackageIsAsSent
  <2> HIDE DEF built
  <2> QED
    BY <2>3 DEF BuiltOf, K!GeneratePackageXml
<1> HIDE DEF pkg, built
<1>6. ASSUME NEW sortKey \in {"type", "name", "status"}, NEW flatten \in BOOLEAN
      PROVE  {r.key : r \in K!Changed(Listed(sortKey, flatten))} = ToSet(pkg.components) \cup ToSet(pkg.destructiveComponents)
  <2>1. Listed(sortKey, flatten) = picked
    BY <1>1, SelectedRowsAreListed
  <2>2. \A k : k \in {r.key : r \in K!Changed(picked)} <=> \E r \in picked : r.key = k /\ r.status # "identical"
    BY DEF K!Changed
  <2>3. \A r \in picked : r.status \in {"new", "changed", "deleted", "identical"}
    BY <1>1, RowsAreTold
  <2>4. ASSUME NEW k
        PROVE  (\E r \in picked : r.key = k /\ r.status # "identical")
                   <=> k \in ToSet(pkg.components) \cup ToSet(pkg.destructiveComponents)
    BY <1>4, <2>3
  <2>5. \A k : k \in {r.key : r \in K!Changed(picked)} <=> k \in ToSet(pkg.components) \cup ToSet(pkg.destructiveComponents)
    BY <2>2, <2>4
  <2> QED
    BY <2>1, <2>5
<1>7. DOMAIN members = {k.type : k \in draft.components}
      /\ \A t \in DOMAIN members : members[t] = {k.name : k \in {c \in draft.components : c.type = t}}
  BY DEF K!BuildPackageXmlPreview
<1> HIDE DEF members
<1>8. built.xml.packageXml = Told(picked)
  <2>1. ASSUME NEW k \in ToSet(pkg.components) PROVE K!Id(k) \in Told(picked)
    <3>1. PICK r \in picked : r.key = k /\ r.status \in {"new", "changed"}
      BY <1>4
    <3>2. k \in draft.components
      BY <1>2, <3>1
    <3>3. k.type \in DOMAIN members /\ k.name \in members[k.type]
      BY <1>7, <3>2
    <3>4. k.name \in UNION Range(members)
      BY <3>3 DEF Range
    <3>5. r \in K!Changed(picked)
      BY <3>1 DEF K!Changed
    <3>6. K!Id(k) = <<k.type, k.name>>
      BY DEF K!Id
    <3> QED
      BY <3>1, <3>3, <3>4, <3>5, <3>6
  <2>2. ASSUME NEW i \in Told(picked) PROVE \E k \in ToSet(pkg.components) : i = K!Id(k)
    <3>1. i = <<i[1], i[2]>> /\ i[1] \in DOMAIN members /\ i[2] \in members[i[1]]
      OBVIOUS
    <3>2. PICK r \in K!Changed(picked) : K!Id(r.key) = i
      OBVIOUS
    <3>3. PICK s \in picked : s.status # "deleted" /\ s.key.type = i[1] /\ s.key.name = i[2]
      BY <1>2, <1>7, <3>1
    <3>4. K!Id(s.key) = i
      BY <3>1, <3>3 DEF K!Id
    <3>5. r \in picked /\ r.status # "identical"
      BY <3>2 DEF K!Changed
    <3>6. r = s
      BY <1>1, <3>2, <3>4, <3>5, RowsAreTold
    <3>7. s.status \in {"new", "changed"}
      BY <1>1, <3>3, <3>5, <3>6, RowsAreTold
    <3> QED
      BY <1>4, <3>3, <3>4, <3>7
  <2> HIDE DEF Told
  <2>3. \A i : i \in {K!Id(c) : c \in ToSet(pkg.components)} <=> i \in Told(picked)
    BY <2>1, <2>2
  <2> QED
    BY <1>5, <2>3
<1>9. ASSUME NEW t \in DOMAIN groups, NEW reads, reads = K!ComputeGroupTriState(Ticked, groups[t])
      PROVE  /\ (reads = "checked") = (K!SetGroup(Ticked, groups[t], TRUE) = Ticked)
             /\ (reads = "unchecked") = (K!SetGroup(Ticked, groups[t], FALSE) = Ticked)
  <2> DEFINE rows == K!FilterResults(results, {}, Missing)
  <2>1. groups = K!GroupByType(rows)
    BY DEF ShownGroups
  <2> HIDE DEF rows, groups
  <2>2. Grouped(groups, rows)
    BY <2>1, GroupsAreOfTypes
  <2>3. groups[t].results # {}
    BY <1>9, <2>2 DEF Grouped
  <2>4. HeaderReads(Ticked, groups[t])
    BY <2>3, HeadersReadAsTheirRows
  <2> QED
    BY <1>9, <2>4 DEF HeaderReads
<1>10. picked \subseteq K!FilterResults(question.results, question.shown, Missing)
  BY TickedIsShown DEF picked
<1> QED
  BY <1>6, <1>8, <1>9, <1>10 DEF DeployPageIsTruthful, picked, draft, sent, built, pkg, members

\* Two lists of the same components, both in order, are the same if no two components
\* tie: the order in which the keys were sent does not tell.
LEMMA OneOrder ==
    ASSUME NEW C, IsFiniteSet(C), NEW a, NEW b, Lists(a, C), Lists(b, C), Ordered(a), Ordered(b), ~Ties(C)
    PROVE  a = b
<1> DEFINE N == Len(a)
<1>1. N = Cardinality(C) /\ Len(b) = N /\ N \in Nat
  BY ListsAreAsLong, FS_CardinalityType
<1>2. /\ DOMAIN a = 1 .. N /\ (\A i \in 1 .. N : a[i] \in C) /\ \A x \in C : \E i \in 1 .. N : a[i] = x
      /\ DOMAIN b = 1 .. N /\ (\A i \in 1 .. N : b[i] \in C) /\ \A x \in C : \E i \in 1 .. N : b[i] = x
  BY <1>1, ListFacts
<1>3. IsInjective(a) /\ IsInjective(b) /\ a \in Seq(C) /\ b \in Seq(C)
  BY DEF Lists
<1> HIDE DEF N
<1>4. \A i \in 1 .. N : a[i] = b[i]
  <2> SUFFICES ASSUME NEW k \in 1 .. N, a[k] # b[k] PROVE FALSE
    OBVIOUS
  <2> DEFINE D == {i \in 1 .. N : a[i] # b[i]}
  <2>1. D \in SUBSET Nat /\ D # {}
    BY <1>1
  <2>2. \A i \in 1 .. N : i \in D <=> a[i] # b[i]
    OBVIOUS
  <2>3. \A i \in D : i \in 1 .. N
    OBVIOUS
  <2> HIDE DEF D
  <2>4. PICK d \in D : \A i \in D : d <= i
    BY <2>1, LeastElement
  <2>5. d \in 1 .. N /\ a[d] # b[d] /\ \A i \in 1 .. N : i < d => a[i] = b[i]
    <3>1. d \in 1 .. N /\ a[d] # b[d]
      BY <2>2, <2>3, <2>4
    <3>2. ASSUME NEW i \in 1 .. N, i < d PROVE a[i] = b[i]
      BY <1>1, <2>2, <2>4, <3>1, <3>2
    <3> QED
      BY <3>1, <3>2
  <2>6. PICK j \in 1 .. N : b[j] = a[d]
    BY <1>2, <2>5
  <2>7. PICK i \in 1 .. N : a[i] = b[d]
    BY <1>2, <2>5
  <2>8. j > d
    <3>1. j = d \/ j < d \/ j > d
      BY <1>1, <2>5
    <3>2. CASE j < d
      BY <1>2, <1>3, <2>5, <2>6, <3>2 DEF IsInjective
    <3> QED
      BY <2>5, <2>6, <3>1, <3>2
  <2>9. i > d
    <3>1. i = d \/ i < d \/ i > d
      BY <1>1, <2>5
    <3>2. CASE i < d
      BY <1>2, <1>3, <2>5, <2>7, <3>2 DEF IsInjective
    <3> QED
      BY <2>5, <2>7, <3>1, <3>2
  <2>10. ~K!Before(a[d], b[d])
    BY <1>1, <1>2, <2>5, <2>6, <2>8 DEF Ordered
  <2>11. ~K!Before(b[d], a[d])
    BY <1>1, <1>2, <2>5, <2>7, <2>9 DEF Ordered
  <2>12. a[d] \in C /\ b[d] \in C
    BY <1>2, <2>5
  <2> QED
    BY <2>5, <2>10, <2>11, <2>12 DEF Ties
<1> QED
  BY <1>1, <1>2, <1>3, <1>4

\* The other way round, a list lists the same.
LEMMA ReverseLists ==
    ASSUME NEW C, NEW list, Lists(list, C)
    PROVE  Lists(Reverse(list), C)
<1> DEFINE N == Len(list)
           other == Reverse(list)
<1>1. /\ N \in Nat /\ DOMAIN list = 1 .. N /\ (\A i \in 1 .. N : list[i] \in C)
      /\ \A x \in C : \E i \in 1 .. N : list[i] = x
  BY ListFacts DEF Lists
<1>2. other = [i \in 1 .. N |-> list[(N - i) + 1]]
  BY DEF Reverse
<1> HIDE DEF N
<1>3. \A i \in 1 .. N : (N - i) + 1 \in 1 .. N /\ other[i] = list[(N - i) + 1]
  BY <1>1, <1>2
<1>4. other \in Seq(C) /\ DOMAIN other = 1 .. N
  <2>1. other \in [1 .. N -> C]
    BY <1>1, <1>2
  <2> QED
    BY <1>1, <2>1
<1> HIDE DEF other
<1>5. IsInjective(other)
  <2> SUFFICES ASSUME NEW i \in 1 .. N, NEW j \in 1 .. N, other[i] = other[j] PROVE i = j
    BY <1>4 DEF IsInjective
  <2>1. (N - i) + 1 \in 1 .. N /\ (N - j) + 1 \in 1 .. N /\ list[(N - i) + 1] = list[(N - j) + 1]
    BY <1>3
  <2>2. \A m, n \in 1 .. N : list[m] = list[n] => m = n
    BY ListFacts DEF N
  <2>3. (N - i) + 1 = (N - j) + 1
    BY <2>1, <2>2
  <2> QED
    BY <1>1, <2>3
<1>6. \A v : v \in ToSet(other) <=> v \in C
  <2> TAKE v
  <2>1. ASSUME v \in C PROVE v \in ToSet(other)
    <3>1. PICK i \in 1 .. N : list[i] = v
      BY <1>1, <2>1
    <3>2. (N - i) + 1 \in 1 .. N /\ (N - ((N - i) + 1)) + 1 = i
      BY <1>1
    <3>3. other[(N - i) + 1] = v
      BY <1>3, <3>1, <3>2
    <3> QED
      BY <1>4, <3>2, <3>3 DEF ToSet
  <2>2. ASSUME v \in ToSet(other) PROVE v \in C
    BY <1>1, <1>3, <1>4, <2>2 DEF ToSet
  <2> QED
    BY <2>1, <2>2
<1> QED
  BY <1>4, <1>5, <1>6 DEF Lists, other

\* What is packaged of a selection.
PickedOf(picked, q, ids) ==
    LET chosen == picked.components \cup picked.destructiveComponents
    IN  /\ chosen \subseteq KeysOfRows(q)
        /\ picked.components = chosen \cap FoundAs(q, {"new", "changed"})
        /\ picked.destructiveComponents = chosen \cap FoundAs(q, {"deleted"})
        /\ picked.components \cap picked.destructiveComponents = {}
        /\ \A r \in q.results : r.key \in chosen <=> K!Id(r.key) \in ids /\ r.status # "identical"

LEMMA PickedAreFound ==
    ASSUME NEW q \in Selections, NEW ids
    PROVE  PickedOf(K!SelectionToPackageComponents(ids, q.results), q, ids)
<1> DEFINE picked == K!SelectionToPackageComponents(ids, q.results)
           chosen == picked.components \cup picked.destructiveComponents
           Those(statuses) == {r.key : r \in {s \in q.results : K!Id(s.key) \in ids /\ s.status \in statuses}}
<1>1. picked.components = Those({"new", "changed"}) /\ picked.destructiveComponents = Those({"deleted"})
  BY DEF K!SelectionToPackageComponents, K!Picked
<1>2. \A statuses : \A r \in q.results : r.key \in Those(statuses) <=> K!Id(r.key) \in ids /\ r.status \in statuses
  BY RowsAreTold
<1>3. \A statuses : \A r \in q.results : r.key \in FoundAs(q, statuses) <=> r.status \in statuses
  BY RowsAreTold DEF FoundAs
<1>4. /\ \A statuses : \A k \in Those(statuses) : \E r \in q.results : r.key = k
      /\ \A statuses : \A k \in FoundAs(q, statuses) : \E r \in q.results : r.key = k
  BY DEF FoundAs
<1> HIDE DEF Those, picked
<1>5. \A r \in q.results : /\ r.key \in picked.components <=> K!Id(r.key) \in ids /\ r.status \in {"new", "changed"}
                           /\ r.key \in picked.destructiveComponents <=> K!Id(r.key) \in ids /\ r.status = "deleted"
  <2> TAKE r \in q.results
  <2>1. r.key \in picked.destructiveComponents <=> K!Id(r.key) \in ids /\ r.status \in {"deleted"}
    BY <1>1, <1>2
  <2> QED
    BY <1>1, <1>2, <2>1
<1>6. \A r \in q.results : /\ r.key \in FoundAs(q, {"new", "changed"}) <=> r.status \in {"new", "changed"}
                           /\ r.key \in FoundAs(q, {"deleted"}) <=> r.status = "deleted"
  <2> TAKE r \in q.results
  <2>1. r.key \in FoundAs(q, {"deleted"}) <=> r.status \in {"deleted"}
    BY <1>3
  <2> QED
    BY <1>3, <2>1
<1>7. \A k \in chosen : \E r \in q.results : r.key = k
  BY <1>1, <1>4
<1>8. \A r \in q.results : r.key \in chosen <=> K!Id(r.key) \in ids /\ r.status # "identical"
  BY <1>5, RowsAreTold
<1>9. ASSUME NEW k
      PROVE  /\ k \in picked.components <=> k \in chosen /\ k \in FoundAs(q, {"new", "changed"})
             /\ k \in picked.destructiveComponents <=> k \in chosen /\ k \in FoundAs(q, {"deleted"})
             /\ ~(k \in picked.components /\ k \in picked.destructiveComponents)
  <2>1. CASE k \in chosen
    <3>1. PICK r \in q.results : r.key = k
      BY <1>7, <2>1
    <3> QED
      BY <1>5, <1>6, <2>1, <3>1
  <2> QED
    BY <2>1
<1>10. /\ picked.components = chosen \cap FoundAs(q, {"new", "changed"})
       /\ picked.destructiveComponents = chosen \cap FoundAs(q, {"deleted"})
       /\ picked.components \cap picked.destructiveComponents = {}
  BY <1>9
<1>11. chosen \subseteq KeysOfRows(q)
  BY <1>7 DEF KeysOfRows
<1> QED
  BY <1>8, <1>10, <1>11 DEF PickedOf, picked

\* A changed row is among the leaves that are checked exactly when it reads as checked
\* and has none under it.
LEMMA LeavesReadAsChecked ==
    ASSUME NEW q \in Selections, NEW checked, NEW r \in K!Changed(q.results), NEW id, id = K!Id(r.key)
    PROVE  LET tree == K!BuildSelectionTree(q.results)
           IN  id \in K!SelectedLeafIds(checked, tree) <=> K!StateOf(checked, tree, id) = "checked" /\ tree[id] = {}
<1> DEFINE tree == K!BuildSelectionTree(q.results)
<1>1. id \in DOMAIN tree
  BY DEF K!BuildSelectionTree
<1> HIDE DEF tree
<1>2. ASSUME tree[id] = {}
      PROVE  K!StateOf(checked, tree, id) = "checked" <=> id \in checked
  <2>1. K!LeavesUnder(tree, id) = {id}
    BY <1>2 DEF K!LeavesUnder
  <2>2. CASE id \in checked
    <3>1. {id} \subseteq checked /\ ~({id} \cap checked = {})
      BY <2>2
    <3> QED
      BY <2>1, <2>2, <3>1 DEF K!StateOf
  <2>3. CASE id \notin checked
    <3>1. {id} \cap checked = {}
      BY <2>3
    <3> QED
      BY <2>1, <2>3, <3>1 DEF K!StateOf
  <2> QED
    BY <2>2, <2>3
<1>3. id \in K!SelectedLeafIds(checked, tree) <=> tree[id] = {} /\ id \in checked
  BY <1>1 DEF K!SelectedLeafIds
<1> QED
  BY <1>2, <1>3 DEF tree

\* The manifest is read back as the package it was written for.
LEMMA ManifestIsThePackage ==
    ASSUME NEW pkg, pkg = [id |-> 1, name |-> 1, components |-> pkg.components, destructiveComponents |-> pkg.destructiveComponents],
           Missing # 1
    PROVE  LET read == K!ManifestFromYaml(K!SaveManifest(<<>>, K!ToManifest(pkg, "pre"))[1])
           IN  K!ManifestToDeploymentPackage(read) = pkg /\ read.destructiveMode = "pre"
<1> DEFINE manifest == K!ToManifest(pkg, "pre")
           read == [manifest EXCEPT !.destructiveMode = "pre"]
<1>1. manifest = [version |-> 1, id |-> 1, name |-> 1, destructiveMode |-> "pre",
                  components |-> pkg.components, destructiveComponents |-> pkg.destructiveComponents]
  <2>1. pkg.id = 1 /\ pkg.name = 1
    OBVIOUS
  <2> QED
    BY <2>1 DEF K!ToManifest, K!ManifestSchemaVersion
<1>2. /\ manifest.version = 1 /\ manifest.id = 1 /\ manifest.name = 1 /\ manifest.destructiveMode = "pre"
      /\ read.id = 1 /\ read.name = 1 /\ read.components = pkg.components /\ read.destructiveMode = "pre"
      /\ read.destructiveComponents = pkg.destructiveComponents
  <2> HIDE DEF manifest
  <2> QED
    BY <1>1
<1> HIDE DEF manifest
<1>3. K!SaveManifest(<<>>, manifest)[1] = manifest
  BY <1>2 DEF K!SaveManifest
<1>4. K!ManifestFromYaml(manifest) = read
  BY <1>2 DEF K!ManifestFromYaml, K!ManifestSchemaVersion
<1> HIDE DEF read
<1>5. K!ManifestToDeploymentPackage(read) = pkg
  BY <1>2 DEF K!ManifestToDeploymentPackage
<1> QED
  BY <1>2, <1>3, <1>4, <1>5 DEF manifest

\* What is packaged is what reads as checked and has nothing under it, the same for
\* every order of the keys, parents first; the row, the manifest and the XML agree; the
\* deploy page says what it is; and deployed, it makes the target what the source is
\* where the user chose so, and nowhere else (selection.ts, order.ts, manifest.ts,
\* package-xml.ts, routers/deploy.ts, comparison-direction.ts).
THEOREM PackagesAreWhatWasChecked == ASpec => []PackageIsWhatWasChecked
<1>1. AskedOK => PackageIsWhatWasChecked
  <2> SUFFICES ASSUME AskedOK, Asking("selection") PROVE PackageIsWhatWasChecked
    BY DEF PackageIsWhatWasChecked
  <2>1. question \in Selections
    BY DEF AskedOK, Posed
  <2> DEFINE results  == question.results
             tree     == K!BuildSelectionTree(results)
             checked  == Clicked(tree)
             ids      == K!SelectedLeafIds(checked, tree)
             picked   == K!SelectionToPackageComponents(ids, results)
             chosen   == picked.components \cup picked.destructiveComponents
             built    == K!BuildPackage(1, Only(question.keys, chosen), results, "pre")
             again    == K!BuildPackage(1, Only(Reverse(question.keys), chosen), results, "pre")
             pkg      == built.row.pkg
  <2> HIDE DEF tree, checked
  <2>2. /\ chosen \subseteq KeysOfRows(question)
        /\ picked.components = chosen \cap FoundAs(question, {"new", "changed"})
        /\ picked.destructiveComponents = chosen \cap FoundAs(question, {"deleted"})
        /\ picked.components \cap picked.destructiveComponents = {}
        /\ \A r \in results : r.key \in chosen <=> K!Id(r.key) \in ids /\ r.status # "identical"
    <3> HIDE DEF ids
    <3>1. PickedOf(picked, question, ids)
      BY <2>1, PickedAreFound
    <3> HIDE DEF picked
    <3> QED
      BY <3>1 DEF PickedOf
  <2> HIDE DEF ids, picked, chosen
  <2>3. ASSUME NEW keys, Lists(keys, ToSet(question.keys)) PROVE Lists(Only(keys, chosen), chosen)
    <3>1. Lists(Only(keys, chosen), ToSet(question.keys) \cap chosen)
      BY <2>3, OnlyLists
    <3>2. ToSet(question.keys) \cap chosen = chosen
      BY <2>1, <2>2, RowsAreTold
    <3> QED
      BY <3>1, <3>2
  <2>4. BuiltOf(built, question, chosen, 1, "pre") /\ BuiltOf(again, question, chosen, 1, "pre")
    <3>1. Lists(question.keys, ToSet(question.keys)) /\ Lists(Reverse(question.keys), ToSet(question.keys))
      BY <2>1, RowsAreTold, ReverseLists
    <3>2. Lists(Only(question.keys, chosen), chosen) /\ Lists(Only(Reverse(question.keys), chosen), chosen)
      BY <2>3, <3>1
    <3> QED
      BY <2>1, <2>2, <3>2, PackageIsAsSent
  <2> HIDE DEF built, again
  <2>5. /\ Lists(pkg.components, picked.components) /\ Ordered(pkg.components)
        /\ Lists(pkg.destructiveComponents, picked.destructiveComponents)
        /\ Lists(again.row.pkg.components, picked.components) /\ Ordered(again.row.pkg.components)
    BY <2>2, <2>4 DEF BuiltOf, PackageOf
  <2>6. /\ built.row.mode = "pre" /\ built.manifest = K!ToManifest(pkg, "pre")
        /\ built.xml = K!GeneratePackageXml(picked.components, picked.destructiveComponents, "pre")
        /\ pkg = [id |-> 1, name |-> 1, components |-> pkg.components, destructiveComponents |-> pkg.destructiveComponents]
    <3>1. ToSet(pkg.components) = picked.components /\ ToSet(pkg.destructiveComponents) = picked.destructiveComponents
      BY <2>5 DEF Lists
    <3> QED
      BY <2>4, <3>1 DEF BuiltOf, PackageOf
  <2> HIDE DEF pkg
  <2>7. DeployPageIsTruthful
    BY <2>1, TheDeployPage
  <2>8. TargetBecomesSource(results, pkg)
    <3>1. ToSet(pkg.components) \subseteq FoundAs(question, {"new", "changed"})
          /\ ToSet(pkg.destructiveComponents) \subseteq FoundAs(question, {"deleted"})
      BY <2>2, <2>5 DEF Lists
    <3> QED
      BY <2>1, <3>1, TheTargetBecomesTheSource
  <2>9. ASSUME NEW r \in K!Changed(results)
        PROVE  LET reads == K!StateOf(checked, tree, K!Id(r.key)) = "checked"
               IN  (r.key \in chosen) = (reads /\ tree[K!Id(r.key)] = {})
    <3> DEFINE id == K!Id(r.key)
    <3>1. r \in results /\ r.status # "identical"
      BY <2>9 DEF K!Changed
    <3>2. r.key \in chosen <=> id \in ids
      BY <2>2, <3>1
    <3>3. id \in ids <=> K!StateOf(checked, tree, id) = "checked" /\ tree[id] = {}
      <4> HIDE DEF id
      <4>1. id = K!Id(r.key)
        BY DEF id
      <4> QED
        BY <2>1, <2>9, <4>1, LeavesReadAsChecked DEF ids, tree
    <3> HIDE DEF id
    <3>4. (r.key \in chosen) = (K!StateOf(checked, tree, id) = "checked" /\ tree[id] = {})
      BY <3>2, <3>3
    <3> QED
      BY <3>4 DEF id
  <2>10. ToSet(pkg.components) = picked.components /\ ToSet(pkg.destructiveComponents) = picked.destructiveComponents
         /\ Len(pkg.components) = Cardinality(picked.components) /\ IsFiniteSet(picked.components)
    <3>1. Len(pkg.components) = Cardinality(picked.components) /\ IsFiniteSet(picked.components)
      <4> DEFINE list == pkg.components
                 set == picked.components
      <4>1. Lists(list, set)
        BY <2>5
      <4> HIDE DEF list, set
      <4>2. IsFiniteSet(set) /\ Len(list) = Cardinality(set)
        BY <4>1, ListsAreAsLong
      <4> QED
        BY <4>2 DEF list, set
    <3> QED
      BY <2>5, <3>1 DEF Lists
  <2>11. Ties(picked.components) \/ again.row.pkg.components = pkg.components
    BY <2>5, <2>10, OneOrder
  <2>12. LET read == K!ManifestFromYaml(K!SaveManifest(<<>>, built.manifest)[1])
         IN  K!ManifestToDeploymentPackage(read) = pkg /\ read.destructiveMode = built.row.mode
    <3>1. Missing # 1
      BY SelectionsAssumption
    <3>2. LET read == K!ManifestFromYaml(K!SaveManifest(<<>>, K!ToManifest(pkg, "pre"))[1])
          IN  K!ManifestToDeploymentPackage(read) = pkg /\ read.destructiveMode = "pre"
      BY <2>6, <3>1, ManifestIsThePackage
    <3> QED
      BY <2>6, <3>2
  <2>13. built.xml.packageXml = {K!Id(k) : k \in picked.components}
    BY <2>6 DEF K!GeneratePackageXml
  <2>14. (built.xml.destructiveChangesXml = Missing) = (picked.destructiveComponents = {})
    <3> DEFINE deleted == {K!Id(c) : c \in picked.destructiveComponents}
    <3>1. built.xml.destructiveChangesXml =
              IF picked.destructiveComponents = {} THEN Missing ELSE [mode |-> "pre", members |-> deleted]
      BY <2>6 DEF K!GeneratePackageXml
    <3>2. deleted \in SUBSET {K!Id(r.key) : r \in question.results}
      <4>1. \A k \in picked.destructiveComponents : \E r \in question.results : r.key = k
        BY <2>2 DEF KeysOfRows
      <4> QED
        BY <4>1
    <3> HIDE DEF deleted
    <3>3. [mode |-> "pre", members |-> deleted] # Missing
      BY <2>1, <3>2, SelectionsAssumption
    <3>4. built.xml.destructiveChangesXml = Missing <=> picked.destructiveComponents = {}
      BY <3>1, <3>3
    <3> QED
      BY <3>4
  <2> QED
    BY <2>2, <2>5, <2>7, <2>8, <2>9, <2>10, <2>11, <2>12, <2>13, <2>14
    DEF PackageIsWhatWasChecked, tree, checked, ids, picked, chosen, built, again, pkg
<1> QED
  BY <1>1, QuestionsArePosed, PTL

-----------------------------------------------------------------------------
\* Listings: what a source lists, and what a filter asks.

\* The instance shares the library's operators.
LEMMA FiltersSpeakTheSame ==
    /\ \A S : F!Cardinality(S) = Cardinality(S)
    /\ \A S, before : F!Sorted(S, before) = Sorted(S, before)
    /\ \A list : F!ToSet(list) = ToSet(list)
<1>1. \A S : F!Cardinality(S) = Cardinality(S)
  BY DEF F!Cardinality, Cardinality
<1>2. \A S, before : F!Sorted(S, before) = Sorted(S, before)
  BY <1>1 DEF F!Sorted, Sorted
<1>3. \A list : F!ToSet(list) = ToSet(list)
  BY DEF F!ToSet, ToSet
<1> QED
  BY <1>1, <1>2, <1>3

\* A set as a list lists it.
LEMMA SetsAreListed ==
    ASSUME NEW S, IsFiniteSet(S)
    PROVE  Lists(F!SetToSeq(S), S)
<1> DEFINE N == Cardinality(S)
           list == CHOOSE f \in [1 .. N -> S] : F!IsInjective(f)
<1>1. N \in Nat /\ \E f \in Bijection(1 .. N, S) : TRUE
  BY FS_CardinalityType DEF ExistsBijection
<1> HIDE DEF N
<1>2. PICK f \in [1 .. N -> S] : F!IsInjective(f)
  BY <1>1 DEF Bijection, Injection, IsInjective, F!IsInjective
<1>3. list \in [1 .. N -> S] /\ F!IsInjective(list)
  BY <1>2
<1>4. F!SetToSeq(S) = list
  BY FiltersSpeakTheSame DEF F!SetToSeq, N
<1> HIDE DEF list
<1>5. IsFiniteSet(1 .. N) /\ Cardinality(1 .. N) = N
  <2>1. 1 \in Int /\ N \in Int
    BY <1>1
  <2>2. Cardinality(1 .. N) = IF 1 > N THEN 0 ELSE N - 1 + 1
    BY <2>1, FS_Interval
  <2> QED
    BY <1>1, <2>1, <2>2, FS_Interval
<1>6. list \in Injection(1 .. N, S)
  BY <1>3 DEF Injection, IsInjective, F!IsInjective
<1>7. list \in Surjection(1 .. N, S)
  BY <1>5, <1>6, FS_Injection DEF N
<1>8. /\ list \in Seq(S) /\ Len(list) = N
      /\ \A i, j \in 1 .. N : list[i] = list[j] => i = j
      /\ \A k \in S : \E i \in 1 .. N : list[i] = k
  BY <1>1, <1>3, <1>6, <1>7 DEF Injection, IsInjective, Surjection
<1> QED
  BY <1>4, <1>8, ListOf

\* The batches of a list have all of it.
LEMMA LesserOfTwo ==
    ASSUME NEW a \in Nat, NEW b \in Nat
    PROVE  F!Min({a, b}) = IF a <= b THEN a ELSE b
<1>1. \E x \in {a, b} : \A y \in {a, b} : x <= y
  OBVIOUS
<1> DEFINE least == CHOOSE x \in {a, b} : \A y \in {a, b} : x <= y
<1>2. least \in {a, b} /\ \A y \in {a, b} : least <= y
  BY <1>1
<1>3. F!Min({a, b}) = least
  BY DEF F!Min
<1> HIDE DEF least
<1> QED
  BY <1>2, <1>3

LEMMA PartsOfLists ==
    ASSUME NEW T, NEW s \in Seq(T), NEW m \in 1 .. Len(s), NEW n \in 1 .. Len(s)
    PROVE  ToSet(SubSeq(s, m, n)) = {s[j] : j \in m .. n}
<1> DEFINE part == SubSeq(s, m, n)
<1>1. part = [i \in 1 .. (IF m <= n THEN (n - m) + 1 ELSE 0) |-> s[(m + i) - 1]]
  OBVIOUS
<1>2. DOMAIN part = 1 .. (IF m <= n THEN (n - m) + 1 ELSE 0)
      /\ \A i \in DOMAIN part : part[i] = s[(m + i) - 1]
  BY <1>1
<1>3. m \in Nat /\ n \in Nat
  OBVIOUS
<1> HIDE DEF part
<1>4. ASSUME NEW i \in DOMAIN part PROVE \E j \in m .. n : s[j] = part[i]
  <2>1. (m + i) - 1 \in m .. n /\ part[i] = s[(m + i) - 1]
    BY <1>2, <1>3, <1>4
  <2> QED
    BY <2>1
<1>5. ASSUME NEW j \in m .. n PROVE \E i \in DOMAIN part : part[i] = s[j]
  <2>1. (j - m) + 1 \in DOMAIN part /\ (m + ((j - m) + 1)) - 1 = j
    BY <1>2, <1>3, <1>5
  <2> QED
    BY <1>2, <2>1
<1>6. \A v : v \in ToSet(part) <=> v \in {s[j] : j \in m .. n}
  BY <1>4, <1>5 DEF ToSet
<1> QED
  BY <1>6 DEF part

LEMMA BatchesHaveAll ==
    ASSUME NEW T, NEW queries \in Seq(T)
    PROVE  \A one : one \in ToSet(queries) <=>
               \E i \in DOMAIN F!Batches(queries, 3) : one \in ToSet(F!Batches(queries, 3)[i])
<1> DEFINE N == Len(queries)
           batches == F!Batches(queries, 3)
           End(i) == IF i * 3 <= N THEN i * 3 ELSE N
<1>1. N \in Nat /\ DOMAIN queries = 1 .. N
  OBVIOUS
<1>2. DOMAIN batches = 1 .. ((N + 3 - 1) \div 3)
      /\ \A i \in DOMAIN batches : batches[i] = SubSeq(queries, (i - 1) * 3 + 1, F!Min({i * 3, N}))
  BY DEF F!Batches
<1> HIDE DEF batches, N
<1>3. ASSUME NEW i \in DOMAIN batches
      PROVE  /\ (i - 1) * 3 + 1 \in 1 .. N /\ End(i) \in 1 .. N
             /\ ToSet(batches[i]) = {queries[j] : j \in (i - 1) * 3 + 1 .. End(i)}
  <2>1. i \in Nat /\ i >= 1 /\ i <= (N + 3 - 1) \div 3
    BY <1>1, <1>2, <1>3
  <2>2. (i - 1) * 3 + 1 \in 1 .. N /\ End(i) \in 1 .. N
    BY <1>1, <2>1
  <2>3. F!Min({i * 3, N}) = End(i)
    <3>1. i * 3 \in Nat
      BY <2>1
    <3> QED
      BY <1>1, <3>1, LesserOfTwo
  <2>4. batches[i] = SubSeq(queries, (i - 1) * 3 + 1, End(i))
    BY <1>2, <2>3
  <2> HIDE DEF End
  <2> QED
    BY <2>2, <2>4, PartsOfLists DEF N
<1>4. ASSUME NEW j \in 1 .. N
      PROVE  \E i \in DOMAIN batches : j \in (i - 1) * 3 + 1 .. End(i)
  <2> DEFINE i == (j + 2) \div 3
  <2>1. i \in Nat /\ i >= 1 /\ 3 * i <= j + 2 /\ j + 2 < 3 * i + 3 /\ i <= (N + 3 - 1) \div 3
    BY <1>1
  <2> HIDE DEF i
  <2>2. i \in DOMAIN batches
    BY <1>1, <1>2, <2>1
  <2>3. j \in (i - 1) * 3 + 1 .. End(i)
    BY <1>1, <2>1
  <2> QED
    BY <2>2, <2>3
<1> HIDE DEF End
<1>5. ASSUME NEW one \in ToSet(queries) PROVE \E i \in DOMAIN batches : one \in ToSet(batches[i])
  <2>1. PICK j \in 1 .. N : queries[j] = one
    BY <1>1, <1>5 DEF ToSet
  <2>2. PICK i \in DOMAIN batches : j \in (i - 1) * 3 + 1 .. End(i)
    BY <1>4
  <2> QED
    BY <1>3, <2>1, <2>2
<1>6. ASSUME NEW i \in DOMAIN batches, NEW one \in ToSet(batches[i]) PROVE one \in ToSet(queries)
  <2>1. PICK j \in (i - 1) * 3 + 1 .. End(i) : queries[j] = one
    BY <1>3, <1>6
  <2>2. j \in 1 .. N
    <3>1. (i - 1) * 3 + 1 \in 1 .. N /\ End(i) \in 1 .. N
      BY <1>3
    <3> QED
      BY <1>1, <3>1
  <2> QED
    BY <1>1, <2>1, <2>2 DEF ToSet
<1> QED
  BY <1>5, <1>6 DEF batches

\* When nothing fails, what the batches list is what is asked for.
LEMMA BatchesListAll ==
    ASSUME NEW T, NEW queries \in Seq(T), NEW org
    PROVE  F!ListBatched(queries, org, {}) = {c \in org : <<c.type, c.folder>> \in ToSet(queries)}
<1> DEFINE batches == F!Batches(queries, 3)
<1>1. \A one : one \in ToSet(queries) <=> \E i \in DOMAIN batches : one \in ToSet(batches[i])
  BY BatchesHaveAll
<1>2. \A batch : F!ListMetadataBatch(batch, org, {}) = {c \in org : <<c.type, c.folder>> \in ToSet(batch)}
  <2> TAKE batch
  <2>1. F!ListMetadataBatch(batch, org, {}) = {c \in org : \E one \in ToSet(batch) \ {} : one = <<c.type, c.folder>>}
    BY FiltersSpeakTheSame DEF F!ListMetadataBatch
  <2> QED
    BY <2>1
<1>3. F!ListBatched(queries, org, {}) = UNION {F!ListMetadataBatch(batches[i], org, {}) : i \in DOMAIN batches}
  BY DEF F!ListBatched
<1> HIDE DEF batches
<1>4. \A c : c \in F!ListBatched(queries, org, {}) <=> \E i \in DOMAIN batches : c \in F!ListMetadataBatch(batches[i], org, {})
  BY <1>3
<1>5. \A c : c \in F!ListBatched(queries, org, {}) <=> c \in org /\ <<c.type, c.folder>> \in ToSet(queries)
  <2> TAKE c
  <2>1. \A i \in DOMAIN batches : c \in F!ListMetadataBatch(batches[i], org, {}) <=>
            c \in org /\ <<c.type, c.folder>> \in ToSet(batches[i])
    BY <1>2
  <2>2. <<c.type, c.folder>> \in ToSet(queries) <=> \E i \in DOMAIN batches : <<c.type, c.folder>> \in ToSet(batches[i])
    BY <1>1
  <2> QED
    BY <1>4, <2>1, <2>2
<1> QED
  BY <1>5

\* What an org has of some types, in the folders it lists; and what it lists for a filter.
Queried(q, types) ==
    {c \in q.org : /\ c.type \in types
                   /\ IF c.type \in F!FolderTypes THEN c.folder \in q.folders \cup {F!UnfiledPublicFolder}
                      ELSE c.type \notin F!Singletons}
Fixed(t) == [type |-> t, fullName |-> <<t>>, lastModifiedDate |-> Unset, modifiedBy |-> Unset,
             namespacePrefix |-> Unset, manageableState |-> Unset]
Listable(q, types) == {F!OrgEntry(c) : c \in Queried(q, types)} \cup {Fixed(t) : t \in types \cap F!Singletons}

LEMMA OrgLists ==
    ASSUME NEW q \in Listings, NEW filter, IsFiniteSet(F!ResolveInventoryTypes(filter))
    PROVE  F!OrgInventory(q.org, q.folders, {}, filter) =
               {p \in Listable(q, F!ResolveInventoryTypes(filter)) : F!MatchesTypeFilter(p, filter)}
<1> DEFINE types == F!ResolveInventoryTypes(filter)
           plain == {<<t, "">> : t \in types \ (F!FolderTypes \cup F!Singletons)}
           folders == q.folders \cup {F!UnfiledPublicFolder}
           inFolders == (types \cap F!FolderTypes) \X folders
           here == F!ListBatched(F!SetToSeq(plain), q.org, {}) \cup F!ListBatched(F!SetToSeq(inFolders), q.org, {})
<1> HIDE DEF types
<1>1. IsFiniteSet(plain)
  <2> DEFINE S == types \ (F!FolderTypes \cup F!Singletons)
             f == [t \in S |-> <<t, "">>]
  <2>1. IsFiniteSet(S)
    BY FS_Difference DEF types
  <2>2. IsFiniteSet({f[t] : t \in S})
    <3> HIDE DEF S, f
    <3> QED
      BY <2>1, FiniteImage
  <2>3. \A t \in S : f[t] = <<t, "">>
    OBVIOUS
  <2> HIDE DEF S, f
  <2>4. {f[t] : t \in S} = {<<t, "">> : t \in S}
    BY <2>3
  <2> QED
    BY <2>2, <2>4 DEF S
<1>2. IsFiniteSet(inFolders)
  <2>1. IsFiniteSet(types \cap F!FolderTypes)
    BY FS_Intersection DEF types
  <2>2. IsFiniteSet(folders)
    <3>1. IsFiniteSet(q.folders)
      BY ListingsAssumption
    <3> QED
      BY <3>1, FS_AddElement
  <2> HIDE DEF folders
  <2> QED
    BY <2>1, <2>2, FS_Product
<1>3. F!OrgInventory(q.org, q.folders, {}, filter) =
          {p \in {F!OrgEntry(c) : c \in here} \cup {Fixed(t) : t \in types \cap F!Singletons} : F!MatchesTypeFilter(p, filter)}
  <2>1. (IF <<"ReportFolder", "">> \in {} THEN {} ELSE q.folders) = q.folders
    OBVIOUS
  <2>2. {Fixed(t) : t \in types \cap F!Singletons} =
            {[type |-> t, fullName |-> <<t>>, lastModifiedDate |-> Unset, modifiedBy |-> Unset,
              namespacePrefix |-> Unset, manageableState |-> Unset] : t \in types \cap F!Singletons}
    BY DEF Fixed
  <2> QED
    BY <2>1, <2>2 DEF F!OrgInventory, types
<1> HIDE DEF plain, inFolders
<1>4. \A c : c \in here <=> c \in q.org /\ (<<c.type, c.folder>> \in plain \/ <<c.type, c.folder>> \in inFolders)
  <2>1. /\ F!SetToSeq(plain) \in Seq(plain) /\ ToSet(F!SetToSeq(plain)) = plain
        /\ F!SetToSeq(inFolders) \in Seq(inFolders) /\ ToSet(F!SetToSeq(inFolders)) = inFolders
    BY <1>1, <1>2, SetsAreListed DEF Lists
  <2>2. F!ListBatched(F!SetToSeq(plain), q.org, {}) = {c \in q.org : <<c.type, c.folder>> \in plain}
    BY <2>1, BatchesListAll
  <2>3. F!ListBatched(F!SetToSeq(inFolders), q.org, {}) = {c \in q.org : <<c.type, c.folder>> \in inFolders}
    BY <2>1, BatchesListAll
  <2> QED
    BY <2>2, <2>3
<1> HIDE DEF here
<1>5. \A c \in q.org : /\ <<c.type, c.folder>> \in plain <=> c.type \in types \ (F!FolderTypes \cup F!Singletons) /\ c.folder = ""
                       /\ <<c.type, c.folder>> \in inFolders <=> c.type \in types \cap F!FolderTypes /\ c.folder \in folders
  BY DEF plain, inFolders
<1> HIDE DEF folders
<1>6. \A c \in q.org : (c.type \in F!FolderTypes) = (c.folder # "")
  BY ListingsAssumption
<1>7. \A c : c \in here <=> c \in Queried(q, types)
  BY <1>4, <1>5, <1>6 DEF Queried, folders
<1>8. here = Queried(q, types)
  BY <1>7
<1> QED
  BY <1>3, <1>8 DEF Listable, types

\* What the editor makes of a filter.
EditedOf(q) == F!BuildTypeFilter(F!Given(q.filter.types), F!ScopeFieldsFromFilter(q.filter))
\* A field of a filter as the editor leaves it: nothing asked is left out.
Tidy(asks) == IF asks = {} THEN Unset ELSE asks

\* A filter, field by field; and what the editor makes of it, which has its default.
HasFields(f, types, patterns, since, by, namespaces, managed) ==
    /\ f.types = types /\ f.namePatterns = patterns /\ f.modifiedSince = since /\ f.modifiedBy = by
    /\ f.excludeNamespaces = namespaces /\ f.excludeManagedPackages = managed

LEMMA FiltersByField ==
    ASSUME NEW q \in Listings
    PROVE  LET f == q.filter
               managed == f.excludeManagedPackages # FALSE
               edited == EditedOf(q)
               plain == F!WithoutNamespaceFiltering(edited)
           IN  /\ HasFields(F!WithManagedPackageDefault(f), f.types, f.namePatterns, f.modifiedSince, f.modifiedBy,
                            f.excludeNamespaces, managed)
               /\ HasFields(edited, Tidy(f.types), Tidy(f.namePatterns), f.modifiedSince, Unset,
                            Tidy(f.excludeNamespaces), managed)
               /\ HasFields(plain, Tidy(f.types), Tidy(f.namePatterns), f.modifiedSince, Unset, Unset, FALSE)
               /\ F!WithManagedPackageDefault(edited) = edited /\ F!WithManagedPackageDefault(plain) = plain
<1> DEFINE f == q.filter
           managed == f.excludeManagedPackages # FALSE
           edited == EditedOf(q)
           plain == F!WithoutNamespaceFiltering(edited)
           default == F!WithManagedPackageDefault(f)
<1>1. /\ Unset \notin BOOLEAN /\ Unset # {}
      /\ DOMAIN f = {"types", "namePatterns", "modifiedSince", "modifiedBy", "excludeNamespaces", "excludeManagedPackages"}
      /\ f.excludeManagedPackages \in BOOLEAN \cup {Unset}
  BY ListingsAssumption
<1>2. HasFields(default, f.types, f.namePatterns, f.modifiedSince, f.modifiedBy, f.excludeNamespaces, managed)
  <2> HIDE DEF f
  <2>1. CASE f.excludeManagedPackages = Unset
    <3>1. default = [f EXCEPT !.excludeManagedPackages = TRUE]
      BY <2>1 DEF F!WithManagedPackageDefault
    <3>2. Unset # FALSE
      BY <1>1
    <3>3. managed = TRUE
      BY <2>1, <3>2
    <3> HIDE DEF default, managed
    <3> QED
      BY <1>1, <3>1, <3>3 DEF HasFields
  <2>2. CASE f.excludeManagedPackages # Unset
    <3>1. default = f
      BY <2>2 DEF F!WithManagedPackageDefault
    <3>2. f.excludeManagedPackages = managed
      BY <1>1, <2>2
    <3> HIDE DEF default, managed
    <3> QED
      BY <3>1, <3>2 DEF HasFields
  <2> QED
    BY <2>1, <2>2
<1>3. edited = [types |-> Tidy(f.types), namePatterns |-> Tidy(f.namePatterns), modifiedSince |-> f.modifiedSince,
                modifiedBy |-> Unset, excludeNamespaces |-> Tidy(f.excludeNamespaces), excludeManagedPackages |-> managed]
  <2>1. \A x : (IF F!Given(x) = {} THEN Unset ELSE F!Given(x)) = Tidy(x)
    BY <1>1 DEF F!Given, Tidy
  <2>2. /\ F!ScopeFieldsFromFilter(f).namePatterns = F!Given(f.namePatterns)
        /\ F!ScopeFieldsFromFilter(f).modifiedSince = f.modifiedSince
        /\ F!ScopeFieldsFromFilter(f).excludeNamespaces = F!Given(f.excludeNamespaces)
        /\ F!ScopeFieldsFromFilter(f).excludeManagedPackages = managed
    BY DEF F!ScopeFieldsFromFilter
  <2> QED
    BY <2>1, <2>2 DEF EditedOf, F!BuildTypeFilter
<1> HIDE DEF edited
<1>4. HasFields(edited, Tidy(f.types), Tidy(f.namePatterns), f.modifiedSince, Unset, Tidy(f.excludeNamespaces), managed)
  BY <1>3 DEF HasFields
<1>5. DOMAIN edited = {"types", "namePatterns", "modifiedSince", "modifiedBy", "excludeNamespaces", "excludeManagedPackages"}
  BY <1>3
<1>6. plain = [edited EXCEPT !.excludeNamespaces = Unset, !.excludeManagedPackages = FALSE]
  BY DEF F!WithoutNamespaceFiltering
<1> HIDE DEF plain
<1>7. HasFields(plain, Tidy(f.types), Tidy(f.namePatterns), f.modifiedSince, Unset, Unset, FALSE)
  BY <1>4, <1>5, <1>6 DEF HasFields
<1>8. managed \in BOOLEAN /\ managed # Unset /\ FALSE # Unset
  BY <1>1
<1> HIDE DEF managed
<1>9. F!WithManagedPackageDefault(edited) = edited /\ F!WithManagedPackageDefault(plain) = plain
  BY <1>4, <1>7, <1>8 DEF F!WithManagedPackageDefault, HasFields
<1> QED
  BY <1>2, <1>4, <1>7, <1>9 DEF f, managed, edited, plain

\* The editor's filter asks for the same types and entries, but for authors; and without
\* its exclusions, for no fewer: an entry only they exclude has a namespace.
LEMMA EditedAsksTheSame ==
    ASSUME NEW q \in Listings
    PROVE  LET default == F!WithManagedPackageDefault(q.filter)
               edited == EditedOf(q)
               plain == F!WithoutNamespaceFiltering(edited)
           IN  /\ F!ResolveInventoryTypes(edited) = F!ResolveInventoryTypes(default)
               /\ F!ResolveInventoryTypes(plain) = F!ResolveInventoryTypes(edited)
               /\ IsFiniteSet(F!ResolveInventoryTypes(edited))
               /\ q.filter.modifiedBy \in {Unset, {}} =>
                      \A p : F!MatchesTypeFilter(p, edited) <=> F!MatchesTypeFilter(p, default)
               /\ \A p : F!MatchesTypeFilter(p, edited) => F!MatchesTypeFilter(p, plain)
               /\ \A p : F!MatchesTypeFilter(p, plain) /\ ~F!MatchesTypeFilter(p, edited) => F!ResolveNamespace(p) # ""
<1> DEFINE f == q.filter
           managed == f.excludeManagedPackages # FALSE
           default == F!WithManagedPackageDefault(f)
           edited == EditedOf(q)
           plain == F!WithoutNamespaceFiltering(edited)
<1>1. Unset # {} /\ (f.types # Unset => IsFiniteSet(f.types))
  BY ListingsAssumption
<1>2. /\ HasFields(default, f.types, f.namePatterns, f.modifiedSince, f.modifiedBy, f.excludeNamespaces, managed)
      /\ HasFields(edited, Tidy(f.types), Tidy(f.namePatterns), f.modifiedSince, Unset, Tidy(f.excludeNamespaces), managed)
      /\ HasFields(plain, Tidy(f.types), Tidy(f.namePatterns), f.modifiedSince, Unset, Unset, FALSE)
  BY FiltersByField
<1> HIDE DEF f, managed, default, edited, plain
<1>3. /\ F!ResolveInventoryTypes(edited) = F!ResolveInventoryTypes(default)
      /\ F!ResolveInventoryTypes(plain) = F!ResolveInventoryTypes(edited)
  BY <1>1, <1>2 DEF HasFields, Tidy, F!ResolveInventoryTypes
<1>4. IsFiniteSet(F!ResolveInventoryTypes(edited))
  <2>1. CASE Tidy(f.types) = Unset
    <3>1. F!ResolveInventoryTypes(edited) = {"CustomField", "Layout", "Report"}
      BY <1>2, <2>1 DEF HasFields, F!ResolveInventoryTypes, F!DefaultInventoryTypes
    <3>2. {"CustomField", "Layout", "Report"} = ({} \cup {"CustomField"} \cup {"Layout"}) \cup {"Report"}
      OBVIOUS
    <3>3. IsFiniteSet(({} \cup {"CustomField"} \cup {"Layout"}) \cup {"Report"})
      <4>1. IsFiniteSet({} \cup {"CustomField"})
        BY FS_EmptySet, FS_AddElement
      <4>2. IsFiniteSet({} \cup {"CustomField"} \cup {"Layout"})
        BY <4>1, FS_AddElement
      <4> QED
        BY <4>2, FS_AddElement
    <3> QED
      BY <3>1, <3>2, <3>3
  <2>2. CASE Tidy(f.types) # Unset
    <3>1. Tidy(f.types) = f.types /\ f.types # Unset /\ f.types # {}
      BY <2>2 DEF Tidy
    <3>2. F!ResolveInventoryTypes(edited) = f.types
      BY <1>2, <3>1 DEF HasFields, F!ResolveInventoryTypes
    <3> QED
      BY <1>1, <3>1, <3>2
  <2> QED
    BY <2>1, <2>2
<1>5. ASSUME f.modifiedBy \in {Unset, {}}, NEW p
      PROVE  F!MatchesTypeFilter(p, edited) <=> F!MatchesTypeFilter(p, default)
  BY <1>1, <1>2, <1>5 DEF F!MatchesTypeFilter, HasFields, Tidy
<1>6. ASSUME NEW p, F!MatchesTypeFilter(p, edited)
      PROVE  F!MatchesTypeFilter(p, plain)
  BY <1>2, <1>6 DEF F!MatchesTypeFilter, HasFields
<1>7. ASSUME NEW p, F!MatchesTypeFilter(p, plain), F!ResolveNamespace(p) = ""
      PROVE  F!MatchesTypeFilter(p, edited)
  BY <1>2, <1>7 DEF F!MatchesTypeFilter, HasFields
<1> QED
  BY <1>3, <1>4, <1>5, <1>6, <1>7 DEF f, default, edited, plain

\* Of components of no package, in folders the org lists, an org lists for a filter of
\* their types and of no author what a project lists.
LEMMA SidesAgree ==
    ASSUME NEW q \in Listings, NEW kind, NEW filter, filter = F!WithManagedPackageDefault(q.filter),
           filter.types \notin {Unset, {}}, filter.types \cap F!Singletons = {},
           filter.modifiedBy \in {Unset, {}} \/ kind = "git-ref",
           \A c \in q.org : PlainlyNamed(c) /\ (c.folder # "" => c.folder \in q.folders)
    PROVE  KeysOf(F!OrgInventory(q.org, q.folders, {}, filter)) = KeysOf(F!ProjectInventory(q.org, kind, filter))
<1> DEFINE types == filter.types
           listed == F!OrgInventory(q.org, q.folders, {}, filter)
           written == F!ProjectInventory(q.org, kind, filter)
<1>1. F!ResolveInventoryTypes(filter) = types /\ IsFiniteSet(F!ResolveInventoryTypes(filter))
  <2>1. F!ResolveInventoryTypes(filter) = types
    BY DEF F!ResolveInventoryTypes
  <2>2. IsFiniteSet(F!ResolveInventoryTypes(filter))
    BY EditedAsksTheSame
  <2> QED
    BY <2>1, <2>2
<1>2. listed = {p \in Listable(q, types) : F!MatchesTypeFilter(p, filter)}
  BY <1>1, OrgLists
<1>3. Listable(q, types) = {F!OrgEntry(c) : c \in Queried(q, types)}
  <2>1. {Fixed(t) : t \in types \cap F!Singletons} = {}
    OBVIOUS
  <2> QED
    BY <2>1 DEF Listable
<1>4. \A c \in q.org : c \in Queried(q, types) <=> c.type \in types
  <2> TAKE c \in q.org
  <2>1. (c.type \in F!FolderTypes) = (c.folder # "")
    BY ListingsAssumption
  <2>2. c.type \in F!FolderTypes => c.folder \in q.folders
    BY <2>1
  <2> QED
    BY <2>2 DEF Queried
<1>5. ASSUME NEW c \in q.org
      PROVE  /\ F!OrgEntry(c).type = c.type /\ F!OrgEntry(c).fullName = c.fullName
             /\ F!ProjectEntry(c, kind).type = c.type /\ F!ProjectEntry(c, kind).fullName = c.fullName
             /\ F!MatchesTypeFilter(F!OrgEntry(c), filter) <=> F!MatchesTypeFilter(F!ProjectEntry(c, kind), filter)
             /\ F!MatchesTypeFilter(F!ProjectEntry(c, kind), filter) => c.type \in types
  <2> DEFINE o == F!OrgEntry(c)
             p == F!ProjectEntry(c, kind)
  <2>1. /\ o.type = c.type /\ o.fullName = c.fullName /\ o.lastModifiedDate = c.date /\ o.namespacePrefix = c.package
        /\ p.type = c.type /\ p.fullName = c.fullName /\ p.lastModifiedDate = c.date /\ p.namespacePrefix = Unset
        /\ o.modifiedBy = c.by
        /\ kind = "git-ref" => p.modifiedBy = c.by
    BY DEF F!OrgEntry, F!ProjectEntry
  <2>2. c.package # Unset /\ c.package = "" /\ F!ExtractNamespace(c.fullName) = ""
    BY <1>5, ListingsAssumption DEF PlainlyNamed
  <2> HIDE DEF o, p
  <2>3. F!ResolveNamespace(o) = "" /\ F!ResolveNamespace(p) = ""
    BY <2>1, <2>2 DEF F!ResolveNamespace
  <2>4. F!MatchesTypeFilter(o, filter) <=> F!MatchesTypeFilter(p, filter)
    BY <2>1, <2>3 DEF F!MatchesTypeFilter
  <2>5. F!MatchesTypeFilter(p, filter) => c.type \in types
    BY <2>1 DEF F!MatchesTypeFilter
  <2> QED
    BY <2>1, <2>4, <2>5 DEF o, p
<1>6. \A k : k \in KeysOf(listed) <=> \E c \in q.org : k = <<c.type, c.fullName>> /\ F!MatchesTypeFilter(F!ProjectEntry(c, kind), filter)
  <2> TAKE k
  <2>1. ASSUME k \in KeysOf(listed)
        PROVE  \E c \in q.org : k = <<c.type, c.fullName>> /\ F!MatchesTypeFilter(F!ProjectEntry(c, kind), filter)
    <3>1. PICK p \in listed : k = <<p.type, p.fullName>>
      BY <2>1 DEF KeysOf
    <3>2. PICK c \in Queried(q, types) : p = F!OrgEntry(c)
      BY <1>2, <1>3, <3>1
    <3>3. c \in q.org /\ F!MatchesTypeFilter(p, filter)
      BY <1>2, <3>1, <3>2 DEF Queried
    <3> QED
      BY <1>5, <3>1, <3>2, <3>3
  <2>2. ASSUME NEW c \in q.org, k = <<c.type, c.fullName>>, F!MatchesTypeFilter(F!ProjectEntry(c, kind), filter)
        PROVE  k \in KeysOf(listed)
    <3>1. c \in Queried(q, types)
      BY <1>4, <1>5, <2>2
    <3>2. F!OrgEntry(c) \in listed
      BY <1>2, <1>3, <1>5, <2>2, <3>1
    <3> QED
      BY <1>5, <2>2, <3>2 DEF KeysOf
  <2> QED
    BY <2>1, <2>2
<1>7. \A k : k \in KeysOf(written) <=> \E c \in q.org : k = <<c.type, c.fullName>> /\ F!MatchesTypeFilter(F!ProjectEntry(c, kind), filter)
  <2> TAKE k
  <2>1. written = {p \in {F!ProjectEntry(c, kind) : c \in q.org} : F!MatchesTypeFilter(p, filter)}
    BY DEF F!ProjectInventory
  <2> HIDE DEF written
  <2>2. k \in KeysOf(written) <=> \E p \in written : k = <<p.type, p.fullName>>
    BY DEF KeysOf
  <2> QED
    BY <1>5, <2>1, <2>2
<1> HIDE DEF listed, written
<1>8. \A k : k \in KeysOf(listed) <=> k \in KeysOf(written)
  BY <1>6, <1>7
<1>9. KeysOf(listed) = KeysOf(written)
  <2> DEFINE A1 == KeysOf(listed)
             A2 == KeysOf(written)
  <2>1. \A k : k \in A1 <=> k \in A2
    BY <1>8
  <2>2. A1 = {<<p.type, p.fullName>> : p \in listed} /\ A2 = {<<p.type, p.fullName>> : p \in written}
    BY DEF KeysOf
  <2> HIDE DEF A1, A2
  <2>3. A1 = A2
    BY <2>1
  <2> QED
    BY <2>3 DEF A1, A2
<1> QED
  BY <1>9 DEF listed, written

\* The filters a user saves: two files, the first of which is listed first, as the
\* latest, and alone when it is the only one; saved again, it is as old as before.
StoredAs(id, filter, now) ==
    [version |-> 1, id |-> id, filter |-> filter, updatedAt |-> now, createdAt |-> now]

LEMMA FiltersAreKept ==
    ASSUME NEW q \in Listings
    PROVE  LET set   == [id |-> 1, filter |-> q.filter]
               plain == [id |-> 2, filter |-> F!WithoutNamespaceFiltering(q.filter)]
               files == F!Save(F!Save(<<>>, set, 7), plain, 6)
           IN  /\ F!ListFilterSets(files)[1].filter = q.filter
               /\ F!FilterSetFromYaml(F!Save(files, set, 9)[1]).createdAt = 7
               /\ F!ListFilterSets(F!DeleteFilterSet(files, 1)) = <<files[2]>>
<1> DEFINE set   == [id |-> 1, filter |-> q.filter]
           plain == [id |-> 2, filter |-> F!WithoutNamespaceFiltering(q.filter)]
           one   == F!Save(<<>>, set, 7)
           files == F!Save(one, plain, 6)
           A1 == StoredAs(1, q.filter, 7)
           A2 == StoredAs(2, F!WithoutNamespaceFiltering(q.filter), 6)
<1>1. Unset \notin Nat /\ A1 # Unset /\ A2 # Unset
  <2>1. A1 = F!ToFilterSet([version |-> 0, id |-> 1, filter |-> q.filter, updatedAt |-> 7, createdAt |-> 7])
    BY DEF StoredAs, F!ToFilterSet, F!FilterSetSchemaVersion
  <2>2. A2 = F!ToFilterSet([version |-> 0, id |-> 2, filter |-> F!WithoutNamespaceFiltering(q.filter), updatedAt |-> 6, createdAt |-> 6])
    BY DEF StoredAs, F!ToFilterSet, F!FilterSetSchemaVersion
  <2> HIDE DEF A1, A2
  <2> QED
    BY <2>1, <2>2, ListingsAssumption
<1>2. /\ A1.version = 1 /\ A1.id = 1 /\ A1.filter = q.filter /\ A1.updatedAt = 7 /\ A1.createdAt = 7
      /\ A2.version = 1 /\ A2.id = 2 /\ A2.updatedAt = 6 /\ A2.createdAt = 6
  BY DEF StoredAs
<1>3. /\ set.id = 1 /\ set.filter = q.filter /\ plain.id = 2 /\ plain.filter = F!WithoutNamespaceFiltering(q.filter)
  OBVIOUS
<1> HIDE DEF set, plain
<1>4. DOMAIN one = {1} /\ one[1] = A1
  <2> DEFINE draft == [version |-> 0, id |-> 1, filter |-> q.filter, updatedAt |-> 7, createdAt |-> 7]
  <2>1. one = F!SaveFilterSet(<<>>, draft)
    BY <1>3 DEF F!Save
  <2>2. draft.id = 1 /\ F!ToFilterSet(draft) = A1
    BY DEF F!ToFilterSet, F!FilterSetSchemaVersion, StoredAs
  <2> HIDE DEF draft, one, A1
  <2> QED
    BY <2>1, <2>2 DEF F!SaveFilterSet
<1> HIDE DEF one
<1>5. DOMAIN files = {1, 2} /\ files[1] = A1 /\ files[2] = A2
  <2> DEFINE draft == [version |-> 0, id |-> 2, filter |-> F!WithoutNamespaceFiltering(q.filter), updatedAt |-> 6, createdAt |-> 6]
  <2>1. files = F!SaveFilterSet(one, draft)
    BY <1>3, <1>4 DEF F!Save
  <2>2. draft.id = 2 /\ F!ToFilterSet(draft) = A2
    BY DEF F!ToFilterSet, F!FilterSetSchemaVersion, StoredAs
  <2> HIDE DEF draft, files, A1, A2
  <2> QED
    BY <1>4, <2>1, <2>2 DEF F!SaveFilterSet
<1> HIDE DEF files, A1, A2
<1>6. F!FilterSetFromYaml(A1) = A1 /\ F!FilterSetFromYaml(A2) = A2
  BY <1>1, <1>2 DEF F!FilterSetFromYaml, F!FilterSetSchemaVersion
<1>7. F!FilterSetFromYaml(F!Save(files, set, 9)[1]).createdAt = 7
  <2> DEFINE draft == [version |-> 0, id |-> 1, filter |-> q.filter, updatedAt |-> 9, createdAt |-> 7]
             again == [version |-> 1, id |-> 1, filter |-> q.filter, updatedAt |-> 9, createdAt |-> 7]
  <2>1. F!Save(files, set, 9) = F!SaveFilterSet(files, draft)
    BY <1>1, <1>2, <1>3, <1>5, <1>6 DEF F!Save
  <2>2. draft.id = 1 /\ F!ToFilterSet(draft) = again
    BY DEF F!ToFilterSet, F!FilterSetSchemaVersion
  <2> HIDE DEF draft
  <2>3. F!Save(files, set, 9)[1] = again
    BY <1>5, <2>1, <2>2 DEF F!SaveFilterSet
  <2>4. again.version = 1 /\ again.id = 1 /\ again.updatedAt = 9 /\ again.createdAt = 7
    OBVIOUS
  <2> HIDE DEF again
  <2>5. F!FilterSetFromYaml(again) = again
    BY <1>1, <2>4 DEF F!FilterSetFromYaml, F!FilterSetSchemaVersion
  <2> QED
    BY <2>3, <2>4, <2>5
<1>8. ASSUME NEW S, S # {}, S \subseteq {A1, A2}, NEW before, before = {p \in S \X S : p[1].updatedAt > p[2].updatedAt}
      PROVE  /\ Lists(Sorted(S, before), S) /\ Len(Sorted(S, before)) = Cardinality(S)
             /\ \A i, j \in 1 .. Len(Sorted(S, before)) : i < j => <<Sorted(S, before)[j], Sorted(S, before)[i]>> \notin before
  <2>1. IsFiniteSet(S)
    <3>1. IsFiniteSet({A1} \cup {A2})
      BY FS_Singleton, FS_AddElement
    <3>2. S \in SUBSET ({A1} \cup {A2})
      BY <1>8
    <3> QED
      BY <3>1, <3>2, FS_Subset
  <2>2. WellSorted(S, before)
    <3> SUFFICES ASSUME NEW T \in SUBSET S, T # {}
                 PROVE  \E x \in T : \A y \in T : <<y, x>> \notin before
      BY DEF WellSorted
    <3>1. \A x, y \in S : <<y, x>> \in before <=> y = A1 /\ x = A2
      BY <1>2, <1>8
    <3>2. A1 # A2
      BY <1>2
    <3>3. CASE A1 \in T
      BY <3>1, <3>2, <3>3
    <3>4. CASE A1 \notin T
      BY <3>1, <3>4
    <3> QED
      BY <3>3, <3>4
  <2> QED
    BY <2>1, <2>2, SortedLists, ListsAreAsLong
<1>9. F!ListFilterSets(files)[1] = A1
  <2> DEFINE S == {A1, A2}
             before == {p \in S \X S : p[1].updatedAt > p[2].updatedAt}
             list == Sorted(S, before)
  <2>1. F!ListFilterSets(files) = list
    <3>1. {files[i] : i \in DOMAIN files} = S
      BY <1>5
    <3>2. ~(\E i \in DOMAIN files : F!FilterSetFromYaml(files[i]) = Unset)
      BY <1>1, <1>5, <1>6
    <3> HIDE DEF S
    <3> QED
      BY <3>1, <3>2, FiltersSpeakTheSame DEF F!ListFilterSets
  <2>2. /\ Lists(list, S)
        /\ \A i, j \in 1 .. Len(list) : i < j => <<list[j], list[i]>> \notin before
    BY <1>8
  <2>3. <<A1, A2>> \in before
    BY <1>2
  <2>4. A1 \in S /\ \A x \in S : x = A1 \/ x = A2
    OBVIOUS
  <2> HIDE DEF S, before, list
  <2>5. PICK i \in 1 .. Len(list) : list[i] = A1
    BY <2>2, <2>4, ListFacts
  <2>6. Len(list) \in Nat /\ 1 \in 1 .. Len(list) /\ list[1] \in S
    <3>1. Len(list) \in Nat /\ \A j \in 1 .. Len(list) : list[j] \in S
      BY <2>2, ListFacts
    <3>2. 1 \in 1 .. Len(list)
      BY <2>5, <3>1
    <3> QED
      BY <3>1, <3>2
  <2>7. i # 1 => <<A1, list[1]>> \notin before
    BY <2>2, <2>5, <2>6
  <2>8. list[1] = A1
    BY <2>3, <2>4, <2>5, <2>6, <2>7
  <2> QED
    BY <2>1, <2>8
<1>10. F!ListFilterSets(F!DeleteFilterSet(files, 1)) = <<files[2]>>
  <2> DEFINE left == F!DeleteFilterSet(files, 1)
             S == {A2}
             before == {p \in S \X S : p[1].updatedAt > p[2].updatedAt}
             list == Sorted(S, before)
  <2>1. DOMAIN left = {2} /\ left[2] = A2
    BY <1>5 DEF F!DeleteFilterSet
  <2> HIDE DEF left
  <2>2. F!ListFilterSets(left) = list
    <3>1. {left[i] : i \in DOMAIN left} = S
      BY <2>1
    <3>2. ~(\E i \in DOMAIN left : F!FilterSetFromYaml(left[i]) = Unset)
      BY <1>1, <1>6, <2>1
    <3> HIDE DEF S
    <3> QED
      BY <3>1, <3>2, FiltersSpeakTheSame DEF F!ListFilterSets
  <2>3. Lists(list, S) /\ Len(list) = Cardinality(S)
    BY <1>8
  <2>4. Cardinality(S) = 1
    BY FS_Singleton
  <2>5. list \in Seq(S) /\ Len(list) = 1
    BY <2>3, <2>4 DEF Lists
  <2> HIDE DEF list
  <2>6. list = <<A2>>
    BY <2>5
  <2> QED
    BY <1>5, <2>2, <2>6 DEF left
<1> QED
  BY <1>2, <1>7, <1>9, <1>10 DEF set, plain, one, files

\* A share in tenths of a percent, rounded, is 0 below half of one, and never over 1000.
LEMMA SharesAreRounded ==
    ASSUME NEW b \in Nat, NEW r \in Nat, r <= b, b > 0
    PROVE  LET share == (2000 * r + b) \div (2 * b)
           IN  share \in Nat /\ share <= 1000 /\ (share = 0 <=> 2000 * r < b)
<1> DEFINE n == 2000 * r + b
           d == 2 * b
           share == n \div d
<1>1. n \in Nat /\ d \in Nat /\ d > 0 /\ n <= 2001 * b
  OBVIOUS
<1>2. (n < d <=> 2000 * r < b) /\ 2001 * b < d * 1001
  OBVIOUS
<1> HIDE DEF n, d
<1>3. share \in Nat /\ d * share <= n /\ n < d * (share + 1)
  BY <1>1
<1> HIDE DEF share
<1>4. ASSUME share > 1000 PROVE FALSE
  <2>1. d * share >= d * 1001
    BY <1>1, <1>3, <1>4
  <2> QED
    BY <1>1, <1>2, <1>3, <2>1
<1>5. ASSUME share = 0 PROVE n < d
  BY <1>1, <1>3, <1>5
<1>6. ASSUME n < d, share # 0 PROVE FALSE
  <2>1. share >= 1
    BY <1>3, <1>6
  <2>2. d * share >= d
    BY <1>1, <1>3, <2>1
  <2> QED
    BY <1>1, <1>3, <1>6, <2>2
<1> QED
  BY <1>2, <1>3, <1>4, <1>5, <1>6 DEF n, d, share

\* What the editor says of two listings, one of which has less than the other.
LEMMA ImpactIsWhatIsLacking ==
    ASSUME NEW all, IsFiniteSet(all), NEW kept, kept \subseteq all
    PROVE  LET impact == F!ComputeNamespaceImpact(Cardinality(all), Cardinality(kept))
           IN  /\ impact.removed = Cardinality(all \ kept)
               /\ (impact.removedPercent = 0) = (all = kept \/ 2000 * impact.removed < Cardinality(all))
               /\ impact.removedPercent <= 1000
               /\ impact.removed > 0 => kept # all
<1> DEFINE b == Cardinality(all)
           a == Cardinality(kept)
           impact == F!ComputeNamespaceImpact(b, a)
           r == Cardinality(all \ kept)
<1>1. /\ b \in Nat /\ a \in Nat /\ a <= b /\ (b = a => all = kept) /\ (b = 0 <=> all = {})
      /\ IsFiniteSet(kept)
  BY FS_Subset, FS_CardinalityType, FS_EmptySet
<1>2. r = b - a
  <2>1. all \cap kept = kept
    OBVIOUS
  <2>2. Cardinality(all \ kept) = Cardinality(all) - Cardinality(all \cap kept)
    BY FS_Difference
  <2> QED
    BY <2>1, <2>2
<1>3. all = kept => a = b
  OBVIOUS
<1> HIDE DEF b, a, r
<1>4. impact.removed = r
  BY <1>1, <1>2 DEF F!ComputeNamespaceImpact
<1>5. impact.removedPercent = IF b > 0 THEN (2000 * r + b) \div (2 * b) ELSE 0
  BY <1>1, <1>2 DEF F!ComputeNamespaceImpact
<1>6. impact.removed > 0 => kept # all
  BY <1>1, <1>2, <1>3, <1>4
<1>7. CASE b = 0
  <2>1. all = kept /\ impact.removedPercent = 0
    BY <1>1, <1>5, <1>7
  <2> QED
    BY <1>4, <1>6, <2>1 DEF b, a, r
<1>8. CASE b > 0
  <2> DEFINE share == (2000 * r + b) \div (2 * b)
  <2>1. r \in Nat /\ r <= b
    BY <1>1, <1>2
  <2>2. share \in Nat /\ share <= 1000 /\ (share = 0 <=> 2000 * r < b)
    BY <1>1, <1>8, <2>1, SharesAreRounded
  <2>3. impact.removedPercent = share
    BY <1>5, <1>8
  <2> HIDE DEF share, impact
  <2>4. all = kept => 2000 * r < b
    BY <1>1, <1>2, <1>3, <1>8
  <2>5. impact.removedPercent = 0 <=> (all = kept \/ 2000 * impact.removed < b)
    BY <1>4, <2>2, <2>3, <2>4
  <2>6. (impact.removedPercent = 0) = (all = kept \/ 2000 * impact.removed < b)
    BY <2>5
  <2>7. impact.removedPercent <= 1000
    BY <2>2, <2>3
  <2> QED
    BY <1>4, <1>6, <2>6, <2>7 DEF b, a, r, impact
<1> QED
  BY <1>1, <1>7, <1>8

\* What an org lists is finite.
LEMMA OrgListsAreFinite ==
    ASSUME NEW q \in Listings, NEW types, IsFiniteSet(types)
    PROVE  IsFiniteSet(Listable(q, types))
<1> DEFINE S == Queried(q, types)
           f == [c \in S |-> F!OrgEntry(c)]
           T == types \cap F!Singletons
           g == [t \in T |-> Fixed(t)]
<1>1. IsFiniteSet(S)
  <2>1. IsFiniteSet(q.org)
    BY ListingsAssumption
  <2>2. S \in SUBSET q.org
    BY DEF Queried
  <2> QED
    BY <2>1, <2>2, FS_Subset
<1>2. IsFiniteSet(T)
  BY FS_Intersection
<1>3. (\A c \in S : f[c] = F!OrgEntry(c)) /\ \A t \in T : g[t] = Fixed(t)
  OBVIOUS
<1> HIDE DEF S, f, T, g
<1>4. IsFiniteSet({f[c] : c \in S}) /\ IsFiniteSet({g[t] : t \in T})
  BY <1>1, <1>2, FiniteImage
<1>5. IsFiniteSet({f[c] : c \in S} \cup {g[t] : t \in T})
  BY <1>4, FS_Union
<1>6. {f[c] : c \in S} = {F!OrgEntry(c) : c \in S} /\ {g[t] : t \in T} = {Fixed(t) : t \in T}
  BY <1>3
<1> QED
  BY <1>5, <1>6 DEF Listable, S, T

\* A component a namespace is seen of, by what the org says or by its name.
Namespaced(q) == {c \in q.org : c.package # "" \/ F!ExtractNamespace(c.fullName) # ""}

\* What the editor's exclusions take from an org is of some namespace.
LEMMA TheOrgLosesTheExcluded ==
    ASSUME NEW q \in Listings
    PROVE  LET all  == F!OrgInventory(q.org, q.folders, {}, F!WithoutNamespaceFiltering(EditedOf(q)))
               kept == F!OrgInventory(q.org, q.folders, {}, EditedOf(q))
           IN  IsFiniteSet(all) /\ IsFiniteSet(kept) /\ kept \subseteq all /\ (kept # all => Namespaced(q) # {})
<1> DEFINE edited == EditedOf(q)
           plain == F!WithoutNamespaceFiltering(edited)
           types == F!ResolveInventoryTypes(edited)
           all  == F!OrgInventory(q.org, q.folders, {}, plain)
           kept == F!OrgInventory(q.org, q.folders, {}, edited)
<1>1. /\ F!ResolveInventoryTypes(plain) = types /\ IsFiniteSet(types)
      /\ \A p : F!MatchesTypeFilter(p, edited) => F!MatchesTypeFilter(p, plain)
      /\ \A p : F!MatchesTypeFilter(p, plain) /\ ~F!MatchesTypeFilter(p, edited) => F!ResolveNamespace(p) # ""
  BY EditedAsksTheSame
<1> HIDE DEF plain, edited
<1>2. /\ all = {p \in Listable(q, types) : F!MatchesTypeFilter(p, plain)}
      /\ kept = {p \in Listable(q, types) : F!MatchesTypeFilter(p, edited)}
  BY <1>1, OrgLists
<1>3. IsFiniteSet(Listable(q, types))
  BY <1>1, OrgListsAreFinite
<1> HIDE DEF types, all, kept
<1>4. kept \subseteq all /\ all \subseteq Listable(q, types)
  BY <1>1, <1>2
<1>5. IsFiniteSet(all) /\ IsFiniteSet(kept)
  <2>1. all \in SUBSET Listable(q, types) /\ kept \in SUBSET Listable(q, types)
    BY <1>4
  <2> QED
    BY <1>3, <2>1, FS_Subset
<1>6. ASSUME kept # all PROVE Namespaced(q) # {}
  <2>1. PICK p \in all : p \notin kept
    BY <1>4, <1>6
  <2>2. p \in Listable(q, types) /\ F!ResolveNamespace(p) # ""
    BY <1>1, <1>2, <2>1
  <2>3. ASSUME NEW t, p = Fixed(t) PROVE FALSE
    <3>1. p.namespacePrefix = Unset /\ p.fullName = <<t>>
      BY <2>3 DEF Fixed
    <3>2. Len(<<t>>) = 1
      OBVIOUS
    <3>3. F!ExtractNamespace(<<t>>) = ""
      BY <3>2 DEF F!ExtractNamespace
    <3>4. F!ResolveNamespace(p) = ""
      BY <3>1, <3>3 DEF F!ResolveNamespace
    <3> QED
      BY <2>2, <3>4
  <2>4. PICK c \in Queried(q, types) : p = F!OrgEntry(c)
    BY <2>2, <2>3 DEF Listable
  <2>5. c \in q.org
    BY <2>4 DEF Queried
  <2>6. c.package # Unset /\ p.namespacePrefix = c.package
    BY <2>4, <2>5, ListingsAssumption DEF F!OrgEntry
  <2>7. c.package # ""
    BY <2>2, <2>6 DEF F!ResolveNamespace
  <2> QED
    BY <2>5, <2>7 DEF Namespaced
<1> QED
  BY <1>4, <1>5, <1>6 DEF all, kept, plain, edited

\* And from a project, no more than what has a namespace in its name.
LEMMA TheProjectLosesTheExcluded ==
    ASSUME NEW q \in Listings
    PROVE  LET all  == F!ProjectInventory(q.org, "sfdx-project", F!WithoutNamespaceFiltering(EditedOf(q)))
               kept == F!ProjectInventory(q.org, "sfdx-project", EditedOf(q))
           IN  /\ IsFiniteSet(all) /\ IsFiniteSet(kept)
               /\ F!ComputeNamespaceImpact(Cardinality(all), Cardinality(kept)).removed <= Cardinality(Namespaced(q))
<1> DEFINE edited == EditedOf(q)
           plain == F!WithoutNamespaceFiltering(edited)
           all  == F!ProjectInventory(q.org, "sfdx-project", plain)
           kept == F!ProjectInventory(q.org, "sfdx-project", edited)
           lost == all \ kept
           S == {c \in q.org : F!ProjectEntry(c, "sfdx-project") \in lost}
           written == {F!ProjectEntry(c, "sfdx-project") : c \in q.org}
<1>1. /\ \A p : F!MatchesTypeFilter(p, edited) => F!MatchesTypeFilter(p, plain)
      /\ \A p : F!MatchesTypeFilter(p, plain) /\ ~F!MatchesTypeFilter(p, edited) => F!ResolveNamespace(p) # ""
  BY EditedAsksTheSame
<1> HIDE DEF plain, edited
<1>2. all = {p \in written : F!MatchesTypeFilter(p, plain)} /\ kept = {p \in written : F!MatchesTypeFilter(p, edited)}
  BY DEF F!ProjectInventory
<1>3. IsFiniteSet(written) /\ IsFiniteSet(q.org)
  <2> DEFINE org == q.org
             f == [c \in org |-> F!ProjectEntry(c, "sfdx-project")]
  <2>1. IsFiniteSet(org) /\ \A c \in org : f[c] = F!ProjectEntry(c, "sfdx-project")
    BY ListingsAssumption
  <2> HIDE DEF org, f
  <2>2. IsFiniteSet({f[c] : c \in org})
    BY <2>1, FiniteImage
  <2>3. {f[c] : c \in org} = {F!ProjectEntry(c, "sfdx-project") : c \in org}
    BY <2>1
  <2> QED
    BY <2>1, <2>2, <2>3 DEF org
<1>4. \A p \in written : \E c \in q.org : p = F!ProjectEntry(c, "sfdx-project")
  OBVIOUS
<1> HIDE DEF all, kept, written
<1>5. kept \subseteq all /\ all \subseteq written
  BY <1>1, <1>2
<1>6. IsFiniteSet(all) /\ IsFiniteSet(kept)
  <2>1. all \in SUBSET written /\ kept \in SUBSET written
    BY <1>5
  <2> QED
    BY <1>3, <2>1, FS_Subset
<1>7. S \subseteq Namespaced(q)
  <2> SUFFICES ASSUME NEW c \in q.org, F!ProjectEntry(c, "sfdx-project") \in lost PROVE c \in Namespaced(q)
    OBVIOUS
  <2> DEFINE p == F!ProjectEntry(c, "sfdx-project")
  <2>1. p.namespacePrefix = Unset /\ p.fullName = c.fullName
    BY DEF F!ProjectEntry
  <2> HIDE DEF p
  <2>2. p \in all /\ p \notin kept
    BY DEF p
  <2>3. F!ResolveNamespace(p) # ""
    BY <1>1, <1>2, <2>2
  <2>4. F!ExtractNamespace(c.fullName) # ""
    BY <2>1, <2>3 DEF F!ResolveNamespace
  <2> QED
    BY <2>4 DEF Namespaced
<1>8. Cardinality(lost) <= Cardinality(Namespaced(q)) /\ Cardinality(Namespaced(q)) \in Nat
  <2>1. IsFiniteSet(Namespaced(q)) /\ IsFiniteSet(S)
    <3>1. Namespaced(q) \in SUBSET q.org
      BY DEF Namespaced
    <3>2. S \in SUBSET q.org
      OBVIOUS
    <3> HIDE DEF S
    <3> QED
      BY <1>3, <3>1, <3>2, FS_Subset
  <2>2. [c \in S |-> F!ProjectEntry(c, "sfdx-project")] \in Surjection(S, lost)
    <3>1. \A c \in S : F!ProjectEntry(c, "sfdx-project") \in lost
      OBVIOUS
    <3>2. \A p \in lost : \E c \in S : p = F!ProjectEntry(c, "sfdx-project")
      BY <1>4, <1>5
    <3> HIDE DEF S, lost
    <3> QED
      BY <3>1, <3>2 DEF Surjection
  <2> HIDE DEF S, lost
  <2>3. IsFiniteSet(lost) /\ Cardinality(lost) <= Cardinality(S)
    BY <2>1, <2>2, FS_Surjection
  <2>4. Cardinality(S) <= Cardinality(Namespaced(q))
    <3>1. S \in SUBSET Namespaced(q)
      BY <1>7
    <3> QED
      BY <2>1, <3>1, FS_Subset
  <2>5. Cardinality(lost) \in Nat /\ Cardinality(S) \in Nat /\ Cardinality(Namespaced(q)) \in Nat
    BY <2>1, <2>3, FS_CardinalityType
  <2> QED
    BY <2>3, <2>4, <2>5
<1>9. F!ComputeNamespaceImpact(Cardinality(all), Cardinality(kept)).removed = Cardinality(lost)
  BY <1>5, <1>6, ImpactIsWhatIsLacking
<1> QED
  BY <1>6, <1>8, <1>9 DEF all, kept, plain, edited

\* What the editor's check of an org and a project says, or that one of the counts was
\* not to be had.
LEMMA TheEditorSays ==
    ASSUME NEW q \in Listings, NEW base, NEW edited,
           F!WithManagedPackageDefault(base) = base, F!WithManagedPackageDefault(edited) = edited,
           IsFiniteSet(F!OrgInventory(q.org, q.folders, {}, base)), IsFiniteSet(F!OrgInventory(q.org, q.folders, {}, edited)),
           IsFiniteSet(F!ProjectInventory(q.org, "sfdx-project", base)), IsFiniteSet(F!ProjectInventory(q.org, "sfdx-project", edited))
    PROVE  LET Source(kind, ends) == [kind |-> kind, has |-> q.org, folders |-> q.folders, ends |-> ends]
               Said(ends) == F!CheckImpact(<<Source("org", "succeeded"), Source("sfdx-project", ends)>>, base, edited)
               Counted(row, before, after) == row.before = Cardinality(before) /\ row.after = Cardinality(after)
           IN  /\ Said("failed").results = <<>>
               /\ Counted(Said("succeeded").results[1], F!OrgInventory(q.org, q.folders, {}, base),
                          F!OrgInventory(q.org, q.folders, {}, edited))
               /\ Counted(Said("succeeded").results[2], F!ProjectInventory(q.org, "sfdx-project", base), F!ProjectInventory(q.org, "sfdx-project", edited))
<1> DEFINE Source(kind, ends) == [kind |-> kind, has |-> q.org, folders |-> q.folders, ends |-> ends]
           Sources(ends) == <<Source("org", "succeeded"), Source("sfdx-project", ends)>>
           Rows(ends) == [i \in DOMAIN Sources(ends) |->
                             [before |-> F!CountFor(Sources(ends)[i], base), after |-> F!CountFor(Sources(ends)[i], edited)]]
           Said(ends) == F!CheckImpact(Sources(ends), base, edited)
<1>1. ASSUME NEW f, F!WithManagedPackageDefault(f) = f
      PROVE  /\ F!CountFor(Source("org", "succeeded"), f) = Cardinality(F!OrgInventory(q.org, q.folders, {}, f))
             /\ F!CountFor(Source("sfdx-project", "succeeded"), f) = Cardinality(F!ProjectInventory(q.org, "sfdx-project", f))
             /\ F!CountFor(Source("sfdx-project", "failed"), f) = Unset
  BY <1>1, FiltersSpeakTheSame DEF F!CountFor, F!InventoryJob, F!InventoryStart
<1>2. \A ends : /\ DOMAIN Sources(ends) = {1, 2}
                /\ Sources(ends)[1] = Source("org", "succeeded") /\ Sources(ends)[2] = Source("sfdx-project", ends)
  OBVIOUS
<1> HIDE DEF Source, Sources
<1>3. \A ends : /\ DOMAIN Rows(ends) = {1, 2}
                /\ Rows(ends)[1].before = F!CountFor(Source("org", "succeeded"), base)
                /\ Rows(ends)[1].after = F!CountFor(Source("org", "succeeded"), edited)
                /\ Rows(ends)[2].before = F!CountFor(Source("sfdx-project", ends), base)
                /\ Rows(ends)[2].after = F!CountFor(Source("sfdx-project", ends), edited)
  BY <1>2
<1>4. \A ends : Said(ends) = IF \E i \in DOMAIN Rows(ends) : Unset \in {Rows(ends)[i].before, Rows(ends)[i].after}
                             THEN [status |-> "error", results |-> <<>>] ELSE [status |-> "done", results |-> Rows(ends)]
  BY DEF F!CheckImpact
<1> HIDE DEF Rows, Said
<1>5. Said("failed").results = <<>>
  <2>1. Rows("failed")[2].before = Unset /\ 2 \in DOMAIN Rows("failed")
    BY <1>1, <1>3
  <2> QED
    BY <1>4, <2>1
<1>6. /\ Rows("succeeded")[1].before = Cardinality(F!OrgInventory(q.org, q.folders, {}, base))
      /\ Rows("succeeded")[1].after = Cardinality(F!OrgInventory(q.org, q.folders, {}, edited))
      /\ Rows("succeeded")[2].before = Cardinality(F!ProjectInventory(q.org, "sfdx-project", base))
      /\ Rows("succeeded")[2].after = Cardinality(F!ProjectInventory(q.org, "sfdx-project", edited))
  BY <1>1, <1>3
<1>7. \A i \in {1, 2} : Rows("succeeded")[i].before \in Nat /\ Rows("succeeded")[i].after \in Nat
  BY <1>6, FS_CardinalityType
<1>8. Said("succeeded").results = Rows("succeeded")
  <2>1. Unset \notin Nat
    BY ListingsAssumption
  <2>2. ~(\E i \in DOMAIN Rows("succeeded") : Unset \in {Rows("succeeded")[i].before, Rows("succeeded")[i].after})
    BY <1>3, <1>7, <2>1
  <2> QED
    BY <1>4, <2>2
<1> QED
  BY <1>5, <1>6, <1>8 DEF Said, Sources, Source

\* An org and a project with the same components list the same; a saved filter lists
\* the same opened and built again; and what the editor says its exclusions remove is
\* what a comparison then lacks (type-filter.ts, org-source.ts, filter-set.ts,
\* filter-set-utils.ts, inventory-preview.ts).
THEOREM SidesListTheSameComponents == ASpec => []SidesListTheSame
<1>1. AskedOK => SidesListTheSame
  <2> SUFFICES ASSUME AskedOK, Asking("listing") PROVE SidesListTheSame
    BY DEF SidesListTheSame
  <2>1. question \in Listings
    BY DEF AskedOK, Posed
  <2> DEFINE filter == F!WithManagedPackageDefault(question.filter)
             set    == [id |-> 1, filter |-> question.filter]
             plain  == [id |-> 2, filter |-> F!WithoutNamespaceFiltering(question.filter)]
             files  == F!Save(F!Save(<<>>, set, 7), plain, 6)
             saved  == F!ListFilterSets(files)[1].filter
             edited == F!BuildTypeFilter(F!Given(saved.types), F!ScopeFieldsFromFilter(saved))
             bare   == F!WithoutNamespaceFiltering(edited)
             OfOrg(fil) == F!OrgInventory(question.org, question.folders, {}, fil)
             OfProject(fil) == F!ProjectInventory(question.org, "sfdx-project", fil)
             Excluded(c) == c.package # "" \/ F!ExtractNamespace(c.fullName) # ""
             Source(kind, ends) == [kind |-> kind, has |-> question.org, folders |-> question.folders, ends |-> ends]
             Said(ends) == F!CheckImpact(<<Source("org", "succeeded"), Source("sfdx-project", ends)>>, bare, edited)
             rows == Said("succeeded").results
             all  == OfOrg(F!WithoutNamespaceFiltering(edited))
             kept == OfOrg(F!WithManagedPackageDefault(edited))
             impact == F!ComputeNamespaceImpact(rows[1].before, rows[1].after)
  <2>2. /\ saved = question.filter
        /\ F!FilterSetFromYaml(F!Save(files, set, 9)[1]).createdAt = 7
        /\ F!ListFilterSets(F!DeleteFilterSet(files, 1)) = <<files[2]>>
    BY <2>1, FiltersAreKept
  <2> HIDE DEF saved
  <2>3. edited = EditedOf(question)
    BY <2>2 DEF EditedOf
  <2> HIDE DEF edited
  <2>4. F!WithManagedPackageDefault(edited) = edited /\ F!WithManagedPackageDefault(bare) = bare
    BY <2>1, <2>3, FiltersByField
  <2>5. ASSUME NEW kind \in {"sfdx-project", "git-ref"}, filter.types \notin {Unset, {}},
               filter.types \cap F!Singletons = {}, filter.modifiedBy \in {Unset, {}} \/ kind = "git-ref",
               \A c \in question.org : PlainlyNamed(c) /\ (c.folder # "" => c.folder \in question.folders)
        PROVE  KeysOf(OfOrg(filter)) = KeysOf(F!ProjectInventory(question.org, kind, filter))
    <3> DEFINE q == question
    <3>1. q \in Listings
      BY <2>1
    <3>2. \A c \in q.org : PlainlyNamed(c) /\ (c.folder # "" => c.folder \in q.folders)
      BY <2>5
    <3> HIDE DEF q, filter
    <3>3. filter = F!WithManagedPackageDefault(q.filter)
      BY DEF filter, q
    <3>4. KeysOf(F!OrgInventory(q.org, q.folders, {}, filter)) = KeysOf(F!ProjectInventory(q.org, kind, filter))
      BY <2>5, <3>1, <3>2, <3>3, SidesAgree
    <3> QED
      BY <3>4 DEF q
  <2>6. filter.modifiedBy \in {Unset, {}} => OfOrg(F!WithManagedPackageDefault(edited)) = OfOrg(filter)
    <3> SUFFICES ASSUME filter.modifiedBy \in {Unset, {}} PROVE OfOrg(edited) = OfOrg(filter)
      BY <2>4
    <3>1. question.filter.modifiedBy = filter.modifiedBy
      BY <2>1, FiltersByField DEF HasFields
    <3>2. /\ F!ResolveInventoryTypes(edited) = F!ResolveInventoryTypes(filter)
          /\ IsFiniteSet(F!ResolveInventoryTypes(edited)) /\ IsFiniteSet(F!ResolveInventoryTypes(filter))
          /\ \A p : F!MatchesTypeFilter(p, edited) <=> F!MatchesTypeFilter(p, filter)
      BY <2>1, <2>3, <3>1, EditedAsksTheSame
    <3> DEFINE types == F!ResolveInventoryTypes(edited)
    <3>3. /\ OfOrg(edited) = {p \in Listable(question, types) : F!MatchesTypeFilter(p, edited)}
          /\ OfOrg(filter) = {p \in Listable(question, types) : F!MatchesTypeFilter(p, filter)}
      <4>1. OfOrg(edited) = {p \in Listable(question, F!ResolveInventoryTypes(edited)) : F!MatchesTypeFilter(p, edited)}
        BY <2>1, <3>2, OrgLists
      <4> HIDE DEF filter
      <4>2. OfOrg(filter) = {p \in Listable(question, F!ResolveInventoryTypes(filter)) : F!MatchesTypeFilter(p, filter)}
        BY <2>1, <3>2, OrgLists
      <4> QED
        BY <3>2, <4>1, <4>2
    <3> HIDE DEF types, filter, OfOrg
    <3> QED
      BY <3>2, <3>3
  <2>7. /\ IsFiniteSet(all) /\ IsFiniteSet(kept) /\ kept \subseteq all /\ (kept # all => Namespaced(question) # {})
        /\ IsFiniteSet(OfProject(bare)) /\ IsFiniteSet(OfProject(edited))
        /\ F!ComputeNamespaceImpact(Cardinality(OfProject(bare)), Cardinality(OfProject(edited))).removed
               <= Cardinality(Namespaced(question))
    BY <2>1, <2>3, <2>4, TheOrgLosesTheExcluded, TheProjectLosesTheExcluded
  <2>8. all = OfOrg(bare) /\ kept = OfOrg(edited)
    BY <2>4
  <2>9. /\ Said("failed").results = <<>>
        /\ rows[1].before = Cardinality(all) /\ rows[1].after = Cardinality(kept)
        /\ rows[2].before = Cardinality(OfProject(bare)) /\ rows[2].after = Cardinality(OfProject(edited))
    <3> HIDE DEF bare
    <3>1. /\ F!WithManagedPackageDefault(bare) = bare /\ F!WithManagedPackageDefault(edited) = edited
          /\ IsFiniteSet(OfOrg(bare)) /\ IsFiniteSet(OfOrg(edited))
          /\ IsFiniteSet(OfProject(bare)) /\ IsFiniteSet(OfProject(edited))
      BY <2>4, <2>7, <2>8 DEF bare
    <3> QED
      BY <2>1, <2>8, <3>1, TheEditorSays
  <2> HIDE DEF Said, rows, filter, files, set, bare, OfOrg, OfProject
  <2>10. /\ impact.removed = Cardinality(all \ kept)
         /\ (impact.removedPercent = 0) = (all = kept \/ 2000 * impact.removed < Cardinality(all))
         /\ impact.removedPercent <= 1000
         /\ impact.removed > 0 => kept # all
    BY <2>7, <2>9, ImpactIsWhatIsLacking
  <2>11. Namespaced(question) = {c \in question.org : Excluded(c)}
    BY DEF Namespaced
  <2>12. F!ComputeNamespaceImpact(rows[2].before, rows[2].after).removed <= F!Cardinality({c \in question.org : Excluded(c)})
    BY <2>7, <2>9, <2>11, FiltersSpeakTheSame
  <2>13. impact.removed > 0 => \E c \in question.org : Excluded(c)
    <3> HIDE DEF impact, all, kept, Excluded
    <3> SUFFICES ASSUME impact.removed > 0 PROVE \E c \in question.org : Excluded(c)
      OBVIOUS
    <3>1. Namespaced(question) # {}
      BY <2>7, <2>10
    <3>2. PICK c \in Namespaced(question) : TRUE
      BY <3>1
    <3> QED
      BY <2>11, <3>2
  <2> HIDE DEF all, kept, impact, Excluded
  <2>14. /\ kept \subseteq all /\ impact.removed = Cardinality(all \ kept)
         /\ (impact.removedPercent = 0) = (all = kept \/ 2000 * impact.removed < Cardinality(all))
         /\ impact.removedPercent <= 1000
         /\ impact.removed > 0 => \E c \in question.org : Excluded(c)
         /\ F!ComputeNamespaceImpact(rows[2].before, rows[2].after).removed <= Cardinality({c \in question.org : Excluded(c)})
    BY <2>7, <2>10, <2>12, <2>13, FiltersSpeakTheSame
  <2>15. ASSUME NEW counted \in {Said("succeeded").results}
         PROVE  LET found == F!ComputeNamespaceImpact(counted[1].before, counted[1].after)
                IN  /\ kept \subseteq all /\ found.removed = Cardinality(all \ kept)
                    /\ (found.removedPercent = 0) = (all = kept \/ 2000 * found.removed < Cardinality(all))
                    /\ found.removedPercent <= 1000
                    /\ found.removed > 0 => \E c \in question.org : Excluded(c)
                    /\ F!ComputeNamespaceImpact(counted[2].before, counted[2].after).removed <=
                          Cardinality({c \in question.org : Excluded(c)})
    <3>1. counted = rows
      BY <2>15 DEF rows
    <3> QED
      BY <2>14, <3>1 DEF impact
  <2>16. \A kind \in {"sfdx-project", "git-ref"} :
            (/\ filter.types \notin {Unset, {}} /\ filter.types \cap F!Singletons = {}
             /\ filter.modifiedBy \in {Unset, {}} \/ kind = "git-ref"
             /\ \A c \in question.org : PlainlyNamed(c) /\ (c.folder # "" => c.folder \in question.folders)) =>
               KeysOf(OfOrg(filter)) = KeysOf(F!ProjectInventory(question.org, kind, filter))
    BY <2>5
  <2>17. ListsTheSame(filter, set, files, edited)
    BY <2>2, <2>6, <2>9, <2>15, <2>16 DEF ListsTheSame, bare, OfOrg, Said, all, kept, Excluded
  <2> QED
    BY <2>17 DEF SidesListTheSame, filter, set, files, edited, saved
<1> QED
  BY <1>1, QuestionsArePosed, PTL

=============================================================================
