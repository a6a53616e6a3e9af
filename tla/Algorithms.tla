------------------------------ MODULE Algorithms ------------------------------
(***************************************************************************)
(* The pure parts of the core library, asked one question at a time: a     *)
(* state is an input, and what the library computes from it is compared    *)
(* with what it is for.                                                    *)
(***************************************************************************)
EXTENDS Profiles

CONSTANTS
    DocumentPairs,  \* by collection, [l, r]: two versions of a component
    Merges,         \* [base, l, r]
    Grants,         \* by collection, [base, l, r, coverage]: Profiles
    Selections,     \* [results, shown, clicks, keys]: the filter, the clicks, the order keys are sent in
    Contexts,       \* of the analyzers
    Walks,          \* [answered, components, excluded, managed, seeds, direction, depth]
    Listings,       \* [org, folders, filter]
    Unknown, Missing, Unset

VARIABLES about, asked, question
avars == <<about, asked, question>>

A == INSTANCE Analyzers
G == INSTANCE Dependencies
K == INSTANCE Packages
F == INSTANCE Filters

\* What the analyzers are given: Unknown is told from an answer, and where the target
\* was looked into at all, so it was for everything the package refers to.
ASSUME ContextsAssumption ==
    /\ Unknown \notin BOOLEAN /\ Unknown \notin {"NoTestRun", "RunSpecifiedTests"}
    /\ \A ctx \in Contexts :
          /\ DOMAIN ctx = {"package", "destructive", "target", "exists", "edges", "testLevel", "runTests"}
          /\ \A c \in ctx.package :
                DOMAIN c = {"key", "object", "mentions", "recordTypes", "parses", "grants", "ids", "apiVersion", "status"}
          /\ ctx.target # Unknown => {"sandbox", "coverage"} \subseteq DOMAIN ctx.target
          /\ ctx.exists # Unknown => \A c \in ctx.package : A!ExtractReferences(c) \subseteq DOMAIN ctx.exists

\* A walk over what a sync found, from some components to a depth: the edges the
\* org answered with, and the Profiles and Layouts with the names they mention.
ASSUME WalksAssumption ==
    \A walk \in Walks :
        /\ IsFiniteSet(walk.answered) /\ IsFiniteSet(walk.components) /\ IsFiniteSet(walk.seeds)
        /\ \A c \in walk.components : IsFiniteSet(c.names)
        /\ walk.direction \in {"forward", "reverse"} /\ walk.depth \in Nat \ {0}

\* A topic, and then a question about it.
Topics == {"documents", "merge", "grants", "selection", "analysis", "impact", "listing"}
AInit == about \in Topics /\ asked = FALSE /\ question = Unset
Ask(topic, questions) ==
    about = topic /\ ~asked /\ asked' = TRUE /\ about' = about /\ question' \in questions
ANext ==
    \/ \E tag \in DOMAIN DocumentPairs : Ask("documents", DocumentPairs[tag])
    \/ \E tag \in DOMAIN Grants : Ask("grants", Grants[tag])
    \/ Ask("merge", Merges)
    \/ Ask("selection", Selections)
    \/ Ask("analysis", Contexts)
    \/ Ask("impact", Walks)
    \/ Ask("listing", Listings)
Asking(topic) == asked /\ about = topic
ASpec == AInit /\ [][ANext]_avars

-----------------------------------------------------------------------------
Mirror(status) == CASE status = "new" -> "deleted" [] status = "deleted" -> "new" [] OTHER -> status
WellKeyed(doc) == \A k \in SortKeys(doc) : Len(ItemsOf(doc, k)) = 1
AttributesAgree(l, r) ==
    \A x \in ToSet(l.items), y \in ToSet(r.items) : Semantic(x) = Semantic(y) => x = y

\* A component whose hash says unchanged has no difference to show, and one
\* called identical has the same hash, unless two items share a key
\* or differ in an XML attribute alone; and comparing the other way round mirrors
\* every verdict (normalize.ts:99-204, differ.ts:8-218, dispatch.ts:70-141).
HashAndDiffAgree ==
    Asking("documents") =>
        LET l    == question.l
            r    == question.r
            same == CanonicalizeXml(l) = CanonicalizeXml(r)
        IN  /\ same => IsAllIdentical(DiffXml(l, r))
            /\ (WellKeyed(l) /\ WellKeyed(r) /\ AttributesAgree(l, r)) =>
                  (DiffComponent(l, r, DiffXml(l, r)) = "identical") = same
            /\ \A side \in {r, Absent} :
                  DiffComponent(side, l, DiffXml(r, l)) = Mirror(DiffComponent(l, side, DiffXml(l, r)))
            /\ DiffXml(r, l) = {[e EXCEPT !.status = Mirror(@)] : e \in DiffXml(l, r)}

\* The row merge.resolve finds for a pair of documents; their sources on disk, a
\* decomposed one's items in files of their own, next to those of another object.
Tree(doc, decomposed) ==
    IF doc = Absent THEN [name |-> "O", shell |-> Absent, children |-> <<>>]
    ELSE [name |-> "O", shell |-> IF decomposed THEN [doc EXCEPT !.items = <<>>] ELSE doc,
          children |-> <<[parent |-> "P", item |-> doc]>> \o [i \in DOMAIN doc.items |-> [parent |-> "O", item |-> doc.items[i]]]]
Side(doc, decomposed) ==
    [sha256 |-> IF doc = Absent THEN Absent ELSE CanonicalizeXml(doc), blob |-> doc, tree |-> Tree(doc, decomposed)]
DiffRow(tag, l, r, profileLike, decomposed) ==
    [tag |-> tag, left |-> Side(l, decomposed), right |-> Side(r, decomposed), profileLike |-> profileLike,
     decomposed |-> decomposed, binary |-> FALSE]
Git(doc, decomposed) == IF doc = NoBase THEN NoBase ELSE [kind |-> "git-ref", tree |-> Tree(doc, decomposed)]

\* Documents as the parser makes them, told from what says that there is none, and
\* so are the rows and hashes made of them.
Document(doc, tag) ==
    /\ doc = [tag |-> tag, scalars |-> doc.scalars, items |-> doc.items]
    /\ IsFiniteSet(DOMAIN doc.scalars) /\ doc.items \in Seq(ToSet(doc.items))
    /\ Absent \notin ToSet(doc.items) /\ \A f \in DOMAIN doc.scalars : doc.scalars[f] # Absent
    /\ doc # Absent /\ CanonicalizeXml(doc) # Absent /\ Tree(doc, TRUE) # Absent /\ Tree(doc, TRUE).shell # Absent
    /\ doc # NoBase /\ Git(doc, TRUE) # NoBase /\ Git(doc, FALSE) # NoBase
ASSUME DocumentsAssumption ==
    \A tag \in DOMAIN DocumentPairs : \A pair \in DocumentPairs[tag] : Document(pair.l, tag) /\ Document(pair.r, tag)
ASSUME MergesAssumption ==
    /\ Absent \notin {NoBase, "left", "right"} /\ NoBase \notin {Git(Absent, TRUE), Git(Absent, FALSE)}
    /\ \A q \in Merges : /\ q.l # NoBase /\ q.r # NoBase
                         /\ \A doc \in {q.base, q.l, q.r} \ {Absent, NoBase} : Document(doc, doc.tag)

\* Profiles of one kind, and what was read of each side.
ASSUME GrantsAssumption ==
    /\ DOMAIN Grants \subseteq DOMAIN PermissionCollections
    /\ \A tag \in DOMAIN Grants : \A q \in Grants[tag] :
          /\ \A doc \in {q.base, q.l, q.r} \ {NoBase} : Document(doc, tag)
          /\ NoBase \notin {q.l, q.r}
          /\ \A item \in ToSet(q.l.items) \cup ToSet(q.r.items) :
                item = [fields |-> item.fields, value |-> item.value, attr |-> item.attr]
          /\ \A seen \in {q.coverage.left, q.coverage.right} :
                seen # Full => IsFiniteSet(seen) /\ ToJsonSideCoverage(seen) # Full
          /\ SerializeProfileCoverage(q.coverage) # Absent
          /\ MergeCoverage(DiffRow(tag, q.l, q.r, TRUE, FALSE), SerializeProfileCoverage(q.coverage)) # Absent

\* Results of one comparison, told apart by type and name, and all their keys in
\* some order.
ASSUME SelectionsAssumption ==
    /\ Missing \notin {1, "left", "right", "same"}
    /\ \A q \in Selections :
          /\ IsFiniteSet(q.results)
          /\ \A r \in q.results :
                /\ r = [key |-> r.key, status |-> r.status] /\ r.status \in {"new", "changed", "deleted", "identical"}
                /\ r.key = [type |-> r.key.type, name |-> r.key.name, parent |-> r.key.parent]
                /\ r.key.type \in ToSet(K!Alphabetical) /\ r.key.name \in Nat
          /\ \A r, s \in q.results : K!Id(r.key) = K!Id(s.key) => r = s
          /\ q.keys \in Seq(ToSet(q.keys)) /\ IsInjective(q.keys) /\ {r.key : r \in q.results} \subseteq ToSet(q.keys)
          /\ q.clicks \in Seq(ToSet(q.clicks))
          /\ \A ids \in SUBSET {K!Id(r.key) : r \in q.results} : [mode |-> "pre", members |-> ids] # Missing

\* What an org has: a type lives in folders or it does not.  A filter says of each
\* field what it asks, or leaves it out.
ASSUME ListingsAssumption ==
    /\ Unset \notin Nat /\ Unset \notin BOOLEAN /\ Unset # {}
    /\ \A q \in Listings :
          /\ IsFiniteSet(q.org) /\ IsFiniteSet(q.folders)
          /\ \A c \in q.org :
                /\ DOMAIN c = {"type", "fullName", "folder", "date", "by", "package", "own"}
                /\ (c.type \in F!FolderTypes) = (c.folder # "") /\ c.package # Unset
          /\ DOMAIN q.filter = {"types", "namePatterns", "modifiedSince", "modifiedBy", "excludeNamespaces", "excludeManagedPackages"}
          /\ q.filter.types # Unset => IsFiniteSet(q.filter.types)
          /\ q.filter.excludeManagedPackages \in BOOLEAN \cup {Unset}
          /\ \A id \in {1, 2}, filter \in {q.filter, F!WithoutNamespaceFiltering(q.filter)}, now \in {6, 7} :
                F!ToFilterSet([version |-> 0, id |-> id, filter |-> filter, updatedAt |-> now, createdAt |-> now]) # Unset

\* Whatever is picked and taken back in the panel, a conflict counts as open,
\* is listed as open and has no value until it is decided, and no entry is in
\* two tabs or in none (merge-resolution.ts:49-143, MergeEntryTable.tsx).
PanelAsksForTheRest(m, l, r) ==
    LET conflicts == {k \in DOMAIN m : m[k].status = "conflict"}
        tabs == GroupMergeEntriesByCategory("items", m)
        Open(picks) == UNION {FilterMergeEntries(m, tabs[t], "all", picks, TRUE) : t \in DOMAIN tabs}
    IN  /\ \A first, second \in conflicts :
              LET once  == ApplyResolution(ApplyResolution(<<>>, first, "left"), second, "right")
              IN  \A picks \in {once, ClearResolution(once, first)} :
                      /\ ComputeResolutionCounts(m, picks).conflictsOpen = Cardinality(Open(picks))
                      /\ \A k \in conflicts :
                            EffectiveValue(m[k], At(l, k), At(r, k), At(picks, k)) =
                                IF k \in Open(picks) THEN Absent ELSE At(IF picks[k] = "left" THEN l ELSE r, k)
        /\ UNION {tabs[t] : t \in DOMAIN tabs} = DOMAIN m
        /\ LET counts == ComputeResolutionCounts(m, <<>>)
           IN  counts.unchanged + counts.autoResolved + counts.conflictsTotal = Cardinality(DOMAIN m)

\* A three-way merge keeps every edit of either side or asks; it asks exactly
\* where both sides edited differently, and forgets no entry.  A two-way merge
\* asks exactly where both sides have the entry and differ; and a component in
\* many files is merged as if it were in one (resolve.ts:32-60,
\* generic-merge.ts:16-65, routers/merge.ts:86-301).
MergeKeepsEdits ==
    Asking("merge") =>
        LET Resolve(decomposed) ==
                MergeResolve(DiffRow("", question.l, question.r, FALSE, decomposed), Git(question.base, decomposed), Absent)
            Entries(doc) == IF doc = NoBase THEN <<>> ELSE DecomposeGeneric(doc)
        IN  \A m \in {Resolve(FALSE).entries}, b \in {Entries(question.base)},
               l \in {Entries(question.l)}, r \in {Entries(question.r)} :
              LET Kept(k, side) == At(side, k) # At(b, k) => (m[k].status = "conflict" \/ m[k].resolved = At(side, k))
                  Asked(k) == IF question.base = NoBase THEN Absent \notin {At(l, k), At(r, k)} /\ l[k] # r[k]
                              ELSE Cardinality({At(b, k), At(l, k), At(r, k)}) = 3
              IN  /\ DOMAIN l \cup DOMAIN r \subseteq DOMAIN m
                  /\ \A k \in DOMAIN m :
                        /\ (m[k].status = "conflict") = Asked(k)
                        /\ question.base # NoBase => Kept(k, l) /\ Kept(k, r)
                  /\ Resolve(TRUE).entries = m
                  /\ PanelAsksForTheRest(m, l, r)

\* An entry a Profile was not asked for is no deletion: neither the comparison
\* nor a merge takes a permission away unless a side that was read for it lacks
\* it; the two agree, in a two-way merge, on whether there is a difference at
\* all; and a merge that would have to guess the coverage is refused.  Sides of
\* the same bytes count as fully read, which a base makes a difference to: that
\* three-way merge is left out
\* (profiles.ts:151-296, profile-merge.ts:66-153: "merge and diff can never
\* disagree about what an ambiguous absence means"; routers/merge.ts:270-297).
UnreadPermissionsSurvive ==
    Asking("grants") =>
        LET row == DiffRow(question.l.tag, question.l, question.r, TRUE, FALSE)
            Resolve(stored) == MergeResolve(row, Git(question.base, FALSE), stored)
            merged == {MergeProfileLike(question.l.tag, question.base, question.l, question.r, question.coverage)}
            stored == IF question.base # NoBase /\ row.left.sha256 = row.right.sha256 THEN {}
                      ELSE {Resolve(SerializeProfileCoverage(question.coverage)).entries}
            ReadOn(side, k) == \/ question.coverage[side] = Full \/ k \in question.coverage[side]
                               \/ PermissionCollections[question.l.tag].alwaysComplete
        IN  /\ \A l \in {IndexByIdentity(question.l)}, r \in {IndexByIdentity(question.r)},
                 grid \in {DiffProfileLike(question.l, question.r, question.coverage)} :
                  LET Verdict(k) == (CHOOSE e \in grid : e.at = k).status
                      SeenToLack(k) == (At(l, k) = Absent /\ ReadOn("left", k)) \/ (At(r, k) = Absent /\ ReadOn("right", k))
                  IN  /\ \A k \in DOMAIN l \cup DOMAIN r : Verdict(<<"item", k>>) \in {"new", "deleted"} => SeenToLack(k)
                      /\ \A m \in merged \cup stored :
                            /\ \A k \in {n \in DOMAIN m : n[1] = "item"} :
                                  (m[k].status # "conflict" /\ m[k].resolved = Absent) => SeenToLack(k[2])
                            /\ question.base = NoBase =>
                                  \A k \in DOMAIN m : (m[k].status = "unchanged") = (Verdict(k) = "identical")
            /\ Resolve(Absent).threw = (row.left.sha256 # row.right.sha256)

-----------------------------------------------------------------------------
Clicked(tree) ==
    LET Toggle(checked, c) == IF c.id \in DOMAIN tree THEN K!SetChecked(checked, tree, c.id, c.to) ELSE checked
        checked[n \in 0 .. Len(question.clicks)] ==
          IF n = 0 THEN {} ELSE Toggle(checked[n - 1], question.clicks[n])
    IN  checked[Len(question.clicks)]
Ordered(list) == \A i, j \in DOMAIN list : i < j => ~K!Before(list[j], list[i])
Ties(keys) == \E x, y \in keys : x # y /\ ~K!Before(x, y) /\ ~K!Before(y, x)

\* The browser: the click is on the row, or on the header of its type, if the
\* filter shows it.
ShownGroups(filter) == K!GroupByType(K!FilterResults(question.results, filter, Missing))
Tick(selected, c) ==
    LET groups == ShownGroups(question.shown)
        rows   == K!FlattenGroups(groups, DOMAIN groups)
        on     == {r \in rows.leaves : K!Id(r.key) = c.id}
    IN  IF on = {} THEN selected
        ELSE IF c.header THEN K!SetGroup(selected, groups[c.id[1]], c.to)
        ELSE K!SetLeaf(selected, (CHOOSE r \in on : TRUE).key, c.to)
Ticked ==
    LET ticked[n \in 0 .. Len(question.clicks)] ==
          IF n = 0 THEN {} ELSE Tick(ticked[n - 1], question.clicks[n])
    IN  ticked[Len(question.clicks)]

\* What is listed as selected, however it is filtered, sorted or grouped, is what
\* the package is built of, but for what is identical; a header reads as what its
\* rows are, and no click reaches a row its filter hides.
DeployPageIsTruthful ==
    LET draft  == K!Draft(question.results, Ticked)
        sent   == Only(question.keys, draft.components \cup draft.destructiveComponents)
        built  == K!BuildPackage(1, sent, question.results, "post")
        pkg    == built.row.pkg
        picked == K!PickSelected(question.results, Ticked)
        Listed(sortKey, flatten) ==
            K!BuildSelectedRows(K!FilterAndSortSelected(picked, Missing, sortKey), flatten, {}).leaves
        members == K!BuildPackageXmlPreview(draft.components)
        groups == ShownGroups({})
    IN  /\ \A sortKey \in {"type", "name", "status"}, flatten \in BOOLEAN :
              {r.key : r \in K!Changed(Listed(sortKey, flatten))} =
                  ToSet(pkg.components) \cup ToSet(pkg.destructiveComponents)
        /\ built.xml.packageXml =
              {id \in (DOMAIN members) \X UNION Range(members) :
                  id[2] \in members[id[1]] /\ \E r \in K!Changed(picked) : K!Id(r.key) = id}
        /\ \A t \in DOMAIN groups :
              LET reads == K!ComputeGroupTriState(Ticked, groups[t])
              IN  /\ (reads = "checked") = (K!SetGroup(Ticked, groups[t], TRUE) = Ticked)
                  /\ (reads = "unchecked") = (K!SetGroup(Ticked, groups[t], FALSE) = Ticked)
        /\ picked \subseteq K!FilterResults(question.results, question.shown, Missing)

\* After the package is deployed where the comparison's target was, what was
\* chosen is there as the wizard's source has it and the rest is as it was: the
\* two swaps of left and right undo each other and go the right way.
TargetBecomesSource(results, pkg) ==
    LET wizard == [source |-> "desired", target |-> "current"]
        sides  == K!ToServerSides(wizard)
        run    == K!Connections(sides)
        Holds(right, r) ==
            CASE r.status = IF right THEN "deleted" ELSE "new" -> Missing
              [] r.status = "identical"                        -> "same"
              [] OTHER                                         -> IF right THEN "right" ELSE "left"
        world  == [org \in {"desired", "current"} |->
                      [k \in {r.key : r \in results} |->
                          Holds(org = sides.right, CHOOSE r \in results : r.key = k)]]
        chosen == ToSet(pkg.components) \cup ToSet(pkg.destructiveComponents)
    IN  /\ K!Labels(sides) = wizard
        /\ K!Deployed(world, run, pkg) =
              [world EXCEPT !.current = [k \in DOMAIN @ |-> world[IF k \in chosen THEN "desired" ELSE "current"][k]]]
\* What is packaged is what reads as checked, but for a parent some child of
\* which changed; nothing is both deployed and deleted; the package is the same
\* for every order the keys are sent in, parents first, and the manifest and the
\* XML say the same as the row (selection.ts:36-181, order.ts:41-58,
\* manifest.ts:60-148, package-xml.ts:67-86, routers/deploy.ts:225-271).  So is
\* the deploy page (comparison-tree.ts, selection-store.ts, selected-components.ts),
\* and the package turns the wizard's target into its source there
\* (comparison-direction.ts:34-43, adapters/deploy.ts:331-336).
PackageIsWhatWasChecked ==
    Asking("selection") =>
        LET results  == question.results
            tree     == K!BuildSelectionTree(results)
            checked  == Clicked(tree)
            picked   == K!SelectionToPackageComponents(K!SelectedLeafIds(checked, tree), results)
            chosen   == picked.components \cup picked.destructiveComponents
            built    == K!BuildPackage(1, Only(question.keys, chosen), results, "pre")
            again    == K!BuildPackage(1, Only(Reverse(question.keys), chosen), results, "pre")
            pkg      == built.row.pkg
        IN  /\ DeployPageIsTruthful
            /\ TargetBecomesSource(results, pkg)
            /\ \A r \in K!Changed(results) :
                  LET reads == K!StateOf(checked, tree, K!Id(r.key)) = "checked"
                  IN  (r.key \in chosen) = (reads /\ tree[K!Id(r.key)] = {})
            /\ picked.components \cap picked.destructiveComponents = {}
            /\ ToSet(pkg.components) = picked.components /\ Ordered(pkg.components)
            /\ Len(pkg.components) = Cardinality(picked.components)
            /\ ToSet(pkg.destructiveComponents) = picked.destructiveComponents
            /\ Ties(picked.components) \/ again.row.pkg.components = pkg.components
            /\ LET read == K!ManifestFromYaml(K!SaveManifest(<<>>, built.manifest)[1])
               IN  K!ManifestToDeploymentPackage(read) = pkg /\ read.destructiveMode = built.row.mode
            /\ built.xml.packageXml = {K!Id(k) : k \in picked.components}
            /\ (built.xml.destructiveChangesXml = Missing) = (picked.destructiveComponents = {})

-----------------------------------------------------------------------------
Errors(ctx) == {<<f.id, f.key>> : f \in {g \in A!RunAnalyzers(ctx, {}, {}) : g.severity = "error"}}
Forgotten(ctx) ==
    {[ctx EXCEPT !.target = Unknown], [ctx EXCEPT !.exists = Unknown], [ctx EXCEPT !.edges = {}],
     [ctx EXCEPT !.testLevel = Unknown], [ctx EXCEPT !.package = {[c EXCEPT !.parses = FALSE] : c \in @}]}
      \cup (IF ctx.target = Unknown THEN {}
            ELSE {[ctx EXCEPT !.target = [@ EXCEPT ![f] = Unknown]] : f \in DOMAIN ctx.target})
      \cup (IF ctx.exists = Unknown THEN {}
            ELSE {[ctx EXCEPT !.exists = [@ EXCEPT ![k] = Unknown]] : k \in DOMAIN ctx.exists})
Stub(key) == [key |-> key, object |-> "", mentions |-> {}, recordTypes |-> {}, parses |-> TRUE,
              grants |-> {}, ids |-> {}, apiVersion |-> Unknown, status |-> "active"]
Completed(ctx) ==
    [ctx EXCEPT !.package = @ \cup {Stub(k) : k \in UNION {A!Autofix(ctx, f) : f \in A!MissingReference(ctx)}}]

\* Not knowing is no error: whatever fact about the org, the graph, a component
\* or the intent is not known, the analysis reports no error it would not report
\* with it.  An analyzer that throws hides nothing of the others, and the
\* dependencies the autofix adds settle what it was offered for
\* (registry.ts:61-90, dependency-rules.ts:49-174, coverage-rules.ts:42-319,
\* destructive-rules.ts:37-133).
ErrorsNeedEvidence ==
    Asking("analysis") =>
        /\ LET errors == Errors(question) IN \A less \in Forgotten(question) : Errors(less) \subseteq errors
        /\ \A a \in DOMAIN A!Rules(question) :
              A!RunAnalyzers(question, {a}, {}) \subseteq A!RunAnalyzers(question, {}, {a})
        /\ A!MissingReference(Completed(question)) = {}

\* Impact is reachability: what a change reaches is every component a path of at
\* most the asked depth leads to, at the length of its shortest path, by edges of
\* the connection asked about: those the org answered with, but for the edges from
\* or to a package the sync was told to exclude, and whatever a Profile or Layout
\* mentions, of such a package too; a reference is confirmed exactly when such a
\* path exists, cycles included; and the edges from a component to another are those
\* of the other from it (graph.ts:41-153, drizzle-dependency-graph.ts:38-73,
\* supplement.ts:34-160, dependencies.ts:195-214, 342-408).
ImpactIsReachability ==
    Asking("impact") =>
        LET Kept(ns) == ns = G!NoNamespace \/ (~question.managed /\ ns \notin question.excluded)
            Refers(x, y) ==
                \/ \E e \in question.answered : e.from = x /\ e.to = y /\ Kept(e.fromNs) /\ Kept(e.toNs)
                \/ \E c \in question.components : c.key = x /\ y \in c.names
            nodes == (UNION {{e.from, e.to} : e \in question.answered})
                         \cup (UNION {{c.key} \cup c.names : c \in question.components}) \cup question.seeds
            synced == G!SyncedEdges(question.answered, question.components, question.excluded, question.managed)
            rows  == {[connection |-> "asked", edge |-> e] : e \in synced}
                         \cup {[connection |-> "other", edge |-> [e EXCEPT !.from = e.to, !.to = e.from]] : e \in synced}
            Step(x, y) == IF question.direction = "forward" THEN Refers(x, y) ELSE Refers(y, x)
            Path(x, y, n) == \E p \in [0 .. n -> nodes] : p[0] = x /\ p[n] = y /\ \A i \in 1 .. n : Step(p[i - 1], p[i])
            Reached(y) == {n \in 1 .. question.depth : \E x \in question.seeds : Path(x, y, n)}
        IN  /\ G!QueryImpact(rows, "asked", question.seeds, question.direction, question.depth) =
                  {[key |-> y, depth |-> Min(Reached(y))] :
                      y \in {z \in nodes \ question.seeds : Reached(z) # {}}}
            /\ (question.depth >= Cardinality(nodes) /\ G!DefaultMaxDepth >= Cardinality(nodes)) =>
                  G!QueryImpact(rows, "asked", question.seeds, question.direction, 0) =
                      G!QueryImpact(rows, "asked", question.seeds, question.direction, question.depth)
            /\ question.direction = "forward" =>
                  \A x \in question.seeds, y \in nodes :
                      /\ (G!QueryReferences(rows, "asked", x, y, question.depth) = "confirmed")
                            = (\E n \in 1 .. question.depth : Path(x, y, n))
                      /\ {e \in G!QueryForward(rows, "asked", x) : e.to = y} =
                             {e \in G!QueryReverse(rows, "asked", y) : e.from = x}

-----------------------------------------------------------------------------
\* Components a file says as much about as an org does: of no package.
PlainlyNamed(c) == c.package = "" /\ F!ExtractNamespace(c.fullName) = ""
KeysOf(entries) == {<<p.type, p.fullName>> : p \in entries}

\* A filter lists the same of an org and of a project or a branch, for a filter that
\* names its types and, for a project, no author, and components of no package whose
\* folders the org lists; so
\* does what the editor makes of it; its file keeps its time of creation; and what
\* the editor says of the exclusions.  (0 % is said of a removal below half a tenth of
\* a percent too.)
ListsTheSame(filter, set, files, edited) ==
    LET OfOrg(fil) == F!OrgInventory(question.org, question.folders, {}, fil)
        Excluded(c) == c.package # "" \/ F!ExtractNamespace(c.fullName) # ""
        Source(kind, ends) == [kind |-> kind, has |-> question.org, folders |-> question.folders, ends |-> ends]
        Said(ends) == F!CheckImpact(<<Source("org", "succeeded"), Source("sfdx-project", ends)>>,
                                    F!WithoutNamespaceFiltering(edited), edited)
    IN  /\ \A kind \in {"sfdx-project", "git-ref"} :
              (/\ filter.types \notin {Unset, {}} /\ filter.types \cap F!Singletons = {}
               /\ filter.modifiedBy \in {Unset, {}} \/ kind = "git-ref"
               /\ \A c \in question.org : PlainlyNamed(c) /\ (c.folder # "" => c.folder \in question.folders)) =>
                 KeysOf(OfOrg(filter)) = KeysOf(F!ProjectInventory(question.org, kind, filter))
        /\ filter.modifiedBy \in {Unset, {}} => OfOrg(F!WithManagedPackageDefault(edited)) = OfOrg(filter)
        /\ F!FilterSetFromYaml(F!Save(files, set, 9)[1]).createdAt = 7
        /\ F!ListFilterSets(F!DeleteFilterSet(files, 1)) = <<files[2]>>
        /\ Said("failed").results = <<>>
        /\ \A rows \in {Said("succeeded").results} :
              LET impact == F!ComputeNamespaceImpact(rows[1].before, rows[1].after)
                  all    == OfOrg(F!WithoutNamespaceFiltering(edited))
                  kept   == OfOrg(F!WithManagedPackageDefault(edited))
              IN  /\ kept \subseteq all /\ impact.removed = Cardinality(all \ kept)
                  /\ (impact.removedPercent = 0) = (all = kept \/ 2000 * impact.removed < Cardinality(all))
                  /\ impact.removedPercent <= 1000
                  /\ impact.removed > 0 => \E c \in question.org : Excluded(c)
                  /\ F!ComputeNamespaceImpact(rows[2].before, rows[2].after).removed <=
                        Cardinality({c \in question.org : Excluded(c)})

\* An org and a project or a branch with the same components list the same ones, so that
\* none is taken for new or deleted (type-filter.ts:55-130, org-source.ts:232-366).
\* A saved filter, found first in the list as the latest, opened in the editor and
\* built again, lists the same (filter-set.ts:83-107, filter-set-utils.ts:27-80); and
\* what the editor says its exclusions remove of a source is what a comparison then
\* lacks of it, or nothing is said (inventory-preview.ts, routers/inventory.ts:66-112).
SidesListTheSame ==
    Asking("listing") =>
        LET filter == F!WithManagedPackageDefault(question.filter)
            set    == [id |-> 1, filter |-> question.filter]
            plain  == [id |-> 2, filter |-> F!WithoutNamespaceFiltering(question.filter)]
            files  == F!Save(F!Save(<<>>, set, 7), plain, 6)
            saved  == F!ListFilterSets(files)[1].filter
            edited == F!BuildTypeFilter(F!Given(saved.types), F!ScopeFieldsFromFilter(saved))
        IN  ListsTheSame(filter, set, files, edited)
=============================================================================
