------------------------------- MODULE Packages -------------------------------
(***************************************************************************)
(* From what is checked in the results of a comparison to a package        *)
(* (package/, deploy.buildPackage): the tree of what changed, the leaves   *)
(* that are checked, the order of the package, its manifest and its XML.   *)
(* A name is its rank in the order of localeCompare; 0 is no parent.       *)
(***************************************************************************)
EXTENDS Naturals, Sequences, FiniteSets, SequencesExt, FiniteSetsExt, ListOps

CONSTANT Missing

Id(key) == <<key.type, key.name>>
ChildToParentType == [CustomField |-> "CustomObject", RecordType |-> "CustomObject"]
\* The browser's key, which has the parent in it too.
KeyToString(key) == <<key.type, key.parent, key.name>>
FindParentId(key) ==
    IF key.parent # 0 /\ key.type \in DOMAIN ChildToParentType
    THEN <<ChildToParentType[key.type], key.parent>> ELSE Missing

\* buildSelectionTree: of each changed result, the changed results under it.  A
\* type with a parent is not a parent itself, so the tree has two levels.
Changed(results) == {r \in results : r.status # "identical"}
BuildSelectionTree(results) ==
    [id \in {Id(r.key) : r \in Changed(results)} |->
        {Id(r.key) : r \in {s \in Changed(results) : FindParentId(s.key) = id}}]

\* TriStateSelection: only leaves are checked.
LeavesUnder(tree, id) == IF tree[id] = {} THEN {id} ELSE tree[id]
SetChecked(checked, tree, id, to) ==
    IF to THEN checked \cup LeavesUnder(tree, id) ELSE checked \ LeavesUnder(tree, id)
StateOf(checked, tree, id) ==
    CASE LeavesUnder(tree, id) \cap checked = {}   -> "unchecked"
      [] LeavesUnder(tree, id) \subseteq checked   -> "checked"
      [] OTHER                                     -> "indeterminate"
SelectedLeafIds_WithParents(checked, tree) == {id \in DOMAIN tree : StateOf(checked, tree, id) = "checked"}
SelectedLeafIds(checked, tree) == {id \in DOMAIN tree : tree[id] = {} /\ id \in checked}

-----------------------------------------------------------------------------
\* The results page of the browser: the rows its filters leave (`found' is the
\* set of names the search matches, Missing without one), by type.
FilterResults(results, statuses, found) ==
    {r \in results : (statuses = {} \/ r.status \in statuses) /\ (found = Missing \/ r.key.name \in found)}
CountByStatus(results) ==
    [s \in {"new", "changed", "deleted", "identical"} |-> Cardinality({r \in results : r.status = s})]
GroupByType(results) ==
    [type \in {r.key.type : r \in results} |->
        LET members == {r \in results : r.key.type = type}
        IN  [results |-> members, counts |-> CountByStatus(members)]]
\* The rows on screen: a header for each group, the members of the open ones.
FlattenGroups(groups, expanded) ==
    [headers |-> DOMAIN groups, leaves |-> UNION {groups[t].results : t \in DOMAIN groups \cap expanded}]

\* selection-store.ts: the header of a group ticks or clears what it shows.
SetLeaf(selected, key, to) ==
    IF to THEN selected \cup {KeyToString(key)} ELSE selected \ {KeyToString(key)}
GroupKeys(group) == {KeyToString(r.key) : r \in group.results}
SetGroup(selected, group, to) ==
    IF to THEN selected \cup GroupKeys(group) ELSE selected \ GroupKeys(group)
ComputeGroupTriState(selected, group) ==
    LET in == GroupKeys(group) \cap selected
    IN  IF in = {} THEN "unchecked" ELSE IF in = GroupKeys(group) THEN "checked" ELSE "indeterminate"

\* selected-components.ts: what is selected, in the order it is listed in.
PickSelected(results, selected) == {r \in results : KeyToString(r.key) \in selected}
Alphabetical == <<"Bot", "CustomField", "CustomObject", "Flow", "RecordType", "changed", "deleted", "identical", "new">>
Place(word) == CHOOSE i \in DOMAIN Alphabetical : Alphabetical[i] = word
CompareByKey(sortKey, a, b) ==
    LET by == CASE sortKey = "type"   -> <<Place(a.key.type), a.key.name, Place(b.key.type), b.key.name>>
                [] sortKey = "name"   -> <<a.key.name, Place(a.key.type), b.key.name, Place(b.key.type)>>
                [] sortKey = "status" -> <<Place(a.status), a.key.name, Place(b.status), b.key.name>>
    IN  by[1] < by[3] \/ (by[1] = by[3] /\ by[2] < by[4])
FilterAndSortSelected(picked, found, sortKey) ==
    LET matching == {r \in picked : found = Missing \/ r.key.name \in found}
    IN  Sorted(matching, {p \in matching \X matching : CompareByKey(sortKey, p[1], p[2])})
\* The rows of the list: one after the other, or by type with some types closed.
BuildSelectedRows(sorted, flatten, collapsed) ==
    IF flatten THEN [headers |-> {}, leaves |-> ToSet(sorted)]
    ELSE FlattenGroups(GroupByType(ToSet(sorted)), {r.key.type : r \in ToSet(sorted)} \ collapsed)

\* The deploy page's draft: an identical component that is selected is in it.
Draft(results, selected) ==
    LET picked == PickSelected(results, selected)
    IN  [components            |-> {r.key : r \in {s \in picked : s.status # "deleted"}},
         destructiveComponents |-> {r.key : r \in {s \in picked : s.status = "deleted"}}]
BuildPackageXmlPreview(components) ==
    [type \in {k.type : k \in components} |-> {k.name : k \in {c \in components : c.type = type}}]

-----------------------------------------------------------------------------
\* selectionToPackageComponents, and the split deploy.buildPackage makes of selectedKeys.
Picked(ids, results, statuses) == {r.key : r \in {s \in results : Id(s.key) \in ids /\ s.status \in statuses}}
SelectionToPackageComponents(ids, results) ==
    [components            |-> Picked(ids, results, {"new", "changed"}),
     destructiveComponents |-> Picked(ids, results, {"deleted"})]

\* order.ts: four rows of the table.
TypeDeployOrder == <<"CustomObject", "CustomField", "RecordType", "Profile">>
OrderIndex(type) ==
    IF type \in ToSet(TypeDeployOrder) THEN CHOOSE i \in DOMAIN TypeDeployOrder : TypeDeployOrder[i] = type
    ELSE Len(TypeDeployOrder) + 1
Before(a, b) ==
    OrderIndex(a.type) < OrderIndex(b.type) \/ (OrderIndex(a.type) = OrderIndex(b.type) /\ a.name < b.name)
\* Array.prototype.sort is stable.
TopologicalOrder(components) ==
    LET places == DOMAIN components
        order  == Sorted(places, {p \in places \X places :
                      \/ Before(components[p[1]], components[p[2]])
                      \/ p[1] < p[2] /\ ~Before(components[p[2]], components[p[1]])})
    IN  [n \in places |-> components[order[n]]]

\* manifest.ts: what is written, and read back if it is whole and of this version.
ManifestSchemaVersion == 1
ToManifest(pkg, mode) ==
    [version |-> ManifestSchemaVersion, id |-> pkg.id, name |-> pkg.name, destructiveMode |-> mode,
     components |-> pkg.components, destructiveComponents |-> pkg.destructiveComponents]
ManifestFromYaml(file) ==
    IF file.version # ManifestSchemaVersion \/ Missing \in {file.id, file.name} THEN Missing
    ELSE [file EXCEPT !.destructiveMode = IF @ = "pre" THEN "pre" ELSE "post"]
ManifestToDeploymentPackage(manifest) ==
    [id |-> manifest.id, name |-> manifest.name,
     components |-> manifest.components, destructiveComponents |-> manifest.destructiveComponents]
SaveManifest(files, manifest) ==
    [id \in DOMAIN files \cup {manifest.id} |-> IF id = manifest.id THEN manifest ELSE files[id]]

\* generatePackageXml: the members of package.xml and of destructiveChanges<mode>.xml.
GeneratePackageXml(components, destructiveComponents, mode) ==
    [packageXml |-> {Id(c) : c \in components},
     destructiveChangesXml |->
         IF destructiveComponents = {} THEN Missing
         ELSE [mode |-> mode, members |-> {Id(c) : c \in destructiveComponents}]]

\* deploy.buildPackage, for the keys the browser sends in some order.
LoadDiffResultsByKey(results, keys) ==
    LET rows == {r \in results : r.key.type \in {k.type : k \in ToSet(keys)}}
    IN  [id \in {Id(r.key) : r \in rows} |-> (CHOOSE r \in rows : Id(r.key) = id).status]
BuildPackage(id, selectedKeys, results, mode) ==
    LET status == LoadDiffResultsByKey(results, selectedKeys)
        Take(statuses) ==
            Only(selectedKeys, {k \in ToSet(selectedKeys) : Id(k) \in DOMAIN status /\ status[Id(k)] \in statuses})
        pkg == [id |-> id, name |-> id, components |-> TopologicalOrder(Take({"new", "changed"})),
                destructiveComponents |-> Take({"deleted"})]
    IN  [row      |-> [pkg |-> pkg, mode |-> mode],
         manifest |-> ToManifest(pkg, mode),
         xml      |-> GeneratePackageXml(ToSet(pkg.components), ToSet(pkg.destructiveComponents), mode)]

-----------------------------------------------------------------------------
\* comparison-direction.ts and its ways back: the wizard's source is the server's
\* right side, what a deployment brings; its target the left side, what it changes.
ToServerSides(wizard) == [left |-> wizard.target, right |-> wizard.source]
Connections(comparison) == [target |-> comparison.left, source |-> comparison.right]
Labels(comparison) == [target |-> comparison.left, source |-> comparison.right]
\* The org's part: a component is written as the source has it, if it has it.
Deployed(world, run, pkg) ==
    [world EXCEPT ![run.target] = [k \in DOMAIN @ |->
        IF k \in ToSet(pkg.destructiveComponents) THEN Missing
        ELSE IF k \in ToSet(pkg.components) /\ world[run.source][k] # Missing THEN world[run.source][k] ELSE @[k]]]
=============================================================================
