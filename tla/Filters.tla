-------------------------------- MODULE Filters --------------------------------
(***************************************************************************)
(* Which components a source lists (sources/type-filter.ts, registry.ts,   *)
(* org-source.ts) and the filters users keep (filter-set.ts, the web       *)
(* client's filter editor).  A full name is the sequence of its pieces     *)
(* between double underscores: Field__c is <<"Field", "c">>.               *)
(***************************************************************************)
EXTENDS Naturals, Sequences, FiniteSets, SequencesExt, FiniteSetsExt, ListOps

CONSTANT Unset \* a field the filter, or the caller, leaves out

\* extractNamespace: one trailing __c is no namespace separator.
ExtractNamespace(name) ==
    LET rest == IF Len(name) > 1 /\ Last(name) = "c" THEN Front(name) ELSE name
    IN  IF Len(rest) > 1 THEN rest[1] ELSE ""
\* What a source can say wins over what the name looks like.
ResolveNamespace(p) == IF p.namespacePrefix # Unset THEN p.namespacePrefix ELSE ExtractNamespace(p.fullName)

MatchesTypeFilter(p, filter) ==
    LET namespace == ResolveNamespace(p)
    IN  /\ filter.types \in {Unset, {}} \/ p.type \in filter.types
        /\ filter.namePatterns \in {Unset, {}} \/ \E pattern \in filter.namePatterns : p.fullName \in pattern
        /\ filter.modifiedSince = Unset \/ p.lastModifiedDate = Unset \/ p.lastModifiedDate >= filter.modifiedSince
        /\ filter.modifiedBy \in {Unset, {}} \/ p.modifiedBy \in filter.modifiedBy
        /\ filter.excludeNamespaces = Unset \/ namespace = "" \/ namespace \notin filter.excludeNamespaces
        /\ filter.excludeManagedPackages # TRUE \/ namespace = "" \/ p.manageableState = "unmanaged"

WithManagedPackageDefault(filter) ==
    IF filter.excludeManagedPackages = Unset THEN [filter EXCEPT !.excludeManagedPackages = TRUE] ELSE filter

-----------------------------------------------------------------------------
\* registry.ts: three rows of the default list.
DefaultInventoryTypes == {"CustomField", "Layout", "Report"}
ResolveInventoryTypes(filter) ==
    IF filter.types \in {Unset, {}} THEN DefaultInventoryTypes ELSE filter.types
FolderTypes == {"Report"}
Singletons == {"Settings", "StandardValueSet"}
UnfiledPublicFolder == "unfiled$public"
Batches_FullOnly(queries, size) ==
    [i \in 1..(Len(queries) \div size) |-> SubSeq(queries, (i - 1) * size + 1, i * size)]
Batches(queries, size) ==
    [i \in 1..((Len(queries) + size - 1) \div size) |->
        SubSeq(queries, (i - 1) * size + 1, Min({i * size, Len(queries)}))]

\* OrgSource.listMetadataBatch: a batch that fails is asked again one type at a
\* time, and a type that fails alone has no components.
ListMetadataBatch(batch, org, failing) ==
    LET q == ToSet(batch) IN {c \in org : \E one \in q \ failing : one = <<c.type, c.folder>>}
ListBatched(queries, org, failing) ==
    LET batches == Batches(queries, 3)
    IN  UNION {ListMetadataBatch(batches[i], org, failing) : i \in DOMAIN batches}

OrgEntry(c) ==
    [type |-> c.type, fullName |-> c.fullName, lastModifiedDate |-> c.date, modifiedBy |-> c.by,
     namespacePrefix |-> c.package, manageableState |-> IF c.package = "" \/ c.own THEN "unmanaged" ELSE "installed"]

\* OrgSource.inventory: plain types, then each folder type in the folders the org
\* listed and the unfiled one, then what the Metadata API does not list.
OrgInventory(org, folders, failing, filter) ==
    LET types == ResolveInventoryTypes(filter)
        plain == {<<t, "">> : t \in types \ (FolderTypes \cup Singletons)}
        inFolders == (types \cap FolderTypes)
                         \X ((IF <<"ReportFolder", "">> \in failing THEN {} ELSE folders) \cup {UnfiledPublicFolder})
        listed == {OrgEntry(c) : c \in ListBatched(SetToSeq(plain), org, failing)
                                       \cup ListBatched(SetToSeq(inFolders), org, failing)}
        fixed == {[type |-> t, fullName |-> <<t>>, lastModifiedDate |-> Unset, modifiedBy |-> Unset,
                   namespacePrefix |-> Unset, manageableState |-> Unset] : t \in types \cap Singletons}
    IN  {p \in listed \cup fixed : MatchesTypeFilter(p, filter)}

\* A project knows a name and a date, a git ref the author of the last commit too.
ProjectEntry(c, kind) ==
    [type |-> c.type, fullName |-> c.fullName, lastModifiedDate |-> c.date,
     modifiedBy |-> IF kind = "git-ref" THEN c.by ELSE Unset,
     namespacePrefix |-> Unset, manageableState |-> Unset]
ProjectInventory(project, kind, filter) ==
    {p \in {ProjectEntry(c, kind) : c \in project} : MatchesTypeFilter(p, filter)}

-----------------------------------------------------------------------------
\* filter-set.ts: a saved set is one file, read back only if it is whole and of
\* the version this build writes.
FilterSetSchemaVersion == 1
ToFilterSet(draft) == [draft EXCEPT !.version = FilterSetSchemaVersion]
FilterSetFromYaml(file) ==
    IF file.version # FilterSetSchemaVersion \/ Unset \in {file.id, file.createdAt, file.updatedAt} THEN Unset
    ELSE file
SaveFilterSet(files, draft) ==
    [id \in DOMAIN files \cup {draft.id} |-> IF id = draft.id THEN ToFilterSet(draft) ELSE files[id]]
\* filters.save keeps the time of creation of a set that can be read.
Save(files, input, now) ==
    LET old == IF input.id \in DOMAIN files THEN FilterSetFromYaml(files[input.id]) ELSE Unset
    IN  SaveFilterSet(files, [version |-> 0, id |-> input.id, filter |-> input.filter, updatedAt |-> now,
                              createdAt |-> IF old = Unset THEN now ELSE old.createdAt])
\* listFilterSets: newest first; one file that cannot be read fails the list.
ListFilterSets(files) ==
    IF \E id \in DOMAIN files : FilterSetFromYaml(files[id]) = Unset THEN Unset
    ELSE LET sets == {files[id] : id \in DOMAIN files}
         IN  Sorted(sets, {p \in sets \X sets : p[1].updatedAt > p[2].updatedAt})
DeleteFilterSet(files, id) == [i \in (DOMAIN files) \ {id} |-> files[i]]

\* web/lib/filter-set-utils.ts: the editor's fields and back.
Given(x) == IF x = Unset THEN {} ELSE x
ScopeFieldsFromFilter(filter) ==
    [namePatterns |-> Given(filter.namePatterns), modifiedSince |-> filter.modifiedSince,
     excludeNamespaces |-> Given(filter.excludeNamespaces),
     excludeManagedPackages |-> filter.excludeManagedPackages # FALSE]
BuildTypeFilter(types, scope) ==
    [types |-> IF types = {} THEN Unset ELSE types,
     namePatterns |-> IF scope.namePatterns = {} THEN Unset ELSE scope.namePatterns,
     modifiedSince |-> scope.modifiedSince, modifiedBy |-> Unset,
     excludeNamespaces |-> IF scope.excludeNamespaces = {} THEN Unset ELSE scope.excludeNamespaces,
     excludeManagedPackages |-> scope.excludeManagedPackages]
WithoutNamespaceFiltering(filter) ==
    [filter EXCEPT !.excludeNamespaces = Unset, !.excludeManagedPackages = FALSE]

\* inventory.start, and its job: how many components a source lists for a filter.
InventoryStart(filter) == WithManagedPackageDefault(filter)
InventoryJob(source, filter) ==
    Cardinality(IF source.kind = "org" THEN OrgInventory(source.has, source.folders, {}, filter)
                ELSE ProjectInventory(source.has, source.kind, filter))
\* useNamespaceImpactPreview: one job after the other; a job that does not succeed
\* (`ends', external) leaves no rows at all.
CountFor(source, filter) ==
    IF source.ends # "succeeded" THEN Unset ELSE InventoryJob(source, InventoryStart(filter))
CheckImpact(sources, baseline, effective) ==
    LET rows == [i \in DOMAIN sources |->
                    [before |-> CountFor(sources[i], baseline), after |-> CountFor(sources[i], effective)]]
    IN  IF \E i \in DOMAIN rows : Unset \in {rows[i].before, rows[i].after}
        THEN [status |-> "error", results |-> <<>>] ELSE [status |-> "done", results |-> rows]
\* In tenths of a percent, rounded.
ComputeNamespaceImpact(before, after) ==
    LET removed == IF after < before THEN before - after ELSE 0
    IN  [removed |-> removed,
         removedPercent |-> IF before > 0 THEN (2000 * removed + before) \div (2 * before) ELSE 0]
=============================================================================
