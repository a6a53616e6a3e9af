------------------------------ MODULE Profiles ------------------------------
(***************************************************************************)
(* A Profile or PermissionSet (diff/profiles.ts, merge/): its grid of      *)
(* permissions is compared entry by entry, and an entry that is not there  *)
(* says nothing unless the side's coverage shows that it was asked for.    *)
(* Coverage is Full or the set of the references that were retrieved with  *)
(* the profile.  The merge of any component is here too: two-way, or       *)
(* three-way with a common ancestor.                                       *)
(***************************************************************************)
EXTENDS Documents

CONSTANTS Full, NoBase

\* Two rows of PERMISSION_COLLECTIONS and the one that is always complete.
PermissionCollections ==
    [classAccesses     |-> [identity |-> "apexClass", alwaysComplete |-> FALSE],
     layoutAssignments |-> [identity |-> "layout", alwaysComplete |-> FALSE],
     userPermissions   |-> [identity |-> "name", alwaysComplete |-> TRUE]]

IsCovered_Always(coverage, ref, alwaysComplete) == TRUE
IsCovered(coverage, ref, alwaysComplete) ==
    alwaysComplete \/ coverage = Full \/ ref \in coverage

\* indexByIdentity: the identity alone; of several items with one the last counts.
IdentityOf(doc, item) == Part(item, PermissionCollections[doc.tag].identity)
Identities(doc) == {IdentityOf(doc, doc.items[i]) : i \in DOMAIN doc.items} \ {Blank}
IndexByIdentity(doc) ==
    [k \in Identities(doc) |-> doc.items[Max({i \in DOMAIN doc.items : IdentityOf(doc, doc.items[i]) = k})]]

Covers(doc, coverage, ref) == IsCovered(coverage, ref, PermissionCollections[doc.tag].alwaysComplete)

\* diffOnePermissionCollection.
DeepEqual(a, b) == a.fields = b.fields /\ a.value = b.value /\ a.attr = b.attr
DiffPermission(l, r, leftSaw, rightSaw) ==
    CASE l # Absent /\ r # Absent -> IF DeepEqual(l, r) THEN "identical" ELSE "changed"
      [] l # Absent /\ r = Absent -> IF rightSaw THEN "deleted" ELSE "identical"
      [] l = Absent /\ r # Absent -> IF leftSaw THEN "new" ELSE "identical"

\* What is compared of a profile besides its grid.
AlwaysDiffedScalarFields == {"description", "label"}
ParseProfileLikeRoot(tag, side) ==
    IF side = Absent THEN [tag |-> tag, scalars |-> <<>>, items |-> <<>>]
    ELSE [side EXCEPT !.scalars = [f \in (DOMAIN side.scalars) \ VolatileFields |-> side.scalars[f]]]

DiffProfileLike(left, right, ctx) ==
    LET l  == ParseProfileLikeRoot(right.tag, left)
        r  == ParseProfileLikeRoot(left.tag, right)
        li == IndexByIdentity(l)
        ri == IndexByIdentity(r)
    IN  {[at |-> <<"item", k>>,
          status |-> DiffPermission(At(li, k), At(ri, k), Covers(l, ctx.left, k), Covers(r, ctx.right, k))] :
            k \in DOMAIN li \cup DOMAIN ri}
          \cup {[at |-> <<"scalar", f>>,
                 status |-> IF At(l.scalars, f) = At(r.scalars, f) THEN "identical" ELSE "changed"] :
            f \in AlwaysDiffedScalarFields}

-----------------------------------------------------------------------------
\* merge/resolve.ts: what becomes of one entry.
Resolution(status, resolved) == [status |-> status, resolved |-> resolved]

ResolveTwoWay(l, r) ==
    CASE l = r                    -> Resolution("unchanged", l)
      [] l # Absent /\ r = Absent -> Resolution("take-left", l)
      [] l = Absent /\ r # Absent -> Resolution("take-right", r)
      [] OTHER                    -> Resolution("conflict", Absent)

ThreeWay_LeftWins(b, l, r, changedLeft, changedRight) ==
    IF changedLeft THEN Resolution("take-left", l) ELSE Resolution("take-right", r)
ThreeWay(b, l, r, changedLeft, changedRight) ==
    CASE ~changedLeft /\ ~changedRight -> Resolution("unchanged", b)
      [] changedLeft /\ ~changedRight  -> Resolution("take-left", l)
      [] ~changedLeft /\ changedRight  -> Resolution("take-right", r)
      [] OTHER -> IF l = r THEN Resolution("unchanged", l) ELSE Resolution("conflict", Absent)
ResolveThreeWay(b, l, r) == ThreeWay(b, l, r, b # l, b # r)

ResolveTwoWayCoverageAware(l, r, leftConfirmed, rightConfirmed) ==
    IF (l = Absent /\ ~leftConfirmed) \/ (r = Absent /\ ~rightConfirmed)
    THEN Resolution("unchanged", IF l # Absent THEN l ELSE r)
    ELSE ResolveTwoWay(l, r)
ResolveThreeWayCoverageAware(b, l, r, leftConfirmed, rightConfirmed) ==
    ThreeWay(b, l, r, b # l /\ (l # Absent \/ leftConfirmed), b # r /\ (r # Absent \/ rightConfirmed))

\* mergeGeneric over decomposeGeneric: an entry for every scalar and keyed item.
\* A base of NoBase is a two-way merge.
DecomposeGeneric(doc) ==
    IF doc = Absent THEN <<>>
    ELSE LET clean == StripVolatileAndSort(doc)
             items == ByKey(doc)
         IN  [k \in {<<"scalar", f>> : f \in {g \in DOMAIN clean.scalars : clean.scalars[g] # Absent}}
                      \cup {<<"item", n>> : n \in DOMAIN items} |->
                IF k[1] = "scalar" THEN clean.scalars[k[2]] ELSE items[k[2]]]

MergeGeneric(base, left, right) ==
    LET b == IF base = NoBase THEN <<>> ELSE DecomposeGeneric(base)
        l == DecomposeGeneric(left)
        r == DecomposeGeneric(right)
    IN  [k \in DOMAIN b \cup DOMAIN l \cup DOMAIN r |->
            IF base = NoBase THEN ResolveTwoWay(At(l, k), At(r, k))
            ELSE ResolveThreeWay(At(b, k), At(l, k), At(r, k))]

\* mergeProfileLike, for one permission collection: without a trustworthy
\* ancestor an entry is merged as in two-way.
MergeGrid(base, left, right, coverage) ==
    LET b == IF base = NoBase THEN <<>> ELSE IndexByIdentity(base)
        l == IndexByIdentity(left)
        r == IndexByIdentity(right)
    IN  [k \in DOMAIN b \cup DOMAIN l \cup DOMAIN r |->
            LET lc == Covers(left, coverage.left, k)
                rc == Covers(right, coverage.right, k)
            IN  IF base = NoBase \/ (At(b, k) = Absent /\ ~Covers(left, coverage.base, k))
                THEN ResolveTwoWayCoverageAware(At(l, k), At(r, k), lc, rc)
                ELSE ResolveThreeWayCoverageAware(At(b, k), At(l, k), At(r, k), lc, rc)]
MergeProfileLike(tag, base, left, right, coverage) ==
    LET b == IF base = NoBase THEN NoBase ELSE ParseProfileLikeRoot(tag, base)
        l == ParseProfileLikeRoot(tag, left)
        r == ParseProfileLikeRoot(tag, right)
        grid == MergeGrid(b, l, r, coverage)
        Scalar(f) == IF base = NoBase THEN ResolveTwoWay(At(l.scalars, f), At(r.scalars, f))
                     ELSE ResolveThreeWay(At(b.scalars, f), At(l.scalars, f), At(r.scalars, f))
    IN  [k \in {<<"scalar", f>> : f \in AlwaysDiffedScalarFields} \cup {<<"item", n>> : n \in DOMAIN grid} |->
            IF k[1] = "scalar" THEN Scalar(k[2]) ELSE grid[k[2]]]

MergeComponent(profileLike, tag, base, left, right, coverage) ==
    IF profileLike THEN MergeProfileLike(tag, base, left, right, coverage) ELSE MergeGeneric(base, left, right)
Summarize(entries) ==
    [s \in {"unchanged", "take-left", "take-right", "conflict"} |->
        Cardinality({k \in DOMAIN entries : entries[k].status = s})]

-----------------------------------------------------------------------------
\* profile-coverage-json.ts: a set is written as a list, and read back as a set;
\* the coverage of a base is not written.
ToJsonSideCoverage(side) == IF side = Full THEN Full ELSE SetToSeq(side)
FromJsonSideCoverage(side) == IF side = Full THEN Full ELSE ToSet(side)
SerializeProfileCoverage(coverage) ==
    [left |-> ToJsonSideCoverage(coverage.left), right |-> ToJsonSideCoverage(coverage.right)]
DeserializeProfileCoverage(json) ==
    [left |-> FromJsonSideCoverage(json.left), right |-> FromJsonSideCoverage(json.right), base |-> Full]

\* trpc/routers/merge.ts.  A decomposed component is read with its children, found
\* by the name before the dot, and composed into one document.
ComposeDecomposedComponent(shell, children) == [shell EXCEPT !.items = children]
MaterializeOneComponent(tree, decomposed) ==
    LET own == Only(tree.children, {c \in ToSet(tree.children) : c.parent = tree.name})
    IN  IF tree.shell = Absent \/ ~decomposed \/ own = <<>> THEN tree.shell
        ELSE ComposeDecomposedComponent(tree.shell, [i \in DOMAIN own |-> own[i].item])

\* Whether a side exists is what the comparison recorded; what it contains is the
\* stored blob, or, for a type that is decomposed into children, a fresh read of
\* the connection, without which the merge is refused.
Refused == [threw |-> TRUE, content |-> Absent]
Read(content) == [threw |-> FALSE, content |-> content]
ResolveSideContent(side, decomposed) ==
    CASE side.sha256 = Absent                                      -> Read(Absent)
      [] side.sha256 # Absent /\ ~decomposed                       -> Read(side.blob)
      [] side.sha256 # Absent /\ decomposed /\ side.tree = Absent  -> Refused
      [] OTHER -> Read(MaterializeOneComponent(side.tree, TRUE))
\* A profile whose coverage the comparison did not record is not merged, unless
\* both sides are the same bytes.
MergeCoverage(row, stored) ==
    IF row.left.sha256 # Absent /\ row.left.sha256 = row.right.sha256
    THEN [left |-> Full, right |-> Full, base |-> Full]
    ELSE IF stored = Absent THEN Absent ELSE DeserializeProfileCoverage(stored)

\* merge.resolve of one diff result: `base' is NoBase or a connection.
MergeResolve(row, base, stored) ==
    LET left     == ResolveSideContent(row.left, row.decomposed)
        right    == ResolveSideContent(row.right, row.decomposed)
        coverage == MergeCoverage(row, stored)
        refused  == \/ row.binary
                    \/ left.threw \/ right.threw
                    \/ base # NoBase /\ base.kind # "git-ref"
                    \/ row.profileLike /\ coverage = Absent
    IN  IF refused THEN [threw |-> TRUE, entries |-> <<>>]
        ELSE [threw |-> FALSE,
              entries |-> MergeComponent(row.profileLike, row.tag,
                              IF base = NoBase THEN NoBase ELSE MaterializeOneComponent(base.tree, row.decomposed),
                              left.content, right.content, coverage)]

-----------------------------------------------------------------------------
\* The web client's panel (merge-resolution.ts): the picks made for conflicts.
ApplyResolution(resolutions, path, choice) ==
    [p \in DOMAIN resolutions \cup {path} |-> IF p = path THEN choice ELSE resolutions[p]]
ClearResolution(resolutions, path) == [p \in (DOMAIN resolutions) \ {path} |-> resolutions[p]]
EffectiveValue(entry, l, r, choice) ==
    CASE entry.status # "conflict" -> entry.resolved
      [] entry.status = "conflict" /\ choice = "left" -> l
      [] entry.status = "conflict" /\ choice = "right" -> r
      [] OTHER -> Absent
ComputeResolutionCounts(entries, resolutions) ==
    LET total    == {k \in DOMAIN entries : entries[k].status = "conflict"}
        resolved == total \cap DOMAIN resolutions
    IN  [unchanged         |-> Summarize(entries)["unchanged"],
         autoResolved      |-> Summarize(entries)["take-left"] + Summarize(entries)["take-right"],
         conflictsTotal    |-> Cardinality(total),
         conflictsResolved |-> Cardinality(resolved),
         conflictsOpen     |-> Cardinality(total) - Cardinality(resolved)]
\* The tabs of the table, and the rows one shows.
CategoryOf(tag, path) == IF path[1] = "scalar" THEN path[2] ELSE tag
GroupMergeEntriesByCategory(tag, entries) ==
    [c \in {CategoryOf(tag, k) : k \in DOMAIN entries} |-> {k \in DOMAIN entries : CategoryOf(tag, k) = c}]
FilterMergeEntries(entries, shown, statusFilter, resolutions, onlyOpen) ==
    {k \in shown : /\ statusFilter \in {"all", entries[k].status}
                   /\ onlyOpen => entries[k].status = "conflict" /\ k \notin DOMAIN resolutions}
=============================================================================
