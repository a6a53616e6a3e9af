----------------------------- MODULE MCAlgorithms -----------------------------
(* Small inputs of every kind: all the documents of at most two items over   *)
(* two keys and two values, all the grids over two permissions, and so on.   *)
EXTENDS Algorithms, TLC

SeqsUpTo2(S) == {<<>>} \cup {<<x>> : x \in S} \cup {<<x, y>> : x \in S, y \in S}
Doc(tag, scalars, items) == [tag |-> tag, scalars |-> scalars, items |-> items]
Field(f) == [field |-> f]
Item(fields, value, attr) == [fields |-> fields, value |-> value, attr |-> attr]

FieldItems ==
    {Item(Field(f), v, "s") : f \in {"", "a", "b"}, v \in {1, 2}} \cup {Item(Field("a"), 1, "d")}
NamedItems == {Item([fullName |-> f, label |-> l], 1, "s") : f \in {"", "a"}, l \in {"", "a"}}
AssignedItems == {Item([layout |-> f, recordType |-> l], 1, "s") : f \in {"", "a"}, l \in {"", "a", "b"}}
Docs(tag, scalars, items) == {Doc(tag, s, x) : s \in scalars, x \in SeqsUpTo2(items)}
Pairs(tag, items) ==
    [l : Docs(tag, {[label |-> 1, lastModifiedDate |-> 1]}, items), r : Docs(tag, [label : {1, 2}], items)]
TheDocumentPairs ==
    [layoutItems       |-> Pairs("layoutItems", FieldItems),
     valueSet          |-> Pairs("valueSet", NamedItems),
     layoutAssignments |-> Pairs("layoutAssignments", AssignedItems)]

\* Of each of two fields none, or an item with one of two values; and another order.
Entry(field, id, v) == IF v = 0 THEN <<>> ELSE <<Item(field :> id, v, "s")>>
Grid(tag, field, v, w) == Doc(tag, [label |-> 1], Entry(field, "a", v) \o Entry(field, "b", w))
Versions ==
    {Grid("layoutItems", "field", v, w) : v, w \in 0 .. 2}
      \cup {Absent, Doc("layoutItems", [label |-> 2], Entry("field", "b", 1) \o Entry("field", "a", 1))}
TheMerges == [base : Versions \cup {NoBase}, l : Versions, r : Versions]

Grids(tag) ==
    {[Grid(tag, PermissionCollections[tag].identity, v, w) EXCEPT !.scalars.label = 1 + (v % 2)] : v, w \in 0 .. 2}
TheGrants ==
    [tag \in {"classAccesses", "userPermissions"} |->
        [base : {g \in Grids(tag) : Len(g.items) < 2} \cup {NoBase}, l : Grids(tag), r : Grids(tag),
         coverage : [left : {Full, {}, {"a"}}, right : {Full, {"a"}}, base : {Full, {}}]]]

Object == [type |-> "CustomObject", name |-> 1, parent |-> 0]
FieldOf == [type |-> "CustomField", name |-> 2, parent |-> 1]
Record == [type |-> "RecordType", name |-> 3, parent |-> 1]
Other == [type |-> "Flow", name |-> 4, parent |-> 0]
SameName == [type |-> "Bot", name |-> 4, parent |-> 0]
Statuses == {"identical", "new", "changed", "deleted"}
Click(key, to, header) == [id |-> K!Id(key), to |-> to, header |-> header]
Clicks == {<<>>} \cup {<<Click(a, TRUE, h), Click(b, to, FALSE)>> :
                          a \in {Object, Other}, b \in {FieldOf, Record, SameName}, to, h \in BOOLEAN}
TheSelections ==
    {[results |-> {[key |-> k, status |-> s[k]] : k \in DOMAIN s}, shown |-> f, clicks |-> c,
      keys |-> <<SameName, Record, Object, Other, FieldOf>>] :
        s \in UNION {[ks -> Statuses] : ks \in {{Object, FieldOf, Other}, {FieldOf, Record, Other}, {Object, FieldOf, Record},
                                               {Object, Other, SameName}}},
        f \in {{}, {"new", "identical"}}, c \in Clicks}

Class(words) == [Stub([type |-> "ApexClass", name |-> words]) EXCEPT !.apiVersion = 50]
Trigger == Stub([type |-> "ApexTrigger", name |-> <<"Foo">>])
Mention(object, name) == [object |-> object, name |-> name, custom |-> TRUE]
LayoutOf == [Stub([type |-> "Layout", name |-> <<"L">>])
                EXCEPT !.object = "O", !.mentions = {Mention("", "F"), Mention("P", "F")}, !.recordTypes = {<<"O", "R">>}]
AFlow == [Stub([type |-> "Flow", name |-> <<"W">>]) EXCEPT !.mentions = {Mention("", "Foo")}, !.status = "Draft"]
Grant == [Stub([type |-> "Profile", name |-> <<"Admin">>])
             EXCEPT !.grants = {[key |-> [type |-> "ApexClass", name |-> <<"Foo">>], granted |-> TRUE]}]
OF == A!FieldKey("O", "F")
OfR == A!RecordTypeKey(<<"O", "R">>)
FooKey == [type |-> "ApexClass", name |-> <<"Foo">>]
Orgs == [sandbox : {FALSE}, coverage : {60, Unknown}, apexCoverage : {<<"Foo">> :> 40, Unknown}, apiVersion : {60}]
          \cup {[sandbox |-> TRUE, coverage |-> 60, apexCoverage |-> Unknown, apiVersion |-> 60]}
TheContexts ==
    {[package |-> p, destructive |-> x, target |-> t, exists |-> e, edges |-> g, testLevel |-> l,
      runTests |-> IF x = {} THEN {} ELSE {<<"Foo", "Test">>}] :
        p \in {{Class(<<"Foo">>), Trigger}, {Class(<<"Foo", "Test">>), AFlow, Grant}, {LayoutOf, Grant}, {LayoutOf, AFlow}},
        x \in {{}, {OF}, {OF, FooKey}}, t \in Orgs \cup {Unknown},
        e \in {(OF :> there @@ OfR :> FALSE @@ FooKey :> FALSE) : there \in BOOLEAN},
        g \in {{}, {<<FooKey, OF>>}, {<<LayoutOf.key, OF>>, <<OF, FooKey>>}},
        l \in {"RunLocalTests", "NoTestRun", "RunSpecifiedTests", Unknown}}

\* A Profile, two classes of no package and one of a package.
Prof == [type |-> "Profile", fullName |-> <<"x">>]
Own  == {[type |-> "ApexClass", fullName |-> <<n>>] : n \in {"y", "z"}}
Pkg  == [type |-> "ApexClass", fullName |-> <<"pkg", "m">>]
OwnY == [type |-> "ApexClass", fullName |-> <<"y">>]
Namespace(node) == IF node = Pkg THEN "pkg" ELSE ""
Mentions == (Own \cup {Pkg}) \X (Own \cup {Pkg})
TheWalks ==
    {[answered |-> {G!Edge(a[1], a[2], "tooling", Namespace(a[1]), Namespace(a[2])) : a \in s},
      components |-> {[key |-> Prof, names |-> ns]}, excluded |-> x, managed |-> x = {},
      seeds |-> q, direction |-> d, depth |-> n] :
        s \in {t \in SUBSET Mentions : Cardinality(t) <= 3}, ns \in SUBSET {OwnY, Pkg}, x \in {{}, {"pkg"}, {"other"}},
        q \in {{Prof}, {Pkg, OwnY}}, d \in {"forward", "reverse"}, n \in {1, 3}}

Comp(type, name, folder, package) ==
    [type |-> type, fullName |-> name, folder |-> folder, date |-> 5, by |-> "me", package |-> package, own |-> FALSE]
Orgs2 == {Comp("CustomField", <<"F", "c">>, "", ""), Comp("Layout", <<"L">>, "", ""), Comp("Report", <<"R">>, "fold", ""),
          Comp("Report", <<"S">>, F!UnfiledPublicFolder, ""), Comp("CustomField", <<"pkg", "F", "c">>, "", "pkg")}
TheListings ==
    {[org |-> o, folders |-> fs, filter |-> f] :
        o \in SUBSET Orgs2, fs \in {{"fold", F!UnfiledPublicFolder}},
        f \in [types : {Unset, {"Layout"}, {"CustomField", "Report"}, {"Report", "Settings"}},
               namePatterns : {Unset, {{<<"L">>, <<"R">>}}}, modifiedSince : {Unset, 5, 6}, modifiedBy : {Unset, {"me"}},
               excludeNamespaces : {Unset, {"pkg"}}, excludeManagedPackages : {Unset, TRUE, FALSE}]}
=============================================================================
