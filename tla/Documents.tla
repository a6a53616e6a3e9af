------------------------------ MODULE Documents ------------------------------
(***************************************************************************)
(* A component's XML as the core library sees it (diff/): the key an item  *)
(* of a collection is matched by, the canonical form that is hashed, the   *)
(* structural diff, and the verdict on the component.  A document has      *)
(* scalar fields, some volatile, and one collection; an item has fields,   *)
(* a value and an XML attribute of that value.  A missing field reads      *)
(* Blank, a missing document or item Absent.                               *)
(***************************************************************************)
EXTENDS Naturals, Sequences, FiniteSets, SequencesExt, FiniteSetsExt, ListOps

CONSTANTS Absent, Blank

-----------------------------------------------------------------------------
\* Three rows of the table, and the start of the list for collections without one.
NaturalKeys ==
    [layoutAssignments |-> <<"layout", "recordType">>,
     classAccesses     |-> <<"apexClass">>,
     layoutItems       |-> <<"field">>]
GenericKeyCandidates == <<"fullName", "label">>

\* The rules to try for a collection, each a list of fields.
ResolveCollectionKeyFields(tag) ==
    IF tag \in DOMAIN NaturalKeys THEN <<NaturalKeys[tag]>>
    ELSE [i \in DOMAIN GenericKeyCandidates |-> <<GenericKeyCandidates[i]>>]

Part(item, field) == IF field \in DOMAIN item.fields THEN item.fields[field] ELSE Blank

\* computeItemKey: the first rule with a part that is not blank, else the content.
SortKey(tag, item) ==
    LET rules    == ResolveCollectionKeyFields(tag)
        resolved == {i \in DOMAIN rules : \E n \in DOMAIN rules[i] : Part(item, rules[i][n]) # Blank}
    IN  IF resolved = {} THEN <<"hash", item>>
        ELSE LET rule == rules[Min(resolved)]
             IN  <<"key", [n \in DOMAIN rule |-> Part(item, rule[n])]>>

SortKeys(doc) == {SortKey(doc.tag, doc.items[i]) : i \in DOMAIN doc.items}
ItemsOf(doc, k) == Only(doc.items, {item \in ToSet(doc.items) : SortKey(doc.tag, item) = k})

\* stripVolatileAndSort: a stable sort by key is, whatever the order of the keys,
\* the items of each key in the order of the document.
VolatileFields == {"lastModifiedDate"}
StripVolatileAndSort(doc) ==
    [tag     |-> doc.tag,
     scalars |-> [f \in (DOMAIN doc.scalars) \ VolatileFields |-> doc.scalars[f]],
     items   |-> [k \in SortKeys(doc) |-> ItemsOf(doc, k)]]

\* Equal sha256 is equal canonical form.
CanonicalizeXml_KeepsVolatile(doc) == [StripVolatileAndSort(doc) EXCEPT !.scalars = doc.scalars]
CanonicalizeXml(doc) == StripVolatileAndSort(doc)

-----------------------------------------------------------------------------
\* The structural diff.  Of several items with one key the last is matched.
ByKey(doc) == [k \in SortKeys(doc) |-> Last(ItemsOf(doc, k))]
At(map, k) == IF k \in DOMAIN map THEN map[k] ELSE Absent
\* semanticKeys: attributes are not compared.
Semantic(item) == [fields |-> item.fields, value |-> item.value]

DiffScalar(l, r) ==
    CASE l = r                  -> "identical"
      [] l = Absent /\ r # Absent -> "new"
      [] l # Absent /\ r = Absent -> "deleted"
      [] OTHER                  -> "changed"

DiffItem(l, r) ==
    CASE l = Absent /\ r # Absent -> "new"
      [] l # Absent /\ r = Absent -> "deleted"
      [] OTHER -> IF Semantic(l) = Semantic(r) THEN "identical" ELSE "changed"

\* isCollectionLike: the parser makes a list of an element of the table, or that
\* there are several of; what is a list on neither side is compared as one value.
IsValue(doc) == doc.tag \notin DOMAIN NaturalKeys /\ Len(doc.items) <= 1
Matched(doc, other) ==
    IF IsValue(doc) /\ IsValue(other) THEN [k \in {<<"value">> : i \in DOMAIN doc.items} |-> doc.items[1]]
    ELSE ByKey(doc)

\* diffXml: an entry for every scalar and every keyed item of either side.
DiffXml(l, r) ==
    LET lc == StripVolatileAndSort(l)
        rc == StripVolatileAndSort(r)
        li == Matched(l, r)
        ri == Matched(r, l)
    IN  {[at |-> <<"scalar", f>>, status |-> DiffScalar(At(lc.scalars, f), At(rc.scalars, f))] :
            f \in DOMAIN lc.scalars \cup DOMAIN rc.scalars}
          \cup {[at |-> <<"item", k>>, status |-> DiffItem(At(li, k), At(ri, k))] :
            k \in DOMAIN li \cup DOMAIN ri}
IsAllIdentical(entries) == \A e \in entries : e.status = "identical"

\* diffComponent, for a type with an XML body and no Profile's grid.
DiffComponent(l, r, differences) ==
    CASE l = Absent /\ r = Absent -> "identical"
      [] l # Absent /\ r = Absent -> "deleted"
      [] l = Absent /\ r # Absent -> "new"
      [] OTHER ->
           IF CanonicalizeXml(l) = CanonicalizeXml(r) \/ IsAllIdentical(differences)
           THEN "identical" ELSE "changed"
=============================================================================
