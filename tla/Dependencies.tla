----------------------------- MODULE Dependencies -----------------------------
(***************************************************************************)
(* The dependency graph (core dependencies/): an edge says that a component *)
(* refers to another, where the edge came from, and the namespaces of both.*)
(* What a change reaches is found level by level up to a depth.  A full    *)
(* name is the sequence of its pieces between double underscores.          *)
(***************************************************************************)
EXTENDS Naturals, Sequences, FiniteSets, FiniteSetsExt

NoNamespace == ""
Edge(from, to, provenance, fromNs, toNs) ==
    [from |-> from, to |-> to, provenance |-> provenance, fromNs |-> fromNs, toNs |-> toNs]

\* tooling-query.ts
FilterEdgesByNamespace(edges, excluded, excludeManaged) ==
    LET Out(ns) == ns # NoNamespace /\ (excludeManaged \/ ns \in excluded)
    IN  {e \in edges : ~Out(e.fromNs) /\ ~Out(e.toNs)}

\* supplement.ts: a Profile is an edge to everything its grid names, granted or not,
\* a Layout to every field it places.  What comes before the first double underscore
\* of a name, but for a trailing __c, is taken for its namespace.
ExtractNamespaceHeuristic(name) ==
    LET pieces == IF name[Len(name)] = "c" THEN Len(name) - 1 ELSE Len(name)
    IN  IF pieces > 1 THEN name[1] ELSE NoNamespace
ExtractEdges(component) ==
    {Edge(component.key, ref, "supplemented", ExtractNamespaceHeuristic(component.key.fullName),
          ExtractNamespaceHeuristic(ref.fullName)) : ref \in component.names}

\* syncDependenciesForSource: the namespaces excluded are looked for among the
\* edges the org answered with, not among those read off components.
SyncedEdges(answered, components, excluded, excludeManaged) ==
    FilterEdgesByNamespace(answered, excluded, excludeManaged) \cup UNION {ExtractEdges(c) : c \in components}

\* InMemoryDependencyGraph and DrizzleDependencyGraph.
Forward(edges, key) == {e \in edges : e.from = key}
Reverse_Swapped(edges, key) == Forward(edges, key)
Reverse(edges, key) == {e \in edges : e.to = key}
Next1(edges, key, direction) ==
    IF direction = "forward" THEN {e.to : e \in Forward(edges, key)} ELSE {e.from : e \in Reverse(edges, key)}

\* transitiveImpact: [key, depth] for what each level finds that no level found before.
TransitiveImpact(edges, seeds, direction, maxDepth) ==
    LET Level[n \in 0..maxDepth] ==
            IF n = 0 THEN [visited |-> seeds, frontier |-> seeds, found |-> {}]
            ELSE LET last == Level[n - 1]
                     new  == (UNION {Next1(edges, k, direction) : k \in last.frontier}) \ last.visited
                 IN  [visited  |-> last.visited \cup new, frontier |-> new,
                      found    |-> last.found \cup {[key |-> k, depth |-> n] : k \in new}]
    IN  Level[maxDepth].found

\* GraphDependencyReferenceChecker.references: the target is looked for before
\* what was visited, so that a cycle back to the start is found.
References(edges, from, to, maxDepth) ==
    LET Level[n \in 0..maxDepth] ==
            IF n = 0 THEN [visited |-> {from}, frontier |-> {from}, confirmed |-> FALSE]
            ELSE LET last == Level[n - 1]
                     seen == UNION {Next1(edges, k, "forward") : k \in last.frontier}
                 IN  [visited   |-> last.visited \cup seen, frontier |-> seen \ last.visited,
                      confirmed |-> last.confirmed \/ to \in seen]
    IN  IF Level[maxDepth].confirmed THEN "confirmed" ELSE "no-recorded-edge"

-----------------------------------------------------------------------------
\* The dependencies router's questions of the graph of one connection, among
\* the rows of them all; five levels unless asked otherwise (0: not asked).
DefaultMaxDepth == 5
GraphOf(rows, connection) == {row.edge : row \in {r \in rows : r.connection = connection}}
QueryForward(rows, connection, key) == Forward(GraphOf(rows, connection), key)
QueryReverse(rows, connection, key) == Reverse(GraphOf(rows, connection), key)
Depth(maxDepth) == IF maxDepth = 0 THEN DefaultMaxDepth ELSE maxDepth
QueryImpact(rows, connection, seeds, direction, maxDepth) ==
    TransitiveImpact(GraphOf(rows, connection), seeds, direction, Depth(maxDepth))
QueryReferences(rows, connection, from, to, maxDepth) ==
    References(GraphOf(rows, connection), from, to, Depth(maxDepth))
=============================================================================
