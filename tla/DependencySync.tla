---------------------------- MODULE DependencySync ----------------------------
(***************************************************************************)
(* dependencies.sync (server trpc/routers/dependencies.ts): a row is made,  *)
(* a job queued, and the job reads the org's edges page by page and the    *)
(* supplemented ones after them, then replaces the stored graph of the     *)
(* connection in one transaction and ends the row.  Syncs of one           *)
(* connection run side by side, the org changes between any two reads, and *)
(* connections come and go.                                                *)
(***************************************************************************)
EXTENDS Naturals, FiniteSets

CONSTANTS Conns, Runs, Pages, None, MaxChanges, MaxFailures

VARIABLES
    connections, \* the kind of each connection, or None
    orgEdges,    \* external: for each page, what it says now: a version number
    syncRuns,    \* dependency_sync_runs
    edges,       \* dependency_edges of each connection: [of, set]
    local,       \* the handler of each run: [pc, read]
    changes, failures
svars == <<connections, orgEdges, syncRuns, edges, local, changes, failures>>

ConnectionKinds == {"org", "sfdx-project"}
SyncStatus == {"running", "succeeded", "failed"}
NoEdges == [of |-> None, set |-> [p \in {} |-> 0]]
SyncRun(c, status) == [connection |-> c, status |-> status, includeSupplemented |-> TRUE]

\* The pages are numbered in the order they are read, and None is none of the
\* things it stands in for.
ASSUME DependencySyncAssumption ==
    /\ Pages \subseteq Nat
    /\ None \notin Runs \cup ConnectionKinds
    /\ None \notin [connection : Conns, status : SyncStatus, includeSupplemented : BOOLEAN]

\* external: the last page stands for what a retrieve of the Profiles and Layouts finds.
Supplement == CHOOSE p \in Pages : \A q \in Pages : q <= p

SInit ==
    /\ connections = [c \in Conns |-> None]
    /\ orgEdges = [p \in Pages |-> 0]
    /\ syncRuns = [r \in Runs |-> None]
    /\ edges = [c \in Conns |-> NoEdges]
    /\ local = [r \in Runs |-> [pc |-> "none", read |-> [p \in {} |-> 0]]]
    /\ changes = 0 /\ failures = 0

\* connections.add and connections.remove; foreign keys refuse to remove one in use.
AddConnection(c) ==
    /\ connections[c] = None
    /\ \E kind \in ConnectionKinds : connections' = [connections EXCEPT ![c] = kind]
    /\ UNCHANGED <<orgEdges, syncRuns, edges, local, changes, failures>>
RemoveConnection(c) ==
    /\ connections[c] # None
    /\ \A r \in Runs : syncRuns[r] # None => syncRuns[r].connection # c
    /\ connections' = [connections EXCEPT ![c] = None]
    /\ UNCHANGED <<orgEdges, syncRuns, edges, local, changes, failures>>

\* dependencies.sync.
Sync(r, c) ==
    /\ syncRuns[r] = None /\ connections[c] # None
    /\ \E all \in BOOLEAN :
           syncRuns' = [syncRuns EXCEPT ![r] = [SyncRun(c, "running") EXCEPT !.includeSupplemented = all]]
    /\ local' = [local EXCEPT ![r].pc = "queued"]
    /\ UNCHANGED <<connections, orgEdges, edges, changes, failures>>

\* The job handler: only an org has the Tooling API, and a throw here is before
\* the try that would end the row.
Begin(r) ==
    /\ local[r].pc = "queued"
    /\ local' = [local EXCEPT ![r].pc =
                    IF connections[syncRuns[r].connection] = "org" THEN "reading" ELSE "thrown"]
    /\ UNCHANGED <<connections, orgEdges, syncRuns, edges, changes, failures>>

\* syncDependenciesForSource: one page at a time, the supplement last.
Wanted(r) == IF syncRuns[r].includeSupplemented THEN Pages ELSE Pages \ {Supplement}
NextPage(r) == CHOOSE p \in Wanted(r) \ DOMAIN local[r].read :
                   \A q \in Wanted(r) \ DOMAIN local[r].read : p <= q
ReadPage(r) ==
    /\ local[r].pc = "reading" /\ Wanted(r) # DOMAIN local[r].read
    /\ local' = [local EXCEPT ![r].read =
                    [p \in DOMAIN @ \cup {NextPage(r)} |-> IF p \in DOMAIN @ THEN @[p] ELSE orgEdges[p]]]
    /\ UNCHANGED <<connections, orgEdges, syncRuns, edges, changes, failures>>

\* replaceDependencyEdges deletes the edges of the connection and inserts what was read.
Replacement_Adds(old, r) ==
    [of |-> r, set |-> [p \in DOMAIN old.set \cup DOMAIN local[r].read |->
                           IF p \in DOMAIN local[r].read THEN local[r].read[p] ELSE old.set[p]]]
Replacement(old, r) == [of |-> r, set |-> local[r].read]

\* replaceDependencyEdges and the update of the row, with nothing awaited between.
Replace(r) ==
    /\ local[r].pc = "reading" /\ Wanted(r) = DOMAIN local[r].read
    /\ edges' = [edges EXCEPT ![syncRuns[r].connection] = Replacement(@, r)]
    /\ syncRuns' = [syncRuns EXCEPT ![r].status = "succeeded"]
    /\ local' = [local EXCEPT ![r].pc = "done"]
    /\ UNCHANGED <<connections, orgEdges, changes, failures>>

\* A query, the retrieve or the transaction fails: the row is ended, the graph kept.
Fail(r) ==
    /\ local[r].pc = "reading" /\ failures < MaxFailures
    /\ syncRuns' = [syncRuns EXCEPT ![r].status = "failed"]
    /\ local' = [local EXCEPT ![r].pc = "thrown"]
    /\ failures' = failures + 1
    /\ UNCHANGED <<connections, orgEdges, edges, changes>>

\* external: the org's own graph changes.
Change ==
    /\ changes < MaxChanges
    /\ \E p \in Pages : orgEdges' = [orgEdges EXCEPT ![p] = changes + 1]
    /\ changes' = changes + 1
    /\ UNCHANGED <<connections, syncRuns, edges, local, failures>>

Handler(r) == Begin(r) \/ ReadPage(r) \/ Replace(r) \/ Fail(r)
SNext ==
    \/ \E c \in Conns : AddConnection(c) \/ RemoveConnection(c) \/ \E r \in Runs : Sync(r, c)
    \/ \E r \in Runs : Handler(r)
    \/ Change
SSpec == SInit /\ [][SNext]_svars

-----------------------------------------------------------------------------
\* TypeOK: what each variable holds.
STypeOK ==
    /\ connections \in [Conns -> ConnectionKinds \cup {None}]
    /\ \A r \in Runs : syncRuns[r] = None \/ syncRuns[r].connection \in Conns
    /\ \A c \in Conns : edges[c].of \in Runs \cup {None}

\* The graph an impact analysis reads is what one succeeded sync of this very
\* connection read, whole: no edge of an earlier sync is left, none is missing
\* because another sync of the same or another connection ran or failed meanwhile.
GraphIsOneSync ==
    \A c \in Conns : edges[c].of # None =>
        LET r == edges[c].of
        IN  /\ syncRuns[r].status = "succeeded" /\ syncRuns[r].connection = c
            /\ connections[c] = "org"
            /\ edges[c].set = local[r].read /\ DOMAIN edges[c].set = Wanted(r)
=============================================================================
