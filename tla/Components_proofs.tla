---------------------------- MODULE Components_proofs ----------------------------
(***************************************************************************)
(* Components that share no state.                                         *)
(*                                                                         *)
(* DependencySync and Projects: what is kept of a source is what the       *)
(* source was, the stored graph of a connection what one sync of it read,  *)
(* for any connections, syncs and pages, and the content kept under a date *)
(* that of the date, for any files, edits and reads.                       *)
(*                                                                         *)
(* Browser: the wizard from a comparison to its deployment, proved for any *)
(* number of comparisons and deployments, for results of any length read   *)
(* in pages of any size, and for any number of loads on their way: the     *)
(* results shown are those of the page, the selection those of one         *)
(* comparison, and the flow one flow.                                      *)
(*                                                                         *)
(* LiveDeployments: the overlay the browser keeps over the rows of the     *)
(* server never shows an end the server does not have, proved for any      *)
(* number of deployments, of polls, messages and answers in any order, and *)
(* of troubles.                                                            *)
(***************************************************************************)
EXTENDS DependencySync, Projects, Browser, LiveDeployments, Induction, FiniteSetTheorems, FunctionTheorems

-----------------------------------------------------------------------------
\* The graph of a connection.

Reads == UNION {[read -> Nat] : read \in SUBSET Pages}
SyncRows == [connection : Conns, status : SyncStatus, includeSupplemented : BOOLEAN]

\* The shape of the whole state.
Shape ==
    /\ connections \in [Conns -> ConnectionKinds \cup {None}]
    /\ orgEdges \in [Pages -> Nat]
    /\ syncRuns \in [Runs -> SyncRows \cup {None}]
    /\ edges \in [Conns -> [of : Runs \cup {None}, set : Reads]]
    /\ local \in [Runs -> [pc : {"none", "queued", "reading", "thrown", "done"}, read : Reads]]
    /\ changes \in Nat

\* A job runs for a row, and a row is only of a connection that is still there.
RowsHaveConnections ==
    \A r \in Runs :
        /\ local[r].pc # "none" => syncRuns[r] # None
        /\ syncRuns[r] # None => connections[syncRuns[r].connection] # None

\* What is being read is an org, and only the pages that this sync wants of it.
ReadersReadOrgs ==
    \A r \in Runs :
        /\ local[r].pc = "none" => DOMAIN local[r].read = {}
        /\ local[r].pc = "queued" => DOMAIN local[r].read = {}
        /\ local[r].pc \in {"reading", "done"} =>
              /\ connections[syncRuns[r].connection] = "org"
              /\ DOMAIN local[r].read \subseteq Wanted(r)

\* The sync a stored graph is of has ended, so what it read will not change.
GraphsAreOfEndedSyncs == \A c \in Conns : edges[c].of # None => local[edges[c].of].pc = "done"

SyncInv ==
    /\ Shape
    /\ RowsHaveConnections
    /\ ReadersReadOrgs
    /\ GraphsAreOfEndedSyncs
    /\ GraphIsOneSync

-----------------------------------------------------------------------------
\* There is a next page whenever one is missing: syncDependenciesForSource
\* never asks twice for a page, nor for one it does not want.
LEMMA NextPageIsMissing ==
    ASSUME NEW r \in Runs, DOMAIN local[r].read \subseteq Wanted(r), Wanted(r) # DOMAIN local[r].read
    PROVE  NextPage(r) \in Wanted(r) \ DOMAIN local[r].read
<1> DEFINE Left == Wanted(r) \ DOMAIN local[r].read
<1>1. Left \subseteq Nat /\ Left # {}
  BY DependencySyncAssumption DEF Wanted
<1> HIDE DEF Left
<1>2. \E p \in Left : \A q \in Left : p <= q
  BY <1>1, LeastElement
<1> QED
  BY <1>2 DEF NextPage, Left

LEMMA SyncInitHolds == SInit => SyncInv
<1> SUFFICES ASSUME SInit PROVE SyncInv
  OBVIOUS
<1>1. Shape
  <2>1. [p \in {} |-> 0] \in Reads
    BY DEF Reads
  <2> QED
    BY <2>1 DEF SInit, Shape, NoEdges
<1>2. RowsHaveConnections /\ ReadersReadOrgs
  BY DEF SInit, RowsHaveConnections, ReadersReadOrgs
<1>3. GraphsAreOfEndedSyncs /\ GraphIsOneSync
  BY DEF SInit, NoEdges, GraphsAreOfEndedSyncs, GraphIsOneSync
<1> QED
  BY <1>1, <1>2, <1>3 DEF SyncInv

-----------------------------------------------------------------------------
\* Connections come and go: one that a row is of stays what it is.
LEMMA ConnectionsKeepInv ==
    ASSUME SyncInv, NEW c \in Conns, AddConnection(c) \/ RemoveConnection(c)
    PROVE  SyncInv'
<1> USE DEF SyncInv
<1>1. /\ connections' \in [Conns -> ConnectionKinds \cup {None}]
      /\ \A b \in Conns \ {c} : connections'[b] = connections[b]
      /\ \A r \in Runs : syncRuns[r] # None => syncRuns[r].connection # c
      /\ UNCHANGED <<orgEdges, syncRuns, edges, local, changes, failures>>
  BY DEF AddConnection, RemoveConnection, Shape, RowsHaveConnections
<1>2. \A r \in Runs : syncRuns[r] # None => /\ syncRuns[r].connection \in Conns
                                           /\ connections'[syncRuns[r].connection] = connections[syncRuns[r].connection]
  BY <1>1 DEF Shape, SyncRows
<1>3. Shape'
  BY <1>1 DEF Shape
<1>4. RowsHaveConnections'
  BY <1>1, <1>2 DEF RowsHaveConnections
<1>5. ReadersReadOrgs'
  BY <1>1, <1>2 DEF ReadersReadOrgs, RowsHaveConnections, Wanted
<1>6. GraphsAreOfEndedSyncs'
  BY <1>1 DEF GraphsAreOfEndedSyncs
<1>7. GraphIsOneSync'
  <2> SUFFICES ASSUME NEW b \in Conns, edges[b].of # None
               PROVE  /\ syncRuns[edges[b].of].status = "succeeded" /\ syncRuns[edges[b].of].connection = b
                      /\ connections'[b] = "org"
                      /\ edges[b].set = local[edges[b].of].read
                      /\ DOMAIN edges[b].set = Wanted(edges[b].of)
    BY <1>1 DEF GraphIsOneSync, Wanted
  <2>1. edges[b].of \in Runs /\ syncRuns[edges[b].of] # None
    BY DEF Shape, GraphsAreOfEndedSyncs, RowsHaveConnections
  <2> QED
    BY <1>2, <2>1 DEF GraphIsOneSync
<1> QED
  BY <1>3, <1>4, <1>5, <1>6, <1>7

\* A sync is started: of a connection that is there, by a run that was not.
LEMMA SyncKeepsInv ==
    ASSUME SyncInv, NEW r \in Runs, NEW c \in Conns, Sync(r, c)
    PROVE  SyncInv'
<1> USE DEF SyncInv
<1>1. /\ syncRuns' \in [Runs -> SyncRows \cup {None}] /\ syncRuns'[r] # None /\ syncRuns'[r].connection = c
      /\ connections[c] # None /\ local[r].pc = "none"
      /\ \A n \in Runs \ {r} : syncRuns'[n] = syncRuns[n]
      /\ UNCHANGED <<connections, orgEdges, edges, changes, failures>>
  <2>1. PICK all \in BOOLEAN :
            syncRuns' = [syncRuns EXCEPT ![r] = [SyncRun(c, "running") EXCEPT !.includeSupplemented = all]]
    BY DEF Sync
  <2>2. [SyncRun(c, "running") EXCEPT !.includeSupplemented = all] \in SyncRows
    BY DEF SyncRun, SyncRows, SyncStatus
  <2>3. syncRuns'[r] # None /\ syncRuns'[r].connection = c
    BY <2>1, <2>2, DependencySyncAssumption DEF Shape, SyncRun, SyncRows
  <2> QED
    BY <2>1, <2>2, <2>3 DEF Sync, Shape, RowsHaveConnections
<1>2. /\ local' \in [Runs -> [pc : {"none", "queued", "reading", "thrown", "done"}, read : Reads]]
      /\ local'[r].pc = "queued" /\ local'[r].read = local[r].read
      /\ \A n \in Runs \ {r} : local'[n] = local[n]
  BY DEF Sync, Shape
<1>3. Shape'
  BY <1>1, <1>2 DEF Shape
<1>4. RowsHaveConnections'
  BY <1>1, <1>2 DEF RowsHaveConnections
<1>5. ReadersReadOrgs'
  BY <1>1, <1>2 DEF ReadersReadOrgs, Wanted
<1>6. \A b \in Conns : edges[b].of # None => edges[b].of \in Runs \ {r}
  BY <1>1 DEF Shape, GraphsAreOfEndedSyncs
<1>7. GraphsAreOfEndedSyncs'
  BY <1>1, <1>2, <1>6 DEF GraphsAreOfEndedSyncs
<1>8. \A n \in Runs \ {r} : Wanted(n)' = Wanted(n)
  BY <1>1 DEF Wanted, Supplement
<1>9. GraphIsOneSync'
  <2> SUFFICES ASSUME NEW b \in Conns, edges[b].of # None
               PROVE  /\ syncRuns'[edges[b].of].status = "succeeded" /\ syncRuns'[edges[b].of].connection = b
                      /\ connections[b] = "org"
                      /\ edges[b].set = local'[edges[b].of].read
                      /\ DOMAIN edges[b].set = Wanted(edges[b].of)'
    BY <1>1 DEF GraphIsOneSync
  <2> QED
    BY <1>1, <1>2, <1>6, <1>8 DEF GraphIsOneSync
<1> QED
  BY <1>3, <1>4, <1>5, <1>7, <1>9

\* A handler that is not yet done moves on: no stored graph is of it.
LEMMA MovingKeepsInv ==
    ASSUME SyncInv, NEW r \in Runs, Begin(r) \/ ReadPage(r) \/ Fail(r)
    PROVE  SyncInv'
<1> USE DEF SyncInv
<1>1. local[r].pc # "done" /\ local[r].pc # "none" /\ syncRuns[r] # None
  BY DEF Begin, ReadPage, Fail, RowsHaveConnections
<1>2. \A b \in Conns : edges[b].of # None => edges[b].of \in Runs \ {r}
  BY <1>1 DEF Shape, GraphsAreOfEndedSyncs
<1>3. /\ syncRuns' \in [Runs -> SyncRows \cup {None}] /\ syncRuns'[r] # None
      /\ syncRuns'[r].connection = syncRuns[r].connection
      /\ syncRuns'[r].includeSupplemented = syncRuns[r].includeSupplemented
      /\ \A n \in Runs \ {r} : syncRuns'[n] = syncRuns[n] /\ local'[n] = local[n]
      /\ UNCHANGED <<connections, orgEdges, edges, changes>>
  <2>1. CASE Fail(r)
    <3>1. syncRuns[r] \in SyncRows
      BY <1>1 DEF Shape
    <3>2. [syncRuns[r] EXCEPT !.status = "failed"] \in SyncRows
      BY <3>1 DEF SyncRows, SyncStatus
    <3>3. syncRuns' = [syncRuns EXCEPT ![r] = [syncRuns[r] EXCEPT !.status = "failed"]]
      BY <2>1 DEF Fail
    <3>4. syncRuns'[r] # None /\ syncRuns'[r] = [syncRuns[r] EXCEPT !.status = "failed"]
      BY <3>2, <3>3, DependencySyncAssumption DEF Shape, SyncRows
    <3> QED
      BY <2>1, <3>1, <3>2, <3>3, <3>4 DEF Fail, Shape, SyncRows
  <2> QED
    BY <1>1, <2>1 DEF Begin, ReadPage, Shape
<1>4. /\ local'[r] \in [pc : {"none", "queued", "reading", "thrown", "done"}, read : Reads]
      /\ local'[r].pc \in {"reading", "thrown"}
      /\ local'[r].pc = "reading" =>
            /\ connections[syncRuns[r].connection] = "org"
            /\ DOMAIN local'[r].read \subseteq Wanted(r)
  <2>1. CASE Begin(r)
    BY <2>1 DEF Begin, Shape, ReadersReadOrgs
  <2>2. CASE Fail(r)
    BY <2>2 DEF Fail, Shape
  <2>3. CASE ReadPage(r)
    <3> DEFINE p == NextPage(r)
               old == local[r].read
               new == [q \in DOMAIN old \cup {p} |-> IF q \in DOMAIN old THEN old[q] ELSE orgEdges[q]]
    <3>1. /\ connections[syncRuns[r].connection] = "org"
          /\ DOMAIN old \subseteq Wanted(r)
      BY <2>3 DEF ReadPage, ReadersReadOrgs
    <3>2. p \in Wanted(r) \ DOMAIN old
      BY <2>3, <3>1, NextPageIsMissing DEF ReadPage
    <3>3. Wanted(r) \subseteq Pages
      BY DEF Wanted
    <3>4. local[r] \in [pc : {"none", "queued", "reading", "thrown", "done"}, read : Reads]
      BY DEF Shape
    <3>5. PICK S \in SUBSET Pages : old \in [S -> Nat]
      BY <3>4 DEF Reads
    <3>6. new \in [S \cup {p} -> Nat]
      BY <3>2, <3>3, <3>5 DEF Shape
    <3>7. S \cup {p} \in SUBSET Pages
      BY <3>2, <3>3, <3>5
    <3>8. new \in Reads
      BY <3>6, <3>7 DEF Reads
    <3>9. local'[r] = [local[r] EXCEPT !.read = new] /\ local[r].pc = "reading"
      BY <2>3 DEF ReadPage, Shape
    <3>10. DOMAIN new \subseteq Wanted(r)
      BY <3>1, <3>2
    <3> HIDE DEF new
    <3> QED
      BY <3>1, <3>8, <3>9, <3>10, <3>4
  <2> QED
    BY <2>1, <2>2, <2>3
<1>5. local' \in [Runs -> [pc : {"none", "queued", "reading", "thrown", "done"}, read : Reads]]
  <2>1. local' = [local EXCEPT ![r] = local'[r]]
    BY DEF Begin, ReadPage, Fail, Shape
  <2> QED
    BY <1>4, <2>1 DEF Shape
<1>6. Shape'
  BY <1>3, <1>5 DEF Shape
<1>7. RowsHaveConnections'
  BY <1>1, <1>3 DEF RowsHaveConnections
<1>8. ReadersReadOrgs'
  BY <1>3, <1>4 DEF ReadersReadOrgs, Wanted
<1>9. GraphsAreOfEndedSyncs'
  BY <1>2, <1>3 DEF GraphsAreOfEndedSyncs
<1>10. \A n \in Runs : Wanted(n)' = Wanted(n)
  BY <1>3 DEF Wanted, Supplement
<1>11. GraphIsOneSync'
  <2> SUFFICES ASSUME NEW b \in Conns, edges[b].of # None
               PROVE  /\ syncRuns'[edges[b].of].status = "succeeded" /\ syncRuns'[edges[b].of].connection = b
                      /\ connections[b] = "org"
                      /\ edges[b].set = local'[edges[b].of].read
                      /\ DOMAIN edges[b].set = Wanted(edges[b].of)'
    BY <1>3 DEF GraphIsOneSync
  <2> QED
    BY <1>2, <1>3, <1>10 DEF GraphIsOneSync
<1> QED
  BY <1>6, <1>7, <1>8, <1>9, <1>11

\* A sync that read everything it wanted replaces the whole graph.
LEMMA ReplaceKeepsInv ==
    ASSUME SyncInv, NEW r \in Runs, Replace(r)
    PROVE  SyncInv'
<1> USE DEF SyncInv
<1> DEFINE c == syncRuns[r].connection
<1>1. /\ syncRuns[r] \in SyncRows /\ c \in Conns
      /\ local[r].pc = "reading" /\ Wanted(r) = DOMAIN local[r].read /\ connections[c] = "org"
  BY DEF Replace, Shape, RowsHaveConnections, ReadersReadOrgs, SyncRows
<1>2. \A b \in Conns : edges[b].of # None => edges[b].of \in Runs \ {r}
  BY <1>1 DEF Shape, GraphsAreOfEndedSyncs
<1>3. /\ syncRuns' \in [Runs -> SyncRows \cup {None}] /\ syncRuns'[r] # None
      /\ syncRuns'[r].connection = c /\ syncRuns'[r].status = "succeeded"
      /\ syncRuns'[r].includeSupplemented = syncRuns[r].includeSupplemented
      /\ \A n \in Runs \ {r} : syncRuns'[n] = syncRuns[n]
  <2>1. [syncRuns[r] EXCEPT !.status = "succeeded"] \in SyncRows
    BY <1>1 DEF SyncRows, SyncStatus
  <2>2. syncRuns' = [syncRuns EXCEPT ![r] = [syncRuns[r] EXCEPT !.status = "succeeded"]]
    BY DEF Replace
  <2>3. syncRuns'[r] = [syncRuns[r] EXCEPT !.status = "succeeded"]
    BY <2>2 DEF Shape
  <2>4. syncRuns'[r] # None
    BY <2>1, <2>3, DependencySyncAssumption DEF SyncRows
  <2>5. /\ syncRuns'[r].connection = c /\ syncRuns'[r].status = "succeeded"
        /\ syncRuns'[r].includeSupplemented = syncRuns[r].includeSupplemented
    BY <1>1, <2>3 DEF SyncRows
  <2> QED
    BY <2>1, <2>2, <2>4, <2>5 DEF Shape
<1>4. /\ edges' \in [Conns -> [of : Runs \cup {None}, set : Reads]]
      /\ edges'[c].of = r /\ edges'[c].set = local[r].read
      /\ \A b \in Conns \ {c} : edges'[b] = edges[b]
  BY <1>1 DEF Replace, Replacement, Shape
<1>5. /\ local' \in [Runs -> [pc : {"none", "queued", "reading", "thrown", "done"}, read : Reads]]
      /\ local'[r].pc = "done" /\ local'[r].read = local[r].read
      /\ \A n \in Runs \ {r} : local'[n] = local[n]
      /\ UNCHANGED <<connections, orgEdges, changes>>
  BY DEF Replace, Shape
<1>6. \A n \in Runs : Wanted(n)' = Wanted(n)
  BY <1>3 DEF Wanted, Supplement
<1>7. Shape'
  BY <1>3, <1>4, <1>5 DEF Shape
<1>8. RowsHaveConnections'
  BY <1>1, <1>3, <1>5 DEF RowsHaveConnections
<1>9. ReadersReadOrgs'
  BY <1>1, <1>3, <1>5, <1>6 DEF ReadersReadOrgs
<1>10. GraphsAreOfEndedSyncs'
  BY <1>1, <1>2, <1>4, <1>5 DEF GraphsAreOfEndedSyncs
<1>11. GraphIsOneSync'
  <2> SUFFICES ASSUME NEW b \in Conns, edges'[b].of # None
               PROVE  /\ syncRuns'[edges'[b].of].status = "succeeded" /\ syncRuns'[edges'[b].of].connection = b
                      /\ connections'[b] = "org"
                      /\ edges'[b].set = local'[edges'[b].of].read
                      /\ DOMAIN edges'[b].set = Wanted(edges[b].of)'
    BY DEF GraphIsOneSync
  <2>1. CASE b = c
    BY <1>1, <1>3, <1>4, <1>5, <1>6, <2>1
  <2>2. CASE b # c
    BY <1>2, <1>3, <1>4, <1>5, <1>6, <2>2 DEF GraphIsOneSync
  <2> QED
    BY <2>1, <2>2
<1> QED
  BY <1>7, <1>8, <1>9, <1>10, <1>11

\* The org's own graph changes, and nothing stored with it.
LEMMA ChangeKeepsInv ==
    ASSUME SyncInv, Change \/ UNCHANGED svars
    PROVE  SyncInv'
<1> USE DEF SyncInv
<1>1. /\ orgEdges' \in [Pages -> Nat] /\ changes' \in Nat
      /\ UNCHANGED <<connections, syncRuns, edges, local>>
  BY DEF Change, Shape, svars
<1>2. Shape' /\ GraphsAreOfEndedSyncs'
  BY <1>1 DEF Shape, GraphsAreOfEndedSyncs
<1>3. RowsHaveConnections' /\ ReadersReadOrgs' /\ GraphIsOneSync'
  BY <1>1 DEF RowsHaveConnections, ReadersReadOrgs, GraphIsOneSync, Wanted
<1> QED
  BY <1>2, <1>3

-----------------------------------------------------------------------------
\* The strengthened invariant is one: it holds at first and every step keeps it.
THEOREM SyncInvariance == SSpec => []SyncInv
<1>1. ASSUME SyncInv, [SNext]_svars PROVE SyncInv'
  BY <1>1, ConnectionsKeepInv, SyncKeepsInv, MovingKeepsInv, ReplaceKeepsInv, ChangeKeepsInv DEF SNext, Handler
<1> QED
  BY <1>1, SyncInitHolds, PTL DEF SSpec

\* What the rows, the graphs and the connections of any state are made of.
THEOREM SyncTypeCorrect == SSpec => []STypeOK
<1>1. SyncInv => STypeOK
  BY DEF SyncInv, Shape, STypeOK, SyncRows
<1> QED
  BY <1>1, SyncInvariance, PTL

\* replaceDependencyEdges: the graph an impact analysis reads is, whole, what one
\* succeeded sync of that org read, however many syncs ran, failed or overlapped.
THEOREM GraphsAreOfOneSync == SSpec => []GraphIsOneSync
<1>1. SyncInv => GraphIsOneSync
  BY DEF SyncInv
<1> QED
  BY <1>1, SyncInvariance, PTL

-----------------------------------------------------------------------------
\* Dates and contents.

\* Where dates are to be trusted: nothing raced, or one file of a directory.
Peace == ~raced \/ (kind = "sfdx-project" /\ Cardinality(body) <= 1)

Version == [files : [Paths -> Contents \cup {NoFile}], changed : SUBSET Paths, at : Nat]
ProjectShape ==
    /\ kind \in Kinds /\ body \in Bodies /\ raced \in BOOLEAN /\ clock \in Nat
    /\ versions \in Seq(Version) /\ Now >= 1
    /\ reader \in [pc : {"idle", "listing", "listed"}, oid : 0 .. Now, tree : 0 .. Now, history : 0 .. Now]
    /\ \A s, t \in store : s.date = t.date => s = t

\* A version is the one before it but for what it changed, and the first changed all.
Changes ==
    /\ versions[1].changed = Paths
    /\ \A i \in 2 .. Now : \A p \in Paths \ versions[i].changed : versions[i].files[p] = versions[i - 1].files[p]
\* No version is of a later second than the clock's, and a second has one version.
SecondsGrow ==
    /\ \A i \in 1 .. Now : versions[i].at <= clock
    /\ (~raced \/ kind = "sfdx-project") => \A i, j \in 1 .. Now : i < j => versions[i].at < versions[j].at
NothingRemoved == Peace => \A i \in 1 .. Now : body \subseteq Present(i)
\* What a reader saw is what there is, if nothing raced.
ReaderSawNow ==
    /\ reader.pc = "listed" =>
          /\ reader.tree # 0 /\ reader.history # 0
          /\ IF kind = "git-ref" THEN reader.oid # 0 ELSE reader.tree = reader.history
    /\ reader.tree # 0 /\ kind = "git-ref" => reader.oid # 0
    /\ reader.pc = "idle" => {reader.oid, reader.tree, reader.history} = {0}
    /\ ~raced => {reader.oid, reader.tree, reader.history} \subseteq {0, Now}
\* What is kept was listed and then read, a version of it at a time.
ListedThenRead(s) ==
    \E n \in 1 .. Now : \E m \in n .. Now : s.date = LastModifiedDate(n, n) /\ s.content = ContentOf(m, m)
StoreWasRead == Peace => \A s \in store : ListedThenRead(s)

ProjectInv ==
    ProjectShape /\ Changes /\ SecondsGrow /\ NothingRemoved /\ ReaderSawNow /\ StoreWasRead

Touched(n, p) == {i \in 1 .. n : p \in versions[i].changed}

\* The last version that changed a file: none has since.
LEMMA LastTouchIsLast ==
    ASSUME ProjectShape, Changes, NEW n \in 1 .. Now, NEW p \in Paths
    PROVE  LastTouch(n, p) \in 1 .. n /\ \A i \in 1 .. n : p \in versions[i].changed => i <= LastTouch(n, p)
<1>1. LastTouch(n, p) = Max(Touched(n, p))
  BY DEF LastTouch, Touched
<1>2. n \in Nat /\ Touched(n, p) \in SUBSET (1 .. n) /\ 1 \in Touched(n, p)
  BY DEF Touched, Changes, ProjectShape, Now
<1>3. Max(Touched(n, p)) \in Touched(n, p) /\ \A i \in Touched(n, p) : i <= Max(Touched(n, p))
  BY <1>2, GreatestElement
<1> QED
  BY <1>1, <1>3 DEF Touched

\* The date of a version is of the last version that changed a file it has.
LEMMA DateIsOfLastTouch ==
    ASSUME ProjectShape, Changes, NEW n \in 1 .. Now, Present(n) # {}
    PROVE  \E d \in 1 .. n : /\ LastModifiedDate(n, n) = versions[d].at
                             /\ \A p \in Present(n) : LastTouch(n, p) <= d
<1> DEFINE T == {LastTouch(n, p) : p \in Present(n)}
           seen == {p \in Present(n) : \E i \in 1 .. n : p \in versions[i].changed}
<1>1. Present(n) \subseteq Paths
  BY DEF Present
<1>2. seen = Present(n)
  BY <1>1 DEF Changes, ProjectShape, Now
<1>3. LastModifiedDate(n, n) = IF seen = {} THEN 0 ELSE versions[Max({LastTouch(n, p) : p \in seen})].at
  BY DEF LastModifiedDate
<1>4. LastModifiedDate(n, n) = versions[Max(T)].at
  <2> HIDE DEF seen
  <2> QED
    BY <1>2, <1>3
<1>5. n \in Nat /\ T \in SUBSET (1 .. n) /\ T # {}
  BY <1>1, LastTouchIsLast DEF ProjectShape, Now
<1> HIDE DEF T
<1>6. Max(T) \in T /\ \A i \in T : i <= Max(T)
  BY <1>5, GreatestElement
<1> QED
  BY <1>4, <1>5, <1>6 DEF T

\* A file no version changed since is the same.
LEMMA UnchangedSince ==
    ASSUME ProjectShape, Changes, NEW n \in 1 .. Now, NEW p \in Paths, LastTouch(Now, p) <= n
    PROVE  \A m \in n .. Now : versions[m].files[p] = versions[n].files[p]
<1> DEFINE D == Now - n
           P == {k \in 0 .. D : versions[n + k].files[p] = versions[n].files[p]}
<1>1. D \in Nat /\ Now \in Nat /\ n \in Nat
  BY DEF ProjectShape, Now
<1>2. ASSUME NEW k \in 0 .. D, \A j \in 0 .. k - 1 : j \in P PROVE k \in P
  <2>1. CASE k = 0
    BY <1>1, <2>1
  <2>2. CASE k # 0
    <3>1. n + k \in 2 .. Now /\ n + k \in 1 .. Now /\ n + k > n /\ (n + k) - 1 = n + (k - 1) /\ k - 1 \in 0 .. k - 1
      BY <1>1, <2>2
    <3>2. p \notin versions[n + k].changed
      <4>1. Now \in 1 .. Now
        BY <1>1
      <4>2. \A i \in 1 .. Now : p \in versions[i].changed => i <= LastTouch(Now, p)
        BY <4>1, LastTouchIsLast
      <4>3. LastTouch(Now, p) \in 1 .. Now
        BY <4>1, LastTouchIsLast
      <4> QED
        BY <1>1, <3>1, <4>2, <4>3
    <3>3. versions[n + k].files[p] = versions[(n + k) - 1].files[p]
      BY <3>1, <3>2 DEF Changes
    <3>4. versions[n + (k - 1)].files[p] = versions[n].files[p]
      BY <1>2, <3>1
    <3> QED
      BY <3>1, <3>3, <3>4
  <2> QED
    BY <2>1, <2>2
<1>3. P = 0 .. D
  <2>1. P \in SUBSET (0 .. D)
    OBVIOUS
  <2> HIDE DEF P, D
  <2> QED
    BY <1>1, <1>2, <2>1, UpTo
<1>4. ASSUME NEW m \in n .. Now PROVE versions[m].files[p] = versions[n].files[p]
  <2>1. m - n \in 0 .. D /\ n + (m - n) = m
    BY <1>1
  <2>2. m - n \in P
    BY <1>3, <2>1
  <2> QED
    BY <2>1, <2>2
<1> QED
  BY <1>4

\* A date that comes back names the content that was kept under it.
LEMMA InvImpliesDates == ProjectInv => DatesIdentifyContentInPeace
<1> SUFFICES ASSUME ProjectInv PROVE DatesIdentifyContentInPeace
  OBVIOUS
<1> SUFFICES ASSUME Peace, NEW s \in store, s.date = LastModifiedDate(Now, Now)
             PROVE  s.content = ContentOf(Now, Now)
  <2>1. ASSUME Peace PROVE DateIdentifiesContent
    BY <2>1 DEF DateIdentifiesContent, Lies
  <2>2. ASSUME ~Peace PROVE raced /\ (kind = "git-ref" \/ Cardinality(body) > 1)
    <3>1. Cardinality(body) \in Nat
      BY ProjectsAssumption, FS_CardinalityType DEF ProjectInv, ProjectShape
    <3>2. kind \in {"git-ref", "sfdx-project"}
      BY ProjectsAssumption DEF ProjectInv, ProjectShape
    <3> QED
      BY <2>2, <3>1, <3>2 DEF Peace
  <2> QED
    BY <2>1, <2>2 DEF DatesIdentifyContentInPeace
<1> USE DEF ProjectInv
<1>1. Now \in Nat /\ Now \in 1 .. Now
  BY DEF ProjectShape, Now
<1>2. /\ body # {} /\ body \subseteq Paths /\ \A i \in 1 .. Now : body \subseteq Present(i)
  BY ProjectsAssumption DEF ProjectShape, NothingRemoved
<1>3. PICK n \in 1 .. Now, m \in 1 .. Now : /\ n <= m /\ s.date = LastModifiedDate(n, n)
                                           /\ s.content = ContentOf(m, m)
  BY <1>1 DEF StoreWasRead, ListedThenRead
<1>4. PICK d \in 1 .. n : LastModifiedDate(n, n) = versions[d].at
  BY <1>2, DateIsOfLastTouch
<1>5. PICK e \in 1 .. Now : LastModifiedDate(Now, Now) = versions[e].at /\ \A p \in Present(Now) : LastTouch(Now, p) <= e
  BY <1>1, <1>2, DateIsOfLastTouch
<1>6. d = e
  <2>1. versions[d].at = versions[e].at
    BY <1>3, <1>4, <1>5
  <2>2. \A i \in 1 .. Now : versions[i].at \in Nat
    <3>1. \A i \in 1 .. Now : versions[i] \in Version
      BY DEF ProjectShape, Now
    <3> QED
      BY <3>1 DEF Version
  <2>3. d \in 1 .. Now
    BY <1>1
  <2>4. \A i, j \in 1 .. Now : i < j => versions[i].at < versions[j].at
    BY DEF SecondsGrow, Peace
  <2> QED
    BY <1>1, <2>1, <2>2, <2>3, <2>4
<1>7. \A p \in body : versions[m].files[p] = versions[Now].files[p]
  <2> SUFFICES ASSUME NEW p \in body PROVE versions[m].files[p] = versions[Now].files[p]
    OBVIOUS
  <2>1. LastTouch(Now, p) <= n
    <3>1. LastTouch(Now, p) <= d /\ LastTouch(Now, p) \in 1 .. Now
      BY <1>1, <1>2, <1>5, <1>6, LastTouchIsLast
    <3> QED
      BY <1>1, <3>1
  <2>2. \A k \in n .. Now : versions[k].files[p] = versions[n].files[p]
    BY <1>2, <2>1, UnchangedSince
  <2> QED
    BY <1>1, <1>3, <2>2
<1>8. \A k \in 1 .. Now : ContentOf(k, k) = {<<p, versions[k].files[p]>> : p \in body}
  <2> SUFFICES ASSUME NEW k \in 1 .. Now PROVE ContentOf(k, k) = {<<p, versions[k].files[p]>> : p \in body}
    OBVIOUS
  <2>1. body \cap Present(k) \cap Present(k) = body
    BY <1>2
  <2> QED
    BY <2>1 DEF ContentOf
<1>9. {<<p, versions[m].files[p]>> : p \in body} = {<<p, versions[Now].files[p]>> : p \in body}
  BY <1>7
<1>10. ContentOf(m, m) = ContentOf(Now, Now)
  BY <1>1, <1>8, <1>9
<1> QED
  BY <1>3, <1>10

-----------------------------------------------------------------------------
LEMMA ProjectInitHolds == PInit => ProjectInv
<1> SUFFICES ASSUME PInit PROVE ProjectInv
  OBVIOUS
<1> DEFINE first == [files |-> [p \in Paths |-> CHOOSE c \in Contents : TRUE], changed |-> Paths, at |-> 1]
<1>1. versions = <<first>> /\ Now = 1 /\ versions[1] = first
  BY DEF PInit, Now
<1>2. (CHOOSE c \in Contents : TRUE) \in Contents
  BY ProjectsAssumption
<1>3. first \in Version
  BY <1>2 DEF Version
<1>4. \A i \in 1 .. Now : i = 1
  BY <1>1
<1>5. ProjectShape
  <2>1. versions \in Seq(Version)
    BY <1>1, <1>3
  <2>2. reader \in [pc : {"idle", "listing", "listed"}, oid : 0 .. Now, tree : 0 .. Now, history : 0 .. Now]
    BY <1>1 DEF PInit, NotReading
  <2>3. kind \in Kinds /\ body \in Bodies /\ raced \in BOOLEAN /\ clock \in Nat /\ store = {}
    BY DEF PInit
  <2>4. Now >= 1
    BY <1>1
  <2> QED
    BY <2>1, <2>2, <2>3, <2>4 DEF ProjectShape
<1>6. Changes /\ SecondsGrow
  BY <1>1, <1>4 DEF PInit, Changes, SecondsGrow
<1>7. NothingRemoved
  <2>1. \A p \in Paths : versions[1].files[p] # NoFile
    BY <1>1, <1>2, ProjectsAssumption
  <2> QED
    BY <1>4, <2>1, <1>5, ProjectsAssumption DEF NothingRemoved, Present, ProjectShape
<1>8. ReaderSawNow /\ StoreWasRead
  BY DEF PInit, ReaderSawNow, StoreWasRead, NotReading
<1> QED
  BY <1>5, <1>6, <1>7, <1>8 DEF ProjectInv

\* While the files stay, what was listed and read stays so.
LEMMA FilesStay ==
    ASSUME ProjectInv, UNCHANGED <<kind, body, versions, raced>>
    PROVE  /\ Now' = Now /\ Changes' /\ NothingRemoved' /\ (Peace' <=> Peace)
           /\ \A s : ListedThenRead(s) => ListedThenRead(s)'
<1>1. Now' = Now /\ Changes' /\ NothingRemoved' /\ (Peace' <=> Peace)
  BY DEF ProjectInv, Changes, NothingRemoved, Now, Peace, Present
<1>2. \A n : LastModifiedDate(n, n)' = LastModifiedDate(n, n) /\ ContentOf(n, n)' = ContentOf(n, n)
  BY DEF LastModifiedDate, LastTouch, ContentOf, Present
<1> QED
  BY <1>1, <1>2 DEF ListedThenRead

\* The clock and the reader: versions and files stay.
LEMMA ReadingKeepsInv ==
    ASSUME ProjectInv, UNCHANGED <<kind, body, versions, raced>>, UNCHANGED store,
           \/ clock' = clock + 1 /\ UNCHANGED reader
           \/ BeginReading \/ ResolveRef \/ WalkTree \/ PathHistory \/ ListDirectory \/ ListCommit \/ CacheHit
    PROVE  ProjectInv'
<1> USE DEF ProjectInv
<1>1. Now \in Nat /\ Now >= 1 /\ clock \in Nat
  BY DEF ProjectShape, Now
<1>2. clock' \in Nat /\ clock <= clock'
  BY <1>1 DEF BeginReading, ResolveRef, WalkTree, PathHistory, ListDirectory, ListCommit, CacheHit
<1>3. /\ reader' \in [pc : {"idle", "listing", "listed"}, oid : 0 .. Now, tree : 0 .. Now, history : 0 .. Now]
      /\ reader'.pc = "listed" =>
           /\ reader'.tree # 0 /\ reader'.history # 0
           /\ IF kind = "git-ref" THEN reader'.oid # 0 ELSE reader'.tree = reader'.history
      /\ reader'.tree # 0 /\ kind = "git-ref" => reader'.oid # 0
      /\ reader'.pc = "idle" => {reader'.oid, reader'.tree, reader'.history} = {0}
      /\ ~raced => {reader'.oid, reader'.tree, reader'.history} \subseteq {0, Now}
  <2>1. reader \in [pc : {"idle", "listing", "listed"}, oid : 0 .. Now, tree : 0 .. Now, history : 0 .. Now]
    BY DEF ProjectShape
  <2> USE DEF ReaderSawNow
  <2>2. CASE UNCHANGED reader
    BY <2>1, <2>2
  <2>3. CASE BeginReading \/ CacheHit
    BY <1>1, <2>3 DEF BeginReading, CacheHit, NotReading
  <2>4. CASE ResolveRef
    BY <1>1, <2>1, <2>4 DEF ResolveRef
  <2>5. CASE WalkTree
    BY <1>1, <2>1, <2>5 DEF WalkTree
  <2>6. CASE PathHistory
    BY <1>1, <2>1, <2>6 DEF PathHistory
  <2>7. CASE ListDirectory
    <3>1. /\ kind # "git-ref" /\ reader'.pc = "listed" /\ reader'.oid = reader.oid
          /\ reader'.tree = Now /\ reader'.history = Now
          /\ reader' = [pc |-> "listed", oid |-> reader.oid, tree |-> Now, history |-> Now]
      BY <1>1, <2>1, <2>7 DEF ListDirectory
    <3> QED
      BY <1>1, <2>1, <3>1
  <2>8. CASE ListCommit
    BY <1>1, <2>1, <2>8 DEF ListCommit
  <2> QED
    BY <2>2, <2>3, <2>4, <2>5, <2>6, <2>7, <2>8
<1>4. Now' = Now /\ Changes' /\ NothingRemoved' /\ (Peace' <=> Peace) /\ \A s : ListedThenRead(s) => ListedThenRead(s)'
  BY FilesStay
<1>5. ProjectShape' /\ ReaderSawNow'
  BY <1>2, <1>3, <1>4 DEF ProjectShape, ReaderSawNow
<1>6. SecondsGrow'
  <2>1. \A i \in 1 .. Now : versions[i].at \in Nat
    <3>1. \A i \in 1 .. Now : versions[i] \in Version
      BY DEF ProjectShape, Now
    <3> QED
      BY <3>1 DEF Version
  <2> QED
    BY <1>1, <1>2, <1>4, <2>1 DEF SecondsGrow
<1>7. StoreWasRead'
  BY <1>4 DEF StoreWasRead
<1> QED
  BY <1>4, <1>5, <1>6, <1>7

\* What a reader keeps was listed at one version and read at one since.
LEMMA MaterializeKeepsInv == ASSUME ProjectInv, Materialize PROVE ProjectInv'
<1> USE DEF ProjectInv
<1> DEFINE content == IF kind = "git-ref" THEN ReadCommit ELSE ReadDirectory
           new == [date |-> Date, content |-> content]
<1>1. /\ reader.pc = "listed" /\ \A s \in store : s.date # Date
      /\ store' \subseteq store \cup {new} /\ reader' = NotReading
      /\ UNCHANGED <<kind, body, versions, clock, raced>>
  BY DEF Materialize
<1>2. Now' = Now /\ Changes' /\ NothingRemoved' /\ (Peace' <=> Peace) /\ \A s : ListedThenRead(s) => ListedThenRead(s)'
  BY <1>1, FilesStay
<1>3. Now \in Nat /\ Now >= 1
  BY DEF ProjectShape, Now
<1>4. ProjectShape'
  <2>1. reader' \in [pc : {"idle", "listing", "listed"}, oid : 0 .. Now, tree : 0 .. Now, history : 0 .. Now]
    BY <1>1, <1>3 DEF NotReading
  <2>2. new.date = Date
    OBVIOUS
  <2> HIDE DEF new
  <2>3. \A s, t \in store' : s.date = t.date => s = t
    BY <1>1, <2>2 DEF ProjectShape
  <2> QED
    BY <1>1, <1>2, <2>1, <2>3 DEF ProjectShape
<1>5. SecondsGrow' /\ ReaderSawNow'
  BY <1>1, <1>2 DEF SecondsGrow, ReaderSawNow, NotReading
<1>6. ASSUME Peace PROVE ListedThenRead(new)
  <2>1. CASE kind = "git-ref"
    <3>1. ~raced
      BY <1>6, <2>1 DEF Peace
    <3>2. reader.tree = Now /\ reader.history = Now /\ reader.oid = Now
      BY <1>1, <2>1, <3>1 DEF ReaderSawNow
    <3>3. new.date = LastModifiedDate(Now, Now) /\ new.content = ContentOf(Now, Now)
      BY <2>1, <3>2 DEF Date, ReadCommit
    <3> HIDE DEF new
    <3> QED
      BY <1>3, <3>3 DEF ListedThenRead
  <2>2. CASE kind # "git-ref"
    <3>1. reader.tree = reader.history /\ reader.tree \in 1 .. Now
      BY <1>1, <1>3, <2>2 DEF ReaderSawNow, ProjectShape
    <3>2. new.date = LastModifiedDate(reader.tree, reader.tree) /\ new.content = ContentOf(Now, Now)
      BY <2>2, <3>1 DEF Date, ReadDirectory
    <3> HIDE DEF new
    <3> QED
      BY <1>3, <3>1, <3>2 DEF ListedThenRead
  <2> QED
    BY <2>1, <2>2
<1>7. StoreWasRead'
  <2> HIDE DEF new
  <2> QED
    BY <1>1, <1>2, <1>6 DEF StoreWasRead
<1> QED
  BY <1>2, <1>4, <1>5, <1>7

\* An edit adds a version; the ones before stay, with their dates and contents.
LEMMA EditKeepsInv ==
    ASSUME ProjectInv, NEW p \in Paths, NEW c \in Contents \cup {NoFile}, Edit(p, c)
    PROVE  ProjectInv'
<1> USE DEF ProjectInv
<1> DEFINE v == [files |-> [versions[Now].files EXCEPT ![p] = c], changed |-> {p}, at |-> clock]
<1>1. /\ versions' = Append(versions, v) /\ UNCHANGED <<kind, body, clock, reader, store>>
      /\ raced' = (raced \/ c = NoFile \/ reader.pc # "idle" \/ InThisSecond # {})
      /\ \E q \in body : IF q = p THEN c # NoFile ELSE q \in Present(Now)
      /\ Cardinality(InThisSecond) < (IF kind = "git-ref" THEN EditsPerSecond ELSE 1)
  BY DEF Edit
<1>2. Now \in Nat /\ Now >= 1 /\ Now \in 1 .. Now /\ clock \in Nat
  BY DEF ProjectShape, Now
<1>3. \A i \in 1 .. Now : versions[i] \in Version
  BY DEF ProjectShape, Now
<1>4. v \in Version
  BY <1>2, <1>3 DEF Version, ProjectShape
<1>5. /\ v.files = [versions[Now].files EXCEPT ![p] = c] /\ v.changed = {p} /\ v.at = clock
      /\ \A q \in Paths : v.files[q] = IF q = p THEN c ELSE versions[Now].files[q]
  BY <1>2, <1>3 DEF Version
<1> HIDE DEF v
<1>6. /\ versions' \in Seq(Version) /\ Now' = Now + 1 /\ versions'[Now + 1] = v
      /\ \A i \in 1 .. Now : versions'[i] = versions[i]
  BY <1>1, <1>4 DEF ProjectShape, Now
<1>7. \A i : i \in 1 .. Now' <=> i \in 1 .. Now \/ i = Now + 1
  BY <1>2, <1>6
<1>8. raced \in BOOLEAN /\ raced' \in BOOLEAN /\ (~raced' => ~raced) /\ (Peace' => Peace)
  BY <1>1 DEF ProjectShape, Peace
<1>9. ProjectShape'
  <2>1. reader' \in [pc : {"idle", "listing", "listed"}, oid : 0 .. Now', tree : 0 .. Now', history : 0 .. Now']
    BY <1>1, <1>2, <1>6 DEF ProjectShape
  <2> QED
    BY <1>1, <1>2, <1>6, <1>8, <2>1 DEF ProjectShape
<1>10. Changes'
  <2>1. versions'[1].changed = Paths
    BY <1>2, <1>6 DEF Changes
  <2>2. ASSUME NEW i \in 2 .. Now', NEW q \in Paths \ versions'[i].changed
        PROVE  versions'[i].files[q] = versions'[i - 1].files[q]
    <3>1. CASE i = Now + 1
      <4>1. versions'[i] = v /\ i - 1 = Now /\ versions'[i - 1] = versions[Now]
        BY <1>2, <1>6, <3>1
      <4> QED
        BY <1>5, <4>1
    <3>2. CASE i # Now + 1
      <4>1. i \in 2 .. Now /\ i \in 1 .. Now /\ i - 1 \in 1 .. Now
        BY <1>2, <1>6, <3>2
      <4> QED
        BY <1>6, <4>1 DEF Changes
    <3> QED
      BY <3>1, <3>2
  <2> QED
    BY <2>1, <2>2 DEF Changes
<1>11. SecondsGrow'
  <2>1. \A i \in 1 .. Now' : versions'[i].at <= clock'
    <3>1. \A i \in 1 .. Now : versions'[i].at <= clock
      BY <1>6 DEF SecondsGrow
    <3>2. versions'[Now + 1].at <= clock
      BY <1>2, <1>5, <1>6
    <3> QED
      BY <1>1, <1>7, <3>1, <3>2
  <2>2. ASSUME ~raced' \/ kind' = "sfdx-project", NEW i \in 1 .. Now', NEW j \in 1 .. Now', i < j
        PROVE  versions'[i].at < versions'[j].at
    <3>1. i \in 1 .. Now
      BY <1>2, <1>6, <2>2
    <3>2. CASE j \in 1 .. Now
      BY <1>1, <1>6, <1>8, <2>2, <3>1, <3>2 DEF SecondsGrow
    <3>3. CASE j = Now + 1
      <4>1. InThisSecond = {}
        <5>1. CASE kind = "sfdx-project"
          <6>1. Cardinality(InThisSecond) < 1
            BY <1>1, <5>1
          <6>2. InThisSecond \subseteq 1 .. Now
            BY DEF InThisSecond, ProjectShape, Now
          <6>3. IsFiniteSet(InThisSecond)
            <7>1. 1 \in Int /\ Now \in Int
              BY <1>2
            <7>2. IsFiniteSet(1 .. Now)
              BY <7>1, FS_Interval
            <7> QED
              BY <6>2, <7>2, FS_Subset
          <6> QED
            BY <6>1, <6>3, FS_EmptySet, FS_CardinalityType
        <5>2. CASE ~raced'
          BY <1>1, <1>8, <5>2
        <5> QED
          BY <1>1, <2>2, <5>1, <5>2
      <4>2. versions[i].at # clock
        BY <3>1, <4>1 DEF InThisSecond, ProjectShape, Now
      <4>3. versions[i].at <= clock /\ versions[i].at \in Nat
        BY <1>3, <3>1 DEF SecondsGrow, Version
      <4> QED
        BY <1>2, <1>5, <1>6, <3>1, <3>3, <4>2, <4>3
    <3> QED
      BY <1>7, <3>2, <3>3
  <2> QED
    BY <2>1, <2>2 DEF SecondsGrow
<1>12. \A i \in 1 .. Now : Present(i)' = Present(i)
  BY <1>6 DEF Present
<1>13. NothingRemoved'
  <2> SUFFICES ASSUME Peace', NEW i \in 1 .. Now' PROVE body' \subseteq Present(i)'
    BY DEF NothingRemoved
  <2>1. CASE i \in 1 .. Now
    BY <1>1, <1>8, <1>12, <2>1 DEF NothingRemoved
  <2>2. CASE i = Now + 1
    <3>1. body \subseteq Present(Now) /\ body \subseteq Paths
      BY <1>2, <1>8 DEF NothingRemoved, Present
    <3>2. p \in body => c # NoFile
      <4>1. CASE ~raced'
        BY <1>1, <1>8, <4>1
      <4>2. CASE Cardinality(body) <= 1
        <5>1. IsFiniteSet(body) /\ body # {}
          BY ProjectsAssumption DEF ProjectShape
        <5>2. PICK q \in body : IF q = p THEN c # NoFile ELSE q \in Present(Now)
          BY <1>1
        <5>3. ASSUME p \in body PROVE p = q
          <6>1. IsFiniteSet(body \ {q}) /\ Cardinality(body \ {q}) = Cardinality(body) - 1
            BY <5>1, FS_RemoveElement
          <6>2. Cardinality(body \ {q}) = 0
            BY <4>2, <5>1, <6>1, FS_CardinalityType
          <6>3. body \ {q} = {}
            BY <6>1, <6>2, FS_EmptySet
          <6> QED
            BY <5>3, <6>3
        <5> QED
          BY <5>2, <5>3
      <4> QED
        BY <1>1, <4>1, <4>2 DEF Peace
    <3>3. \A q \in body : versions'[i].files[q] # NoFile
      BY <1>5, <1>6, <2>2, <3>1, <3>2 DEF Present
    <3> QED
      BY <1>1, <3>1, <3>3 DEF Present
  <2> QED
    BY <1>7, <2>1, <2>2
<1>14. ReaderSawNow'
  <2>1. ~raced' => reader.pc = "idle"
    BY <1>1, <1>8
  <2>2. ~raced' => {reader.oid, reader.tree, reader.history} \subseteq {0}
    BY <1>8, <2>1 DEF ReaderSawNow
  <2> QED
    BY <1>1, <1>8, <2>2 DEF ReaderSawNow
<1>15. StoreWasRead'
  <2>1. ASSUME NEW n \in 1 .. Now
        PROVE  LastModifiedDate(n, n)' = LastModifiedDate(n, n) /\ ContentOf(n, n)' = ContentOf(n, n)
    <3>1. \A i \in 1 .. n : versions'[i] = versions[i]
      BY <1>2, <1>6
    <3>2. \A q : LastTouch(n, q)' = LastTouch(n, q)
      BY <3>1 DEF LastTouch
    <3>3. Present(n)' = Present(n)
      BY <1>12
    <3> DEFINE seen == {q \in Present(n) : \E i \in 1 .. n : q \in versions[i].changed}
               T    == {LastTouch(n, q) : q \in seen}
    <3>4. LastModifiedDate(n, n) = IF seen = {} THEN 0 ELSE versions[Max(T)].at
      BY DEF LastModifiedDate
    <3>5. seen' = seen
      BY <3>1, <3>3
    <3>6. T' = T
      <4> HIDE DEF seen
      <4> QED
        BY <3>2, <3>5
    <3>7. LastModifiedDate(n, n)' = IF seen' = {} THEN 0 ELSE versions'[Max(T')].at
      BY DEF LastModifiedDate
    <3>8. seen # {} => Max(T) \in 1 .. n
      <4>1. \A q \in seen : LastTouch(n, q) \in 1 .. n
        BY LastTouchIsLast DEF Present
      <4> HIDE DEF seen
      <4>2. n \in Nat /\ T \in SUBSET (1 .. n) /\ (seen # {} => T # {})
        BY <1>2, <4>1
      <4> HIDE DEF T
      <4>3. T # {} => Max(T) \in T
        BY <4>2, GreatestElement
      <4> QED
        BY <4>2, <4>3
    <3>9. LastModifiedDate(n, n)' = LastModifiedDate(n, n)
      <4> HIDE DEF seen, T
      <4> QED
        BY <3>1, <3>4, <3>5, <3>6, <3>7, <3>8
    <3>10. ContentOf(n, n)' = ContentOf(n, n)
      <4>1. versions'[n] = versions[n]
        BY <1>6
      <4> QED
        BY <1>1, <3>3, <4>1 DEF ContentOf
    <3> QED
      BY <3>9, <3>10
  <2> QED
    BY <1>1, <1>2, <1>6, <1>7, <1>8, <2>1 DEF StoreWasRead, ListedThenRead
<1> QED
  BY <1>9, <1>10, <1>11, <1>13, <1>14, <1>15

\* The inductive invariant of the file sources.
THEOREM ProjectInvariance == PSpec => []ProjectInv
<1>1. ProjectInv /\ [PNext]_pvars => ProjectInv'
  <2> SUFFICES ASSUME ProjectInv, [PNext]_pvars PROVE ProjectInv'
    OBVIOUS
  <2>1. CASE UNCHANGED pvars
    <3>1. UNCHANGED <<kind, body, versions, raced>> /\ UNCHANGED <<clock, reader, store>>
      BY <2>1 DEF pvars
    <3>2. Now' = Now /\ Changes' /\ NothingRemoved' /\ (Peace' <=> Peace) /\ \A s : ListedThenRead(s) => ListedThenRead(s)'
      BY <3>1, FilesStay
    <3> QED
      BY <3>1, <3>2 DEF ProjectInv, ProjectShape, SecondsGrow, ReaderSawNow, StoreWasRead
  <2>2. CASE \E p \in Paths, c \in Contents \cup {NoFile} : Edit(p, c)
    BY <2>2, EditKeepsInv
  <2>3. CASE ClockTicks
    BY <2>3, ReadingKeepsInv DEF ClockTicks
  <2>4. CASE BeginReading
    BY <2>4, ReadingKeepsInv DEF BeginReading
  <2>5. CASE ResolveRef \/ WalkTree \/ PathHistory
    BY <2>5, ReadingKeepsInv DEF ResolveRef, WalkTree, PathHistory
  <2>6. CASE ListDirectory \/ ListCommit \/ CacheHit
    BY <2>6, ReadingKeepsInv DEF ListDirectory, ListCommit, CacheHit
  <2>7. CASE Materialize
    BY <2>7, MaterializeKeepsInv
  <2> QED
    BY <2>1, <2>2, <2>3, <2>4, <2>5, <2>6, <2>7 DEF PNext
<1> QED
  BY <1>1, ProjectInitHolds, PTL DEF PSpec

\* The state of the sources is of the shape its definitions suppose.
THEOREM ProjectTypeCorrect == PSpec => []PTypeOK
<1>1. ProjectInv => PTypeOK
  <2> SUFFICES ASSUME ProjectInv PROVE PTypeOK
    OBVIOUS
  <2>1. \A i \in 1 .. Now : versions[i] \in Version
    BY DEF ProjectInv, ProjectShape, Now
  <2>2. \A i \in DOMAIN versions : versions[i].files \in [Paths -> Contents \cup {NoFile}]
    BY <2>1 DEF ProjectInv, ProjectShape, Now, Version
  <2>3. reader.oid <= Now /\ reader.tree <= Now /\ reader.history <= Now
    BY DEF ProjectInv, ProjectShape, Now
  <2> QED
    BY <2>2, <2>3 DEF ProjectInv, ProjectShape, PTypeOK
<1> QED
  BY <1>1, ProjectInvariance, PTL

\* A date a source reports names the content that is kept under it, while nothing is
\* removed, no two edits share a second and none meets a read; for one file of a
\* directory, even so (git-ref-source.ts:95-116, 171-215, sfdx-project-source.ts:61-74).
THEOREM DatesNameContents == PSpec => []DatesIdentifyContentInPeace
  BY ProjectInvariance, InvImpliesDates, PTL

-----------------------------------------------------------------------------
\* Browser.

SomeComparison == Comparisons \cup {Nil}
SomeKeys == UNION {Key(c) : c \in Comparisons}
PageNames == {"sources", "types", "results", "deploy", "detail", "review"}
Selections == [selected : SUBSET SomeKeys, active : SomeComparison]
Drafts ==
    [comparisonId : SomeComparison, components : SUBSET SomeKeys, from : SomeComparison, checked : SUBSET SomeKeys]
Flows == [sources : BOOLEAN, comparisonId : SomeComparison, deploymentId : FlowDeployments \cup {Nil}]
RunStates ==
    [status : {"idle", "running"} \cup Terminal, comparisonId : SomeComparison,
     pending : SomeComparison, socket : SomeComparison]
Loads ==
    [comparison : Comparisons, summary : {Summary(c) : c \in Comparisons} \cup {Nil}, offset : Nat,
     got : SUBSET DiffRows, cancelled : BOOLEAN]
FirstRows(c, n) == {DiffResults[c][i] : i \in {m \in DOMAIN DiffResults[c] : m <= n}}
Rows(c) == {DiffResults[c][i] : i \in DOMAIN DiffResults[c]}
OnResults == page.at \in {"results", "deploy"}

\* The shape of the stores, of the page and of the jobs.
StoresOK ==
    /\ jobs \in [Comparisons -> {Nil, "running"} \cup Terminal]
    /\ page \in [at : PageNames, id : SomeComparison \cup FlowDeployments]
    /\ flow \in Flows
    /\ selection \in Selections
    /\ draft \in Drafts /\ (draft.components # {} => draft.comparisonId \in Comparisons)
    /\ run \in RunStates
    /\ checked \subseteq SomeKeys \X Comparisons
    /\ of \in [FlowDeployments -> SomeComparison]

\* The pages that show results are those of comparisons that have some.
PagesHaveResults == OnResults => page.id \in Comparisons /\ jobs[page.id] = "succeeded"

\* The flow claims a comparison that succeeded, and a deployment of that one.
FlowIsClaimed ==
    /\ flow.comparisonId # Nil => jobs[flow.comparisonId] = "succeeded"
    /\ flow.deploymentId # Nil => flow.comparisonId # Nil /\ of[flow.deploymentId] = flow.comparisonId

\* The socket of a run is that of the comparison it says it runs.
RunFollowsItsSocket == run.socket # Nil => run.comparisonId = run.socket

\* The results page has claimed the selection for its comparison.
ResultsPageClaims == page.at = "results" => selection.active = page.id

\* A load has read a prefix of the rows; one that is not canceled is of the page.
LoadsAreOfThePage ==
    \A l \in loads :
        /\ l \in Loads
        /\ l.summary \in {Nil, Summary(l.comparison)}
        /\ l.got = FirstRows(l.comparison, l.offset)
        /\ ~l.cancelled => OnResults /\ l.comparison = page.id

\* What is shown is every row of the comparison the page is of.
DataIsWhole ==
    data # Nil =>
        /\ OnResults /\ data.comparison = page.id
        /\ data.results = Rows(page.id) /\ data.summary = Summary(page.id)

BrowserInv ==
    /\ StoresOK
    /\ PagesHaveResults
    /\ FlowIsClaimed
    /\ RunFollowsItsSocket
    /\ ResultsPageClaims
    /\ LoadsAreOfThePage
    /\ DataIsWhole
    /\ SelectionIsOfOneComparison

-----------------------------------------------------------------------------
\* Rows and pages of them.

LEMMA RowsAreASequence ==
    ASSUME NEW c \in Comparisons
    PROVE  /\ Len(DiffResults[c]) \in Nat /\ DOMAIN DiffResults[c] = 1 .. Len(DiffResults[c])
           /\ Rows(c) \subseteq DiffRows /\ Key(c) \subseteq SomeKeys
<1>1. DiffResults[c] \in Seq(DiffRows)
  BY BrowserAssumption
<1>2. Len(DiffResults[c]) \in Nat /\ DOMAIN DiffResults[c] = 1 .. Len(DiffResults[c])
  BY <1>1
<1>3. Rows(c) \subseteq DiffRows /\ Key(c) \subseteq SomeKeys
  BY DEF Rows, DiffRows, SomeKeys
<1> QED
  BY <1>2, <1>3

\* comparisons.results: fewer rows than were asked for are the last ones.
LEMMA AShortPageIsTheLast ==
    ASSUME NEW c \in Comparisons, NEW offset \in Nat,
           Cardinality(ServeResults(c, ResultsPageSize, offset)) < ResultsPageSize
    PROVE  FirstRows(c, offset + ResultsPageSize) = Rows(c)
<1> DEFINE found == DiffResults[c]
           size == ResultsPageSize
           asked == offset + 1 .. offset + size
           answer == ServeResults(c, size, offset)
<1>1. size \in Nat /\ Len(found) \in Nat /\ DOMAIN found = 1 .. Len(found)
  BY RowsAreASequence, BrowserAssumption
<1>2. ASSUME offset + size <= Len(found) PROVE FALSE
  <2> DEFINE f == [i \in asked |-> found[i]]
  <2>1. asked = {n \in DOMAIN found : offset < n /\ n <= offset + size}
    BY <1>1, <1>2
  <2>2. answer = {found[i] : i \in asked}
    BY <2>1, Zenon DEF ServeResults
  <2>3. f \in [asked -> answer] /\ \A y \in answer : \E i \in asked : f[i] = y
    BY <2>2
  <2>4. \A i, j \in asked : f[i] = f[j] => i = j
    BY <2>1, BrowserAssumption
  <2>5. ExistsBijection(asked, answer)
    BY <2>3, <2>4, Fun_IsBij, Fun_ExistsBij
  <2>6. IsFiniteSet(asked) /\ Cardinality(asked) = size
    <3>1. offset + 1 \in Int /\ offset + size \in Int /\ offset + 1 <= offset + size
      BY <1>1, BrowserAssumption
    <3>2. IsFiniteSet(asked) /\ Cardinality(asked) = (offset + size) - (offset + 1) + 1
      BY <3>1, FS_Interval
    <3> QED
      BY <1>1, <3>2
  <2>7. Cardinality(answer) = size
    BY <2>5, <2>6, FS_Bijection
  <2> QED
    BY <1>1, <2>7
<1>3. \A i \in DOMAIN found : i <= offset + size
  BY <1>1, <1>2
<1> QED
  BY <1>3 DEF FirstRows, Rows

\* The pages follow each other: what was read before and the answer are the rows so far.
LEMMA PagesJoin ==
    ASSUME NEW c \in Comparisons, NEW offset \in Nat
    PROVE  FirstRows(c, offset) \cup ServeResults(c, ResultsPageSize, offset)
              = FirstRows(c, offset + ResultsPageSize)
BY RowsAreASequence, BrowserAssumption DEF FirstRows, ServeResults

\* The counts over the results are the counts of the rows.
LEMMA SummaryCounts ==
    ASSUME NEW c \in Comparisons, NEW s \in DiffStatus
    PROVE  Cardinality({row \in Rows(c) : row.status = s}) = Summary(c)[s]
<1> DEFINE at == {i \in DOMAIN DiffResults[c] : DiffResults[c][i].status = s}
           of_s == {row \in Rows(c) : row.status = s}
           f == [i \in at |-> DiffResults[c][i]]
<1>1. f \in [at -> of_s] /\ \A y \in of_s : \E i \in at : f[i] = y
  BY DEF Rows
<1>2. \A i, j \in at : f[i] = f[j] => i = j
  BY BrowserAssumption
<1>3. ExistsBijection(at, of_s)
  <2> HIDE DEF at, of_s, f
  <2> QED
    BY <1>1, <1>2, Fun_IsBij, Fun_ExistsBij
<1>4. IsFiniteSet(at)
  <2>1. at \subseteq 1 .. Len(DiffResults[c]) /\ Len(DiffResults[c]) \in Nat
    BY RowsAreASequence
  <2>2. IsFiniteSet(1 .. Len(DiffResults[c]))
    <3>1. 1 \in Int /\ Len(DiffResults[c]) \in Int
      BY <2>1
    <3> QED
      BY <3>1, FS_Interval
  <2> QED
    BY <2>1, <2>2, FS_Subset
<1>5. Cardinality(of_s) = Cardinality(at)
  BY <1>3, <1>4, FS_Bijection
<1> QED
  BY <1>5 DEF Summary

-----------------------------------------------------------------------------
LEMMA BrowserInitHolds == BInit => BrowserInv
<1> SUFFICES ASSUME BInit PROVE BrowserInv
  OBVIOUS
<1>1. StoresOK
  BY DEF BInit, StoresOK, PageAt, PageNames, Flows, Selections, Drafts, RunStates, Idle, SomeComparison
<1>2. PagesHaveResults /\ ResultsPageClaims /\ DataIsWhole
  BY DEF BInit, PagesHaveResults, ResultsPageClaims, DataIsWhole, OnResults, PageAt
<1>3. FlowIsClaimed /\ RunFollowsItsSocket /\ LoadsAreOfThePage
  BY DEF BInit, FlowIsClaimed, RunFollowsItsSocket, LoadsAreOfThePage, Idle
<1>4. SelectionIsOfOneComparison
  BY DEF BInit, SelectionIsOfOneComparison
<1> QED
  BY <1>1, <1>2, <1>3, <1>4 DEF BrowserInv

\* Navigation: what is loaded for the page left behind is gone or canceled, and
\* nothing is shown before its own load ends.
LEMMA GoingLoadsAnew ==
    ASSUME LoadsAreOfThePage, NEW to \in [at : PageNames, id : SomeComparison \cup FlowDeployments],
           to.at \in {"results", "deploy"} => to.id \in Comparisons,
           Go(to)
    PROVE  LoadsAreOfThePage' /\ DataIsWhole' /\ page' = to /\ data' = Nil
<1>1. page' = to /\ data' = Nil
  BY DEF Go
<1>2. DataIsWhole'
  BY <1>1 DEF DataIsWhole
<1>3. LoadsAreOfThePage'
  <2> SUFFICES ASSUME NEW l \in loads'
               PROVE  /\ l \in Loads
                      /\ l.summary \in {Nil, Summary(l.comparison)}
                      /\ l.got = FirstRows(l.comparison, l.offset)
                      /\ ~l.cancelled => OnResults' /\ l.comparison = page'.id
    BY DEF LoadsAreOfThePage
  <2>1. CASE l \in Superseded(loads)
    <3>1. PICK k \in loads : l = [k EXCEPT !.cancelled = TRUE]
      BY <2>1 DEF Superseded
    <3>2. k \in Loads /\ k.summary \in {Nil, Summary(k.comparison)} /\ k.got = FirstRows(k.comparison, k.offset)
      BY DEF LoadsAreOfThePage
    <3>3. /\ l \in Loads /\ l.cancelled
          /\ l.comparison = k.comparison /\ l.summary = k.summary /\ l.got = k.got /\ l.offset = k.offset
      BY <3>1, <3>2 DEF Loads
    <3> QED
      BY <3>2, <3>3
  <2>2. CASE to.at \in {"results", "deploy"} /\ l = Load(to.id)
    <3>1. l \in Loads
      BY <2>2 DEF Load, Loads
    <3>2. FirstRows(to.id, 0) = {}
      <4>1. \A m \in DOMAIN DiffResults[to.id] : ~(m <= 0)
        BY <2>2, RowsAreASequence
      <4> QED
        BY <4>1 DEF FirstRows
    <3>3. OnResults' /\ l.comparison = page'.id
      BY <1>1, <2>2 DEF OnResults, Load
    <3> QED
      BY <2>2, <3>1, <3>2, <3>3 DEF Load
  <2> QED
    BY <2>1, <2>2 DEF Go
<1> QED
  BY <1>1, <1>2, <1>3

\* The links of the wizard: where they lead.
LEMMA StepsLeadSomewhere ==
    ASSUME BrowserInv, NEW step \in Steps, step.at \in {"results", "deploy"}
    PROVE  jobs[step.id] = "succeeded"
<1> USE DEF BrowserInv
<1>1. ASSUME NEW ready, NEW c, NEW d, step \in BuildWizardSteps(WizardContext(ready, c, d))
      PROVE  c # Nil /\ step.id = c
  BY <1>1 DEF BuildWizardSteps, WizardContext, PageAt
<1>2. CASE page.at \in {"sources", "types"}
  BY <1>1, <1>2 DEF Steps, FlowIsClaimed
<1>3. CASE page.at \in {"results", "deploy"}
  <2>1. jobs[page.id] = "succeeded"
    BY <1>3 DEF PagesHaveResults, OnResults
  <2>2. CASE page.at = "results"
    <3>1. Steps = BuildWizardSteps(WizardContext(SourcesMatchThisComparison, page.id, flow.deploymentId))
      <4>1. page.at \notin {"sources", "types", "deploy"} /\ ~IsWizardResult
        BY <2>2 DEF IsWizardResult
      <4>2. page.at # "sources" /\ page.at # "types" /\ page.at # "deploy"
        BY <4>1
      <4> QED
        BY <2>2, <4>1, <4>2, Zenon DEF Steps
    <3> QED
      BY <2>1, <3>1 DEF BuildWizardSteps, WizardContext, PageAt
  <2>3. CASE page.at = "deploy"
    <3>1. Steps = BuildWizardSteps(WizardContext(TRUE, page.id, flow.deploymentId))
      <4>1. page.at \notin {"sources", "types", "results"} /\ ~IsWizardResult
        BY <2>3 DEF IsWizardResult
      <4>2. page.at # "sources" /\ page.at # "types" /\ page.at # "results"
        BY <4>1
      <4> QED
        BY <2>3, <4>1, <4>2, Zenon DEF Steps
    <3> QED
      BY <1>1, <2>1, <3>1
  <2> QED
    BY <1>3, <2>2, <2>3
<1>4. CASE page.at \notin {"sources", "types", "results", "deploy"} /\ IsWizardResult
  BY <1>1, <1>4 DEF Steps, FlowIsClaimed
<1>5. CASE page.at \notin {"sources", "types", "results", "deploy"} /\ ~IsWizardResult
  BY <1>5 DEF Steps
<1> QED
  BY <1>2, <1>3, <1>4, <1>5

-----------------------------------------------------------------------------
\* Comparisons start, end and are canceled: one that succeeded stays so.
LEMMA RunningKeepsInv ==
    ASSUME BrowserInv,
           RunStarts \/ RunFails \/ RunCancel \/ (\E c \in Comparisons : Run(c) \/ ComparisonEnds(c))
    PROVE  BrowserInv'
<1> USE DEF BrowserInv
<1>1. UNCHANGED <<page, flow, selection, draft, loads, data, checked, of>>
  BY DEF RunStarts, RunFails, RunCancel, Run, ComparisonEnds
<1>2. /\ jobs' \in [Comparisons -> {Nil, "running"} \cup Terminal]
      /\ \A c \in Comparisons : jobs[c] = "succeeded" => jobs'[c] = "succeeded"
  <2>1. CASE RunStarts \/ RunFails \/ RunCancel
    BY <2>1 DEF RunStarts, RunFails, RunCancel, StoresOK
  <2>2. ASSUME NEW c \in Comparisons, Run(c) PROVE <1>2!1 /\ <1>2!2
    BY <2>2, BrowserAssumption DEF Run, StoresOK
  <2>3. ASSUME NEW c \in Comparisons, ComparisonEnds(c) PROVE <1>2!1 /\ <1>2!2
    <3>1. PICK end \in Terminal : jobs[c] = "running" /\ jobs' = [jobs EXCEPT ![c] = end]
      BY <2>3 DEF ComparisonEnds
    <3> QED
      BY <3>1 DEF StoresOK
  <2> QED
    BY <2>1, <2>2, <2>3
<1>3. run' \in RunStates /\ RunFollowsItsSocket'
  <2> USE DEF StoresOK, RunStates, RunFollowsItsSocket, SomeComparison, Terminal
  <2>1. CASE RunStarts
    BY <2>1 DEF RunStarts
  <2>2. CASE RunFails
    BY <2>2 DEF RunFails
  <2>3. CASE RunCancel
    BY <2>3 DEF RunCancel
  <2>4. ASSUME NEW c \in Comparisons, Run(c) PROVE <1>3
    BY <2>4 DEF Run, Idle
  <2>5. ASSUME NEW c \in Comparisons, ComparisonEnds(c) PROVE <1>3
    BY <2>5 DEF ComparisonEnds
  <2> QED
    BY <2>1, <2>2, <2>3, <2>4, <2>5
<1>4. StoresOK'
  BY <1>1, <1>2, <1>3 DEF StoresOK
<1>5. PagesHaveResults' /\ ResultsPageClaims'
  BY <1>1, <1>2 DEF PagesHaveResults, OnResults, ResultsPageClaims
<1>6. FlowIsClaimed'
  BY <1>1, <1>2 DEF StoresOK, Flows, SomeComparison, FlowIsClaimed
<1>7. LoadsAreOfThePage' /\ DataIsWhole'
  BY <1>1 DEF LoadsAreOfThePage, DataIsWhole, OnResults
<1>8. SelectionIsOfOneComparison'
  BY <1>1, <1>2 DEF StoresOK, SelectionIsOfOneComparison
<1> QED
  BY <1>3, <1>4, <1>5, <1>6, <1>7, <1>8

\* Pages that claim nothing: the stores stay as they are, but for a flow started over.
LEMMA LeavingKeepsInv ==
    ASSUME BrowserInv, NEW to \in [at : PageNames \ {"results"}, id : SomeComparison \cup FlowDeployments],
           to.at = "deploy" => to.id \in Comparisons /\ jobs[to.id] = "succeeded",
           Go(to), UNCHANGED flow \/ (\E ready \in BOOLEAN : SetSources(ready)), run' \in {run, Idle},
           UNCHANGED <<jobs, selection, draft, checked, of>>
    PROVE  BrowserInv'
<1> USE DEF BrowserInv
<1>1. LoadsAreOfThePage' /\ DataIsWhole' /\ page' = to
  BY GoingLoadsAnew
<1>2. flow' \in Flows /\ FlowIsClaimed'
  <2>1. CASE UNCHANGED flow
    BY <2>1 DEF FlowIsClaimed, StoresOK
  <2>2. ASSUME NEW ready \in BOOLEAN, SetSources(ready) PROVE <1>2!1 /\ <1>2!2
    BY <2>2 DEF SetSources, FlowOf, FlowIsClaimed, StoresOK, Flows, SomeComparison
  <2> QED
    BY <2>1, <2>2
<1>3. run' \in RunStates /\ RunFollowsItsSocket'
  BY DEF RunFollowsItsSocket, StoresOK, RunStates, Idle, SomeComparison
<1>4. StoresOK'
  BY <1>1, <1>2, <1>3 DEF StoresOK
<1>5. PagesHaveResults' /\ ResultsPageClaims'
  BY <1>1 DEF PagesHaveResults, OnResults, ResultsPageClaims
<1>6. SelectionIsOfOneComparison'
  BY DEF SelectionIsOfOneComparison
<1> QED
  BY <1>1, <1>2, <1>3, <1>4, <1>5, <1>6

LEMMA NavigatingKeepsInv ==
    ASSUME BrowserInv,
           \/ OpenSources \/ ChooseSources \/ OpenTypes \/ OpenReview
           \/ \E c \in Comparisons : OpenDeploy(c)
           \/ \E d \in FlowDeployments : OpenDeployment(d)
    PROVE  BrowserInv'
<1> USE DEF PageAt, PageNames, SomeComparison
<1>1. CASE OpenSources
  BY <1>1, LeavingKeepsInv DEF OpenSources
<1>2. CASE ChooseSources
  BY <1>2, LeavingKeepsInv DEF ChooseSources
<1>3. CASE OpenTypes
  BY <1>3, LeavingKeepsInv DEF OpenTypes
<1>4. CASE OpenReview
  BY <1>4, LeavingKeepsInv DEF OpenReview
<1>5. ASSUME NEW c \in Comparisons, OpenDeploy(c) PROVE BrowserInv'
  BY <1>5, LeavingKeepsInv DEF OpenDeploy
<1>6. ASSUME NEW d \in FlowDeployments, OpenDeployment(d) PROVE BrowserInv'
  BY <1>6, LeavingKeepsInv DEF OpenDeployment
<1> QED
  BY <1>1, <1>2, <1>3, <1>4, <1>5, <1>6

-----------------------------------------------------------------------------
\* ensureComparison: the page that opens takes the selection, or empties it.
LEMMA ClaimingSelects ==
    ASSUME BrowserInv, NEW c \in Comparisons, Claim(c)
    PROVE  /\ selection' \in Selections /\ selection'.active = c
           /\ checked' \subseteq SomeKeys \X Comparisons
           /\ \A k \in selection'.selected : <<k, c>> \in checked'
<1> USE DEF BrowserInv
<1>1. CASE selection.active = c
  <2>1. selection' = selection
    BY <1>1 DEF Claim, EnsureComparison
  <2> QED
    BY <1>1, <2>1 DEF Claim, StoresOK, SelectionIsOfOneComparison
<1>2. CASE selection.active # c
  <2>1. selection' = [selected |-> {}, active |-> c]
    BY <1>2 DEF Claim, EnsureComparison
  <2> QED
    BY <2>1 DEF Claim, StoresOK, Selections, SomeComparison
<1> QED
  BY <1>1, <1>2

\* The results of a comparison that succeeded are opened, and it is claimed.
LEMMA ClaimingKeepsInv ==
    ASSUME BrowserInv, NEW c \in Comparisons, jobs[c] = "succeeded",
           Go(PageAt("results", c)), Claim(c), run' = Idle, UNCHANGED flow \/ flow' = FlowOf(c),
           UNCHANGED <<jobs, draft, of>>
    PROVE  BrowserInv'
<1> USE DEF BrowserInv
<1>1. LoadsAreOfThePage' /\ DataIsWhole' /\ page' = PageAt("results", c)
  BY GoingLoadsAnew DEF PageAt, PageNames, SomeComparison
<1>2. flow' \in Flows /\ FlowIsClaimed'
  BY BrowserAssumption DEF FlowOf, FlowIsClaimed, StoresOK, Flows, SomeComparison
<1>3. run' \in RunStates /\ RunFollowsItsSocket'
  BY DEF RunFollowsItsSocket, RunStates, Idle, SomeComparison
<1>4. StoresOK'
  BY <1>1, <1>2, <1>3, ClaimingSelects DEF StoresOK, PageAt, PageNames, SomeComparison
<1>5. PagesHaveResults' /\ ResultsPageClaims'
  BY <1>1, ClaimingSelects DEF PagesHaveResults, OnResults, ResultsPageClaims, PageAt
<1>6. SelectionIsOfOneComparison'
  BY ClaimingSelects DEF SelectionIsOfOneComparison
<1> QED
  BY <1>1, <1>2, <1>3, <1>4, <1>5, <1>6

LEMMA OpenResultsKeepsInv ==
    ASSUME BrowserInv, NEW c \in Comparisons, OpenResults(c)
    PROVE  BrowserInv'
BY ClaimingKeepsInv DEF OpenResults

\* The message that ends a run: what succeeded is what the run says it ran.
LEMMA RunMessageKeepsInv ==
    ASSUME BrowserInv, RunMessage
    PROVE  BrowserInv'
<1> USE DEF BrowserInv
<1>1. run.socket \in Comparisons /\ run.comparisonId = run.socket /\ jobs[run.socket] \in Terminal
  BY DEF RunMessage, StoresOK, RunStates, SomeComparison, RunFollowsItsSocket
<1>2. CASE jobs[run.socket] = "succeeded"
  BY <1>1, <1>2, ClaimingKeepsInv DEF RunMessage
<1>3. CASE jobs[run.socket] # "succeeded"
  <2>1. /\ run' = [run EXCEPT !.status = jobs[run.socket], !.socket = Nil]
        /\ UNCHANGED <<page, flow, selection, checked, loads, data, jobs, draft, of>>
    BY <1>3 DEF RunMessage
  <2>2. run' \in RunStates /\ RunFollowsItsSocket'
    BY <1>1, <2>1 DEF StoresOK, RunStates, SomeComparison, RunFollowsItsSocket
  <2>3. StoresOK' /\ PagesHaveResults' /\ ResultsPageClaims' /\ FlowIsClaimed'
    BY <2>1, <2>2 DEF StoresOK, PagesHaveResults, OnResults, ResultsPageClaims, FlowIsClaimed
  <2>4. LoadsAreOfThePage' /\ DataIsWhole' /\ SelectionIsOfOneComparison'
    BY <2>1 DEF LoadsAreOfThePage, DataIsWhole, OnResults, SelectionIsOfOneComparison
  <2> QED
    BY <2>2, <2>3, <2>4
<1> QED
  BY <1>2, <1>3

-----------------------------------------------------------------------------
\* The stores do not change while a load goes on.
LEMMA LoadingKeepsInv ==
    ASSUME BrowserInv, LoadsAreOfThePage', DataIsWhole',
           UNCHANGED <<jobs, page, flow, selection, draft, run, checked, of>>
    PROVE  BrowserInv'
<1> USE DEF BrowserInv
<1>1. StoresOK' /\ PagesHaveResults' /\ ResultsPageClaims' /\ FlowIsClaimed' /\ RunFollowsItsSocket'
  BY DEF StoresOK, PagesHaveResults, OnResults, ResultsPageClaims, FlowIsClaimed, RunFollowsItsSocket
<1>2. SelectionIsOfOneComparison'
  BY DEF SelectionIsOfOneComparison
<1> QED
  BY <1>1, <1>2

LEMMA SummaryArrivesKeepsInv ==
    ASSUME BrowserInv, NEW l \in loads, SummaryArrives(l)
    PROVE  BrowserInv'
<1> DEFINE next == [l EXCEPT !.summary = Summary(l.comparison)]
<1>1. /\ l \in Loads /\ l.got = FirstRows(l.comparison, l.offset)
      /\ ~l.cancelled => OnResults /\ l.comparison = page.id
  BY DEF BrowserInv, LoadsAreOfThePage
<1>2. /\ next \in Loads /\ next.summary = Summary(next.comparison)
      /\ next.got = FirstRows(next.comparison, next.offset)
      /\ ~next.cancelled => OnResults /\ next.comparison = page.id
  BY <1>1 DEF Loads
<1>3. loads' = (loads \ {l}) \cup {next}
  BY DEF SummaryArrives
<1>4. UNCHANGED <<jobs, page, flow, selection, draft, run, data, checked, of>>
  BY DEF SummaryArrives
<1> HIDE DEF next
<1>5. LoadsAreOfThePage'
  BY <1>2, <1>3, <1>4 DEF BrowserInv, LoadsAreOfThePage, OnResults
<1>6. DataIsWhole'
  BY <1>4 DEF BrowserInv, DataIsWhole, OnResults
<1> QED
  BY <1>4, <1>5, <1>6, LoadingKeepsInv

LEMMA PageArrivesKeepsInv ==
    ASSUME BrowserInv, NEW l \in loads, PageArrives(l)
    PROVE  BrowserInv'
<1> DEFINE answer == ServeResults(l.comparison, ResultsPageSize, l.offset)
           next == [l EXCEPT !.offset = @ + ResultsPageSize, !.got = l.got \cup answer]
<1>1. /\ l \in Loads /\ l.got = FirstRows(l.comparison, l.offset)
      /\ l.summary = Summary(l.comparison)
      /\ ~l.cancelled => OnResults /\ l.comparison = page.id
  BY DEF BrowserInv, LoadsAreOfThePage, PageArrives
<1>2. l.comparison \in Comparisons /\ l.offset \in Nat /\ l.got \subseteq DiffRows
  BY <1>1 DEF Loads
<1>3. l.got \cup answer = FirstRows(l.comparison, l.offset + ResultsPageSize)
  BY <1>1, <1>2, PagesJoin
<1>4. UNCHANGED <<jobs, page, flow, selection, draft, run, checked, of>>
  BY DEF PageArrives
<1>5. CASE loads' = loads \ {l} /\ UNCHANGED data
  <2>1. LoadsAreOfThePage' /\ DataIsWhole'
    BY <1>4, <1>5 DEF BrowserInv, LoadsAreOfThePage, DataIsWhole, OnResults
  <2> QED
    BY <1>4, <2>1, LoadingKeepsInv
<1>6. CASE /\ ~l.cancelled /\ Cardinality(answer) < ResultsPageSize
           /\ loads' = loads \ {l}
           /\ data' = [comparison |-> l.comparison, results |-> l.got \cup answer, summary |-> l.summary]
  <2>1. l.got \cup answer = Rows(l.comparison)
    BY <1>2, <1>3, <1>6, AShortPageIsTheLast
  <2>2. DataIsWhole'
    BY <1>1, <1>4, <1>6, <2>1 DEF DataIsWhole, OnResults, Rows, Summary
  <2>3. LoadsAreOfThePage'
    BY <1>4, <1>6 DEF BrowserInv, LoadsAreOfThePage, OnResults
  <2> QED
    BY <1>4, <2>2, <2>3, LoadingKeepsInv
<1>7. CASE loads' = (loads \ {l}) \cup {next} /\ UNCHANGED data
  <2>1. l.got \cup answer \subseteq DiffRows
    BY <1>2, RowsAreASequence DEF ServeResults, Rows
  <2>2. /\ next \in Loads /\ next.summary = Summary(next.comparison)
        /\ next.got = FirstRows(next.comparison, next.offset)
        /\ ~next.cancelled => OnResults /\ next.comparison = page.id
    <3>1. /\ next.comparison = l.comparison /\ next.summary = l.summary /\ next.cancelled = l.cancelled
          /\ next.offset = l.offset + ResultsPageSize /\ next.got = l.got \cup answer
      BY <1>1 DEF Loads
    <3>2. next \in Loads
      <4>1. l.offset + ResultsPageSize \in Nat
        BY <1>2, BrowserAssumption
      <4> HIDE DEF answer
      <4> QED
        BY <1>1, <2>1, <4>1 DEF Loads
    <3> QED
      BY <1>1, <1>3, <3>1, <3>2
  <2>3. LoadsAreOfThePage'
    <3> HIDE DEF next
    <3> QED
      BY <1>4, <1>7, <2>2 DEF BrowserInv, LoadsAreOfThePage, OnResults
  <2>4. DataIsWhole'
    BY <1>4, <1>7 DEF BrowserInv, DataIsWhole, OnResults
  <2> QED
    BY <1>4, <2>3, <2>4, LoadingKeepsInv
<1> QED
  BY <1>5, <1>6, <1>7 DEF PageArrives

-----------------------------------------------------------------------------
\* The tree: what is checked in the results of the page is checked for its comparison.
LEMMA CheckKeepsInv ==
    ASSUME BrowserInv, NEW c \in Comparisons, NEW keys \in SUBSET Key(c), NEW to \in BOOLEAN, Check(keys, to)
    PROVE  BrowserInv'
<1> USE DEF BrowserInv
<1>1. /\ page.at = "results" /\ page.id \in Comparisons /\ selection.active = page.id
      /\ keys \subseteq SomeKeys
      /\ UNCHANGED <<jobs, page, flow, draft, run, loads, data, of>>
  BY RowsAreASequence DEF Check, PagesHaveResults, OnResults, ResultsPageClaims
<1>2. /\ selection' \in Selections /\ selection'.active = page.id
      /\ checked' \subseteq SomeKeys \X Comparisons
      /\ \A k \in selection'.selected : <<k, page.id>> \in checked'
  <2>1. selection \in Selections /\ checked \subseteq SomeKeys \X Comparisons
        /\ \A k \in selection.selected : <<k, page.id>> \in checked
    BY <1>1 DEF StoresOK, SelectionIsOfOneComparison
  <2>2. CASE to
    <3>1. /\ selection' = [selection EXCEPT !.selected = selection.selected \cup keys]
          /\ checked' = {p \in checked : p[1] \notin keys} \cup (keys \X {page.id})
      BY <2>2 DEF Check
    <3> QED
      BY <1>1, <2>1, <3>1 DEF Selections
  <2>3. CASE ~to
    <3>1. /\ selection' = [selection EXCEPT !.selected = selection.selected \ keys]
          /\ checked' = {p \in checked : p[1] \notin keys}
      BY <2>3 DEF Check
    <3> QED
      BY <1>1, <2>1, <3>1 DEF Selections
  <2> QED
    BY <2>2, <2>3
<1>3. StoresOK' /\ PagesHaveResults' /\ ResultsPageClaims' /\ FlowIsClaimed' /\ RunFollowsItsSocket'
  BY <1>1, <1>2 DEF StoresOK, PagesHaveResults, OnResults, ResultsPageClaims, FlowIsClaimed, RunFollowsItsSocket
<1>4. LoadsAreOfThePage' /\ DataIsWhole'
  BY <1>1 DEF LoadsAreOfThePage, DataIsWhole, OnResults
<1>5. SelectionIsOfOneComparison'
  BY <1>1, <1>2 DEF SelectionIsOfOneComparison
<1> QED
  BY <1>3, <1>4, <1>5

LEMMA UncheckKeepsInv ==
    ASSUME BrowserInv, NEW k, Uncheck(k)
    PROVE  BrowserInv'
<1> USE DEF BrowserInv
<1>1. /\ selection' = [selection EXCEPT !.selected = selection.selected \ {k}]
      /\ checked' = {p \in checked : p[1] # k}
      /\ UNCHANGED <<jobs, page, flow, draft, run, loads, data, of>>
  BY DEF Uncheck
<1>2. /\ selection' \in Selections /\ selection'.active = selection.active
      /\ checked' \subseteq SomeKeys \X Comparisons
      /\ \A n \in selection'.selected : <<n, selection.active>> \in checked'
  BY <1>1 DEF StoresOK, Selections, SelectionIsOfOneComparison
<1>3. StoresOK' /\ PagesHaveResults' /\ ResultsPageClaims' /\ FlowIsClaimed' /\ RunFollowsItsSocket'
  BY <1>1, <1>2 DEF StoresOK, PagesHaveResults, OnResults, ResultsPageClaims, FlowIsClaimed, RunFollowsItsSocket
<1>4. LoadsAreOfThePage' /\ DataIsWhole'
  BY <1>1 DEF LoadsAreOfThePage, DataIsWhole, OnResults
<1>5. SelectionIsOfOneComparison'
  BY <1>1, <1>2 DEF SelectionIsOfOneComparison
<1> QED
  BY <1>3, <1>4, <1>5

\* A deployment starts: of the comparison of the page, and it becomes the flow's.
LEMMA DeployKeepsInv ==
    ASSUME BrowserInv, NEW d \in FlowDeployments, Deploy(d)
    PROVE  BrowserInv'
<1> USE DEF BrowserInv
<1>1. /\ page.at = "deploy" /\ page.id \in Comparisons /\ jobs[page.id] = "succeeded" /\ of[d] = Nil
      /\ data # Nil /\ ShownKeys = Key(page.id)
      /\ UNCHANGED <<jobs, selection, run, checked>>
  BY DEF Deploy, PagesHaveResults, OnResults, DataIsWhole, ShownKeys, Rows, Key
<1>2. LoadsAreOfThePage' /\ DataIsWhole' /\ page' = PageAt("detail", d)
  BY GoingLoadsAnew DEF Deploy, PageAt, PageNames
<1>3. flow' \in Flows /\ of' \in [FlowDeployments -> SomeComparison] /\ FlowIsClaimed'
  <2>1. of' = [of EXCEPT ![d] = page.id] /\ flow' = [FlowOf(page.id) EXCEPT !.deploymentId = d]
    BY DEF Deploy
  <2>2. flow' \in Flows /\ flow'.comparisonId = page.id /\ flow'.deploymentId = d
    BY <1>1, <2>1 DEF FlowOf, StoresOK, Flows, SomeComparison
  <2>3. of' \in [FlowDeployments -> SomeComparison] /\ of'[d] = page.id
    BY <1>1, <2>1 DEF StoresOK, SomeComparison
  <2> QED
    BY <1>1, <2>2, <2>3, BrowserAssumption DEF FlowIsClaimed
<1>4. /\ draft' \in Drafts /\ draft'.comparisonId = page.id /\ draft'.from = selection.active
      /\ draft'.components = selection.selected \cap Key(page.id)
      /\ draft'.checked = {k \in selection.selected : <<k, page.id>> \in checked}
  BY <1>1, RowsAreASequence DEF Deploy, StoresOK, Selections, Drafts, SomeComparison
<1>5. StoresOK'
  BY <1>1, <1>2, <1>3, <1>4 DEF StoresOK, PageAt, PageNames
<1>6. PagesHaveResults' /\ ResultsPageClaims' /\ RunFollowsItsSocket'
  BY <1>1, <1>2 DEF PagesHaveResults, OnResults, ResultsPageClaims, RunFollowsItsSocket, PageAt
<1>7. SelectionIsOfOneComparison'
  BY <1>1, <1>4 DEF SelectionIsOfOneComparison
<1> QED
  BY <1>2, <1>3, <1>5, <1>6, <1>7

\* The draft is deployed again: of its own comparison, and no part of the flow.
LEMMA RedeployKeepsInv ==
    ASSUME BrowserInv, NEW d \in FlowDeployments, Redeploy(d)
    PROVE  BrowserInv'
<1> USE DEF BrowserInv
<1>1. /\ of[d] = Nil /\ of' = [of EXCEPT ![d] = draft.comparisonId]
      /\ UNCHANGED <<jobs, flow, selection, draft, run, checked>>
  BY DEF Redeploy
<1>2. LoadsAreOfThePage' /\ DataIsWhole' /\ page' = PageAt("detail", d)
  BY GoingLoadsAnew DEF Redeploy, PageAt, PageNames
<1>3. of' \in [FlowDeployments -> SomeComparison]
  BY <1>1 DEF StoresOK, Drafts
<1>4. FlowIsClaimed'
  BY <1>1 DEF FlowIsClaimed, StoresOK, Flows
<1>5. StoresOK'
  BY <1>1, <1>2, <1>3 DEF StoresOK, PageAt, PageNames
<1>6. PagesHaveResults' /\ ResultsPageClaims' /\ RunFollowsItsSocket'
  BY <1>1, <1>2 DEF PagesHaveResults, OnResults, ResultsPageClaims, RunFollowsItsSocket, PageAt
<1>7. SelectionIsOfOneComparison'
  BY <1>1 DEF SelectionIsOfOneComparison
<1> QED
  BY <1>2, <1>4, <1>5, <1>6, <1>7

\* The tab is reloaded: empty stores, and the page of the address bar.
LEMMA ReopenKeepsInv ==
    ASSUME BrowserInv, Reopen
    PROVE  BrowserInv'
<1> USE DEF BrowserInv
<1>1. /\ data' = Nil /\ run' = Idle /\ checked' = {}
      /\ page' = IF page.at = "types" THEN PageAt("sources", Nil) ELSE page
      /\ loads' = IF OnResults THEN {Load(page.id)} ELSE {}
      /\ selection' = [selected |-> {}, active |-> IF page.at = "results" THEN page.id ELSE Nil]
      /\ draft' = [comparisonId |-> Nil, components |-> {}, from |-> Nil, checked |-> {}]
      /\ flow' = [[flow EXCEPT !.comparisonId = Nil, !.deploymentId = Nil] EXCEPT !.sources = FALSE]
      /\ UNCHANGED <<jobs, of>>
  BY DEF Reopen, OnResults, SetSources, FlowOf
<1>2. /\ page' \in [at : PageNames, id : SomeComparison \cup FlowDeployments]
      /\ (OnResults' = OnResults) /\ (OnResults => page' = page)
      /\ page'.at = "results" => page.at = "results" /\ page' = page
  BY <1>1 DEF StoresOK, OnResults, PageAt, PageNames, SomeComparison
<1>3. /\ selection' \in Selections /\ draft' \in Drafts /\ run' \in RunStates /\ flow' \in Flows
      /\ flow'.comparisonId = Nil /\ flow'.deploymentId = Nil
  BY <1>1 DEF StoresOK, PagesHaveResults, OnResults, Selections, Drafts, RunStates, Idle, Flows, SomeComparison
<1>4. StoresOK'
  BY <1>1, <1>2, <1>3 DEF StoresOK
<1>5. PagesHaveResults' /\ ResultsPageClaims' /\ FlowIsClaimed' /\ RunFollowsItsSocket'
  BY <1>1, <1>2, <1>3 DEF PagesHaveResults, ResultsPageClaims, FlowIsClaimed, RunFollowsItsSocket, Idle
<1>6. LoadsAreOfThePage' /\ DataIsWhole'
  <2>1. CASE OnResults
    <3>1. /\ page.id \in Comparisons /\ loads' = {Load(page.id)} /\ OnResults' /\ page' = page
      BY <1>1, <1>2, <2>1 DEF PagesHaveResults
    <3>2. FirstRows(page.id, 0) = {}
      <4>1. \A m \in DOMAIN DiffResults[page.id] : ~(m <= 0)
        BY <3>1, RowsAreASequence
      <4> QED
        BY <4>1 DEF FirstRows
    <3>3. Load(page.id) \in Loads
      BY <3>1 DEF Load, Loads
    <3>4. /\ Load(page.id).comparison = page.id /\ Load(page.id).summary = Nil
          /\ Load(page.id).got = FirstRows(page.id, Load(page.id).offset)
      BY <3>2 DEF Load
    <3>5. LoadsAreOfThePage'
      BY <3>1, <3>3, <3>4 DEF LoadsAreOfThePage
    <3> QED
      BY <1>1, <3>5 DEF DataIsWhole
  <2>2. CASE ~OnResults
    BY <1>1, <2>2 DEF LoadsAreOfThePage, DataIsWhole
  <2> QED
    BY <2>1, <2>2
<1>7. SelectionIsOfOneComparison'
  BY <1>1 DEF SelectionIsOfOneComparison
<1> QED
  BY <1>4, <1>5, <1>6, <1>7

-----------------------------------------------------------------------------
LEMMA BrowserStepHolds ==
    ASSUME BrowserInv, [BNext]_bvars
    PROVE  BrowserInv'
<1>1. CASE OpenSources \/ ChooseSources \/ OpenTypes \/ OpenReview
  BY <1>1, NavigatingKeepsInv
<1>2. CASE Reopen
  BY <1>2, ReopenKeepsInv
<1>3. CASE RunStarts \/ RunFails \/ RunCancel
  BY <1>3, RunningKeepsInv
<1>4. CASE RunMessage
  BY <1>4, RunMessageKeepsInv
<1>5. ASSUME NEW l \in loads, SummaryArrives(l) \/ PageArrives(l) PROVE BrowserInv'
  BY <1>5, SummaryArrivesKeepsInv, PageArrivesKeepsInv
<1>6. ASSUME NEW c \in Comparisons, OpenResults(c) PROVE BrowserInv'
  BY <1>6, OpenResultsKeepsInv
<1>7. ASSUME NEW c \in Comparisons, OpenDeploy(c) PROVE BrowserInv'
  BY <1>7, NavigatingKeepsInv
<1>8. ASSUME NEW c \in Comparisons, Run(c) \/ ComparisonEnds(c) PROVE BrowserInv'
  BY <1>8, RunningKeepsInv
<1>9. ASSUME NEW c \in Comparisons, NEW keys \in SUBSET Key(c), NEW to \in BOOLEAN, Check(keys, to)
      PROVE  BrowserInv'
  BY <1>9, CheckKeepsInv
<1>10. ASSUME NEW c \in Comparisons, NEW k \in Key(c), Uncheck(k) PROVE BrowserInv'
  BY <1>10, UncheckKeepsInv
<1>11. ASSUME NEW d \in FlowDeployments, Deploy(d) PROVE BrowserInv'
  BY <1>11, DeployKeepsInv
<1>12. ASSUME NEW d \in FlowDeployments, OpenDeployment(d) PROVE BrowserInv'
  BY <1>12, NavigatingKeepsInv
<1>13. ASSUME NEW d \in FlowDeployments, Redeploy(d) PROVE BrowserInv'
  BY <1>13, RedeployKeepsInv
<1>14. CASE UNCHANGED bvars
  BY <1>14 DEF bvars, BrowserInv, StoresOK, PagesHaveResults, OnResults, ResultsPageClaims, FlowIsClaimed,
               RunFollowsItsSocket, LoadsAreOfThePage, DataIsWhole, SelectionIsOfOneComparison
<1> QED
  BY <1>1, <1>2, <1>3, <1>4, <1>5, <1>6, <1>7, <1>8, <1>9, <1>10, <1>11, <1>12, <1>13, <1>14 DEF BNext

\* The strengthened invariant is one: it holds at first and every step keeps it.
THEOREM BrowserInvariance == BSpec => []BrowserInv
<1> QED
  BY BrowserInitHolds, BrowserStepHolds, PTL DEF BSpec

\* What the stores, the page, the run and the jobs of any state are made of.
THEOREM StoresCorrect == BSpec => []StoresOK
<1>1. BrowserInv => StoresOK
  BY DEF BrowserInv
<1> QED
  BY <1>1, BrowserInvariance, PTL

\* useComparisonResult: the results on the screen are all the results of the
\* comparison in the address bar and add up to the counts over them, wherever
\* the pages end and whatever loads of other comparisons were on their way.
THEOREM ResultsShownAreOwn == BSpec => []ShownResultsAreOwn
<1>1. ASSUME BrowserInv, data # Nil
      PROVE  /\ data.comparison = page.id /\ ShownKeys = Key(page.id)
             /\ \A s \in DiffStatus : Cardinality({row \in data.results : row.status = s}) = data.summary[s]
  <2>1. /\ page.id \in Comparisons /\ data.comparison = page.id
        /\ data.results = Rows(page.id) /\ data.summary = Summary(page.id)
    BY <1>1 DEF BrowserInv, DataIsWhole, PagesHaveResults
  <2>2. ShownKeys = Key(page.id)
    BY <2>1 DEF ShownKeys, Rows, Key
  <2> QED
    BY <2>1, <2>2, SummaryCounts
<1>2. BrowserInv => ShownResultsAreOwn
  BY <1>1 DEF ShownResultsAreOwn
<1> QED
  BY <1>2, BrowserInvariance, PTL

\* ensureComparison, the tree and the draft: what is selected was checked in the
\* results of one comparison, and what is drafted is of the results of its own.
THEOREM SelectionsAreOfOneComparison == BSpec => []SelectionIsOfOneComparison
<1>1. BrowserInv => SelectionIsOfOneComparison
  BY DEF BrowserInv
<1> QED
  BY <1>1, BrowserInvariance, PTL

\* The wizard: the comparison the flow claims has succeeded, its deployment is of
\* that comparison, and no step leads to results that are not there.
THEOREM FlowsAreOneFlow == BSpec => []FlowIsOneFlow
<1>1. BrowserInv => FlowIsOneFlow
  <2> SUFFICES ASSUME BrowserInv PROVE FlowIsOneFlow
    OBVIOUS
  <2>1. \A step \in Steps : step.at \in {"results", "deploy"} => jobs[step.id] = "succeeded"
    BY StepsLeadSomewhere
  <2> QED
    BY <2>1 DEF BrowserInv, FlowIsClaimed, FlowIsOneFlow
<1> QED
  BY <1>1, BrowserInvariance, PTL

-----------------------------------------------------------------------------
\* LiveDeployments.

\* The shape of the whole state.
Whole ==
    /\ DTypeOK
    /\ chain \in [Deployments -> {"none", "building", "starting", "done"}]
    /\ socket \in [Deployments -> {"none", "open", "closed"}]
    /\ cancels \in [Deployments -> {"none", "sent", "heard", "settled"}]

\* A row that ended stays as it is, so a poll of it is not stale.
PolledEndsAreEnds == \A d \in Deployments : cached[d] \in Ended => cached[d] = rows[d]

\* Who awaits the answer to a cancel has canceled in this tab.
CancelsAreOwn == \A d \in Deployments : cancels[d] \in {"sent", "heard"} => d \in crossed

\* The overlay says of a deployment that it failed or was canceled when its job
\* did so, or when this tab lost sight of it.
OverlaidEndsAreEnds ==
    \A d \in Deployments : (d \notin crossed /\ live[d] \in {"failed", "canceled"}) => live[d] = rows[d]

LiveInv ==
    /\ Whole
    /\ PolledEndsAreEnds
    /\ CancelsAreOwn
    /\ OverlaidEndsAreEnds

-----------------------------------------------------------------------------
\* The overlay shows an end of its own, or that of the row as last polled.
LEMMA ShownEndsHaveASource ==
    ASSUME Whole, NEW d \in Deployments, Shown(d) \in Ended
    PROVE  Shown(d) = cached[d] \/ (live[d] \in {"failed", "canceled"} /\ Shown(d) = live[d])
<1>1. live[d] \in Phase \cup {Nothing}
  BY DEF Whole, DTypeOK
<1>2. CASE live[d] \in {Nothing, "done"}
  BY <1>2, LiveDeploymentsAssumption DEF Shown, Overlay, Phase
<1>3. CASE live[d] \in {"failed", "canceled"}
  BY <1>3, LiveDeploymentsAssumption DEF Shown, Overlay, Phase
<1>4. CASE live[d] = "running"
  BY <1>4, LiveDeploymentsAssumption DEF Shown, Overlay, Phase, Ended
<1>5. CASE live[d] = "starting"
  BY <1>5, LiveDeploymentsAssumption DEF Shown, Overlay, Phase, Ended
<1> QED
  BY <1>1, <1>2, <1>3, <1>4, <1>5 DEF Phase

\* patchLive: it changes one overlay at most, and only to the phase it is given.
LEMMA PatchesOne ==
    ASSUME Whole, NEW d \in Deployments, NEW phase \in Phase, PatchLive(d, phase)
    PROVE  /\ live' \in [Deployments -> Phase \cup {Nothing}]
           /\ live'[d] \in {live[d], phase}
           /\ \A e \in Deployments \ {d} : live'[e] = live[e]
BY DEF Whole, DTypeOK, PatchLive

LEMMA LiveInitHolds == DInit => LiveInv
BY LiveDeploymentsAssumption
   DEF DInit, LiveInv, Whole, DTypeOK, PolledEndsAreEnds, CancelsAreOwn, OverlaidEndsAreEnds,
       RowStatus, Phase, Ended

\* The rows of the server: no step takes back or changes an end.
LEMMA EndsAreFinal ==
    ASSUME LiveInv, [DNext]_dvars
    PROVE  /\ rows' \in [Deployments -> RowStatus \cup {Nothing}]
           /\ \A d \in Deployments : rows[d] \in Ended => rows'[d] = rows[d]
<1> USE DEF LiveInv, Whole, DTypeOK
<1>1. ASSUME NEW d \in Deployments, RowInserted(d)
      PROVE  /\ rows' \in [Deployments -> RowStatus \cup {Nothing}]
             /\ \A e \in Deployments : rows[e] \in Ended => rows'[e] = rows[e]
  BY <1>1, LiveDeploymentsAssumption DEF RowInserted, RowStatus, Ended
<1>2. ASSUME NEW d \in Deployments, JobMoves(d)
      PROVE  /\ rows' \in [Deployments -> RowStatus \cup {Nothing}]
             /\ \A e \in Deployments : rows[e] \in Ended => rows'[e] = rows[e]
  BY <1>2 DEF JobMoves, RowStatus, Ended
<1>3. ASSUME NEW d \in Deployments,
             \/ Start(d) \/ ChainFails(d) \/ SocketLost(d) \/ Cancel(d) \/ Poll(d)
             \/ Built(d) \/ Started(d) \/ Message(d) \/ CancelHeard(d) \/ CancelSettles(d)
      PROVE  rows' = rows
  BY <1>3 DEF Start, ChainFails, SocketLost, Cancel, Poll, Built, Started, Message, CancelHeard, CancelSettles
<1>4. (Reload \/ UNCHANGED dvars) => rows' = rows
  BY DEF Reload, dvars
<1> QED
  BY <1>1, <1>2, <1>3, <1>4 DEF DNext, Moves

-----------------------------------------------------------------------------
\* The calls that start a deployment, up to the socket that follows its job.
LEMMA StartingKeepsInv ==
    ASSUME LiveInv, NEW d \in Deployments,
           Start(d) \/ Built(d) \/ RowInserted(d) \/ Started(d) \/ ChainFails(d)
    PROVE  LiveInv'
<1> USE DEF LiveInv
<1>1. /\ rows' \in [Deployments -> RowStatus \cup {Nothing}]
      /\ \A e \in Deployments : rows[e] \in Ended => rows'[e] = rows[e]
  BY EndsAreFinal DEF DNext, Moves
<1>2. /\ live' \in [Deployments -> Phase \cup {Nothing}]
      /\ \A e \in Deployments \ {d} : live'[e] = live[e]
      /\ live'[d] \in {live[d], "starting", "running", "failed"}
      /\ crossed' \subseteq Deployments /\ crossed \subseteq crossed'
      /\ d \notin crossed' => live'[d] \in {live[d], "starting", "running"}
      /\ UNCHANGED <<cached, cancels>>
  <2>1. CASE Start(d)
    BY <2>1 DEF Start, Whole, DTypeOK, Phase
  <2>2. CASE Built(d) \/ RowInserted(d)
    BY <2>2 DEF Built, RowInserted, Whole, DTypeOK
  <2>3. CASE Started(d)
    <3>1. PatchLive(d, "running") /\ UNCHANGED <<cached, cancels, crossed>>
      BY <2>3 DEF Started
    <3> QED
      BY <3>1, PatchesOne DEF Whole, DTypeOK, Phase
  <2>4. CASE ChainFails(d)
    <3>1. PatchLive(d, "failed") /\ crossed' = crossed \cup {d} /\ UNCHANGED <<cached, cancels>>
      BY <2>4 DEF ChainFails, Trouble
    <3> QED
      BY <3>1, PatchesOne DEF Whole, DTypeOK, Phase
  <2> QED
    BY <2>1, <2>2, <2>3, <2>4
<1>3. /\ chain' \in [Deployments -> {"none", "building", "starting", "done"}]
      /\ socket' \in [Deployments -> {"none", "open", "closed"}]
      /\ \A e \in Deployments : socket'[e] = "open" => chain'[e] = "done"
      /\ troubles' \in 0 .. MaxTroubles
  BY LiveDeploymentsAssumption DEF Start, Built, RowInserted, Started, ChainFails, Trouble, Whole, DTypeOK
<1>4. Whole'
  BY <1>1, <1>2, <1>3 DEF Whole, DTypeOK
<1>5. PolledEndsAreEnds' /\ CancelsAreOwn'
  BY <1>1, <1>2 DEF PolledEndsAreEnds, CancelsAreOwn
<1>6. OverlaidEndsAreEnds'
  BY <1>1, <1>2 DEF OverlaidEndsAreEnds, Ended
<1> QED
  BY <1>4, <1>5, <1>6

\* The job moves, and what it says arrives or is lost.
LEMMA FollowingKeepsInv ==
    ASSUME LiveInv, NEW d \in Deployments, JobMoves(d) \/ Message(d) \/ SocketLost(d)
    PROVE  LiveInv'
<1> USE DEF LiveInv
<1>1. /\ rows' \in [Deployments -> RowStatus \cup {Nothing}]
      /\ \A e \in Deployments : rows[e] \in Ended => rows'[e] = rows[e]
  BY EndsAreFinal DEF DNext, Moves
<1>2. /\ live' \in [Deployments -> Phase \cup {Nothing}]
      /\ \A e \in Deployments \ {d} : live'[e] = live[e]
      /\ crossed' \subseteq Deployments /\ crossed \subseteq crossed'
      /\ (d \notin crossed' /\ live'[d] # live[d]) => live'[d] \in {"done", "running", rows[d]}
      /\ UNCHANGED <<chain, cached, cancels>>
  <2>1. CASE JobMoves(d)
    BY <2>1 DEF JobMoves, Whole, DTypeOK
  <2>2. CASE Message(d)
    <3>1. PhaseOf(rows[d]) \in Phase /\ PhaseOf(rows[d]) \in {"done", "running", rows[d]}
      BY DEF PhaseOf, Phase
    <3>2. PatchLive(d, PhaseOf(rows[d])) /\ UNCHANGED <<chain, cached, cancels, crossed>>
      BY <2>2 DEF Message
    <3> QED
      BY <3>1, <3>2, PatchesOne DEF Whole, DTypeOK
  <2>3. CASE SocketLost(d)
    <3>1. PatchLive(d, "failed") \/ UNCHANGED live
      BY <2>3 DEF SocketLost
    <3>2. crossed' = crossed \cup {d} /\ UNCHANGED <<chain, cached, cancels>>
      BY <2>3 DEF SocketLost, Trouble
    <3> QED
      BY <3>1, <3>2, PatchesOne DEF Whole, DTypeOK, Phase
  <2> QED
    BY <2>1, <2>2, <2>3
<1>3. /\ socket' \in [Deployments -> {"none", "open", "closed"}]
      /\ \A e \in Deployments : socket'[e] = "open" => socket[e] = "open"
      /\ troubles' \in 0 .. MaxTroubles
  BY LiveDeploymentsAssumption DEF JobMoves, Message, SocketLost, Trouble, Whole, DTypeOK
<1>4. Whole'
  BY <1>1, <1>2, <1>3 DEF Whole, DTypeOK
<1>5. PolledEndsAreEnds' /\ CancelsAreOwn'
  BY <1>1, <1>2 DEF PolledEndsAreEnds, CancelsAreOwn
<1>6. OverlaidEndsAreEnds'
  BY <1>1, <1>2 DEF OverlaidEndsAreEnds, Ended
<1> QED
  BY <1>4, <1>5, <1>6

\* The user cancels, and the server answers: from then on the tab shows its own end.
LEMMA CancelingKeepsInv ==
    ASSUME LiveInv, NEW d \in Deployments, Cancel(d) \/ CancelHeard(d) \/ CancelSettles(d)
    PROVE  LiveInv'
<1> USE DEF LiveInv
<1>1. /\ cancels' \in [Deployments -> {"none", "sent", "heard", "settled"}]
      /\ \A e \in Deployments \ {d} : cancels'[e] = cancels[e]
      /\ crossed' = crossed \cup {d}
      /\ UNCHANGED <<rows, chain, socket, cached, troubles>>
  BY DEF Cancel, CancelHeard, CancelSettles, Whole, DTypeOK, CancelsAreOwn
<1>2. /\ live' \in [Deployments -> Phase \cup {Nothing}]
      /\ \A e \in Deployments \ {d} : live'[e] = live[e]
  <2>1. PatchLive(d, "canceled") \/ UNCHANGED live
    BY DEF Cancel, CancelHeard, CancelSettles
  <2> QED
    BY <2>1, PatchesOne DEF Whole, DTypeOK, Phase
<1>3. Whole'
  BY <1>1, <1>2 DEF Whole, DTypeOK
<1>4. PolledEndsAreEnds' /\ CancelsAreOwn' /\ OverlaidEndsAreEnds'
  BY <1>1, <1>2 DEF PolledEndsAreEnds, CancelsAreOwn, OverlaidEndsAreEnds
<1> QED
  BY <1>3, <1>4

\* The row is polled, or the tab reloaded: what it forgets it can no longer show.
LEMMA RefreshingKeepsInv ==
    ASSUME LiveInv, (\E d \in Deployments : Poll(d)) \/ Reload \/ UNCHANGED dvars
    PROVE  LiveInv'
<1> USE DEF LiveInv
<1>1. ASSUME NEW d \in Deployments, Poll(d) PROVE LiveInv'
  BY <1>1 DEF Poll, Whole, DTypeOK, PolledEndsAreEnds, CancelsAreOwn, OverlaidEndsAreEnds
<1>2. CASE Reload
  <2>1. Whole'
    BY <1>2, LiveDeploymentsAssumption DEF Reload, Whole, DTypeOK
  <2>2. PolledEndsAreEnds' /\ CancelsAreOwn' /\ OverlaidEndsAreEnds'
    BY <1>2, LiveDeploymentsAssumption
       DEF Reload, PolledEndsAreEnds, CancelsAreOwn, OverlaidEndsAreEnds, RowStatus, Phase, Ended, Whole
  <2> QED
    BY <2>1, <2>2
<1>3. CASE UNCHANGED dvars
  BY <1>3 DEF dvars, Whole, DTypeOK, PolledEndsAreEnds, CancelsAreOwn, OverlaidEndsAreEnds
<1> QED
  BY <1>1, <1>2, <1>3

-----------------------------------------------------------------------------
\* The strengthened invariant is one: it holds at first and every step keeps it.
THEOREM LiveInvariance == DSpec => []LiveInv
<1>1. ASSUME LiveInv, [DNext]_dvars PROVE LiveInv'
  BY <1>1, StartingKeepsInv, FollowingKeepsInv, CancelingKeepsInv, RefreshingKeepsInv DEF DNext, Moves
<1> QED
  BY <1>1, LiveInitHolds, PTL DEF DSpec

\* What the rows, the overlays and the calls of any state are made of.
THEOREM LiveTypeCorrect == DSpec => []DTypeOK
<1>1. LiveInv => DTypeOK
  BY DEF LiveInv, Whole
<1> QED
  BY <1>1, LiveInvariance, PTL

\* withLiveOverlay: whichever of the poll, the message and the answers comes
\* first, a tab that neither canceled a deployment nor lost a call or a socket
\* of it shows no end but the one the server's row has.
THEOREM ShownEndsAreEnds == DSpec => []NothingEndsBeforeItEnds
<1>1. LiveInv => NothingEndsBeforeItEnds
  BY ShownEndsHaveASource
     DEF LiveInv, NothingEndsBeforeItEnds, PolledEndsAreEnds, OverlaidEndsAreEnds
<1> QED
  BY <1>1, LiveInvariance, PTL

================================================================================
