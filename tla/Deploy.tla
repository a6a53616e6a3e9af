-------------------------------- MODULE Deploy --------------------------------
(***************************************************************************)
(* Deployments: trpc/routers/deploy.ts and history.ts of the server over   *)
(* core's deploy/ and package/rollback.ts.  A deployment is a row, a job   *)
(* with an in-process handler that awaits the target org several times,    *)
(* and a request the org works on by itself; its rollback is computed from *)
(* what the handler recorded.  Each action is the handler's stretch from   *)
(* one await to the next, a tRPC call, or the org acting.                  *)
(***************************************************************************)
EXTENDS Naturals, FiniteSets

CONSTANTS
    Deployments,            \* deployment ids
    Keys,                   \* component keys of the target org
    Contents,               \* canonical contents, named by their sha256
    Absent,                 \* what a key without a component holds
    NoRow,                  \* what is recorded of a key with no component row
    Bundles,                \* keys of multi-file types, which no snapshot restores
    Packages,               \* the packages buildPackage has saved
    Desired,                \* the source connection's content of each key
    Orgs,                   \* what the target org may hold to begin with
    ListingsFail,           \* bound: whether a listing may be among the failures
    MaxFaults,              \* bound: failed calls, unreadable or lost components
    MaxEdits                \* bound: changes to the org made by somebody else

ASSUME ValuesAssumption == Absent \notin Contents /\ NoRow \notin Contents \union {Absent}
ASSUME BundlesAssumption == Bundles \subseteq Keys
ASSUME PackagesAssumption ==
    /\ Packages \subseteq [components : SUBSET Keys, destructive : SUBSET Keys]
    /\ \A p \in Packages : /\ p.components \intersect p.destructive = {}
                           /\ p.components \union p.destructive # {}
ASSUME DesiredAssumption == Desired \in [Keys -> Contents]
ASSUME OrgsAssumption == Orgs \subseteq [Keys -> Contents \union {Absent}]
ASSUME BoundsAssumption == MaxFaults \in Nat /\ MaxEdits \in Nat

VARIABLES
    org,                    \* the target org: what each key holds
    edits, faults,
    row,                    \* deployments.status, "absent" before the insert
    checkOnly,              \* deployments.checkOnly
    package,                \* the package deployed: components and destructive
    content,                \* what `components' are materialized from
    saved,                  \* deployments a rollback package was saved for ...
    inverse,                \* ... and that package
    quick,                  \* deployments of a validation already made
    rollbackOf,             \* the deployment a deployment rolls back, or itself
    before,                 \* deployment_components.before*: Absent, a content, NoRow
    pc,                     \* the await the handler is at
    listed, pre,            \* capture: the inventory, and the state found so far
    files,                  \* what materialize() gave runDeploy
    request,                \* the org's own record of the request
    cancelSent,             \* deployments whose deployOp.cancel() was called
    job,                    \* jobs.status
    aborted,                \* jobs whose signal is aborted
    acked,                  \* jobs for which cancel() returned true
    held,                   \* what the org held when a request was applied
    disturbed               \* deployments others changed the org under

rowVars == <<row, checkOnly, package, content, saved, inverse, quick, rollbackOf, before>>
runVars == <<pc, listed, pre, files>>
jobVars == <<job, aborted, acked>>
worldVars == <<org, edits, request, cancelSent, held, disturbed>>
vars == <<rowVars, runVars, jobVars, worldVars, faults>>

Lifecycle == INSTANCE JobLifecycle WITH Jobs <- Deployments, status <- job

Terminal == Lifecycle!Terminal
States == Contents \union {Absent}
NoPackage == [components |-> {}, destructive |-> {}]
Unrecorded == [k \in Keys |-> NoRow]
Touched(d) == package[d].components \union package[d].destructive
Running == {d \in Deployments : job[d] = "running"}

TypeOK ==
    /\ org \in [Keys -> States]
    /\ edits \in 0..MaxEdits /\ faults \in 0..MaxFaults
    /\ row \in [Deployments -> Lifecycle!JobStatus \union {"absent"}]
    /\ checkOnly \in [Deployments -> BOOLEAN]
    /\ package \in [Deployments -> [components : SUBSET Keys, destructive : SUBSET Keys]]
    /\ content \in [Deployments -> [Keys -> States]]
    /\ saved \in SUBSET Deployments /\ quick \in SUBSET Deployments
    /\ inverse \in [Deployments -> [components : SUBSET Keys, destructive : SUBSET Keys]]
    /\ rollbackOf \in [Deployments -> Deployments]
    /\ before \in [Deployments -> [Keys -> States \union {NoRow}]]
    /\ pc \in [Deployments -> {"none", "lookup", "inventory", "capture", "materialize", "submit",
                              "sent", "poll", "persist", "done"}]
    /\ listed \in [Deployments -> SUBSET Keys]
    /\ pre \in [Deployments -> [Keys -> States \union {NoRow}]]
    /\ files \in [Deployments -> SUBSET Keys]
    /\ request \in [Deployments -> {"none", "pending", "succeeded", "failed", "canceled"}]
    /\ cancelSent \in SUBSET Deployments
    /\ job \in [Deployments -> Lifecycle!JobStatus \union {"absent"}]
    /\ aborted \in SUBSET Deployments
    /\ acked \in SUBSET Deployments
    /\ held \in [Deployments -> [Keys -> States]]
    /\ disturbed \in SUBSET Deployments

Init ==
    /\ org \in Orgs
    /\ edits = 0 /\ faults = 0
    /\ row = [d \in Deployments |-> "absent"]
    /\ checkOnly = [d \in Deployments |-> FALSE]
    /\ package = [d \in Deployments |-> NoPackage]
    /\ content = [d \in Deployments |-> [k \in Keys |-> Absent]]
    /\ saved = {} /\ quick = {}
    /\ inverse = [d \in Deployments |-> NoPackage]
    /\ rollbackOf = [d \in Deployments |-> d]
    /\ before = [d \in Deployments |-> Unrecorded]
    /\ pc = [d \in Deployments |-> "none"]
    /\ listed = [d \in Deployments |-> {}]
    /\ pre = [d \in Deployments |-> Unrecorded]
    /\ files = [d \in Deployments |-> {}]
    /\ request = [d \in Deployments |-> "none"]
    /\ cancelSent = {}
    /\ job = [d \in Deployments |-> "absent"]
    /\ aborted = {}
    /\ acked = {}
    /\ held = [d \in Deployments |-> [k \in Keys |-> Absent]]
    /\ disturbed = {}

Goto(d, at) == pc' = [pc EXCEPT ![d] = at]
Fault == faults < MaxFaults /\ faults' = faults + 1

(***************************************************************************)
(* Starting one.                                                           *)
(***************************************************************************)

(* The insert, enqueue() and the handler up to its first await.  The row   *)
(* runs and a real deployment captures first; or the target is gone or no  *)
(* org, and the handler is about to throw inside its try.                  *)
Begin(d, p, check, source, after) ==
    /\ row[d] = "absent"
    /\ checkOnly' = [checkOnly EXCEPT ![d] = check]
    /\ package' = [package EXCEPT ![d] = p]
    /\ content' = [content EXCEPT ![d] = source]
    /\ job' = [job EXCEPT ![d] = "running"]
    /\ \/ /\ row' = [row EXCEPT ![d] = "running"]
          /\ Goto(d, IF check \/ p = NoPackage THEN after ELSE "inventory")
          /\ UNCHANGED faults
       \/ /\ Fault
          /\ row' = [row EXCEPT ![d] = "queued"]
          /\ Goto(d, "lookup")
    /\ UNCHANGED <<saved, inverse, before, listed, pre, aborted, acked, worldVars>>

(* deploy.deploy and deploy.validate of a package built from a comparison. *)
Start(d) ==
    /\ \E p \in Packages, check \in BOOLEAN : Begin(d, p, check, Desired, "materialize")
    /\ UNCHANGED <<quick, rollbackOf, files>>

(* isQuickDeployable(), but for its ten days: a validation that succeeded  *)
(* and so has the id runDeploy() gives every validation.                   *)
IsQuickDeployable(v) == checkOnly[v] /\ row[v] = "succeeded"

(* deploy.status and history.get; history.list has the same of every row.  *)
DeploymentStatus(d) ==
    [status |-> row[d], quickDeployable |-> IsQuickDeployable(d),
     components |-> {k \in Keys : before[d][k] # NoRow}, packageComponents |-> package[d].components]
HistoryList == [d \in {e \in Deployments : row[e] # "absent"} |-> DeploymentStatus(d)]

(* deploy.quickDeploy of a validation v: nothing is materialized, the org  *)
(* deploys what v sent it.                                                 *)
StartQuick(d, v) ==
    /\ IsQuickDeployable(v)
    /\ Begin(d, package[v], FALSE, content[v], "submit")
    /\ files' = [files EXCEPT ![d] = files[v]]
    /\ quick' = quick \union {d}
    /\ UNCHANGED rollbackOf

(* generateRollbackPlan(): what was there before is restored, what was not *)
(* is deleted; a destructive entry with nothing recorded is skipped.       *)
RollbackPlan_IgnoresDestructive(p, was) ==
    [components  |-> {k \in p.components : was[k] \in Contents},
     destructive |-> {k \in p.components : was[k] \notin Contents}]
RollbackPlan(p, was) ==
    [components  |-> {k \in p.components \union p.destructive : was[k] \in Contents},
     destructive |-> {k \in p.components : was[k] \notin Contents}]

(* history.generateRollback(): refused for a validation, whatever the      *)
(* deployment's status.                                                    *)
GenerateRollback(d) ==
    /\ row[d] # "absent"
    /\ ~checkOnly[d]
    /\ saved' = saved \union {d}
    /\ inverse' = [inverse EXCEPT ![d] = RollbackPlan(package[d], before[d])]
    /\ UNCHANGED <<row, checkOnly, package, content, quick, rollbackOf, before, runVars,
                   jobVars, worldVars, faults>>

(* What SnapshotContentSource can give: the content a component row        *)
(* recorded, unless the component is a bundle.                             *)
RestoreContent(original) ==
    [k \in Keys |-> IF k \notin Bundles /\ before[original][k] \in Contents
                    THEN before[original][k] ELSE Absent]

(* Deploying (or validating) a saved rollback package: the content to      *)
(* restore is derived again from the component rows.                       *)
StartRollback(d, original) ==
    /\ d # original
    /\ original \in saved
    /\ \E check \in BOOLEAN :
          Begin(d, inverse[original], check, RestoreContent(original), "materialize")
    /\ rollbackOf' = [rollbackOf EXCEPT ![d] = original]
    /\ UNCHANGED <<quick, files>>

(***************************************************************************)
(* The handler.                                                            *)
(***************************************************************************)

(* The handler, with what it held, and then the job end. *)
End(d, rowStatus, jobStatus) ==
    /\ row' = [row EXCEPT ![d] = rowStatus]
    /\ job' = [job EXCEPT ![d] = jobStatus]
    /\ aborted' = aborted \ {d}
    /\ Goto(d, "done")
    /\ listed' = [listed EXCEPT ![d] = {}]
    /\ pre' = [pre EXCEPT ![d] = Unrecorded]
    /\ UNCHANGED <<checkOnly, package, content, saved, inverse, quick, rollbackOf, acked,
                   files, worldVars>>

(* The handler's throws: its catch writes the row, JobRunner's the job.    *)
Throws_RowForgotten(d, outcome) ==
    /\ End(d, row[d], outcome)
    /\ UNCHANGED before
Throws(d, outcome) ==
    /\ End(d, outcome, outcome)
    /\ UNCHANGED before

LookupFails(d) ==
    /\ pc[d] = "lookup"
    /\ Throws(d, "failed")
    /\ UNCHANGED faults

(* throwIfAborted() after the inventory and before each chunk but the      *)
(* first: one chunk more is to be read.                                    *)
ThrowsIfAborted(d) ==
    /\ \/ pc[d] = "inventory"
       \/ pc[d] = "capture" /\ \E k, l \in listed[d] : k # l
    /\ d \in aborted
    /\ Throws(d, "canceled")
    /\ UNCHANGED faults

(* A call the handler awaits is rejected. *)
CallFails(d) ==
    /\ pc[d] \in {"inventory", "capture", "materialize", "submit", "sent", "poll"}
    /\ Fault
    /\ Throws(d, "failed")

AfterCapture(d) == IF d \in quick THEN "submit" ELSE "materialize"

(* capturePreDeployState(), the inventory: the touched components the org  *)
(* lists; a listing that fails degrades to none of its type.               *)
Inventory(d) ==
    /\ pc[d] = "inventory"
    /\ d \notin aborted
    /\ \E seen \in SUBSET {k \in Touched(d) : org[k] # Absent} :
          /\ IF seen = {k \in Touched(d) : org[k] # Absent}
             THEN UNCHANGED faults
             ELSE ListingsFail /\ Fault
          /\ listed' = [listed EXCEPT ![d] = seen]
          /\ pre' = [pre EXCEPT ![d] = [k \in Keys |->
                        IF k \in Touched(d) \ seen THEN Absent ELSE NoRow]]
          /\ Goto(d, IF seen = {} THEN AfterCapture(d) ELSE "capture")
    /\ UNCHANGED <<rowVars, files, jobVars, worldVars>>

(* ... and a chunk of them: what could be read is stored under its hash;   *)
(* what could not is recorded as not existing.  An abort that comes while  *)
(* the last chunk is read is not noticed.                                  *)
ReadChunk(d, chunk, unread) ==
    [k \in Keys |-> IF k \in unread THEN Absent ELSE IF k \in chunk THEN org[k] ELSE pre[d][k]]
Capture_ContentAfterDeploy(d) ==
    /\ pc[d] = "capture"
    /\ pre' = [pre EXCEPT ![d] = [k \in Keys |-> IF k \in listed[d] THEN content[d][k] ELSE @[k]]]
    /\ listed' = [listed EXCEPT ![d] = {}]
    /\ Goto(d, AfterCapture(d))
    /\ UNCHANGED <<rowVars, files, jobVars, worldVars, faults>>
Capture(d) ==
    /\ pc[d] = "capture"
    /\ \E chunk \in SUBSET listed[d] \ {{}} :
          /\ chunk = listed[d] \/ d \notin aborted
          /\ \E unread \in SUBSET chunk :
                /\ IF unread = {} THEN UNCHANGED faults ELSE Fault
                /\ pre' = [pre EXCEPT ![d] = ReadChunk(d, chunk, unread)]
          /\ listed' = [listed EXCEPT ![d] = @ \ chunk]
          /\ Goto(d, IF chunk = listed[d] THEN AfterCapture(d) ELSE "capture")
    /\ UNCHANGED <<rowVars, files, jobVars, worldVars>>

(* runDeploy(), the content: a component the source cannot give is left    *)
(* out without a word.  The signal is not consulted.                       *)
Materialize(d) ==
    /\ pc[d] = "materialize"
    /\ LET available == {k \in package[d].components : content[d][k] \in Contents} IN
       \E got \in SUBSET available :
          /\ IF got = available THEN UNCHANGED faults ELSE Fault
          /\ files' = [files EXCEPT ![d] = got]
    /\ Goto(d, "submit")
    /\ UNCHANGED <<rowVars, listed, pre, jobVars, worldVars>>

(* The org takes a request ... *)
Accept(d) ==
    /\ pc[d] = "submit"
    /\ request' = [request EXCEPT ![d] = "pending"]
    /\ Goto(d, "sent")
    /\ UNCHANGED <<rowVars, listed, pre, files, jobVars, org, edits, cancelSent, held, disturbed, faults>>

(* ... of cs.deploy(), or of deployRecentValidation(), ... *)
Submit(d) == d \notin quick /\ Accept(d)
SubmitQuick(d) == d \in quick /\ Accept(d)

(* ... and only then is a listener put on the signal, which does not fire  *)
(* for a signal already aborted.                                           *)
Listen(d) ==
    /\ pc[d] = "sent"
    /\ Goto(d, "poll")
    /\ UNCHANGED <<rowVars, listed, pre, files, jobVars, worldVars, faults>>

(* pollStatus() resolves once the org is done. *)
PollReturns_AnyAnswer(d) ==
    /\ pc[d] = "poll"
    /\ Goto(d, "persist")
    /\ UNCHANGED <<rowVars, listed, pre, files, jobVars, worldVars, faults>>
PollReturns(d) ==
    /\ pc[d] = "poll"
    /\ request[d] \notin {"none", "pending"}
    /\ Goto(d, "persist")
    /\ UNCHANGED <<rowVars, listed, pre, files, jobVars, worldVars, faults>>

(* What the org answers of a request, and mapDeployStatus(). *)
Answer(r) == [canceled |-> r = "canceled", done |-> r # "pending", success |-> r = "succeeded"]
MapDeployStatus(a) ==
    IF a.canceled THEN "canceled"
    ELSE IF ~a.done THEN "in-progress"
    ELSE IF a.success THEN "succeeded" ELSE "failed"

(* The components getFileResponses() may report on. *)
Responses(d) ==
    LET sent == files[d] \union package[d].destructive
    IN  IF request[d] = "succeeded" THEN {sent} ELSE SUBSET sent

(* The component rows of a response: before* of those reported on. *)
ComponentRows(d, reported) == [k \in Keys |-> IF k \in reported THEN pre[d][k] ELSE NoRow]

(* The component rows, one for each component the org reported on, with    *)
(* its pre-deploy state, then the row's status; the job succeeds whatever  *)
(* that status is.                                                         *)
Persist_FailureIsSuccess(d) ==
    /\ pc[d] = "persist"
    /\ before' = [before EXCEPT ![d] =
                     ComponentRows(d, files[d] \union package[d].destructive)]
    /\ End(d, "succeeded", "succeeded")
    /\ UNCHANGED faults
Persist(d) ==
    /\ pc[d] = "persist"
    /\ \E reported \in Responses(d) :
          before' = [before EXCEPT ![d] = ComponentRows(d, reported)]
    /\ End(d, MapDeployStatus(Answer(request[d])), "succeeded")
    /\ UNCHANGED faults

Cancel_WithoutController(d) ==
    /\ row[d] # "absent"
    /\ d \notin aborted
    /\ aborted' = aborted \union {d}
    /\ acked' = acked \union {d}
    /\ cancelSent' = IF pc[d] = "poll" THEN cancelSent \union {d} ELSE cancelSent
    /\ UNCHANGED <<rowVars, runVars, job, org, edits, request, held, disturbed, faults>>

(* deploy.cancel(): needs a live controller; the org hears of it only      *)
(* through a listener already there.                                       *)
Cancel(d) ==
    /\ d \in Running
    /\ d \notin aborted
    /\ aborted' = aborted \union {d}
    /\ acked' = acked \union {d}
    /\ cancelSent' = IF pc[d] = "poll" THEN cancelSent \union {d} ELSE cancelSent
    /\ UNCHANGED <<rowVars, runVars, job, org, edits, request, held, disturbed, faults>>

(***************************************************************************)
(* The org (external): a request is applied as a whole, rolled back on an  *)
(* error, or canceled if it is asked to be in time.                        *)
(***************************************************************************)
Applied(d, state) ==
    [k \in Keys |-> IF k \in files[d] THEN content[d][k]
                    ELSE IF k \in package[d].destructive THEN Absent
                    ELSE state[k]]

(* Deployments that have begun to read the org and have not been applied. *)
Reading == {d \in Deployments : /\ pc[d] \in {"capture", "materialize", "submit", "sent", "poll"}
                                /\ request[d] \in {"none", "pending"}}

OrgApplies(d) ==
    /\ request[d] = "pending"
    /\ request' = [request EXCEPT ![d] = "succeeded"]
    /\ held' = [held EXCEPT ![d] = org]
    /\ org' = IF checkOnly[d] THEN org ELSE Applied(d, org)
    /\ disturbed' = IF checkOnly[d] THEN disturbed ELSE disturbed \union (Reading \ {d})
    /\ UNCHANGED <<rowVars, runVars, jobVars, edits, cancelSent, faults>>

OrgRejects(d) ==
    /\ request[d] = "pending"
    /\ \E outcome \in {"failed", "canceled"} :
          /\ outcome = "canceled" => d \in cancelSent
          /\ request' = [request EXCEPT ![d] = outcome]
    /\ UNCHANGED <<rowVars, runVars, jobVars, org, edits, cancelSent, held, disturbed, faults>>

SomebodyEdits(k, v) ==
    /\ edits < MaxEdits
    /\ org[k] # v
    /\ edits' = edits + 1
    /\ org' = [org EXCEPT ![k] = v]
    /\ disturbed' = disturbed \union Reading
    /\ UNCHANGED <<rowVars, runVars, jobVars, request, cancelSent, held, faults>>

Next ==
    \/ \E d \in Deployments :
          \/ Start(d)
          \/ LookupFails(d)
          \/ GenerateRollback(d)
          \/ \E e \in Deployments : StartRollback(d, e) \/ StartQuick(d, e)
          \/ ThrowsIfAborted(d)
          \/ CallFails(d)
          \/ Inventory(d)
          \/ Capture(d)
          \/ Materialize(d)
          \/ Submit(d)
          \/ SubmitQuick(d)
          \/ Listen(d)
          \/ PollReturns(d)
          \/ Persist(d)
          \/ Cancel(d)
          \/ OrgApplies(d)
          \/ OrgRejects(d)
    \/ \E k \in Keys, v \in States : SomebodyEdits(k, v)

Spec == Init /\ [][Next]_vars

(* Awaited calls answer and the org finishes what it accepted. *)
Fairness ==
    \A d \in Deployments :
        /\ WF_vars(LookupFails(d)) /\ WF_vars(ThrowsIfAborted(d))
        /\ WF_vars(Inventory(d)) /\ WF_vars(Capture(d))
        /\ WF_vars(Materialize(d)) /\ WF_vars(Accept(d)) /\ WF_vars(Listen(d))
        /\ WF_vars(PollReturns(d)) /\ WF_vars(Persist(d))
        /\ WF_vars(OrgApplies(d) \/ OrgRejects(d))

FairSpec == Spec /\ Fairness

(***************************************************************************)
(* Properties.                                                             *)
(***************************************************************************)

(* Every way a job can end reaches the deployment's row, a bad target      *)
(* included (deploy.ts 73-78, 179-191): no row is left queued or running   *)
(* behind a finished job, and a job that was canceled or failed says so.   *)
EveryEndReachesTheRow ==
    \A d \in Deployments : job[d] \in Terminal =>
        /\ row[d] \in Terminal
        /\ job[d] # "succeeded" => row[d] = job[d]

(* A row says succeeded only if the org applied (or validated) the         *)
(* request, and canceled only if it did not, whatever moment cancel() came *)
(* at; the history offers for quick deployment only what the org validated *)
(* and lists results only of components the org was asked to change        *)
(* (deploy.ts 140-191, 388-418, executor.ts 47-70, normalize.ts 125-129,   *)
(* history.ts 25-74).                                                      *)
RowTellsWhatTheOrgDid ==
    \A d \in DOMAIN HistoryList :
        LET shown == HistoryList[d] IN
        /\ shown.status = "succeeded" => request[d] = "succeeded"
        /\ shown.status = "canceled" => request[d] \in {"none", "canceled"}
        /\ shown.quickDeployable => request[d] = "succeeded" /\ files[d] \subseteq shown.packageComponents
        /\ shown.components # {} => /\ request[d] \in {"succeeded", "failed", "canceled"}
                                   /\ shown.components \subseteq Touched(d)

(* The content recorded as a component's state before a deployment is what *)
(* the org held when the deployment was applied, if nobody else changed    *)
(* the org in between (pre-deploy-snapshot.ts, deploy.ts 92-115, 140-155). *)
RecordedContentWasThere ==
    \A d \in Deployments \ disturbed : \A k \in Keys :
        request[d] = "succeeded" /\ before[d][k] \in Contents => before[d][k] = held[d][k]

(* Components of its package a deployment had no content for. *)
LeftOut(d) == package[d].components \ files[d]

(* Deploying the rollback of a deployment undoes it: if no call failed, no *)
(* one else changed the org meanwhile, and the package is what its         *)
(* finished rows give, the org holds again what it held before - but for   *)
(* bundles that were left out without a word, of the rollback, or of the   *)
(* deployment when it was a rollback itself: with no row they count as     *)
(* added, and are deleted (package/rollback.ts 54-68, deploy.ts 453-469,   *)
(* rollback-source.ts 104-108).                                            *)
RollbackRestores ==
    \A d, e \in Deployments :
        /\ d # e /\ rollbackOf[e] = d
        /\ row[d] = "succeeded" /\ request[e] = "succeeded"
        /\ ~checkOnly[e] /\ faults = 0 /\ d \notin disturbed
        /\ package[e] = RollbackPlan(package[d], before[d])
        /\ held[e] = Applied(d, held[d])
        => \A k \in Keys : \/ Applied(e, held[e])[k] = held[d][k]
                           \/ k \in Bundles \intersect (LeftOut(d) \union LeftOut(e))

(* A deployment's job obeys the life cycle of JobLifecycle. *)
ImplementsLifecycle == Lifecycle!Spec

(* Every deployment's row becomes terminal in the end. *)
EveryDeploymentEnds ==
    \A d \in Deployments : row[d] \in {"queued", "running"} ~> row[d] \in Terminal

(***************************************************************************)
(* What the source's own comments say.                                     *)
(***************************************************************************)

(* rollback.ts 8-10: existed: false "means the component was confirmed     *)
(* absent from the target at deploy time (the deploy created it from       *)
(* nothing)", so that what the package history.generateRollback() makes of *)
(* a deployment that succeeded deletes on that ground was not there.       *)
RollbackDeletesOnlyAdded ==
    [][\A d \in Deployments \ disturbed : GenerateRollback(d) /\ row[d] = "succeeded" =>
          \A k \in inverse'[d].destructive :
              before[d][k] = Absent => held[d][k] = Absent]_vars
=============================================================================
