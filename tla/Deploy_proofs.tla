---------------------------- MODULE Deploy_proofs ----------------------------
(***************************************************************************)
(* Proofs about Deploy for any deployments, keys, contents, bundles,       *)
(* packages, orgs and bounds: type correctness, the safety invariants the  *)
(* runs check, and that a deployment's job implements JobLifecycle.        *)
(***************************************************************************)
EXTENDS Deploy, TLAPS

Finished == {"succeeded", "failed", "canceled"}

(* The handler, its job and its row move together: before the insert there *)
(* is none of them, and the job and the row end when the handler does.     *)
HandlerAndRow ==
    \A d \in Deployments :
        /\ job[d] # "queued"
        /\ pc[d] = "none" <=> job[d] = "absent"
        /\ pc[d] = "none" <=> row[d] = "absent"
        /\ pc[d] = "done" <=> job[d] \in Finished
        /\ pc[d] = "done" <=> row[d] \in Finished
        /\ pc[d] = "done" /\ job[d] # "succeeded" => row[d] = job[d]

(* A request exists once the handler has sent it, and is finished when its *)
(* answer is written; a row that ends well or canceled agrees with it.     *)
HandlerAndRequest ==
    \A d \in Deployments :
        /\ pc[d] \in {"none", "lookup", "inventory", "capture", "materialize", "submit"}
              => request[d] = "none"
        /\ pc[d] \in {"sent", "poll", "persist"} => request[d] # "none"
        /\ pc[d] = "persist" => request[d] \in Finished
        /\ row[d] = "succeeded" => request[d] = "succeeded"
        /\ row[d] = "canceled" => request[d] \in {"none", "canceled"}

(* Nothing is known of a deployment before its row is inserted, and the    *)
(* handler holds captured state only while it runs.                        *)
NothingBeforeTheInsert ==
    \A d \in Deployments :
        /\ row[d] = "absent" =>
              /\ ~checkOnly[d] /\ package[d] = NoPackage
              /\ files[d] = {} /\ before[d] = Unrecorded
              /\ d \notin saved /\ d \notin quick /\ d \notin acked
              /\ rollbackOf[d] = d
        /\ pc[d] # "capture" => listed[d] = {}
        /\ pc[d] \in {"none", "lookup", "inventory", "done"} => pre[d] = Unrecorded

(* Packages are well formed, their inverses too; what was materialized     *)
(* belongs to the package and has content.                                 *)
PackagesAreSound ==
    \A d \in Deployments :
        /\ package[d].components \intersect package[d].destructive = {}
        /\ inverse[d].components \intersect inverse[d].destructive = {}
        /\ files[d] \subseteq package[d].components
        /\ \A k \in files[d] : content[d][k] \in Contents
        /\ listed[d] \subseteq Touched(d)

(* Component rows are written when the handler ends, after the org is.     *)
RowsAreOfTheEnd ==
    \A d \in Deployments, k \in Keys :
        before[d][k] # NoRow =>
            /\ k \in Touched(d)
            /\ pc[d] = "done" /\ request[d] \in Finished

(* A signal is aborted only by an acknowledged cancellation. *)
AbortedIsAcked == aborted \subseteq acked

(* Content captured for a deployment nobody disturbs is the org's until    *)
(* the org applies it, and what the org held from then on.                 *)
CapturedContentIsThere ==
    \A d \in Deployments \ disturbed : \A k \in Keys :
        pre[d][k] \in Contents =>
            /\ d \in Reading => pre[d][k] = org[k]
            /\ pc[d] # "done" /\ request[d] = "succeeded" => pre[d][k] = held[d][k]

(* Without failures the capture is also complete: each touched component   *)
(* is still to be read or is recorded as it is, absent or not.             *)
CaptureIsComplete ==
    \A d \in Deployments \ disturbed : faults = 0 /\ ~checkOnly[d] =>
        /\ d \in Reading =>
              \A k \in Touched(d) : k \in listed[d] \/ pre[d][k] = org[k]
        /\ pc[d] # "done" /\ request[d] = "succeeded" =>
              \A k \in Touched(d) : pre[d][k] = held[d][k]
        /\ row[d] = "succeeded" =>
              \A k \in files[d] \union package[d].destructive : before[d][k] = held[d][k]

(* A rollback package restores what was recorded, and a deployment of it   *)
(* carries that content, but for bundles.                                  *)
RollbacksCarryTheRecord ==
    /\ \A d \in saved : row[d] # "absent" /\ ~checkOnly[d]
    /\ \A d \in Deployments : \A k \in inverse[d].components : before[d][k] \in Contents
    /\ \A d, e \in Deployments : d # e /\ rollbackOf[e] = d =>
          /\ d \in saved
          /\ \A k \in package[e].components :
                /\ before[d][k] \in Contents
                /\ content[e][k] = IF k \in Bundles THEN Absent ELSE before[d][k]

(* Only a bundle of a rollback has no content, and without failures every  *)
(* other component of the package is sent.                                 *)
OnlyBundlesAreLeftOut ==
    \A d \in Deployments :
        /\ \A k \in package[d].components : content[d][k] \in Contents \/ k \in Bundles
        /\ faults = 0 /\ (pc[d] = "submit" \/ request[d] # "none" \/ d \in quick) =>
              \A k \in package[d].components : content[d][k] \in Contents => k \in files[d]

IInv ==
    /\ TypeOK
    /\ HandlerAndRow
    /\ HandlerAndRequest
    /\ NothingBeforeTheInsert
    /\ PackagesAreSound
    /\ RowsAreOfTheEnd
    /\ AbortedIsAcked
    /\ CapturedContentIsThere
    /\ RecordedContentWasThere
    /\ CaptureIsComplete
    /\ RollbacksCarryTheRecord
    /\ OnlyBundlesAreLeftOut

Package == [components : SUBSET Keys, destructive : SUBSET Keys]

(* The statuses, spelled out. *)
LEMMA Statuses ==
    /\ Lifecycle!Terminal = Finished
    /\ Lifecycle!JobStatus = {"queued", "running", "succeeded", "failed", "canceled"}
  BY DEF Lifecycle!Terminal, Lifecycle!JobStatus, Finished

(* A package buildPackage saved has two disjoint halves, and so has the    *)
(* plan of a rollback, which restores only recorded content.               *)
LEMMA SavedPackages ==
    ASSUME NEW p \in Packages
    PROVE  p \in Package /\ p.components \intersect p.destructive = {}
  BY PackagesAssumption DEF Package

LEMMA PlanIsPackage ==
    ASSUME NEW p \in Package, NEW was, p.components \intersect p.destructive = {}
    PROVE  /\ RollbackPlan(p, was) \in Package
           /\ RollbackPlan(p, was).components \intersect RollbackPlan(p, was).destructive = {}
           /\ \A k \in RollbackPlan(p, was).components : was[k] \in Contents
  BY DEF RollbackPlan, Package

(* What Begin assigns. *)
Begun(d, p, check, source, st, at) ==
    /\ row[d] = "absent"
    /\ checkOnly' = [checkOnly EXCEPT ![d] = check]
    /\ package' = [package EXCEPT ![d] = p]
    /\ content' = [content EXCEPT ![d] = source]
    /\ job' = [job EXCEPT ![d] = "running"]
    /\ row' = [row EXCEPT ![d] = st]
    /\ pc' = [pc EXCEPT ![d] = at]
    /\ at \in {"lookup", "inventory"} \/ check \/ p = NoPackage
    /\ faults' \in 0..MaxFaults /\ (faults' = 0 => faults = 0)
    /\ UNCHANGED <<saved, inverse, before, listed, pre, aborted, acked, org, edits, request,
                   cancelSent, held, disturbed>>

LEMMA BeginEffects ==
    ASSUME TypeOK, NEW d \in Deployments, NEW p \in Package, NEW check \in BOOLEAN,
           NEW source, NEW after, Begin(d, p, check, source, after)
    PROVE  \E st \in {"running", "queued"}, at \in {"lookup", "inventory", after} :
              Begun(d, p, check, source, st, at)
<1>1. faults' \in 0..MaxFaults /\ (faults' = 0 => faults = 0)
  BY BoundsAssumption DEF Begin, Fault, TypeOK
<1>2. CASE row' = [row EXCEPT ![d] = "running"]
           /\ Goto(d, IF check \/ p = NoPackage THEN after ELSE "inventory")
  <2>1. Begun(d, p, check, source, "running",
              IF check \/ p = NoPackage THEN after ELSE "inventory")
    BY <1>1, <1>2 DEF Begin, Begun, Goto, worldVars
  <2> QED BY <2>1
<1>3. CASE row' = [row EXCEPT ![d] = "queued"] /\ Goto(d, "lookup")
  <2>1. Begun(d, p, check, source, "queued", "lookup")
    BY <1>1, <1>3 DEF Begin, Begun, Goto, worldVars
  <2> QED BY <2>1
<1> QED BY <1>2, <1>3 DEF Begin

(* What the end of the handler assigns. *)
Ended(d, rowStatus, jobStatus) ==
    /\ row' = [row EXCEPT ![d] = rowStatus]
    /\ job' = [job EXCEPT ![d] = jobStatus]
    /\ aborted' = aborted \ {d}
    /\ pc' = [pc EXCEPT ![d] = "done"]
    /\ listed' = [listed EXCEPT ![d] = {}]
    /\ pre' = [pre EXCEPT ![d] = Unrecorded]
    /\ UNCHANGED <<checkOnly, package, content, saved, inverse, quick, rollbackOf, acked,
                   files, org, edits, request, cancelSent, held, disturbed>>
    /\ faults' \in 0..MaxFaults /\ (faults' = 0 => faults = 0)

(* The three throws are one: the row and the job end alike, nothing else   *)
(* is recorded.                                                            *)
LEMMA ThrowEffects ==
    ASSUME TypeOK, NEW d \in Deployments,
           LookupFails(d) \/ ThrowsIfAborted(d) \/ CallFails(d)
    PROVE  /\ before' = before
           /\ pc[d] \notin {"none", "persist", "done"}
           /\ \/ Ended(d, "failed", "failed")
              \/ Ended(d, "canceled", "canceled") /\ pc[d] \in {"inventory", "capture"} /\ d \in aborted
<1>1. CASE LookupFails(d)
  BY <1>1 DEF LookupFails, Throws, End, Ended, Goto, worldVars, TypeOK
<1>2. CASE ThrowsIfAborted(d)
  BY <1>2 DEF ThrowsIfAborted, Throws, End, Ended, Goto, worldVars, TypeOK
<1>3. CASE CallFails(d)
  <2>1. faults' \in 0..MaxFaults /\ (faults' = 0 => faults = 0)
    BY <1>3, BoundsAssumption DEF CallFails, Fault, TypeOK
  <2> QED BY <1>3, <2>1 DEF CallFails, Throws, End, Ended, Goto, worldVars
<1> QED BY <1>1, <1>2, <1>3

(* Reading a chunk: it belongs to what is listed, and without a failure    *)
(* all of it is read.                                                      *)
LEMMA CaptureEffects ==
    ASSUME TypeOK, NEW d \in Deployments, Capture(d)
    PROVE  /\ pc[d] = "capture"
           /\ pc' = [pc EXCEPT ![d] = "capture"] \/ pc' = [pc EXCEPT ![d] = AfterCapture(d)]
           /\ pc'[d] # "capture" => listed'[d] = {}
           /\ \E chunk \in SUBSET listed[d] : \E unread \in SUBSET chunk :
                 /\ faults' = 0 => unread = {}
                 /\ pre' = [pre EXCEPT ![d] = ReadChunk(d, chunk, unread)]
                 /\ listed' = [listed EXCEPT ![d] = @ \ chunk]
           /\ faults' \in 0..MaxFaults /\ (faults' = 0 => faults = 0)
           /\ UNCHANGED <<rowVars, files, jobVars, worldVars>>
<1>1. PICK chunk \in SUBSET listed[d] : \E unread \in SUBSET chunk :
          /\ IF unread = {} THEN UNCHANGED faults ELSE Fault
          /\ pre' = [pre EXCEPT ![d] = ReadChunk(d, chunk, unread)]
          /\ listed' = [listed EXCEPT ![d] = @ \ chunk]
          /\ Goto(d, IF chunk = listed[d] THEN AfterCapture(d) ELSE "capture")
  BY DEF Capture
<1>2. PICK unread \in SUBSET chunk :
          /\ IF unread = {} THEN UNCHANGED faults ELSE Fault
          /\ pre' = [pre EXCEPT ![d] = ReadChunk(d, chunk, unread)]
  BY <1>1
<1>3. /\ faults' = 0 => unread = {}
      /\ faults' \in 0..MaxFaults /\ (faults' = 0 => faults = 0)
  BY <1>2, BoundsAssumption DEF Fault, TypeOK
<1>4. /\ pc' = [pc EXCEPT ![d] = "capture"] \/ pc' = [pc EXCEPT ![d] = AfterCapture(d)]
      /\ pc'[d] # "capture" => listed'[d] = {}
  <2>1. /\ listed' = [listed EXCEPT ![d] = @ \ chunk]
        /\ pc' = [pc EXCEPT ![d] = IF chunk = listed[d] THEN AfterCapture(d) ELSE "capture"]
    BY <1>1 DEF Goto
  <2>2. CASE chunk = listed[d]
    <3>1. listed'[d] = listed[d] \ listed[d]
      BY <2>1, <2>2 DEF TypeOK
    <3> QED BY <2>1, <2>2, <3>1
  <2>3. CASE chunk # listed[d]
    <3>1. pc'[d] = "capture"
      BY <2>1, <2>3 DEF TypeOK
    <3> QED BY <2>1, <2>3, <3>1
  <2> QED BY <2>2, <2>3
<1> QED BY <1>1, <1>2, <1>3, <1>4 DEF Capture

LEMMA PersistEffects ==
    ASSUME TypeOK, NEW d \in Deployments, Persist(d)
    PROVE  /\ pc[d] = "persist"
           /\ \E reported \in SUBSET (files[d] \union package[d].destructive) :
                 /\ request[d] = "succeeded" =>
                       reported = files[d] \union package[d].destructive
                 /\ before' = [before EXCEPT ![d] = ComponentRows(d, reported)]
           /\ Ended(d, MapDeployStatus(Answer(request[d])), "succeeded")
           /\ faults' = faults
<1>1. PICK reported \in Responses(d) :
          before' = [before EXCEPT ![d] = ComponentRows(d, reported)]
  BY DEF Persist
<1>2. /\ reported \in SUBSET (files[d] \union package[d].destructive)
      /\ request[d] = "succeeded" => reported = files[d] \union package[d].destructive
  BY <1>1 DEF Responses
<1> QED BY <1>1, <1>2 DEF Persist, End, Ended, Goto, worldVars, TypeOK

(* The status written for a finished request is the request's. *)
LEMMA StatusOfAnswer ==
    \A r \in Finished : MapDeployStatus(Answer(r)) = r
  BY DEF Finished, MapDeployStatus, Answer

(* Both leave every variable in its type. *)
LEMMA BegunTypes ==
    ASSUME TypeOK, NEW d \in Deployments, NEW p \in Package, NEW check \in BOOLEAN,
           NEW source \in [Keys -> States], NEW st \in {"running", "queued"},
           NEW at \in {"lookup", "inventory", "materialize", "submit"},
           Begun(d, p, check, source, st, at),
           files' \in [Deployments -> SUBSET Keys], quick' \in SUBSET Deployments,
           rollbackOf' \in [Deployments -> Deployments]
    PROVE  TypeOK'
<1>1. row' \in [Deployments -> Lifecycle!JobStatus \union {"absent"}]
  BY Statuses DEF Begun, TypeOK
<1>2. job' \in [Deployments -> Lifecycle!JobStatus \union {"absent"}]
  BY Statuses DEF Begun, TypeOK
<1>3. pc' \in [Deployments -> {"none", "lookup", "inventory", "capture", "materialize",
                              "submit", "sent", "poll", "persist", "done"}]
  BY DEF Begun, TypeOK
<1>4. content' \in [Deployments -> [Keys -> States]]
  BY DEF Begun, TypeOK
<1>5. package' \in [Deployments -> [components : SUBSET Keys, destructive : SUBSET Keys]]
  BY DEF Begun, TypeOK, Package
<1> QED BY <1>1, <1>2, <1>3, <1>4, <1>5 DEF Begun, TypeOK

LEMMA EndedTypes ==
    ASSUME TypeOK, NEW d \in Deployments, NEW rowStatus \in Finished, NEW jobStatus \in Finished,
           Ended(d, rowStatus, jobStatus),
           before' \in [Deployments -> [Keys -> States \union {NoRow}]]
    PROVE  TypeOK'
<1>1. row' \in [Deployments -> Lifecycle!JobStatus \union {"absent"}]
  BY Statuses DEF Ended, TypeOK, Finished
<1>2. job' \in [Deployments -> Lifecycle!JobStatus \union {"absent"}]
  BY Statuses DEF Ended, TypeOK, Finished
<1>3. pre' \in [Deployments -> [Keys -> States \union {NoRow}]]
  BY DEF Ended, TypeOK, Unrecorded
<1>4. pc' \in [Deployments -> {"none", "lookup", "inventory", "capture", "materialize",
                              "submit", "sent", "poll", "persist", "done"}]
  BY DEF Ended, TypeOK
<1> QED BY <1>1, <1>2, <1>3, <1>4 DEF Ended, TypeOK

(* What a start chooses: a saved package, a validation to deploy quickly,  *)
(* or the rollback of a deployment.                                        *)
Started(d) == Start(d) \/ \E e \in Deployments : StartRollback(d, e) \/ StartQuick(d, e)

ChosenPackage(p, source, at) ==
    /\ p \in Packages /\ source = Desired /\ at # "submit"
    /\ UNCHANGED <<quick, rollbackOf, files>>
ChosenValidation(d, p, source, check, at) ==
    \E v \in Deployments :
        /\ checkOnly[v] /\ row[v] = "succeeded"
        /\ p = package[v] /\ source = content[v] /\ ~check /\ at # "materialize"
        /\ files' = [files EXCEPT ![d] = files[v]]
        /\ quick' = quick \union {d}
        /\ UNCHANGED rollbackOf
ChosenRollback(d, p, source, at) ==
    \E o \in saved :
        /\ d # o /\ p = inverse[o] /\ source = RestoreContent(o) /\ at # "submit"
        /\ rollbackOf' = [rollbackOf EXCEPT ![d] = o]
        /\ UNCHANGED <<quick, files>>

StartedWith(d, p, check, source, st, at) ==
    /\ Begun(d, p, check, source, st, at)
    /\ p.components \intersect p.destructive = {}
    /\ \/ ChosenPackage(p, source, at)
       \/ ChosenValidation(d, p, source, check, at)
       \/ ChosenRollback(d, p, source, at)

LEMMA StartEffects ==
    ASSUME TypeOK, PackagesAreSound, NEW d \in Deployments, Started(d)
    PROVE  \E p \in Package, check \in BOOLEAN, source \in [Keys -> States],
              st \in {"running", "queued"},
              at \in {"lookup", "inventory", "materialize", "submit"} :
              StartedWith(d, p, check, source, st, at)
<1>1. CASE Start(d)
  <2>1. PICK p \in Packages, check \in BOOLEAN : Begin(d, p, check, Desired, "materialize")
    BY <1>1 DEF Start
  <2>2. p \in Package /\ p.components \intersect p.destructive = {}
    BY SavedPackages
  <2>3. PICK st \in {"running", "queued"}, at \in {"lookup", "inventory", "materialize"} :
           Begun(d, p, check, Desired, st, at)
    BY <2>1, <2>2, BeginEffects
  <2>4. Desired \in [Keys -> States]
    BY DesiredAssumption DEF States
  <2>5. ChosenPackage(p, Desired, at)
    BY <1>1 DEF Start, ChosenPackage
  <2>6. StartedWith(d, p, check, Desired, st, at)
    BY <2>2, <2>3, <2>5 DEF StartedWith
  <2> QED BY <2>2, <2>4, <2>6
<1>2. ASSUME NEW v \in Deployments, StartQuick(d, v)
      PROVE  \E p \in Package, check \in BOOLEAN, source \in [Keys -> States],
                st \in {"running", "queued"},
                at \in {"lookup", "inventory", "materialize", "submit"} :
                StartedWith(d, p, check, source, st, at)
  <2>1. /\ package[v] \in Package /\ content[v] \in [Keys -> States]
        /\ package[v].components \intersect package[v].destructive = {}
    BY DEF TypeOK, Package, PackagesAreSound
  <2>2. PICK check \in BOOLEAN :
           check = FALSE /\ Begin(d, package[v], check, content[v], "submit")
    BY <1>2 DEF StartQuick
  <2>3. PICK st \in {"running", "queued"}, at \in {"lookup", "inventory", "submit"} :
           Begun(d, package[v], check, content[v], st, at)
    BY <2>1, <2>2, BeginEffects
  <2>4. ChosenValidation(d, package[v], content[v], check, at)
    BY <1>2, <2>2 DEF StartQuick, ChosenValidation, IsQuickDeployable
  <2>5. StartedWith(d, package[v], check, content[v], st, at)
    BY <2>1, <2>3, <2>4 DEF StartedWith
  <2> QED BY <2>1, <2>5
<1>3. ASSUME NEW o \in Deployments, StartRollback(d, o)
      PROVE  \E p \in Package, check \in BOOLEAN, source \in [Keys -> States],
                st \in {"running", "queued"},
                at \in {"lookup", "inventory", "materialize", "submit"} :
                StartedWith(d, p, check, source, st, at)
  <2>1. PICK check \in BOOLEAN :
           Begin(d, inverse[o], check, RestoreContent(o), "materialize")
    BY <1>3 DEF StartRollback
  <2>2. /\ inverse[o] \in Package
        /\ inverse[o].components \intersect inverse[o].destructive = {}
    BY DEF TypeOK, Package, PackagesAreSound
  <2>3. PICK st \in {"running", "queued"}, at \in {"lookup", "inventory", "materialize"} :
           Begun(d, inverse[o], check, RestoreContent(o), st, at)
    BY <2>1, <2>2, BeginEffects
  <2>4. RestoreContent(o) \in [Keys -> States]
    BY DEF RestoreContent, States
  <2>5. ChosenRollback(d, inverse[o], RestoreContent(o), at)
    BY <1>3 DEF StartRollback, ChosenRollback
  <2>6. StartedWith(d, inverse[o], check, RestoreContent(o), st, at)
    BY <2>2, <2>3, <2>5 DEF StartedWith
  <2> QED BY <2>2, <2>4, <2>6
<1> QED BY <1>1, <1>2, <1>3 DEF Started

(* Type correctness is preserved. *)
LEMMA TypeStep == IInv /\ [Next]_vars => TypeOK'
<1> SUFFICES ASSUME IInv, [Next]_vars PROVE TypeOK'
  OBVIOUS
<1>t. TypeOK
  BY DEF IInv
<1>s. PackagesAreSound
  BY DEF IInv
<1>h. HandlerAndRequest
  BY DEF IInv
<1>1. ASSUME NEW d \in Deployments, Started(d) PROVE TypeOK'
  <2>1. PICK p \in Package, check \in BOOLEAN, source \in [Keys -> States],
             st \in {"running", "queued"},
             at \in {"lookup", "inventory", "materialize", "submit"} :
           StartedWith(d, p, check, source, st, at)
    BY <1>t, <1>s, <1>1, StartEffects
  <2>2. /\ quick' \in SUBSET Deployments /\ rollbackOf' \in [Deployments -> Deployments]
        /\ files' \in [Deployments -> SUBSET Keys]
    <3>1. CASE ChosenPackage(p, source, at)
      BY <1>t, <3>1 DEF ChosenPackage, TypeOK
    <3>2. CASE ChosenValidation(d, p, source, check, at)
      BY <1>t, <3>2 DEF ChosenValidation, TypeOK
    <3>3. CASE ChosenRollback(d, p, source, at)
      BY <1>t, <3>3 DEF ChosenRollback, TypeOK
    <3> QED BY <2>1, <3>1, <3>2, <3>3 DEF StartedWith
  <2> QED BY <1>t, <2>1, <2>2, BegunTypes DEF StartedWith
<1>2. ASSUME NEW d \in Deployments, GenerateRollback(d) PROVE TypeOK'
  <2>1. package[d] \in Package
    BY <1>t DEF TypeOK, Package
  <2>2. RollbackPlan(package[d], before[d]) \in Package
    BY <1>s, <2>1, PlanIsPackage DEF PackagesAreSound
  <2> QED BY <1>t, <1>2, <2>2
      DEF GenerateRollback, TypeOK, Package, runVars, jobVars, worldVars
<1>3. ASSUME NEW d \in Deployments, LookupFails(d) \/ ThrowsIfAborted(d) \/ CallFails(d)
      PROVE TypeOK'
  <2>1. /\ before' = before
        /\ Ended(d, "failed", "failed") \/ Ended(d, "canceled", "canceled")
    BY <1>t, <1>3, ThrowEffects
  <2> QED BY <1>t, <2>1, EndedTypes DEF TypeOK, Finished
<1>4. ASSUME NEW d \in Deployments, Inventory(d) PROVE TypeOK'
  <2>1. PICK seen \in SUBSET {k \in Touched(d) : org[k] # Absent} :
           /\ listed' = [listed EXCEPT ![d] = seen]
           /\ pre' = [pre EXCEPT ![d] = [k \in Keys |->
                         IF k \in Touched(d) \ seen THEN Absent ELSE NoRow]]
           /\ Goto(d, IF seen = {} THEN AfterCapture(d) ELSE "capture")
    BY <1>4 DEF Inventory
  <2>2. faults' \in 0..MaxFaults
    BY <1>t, <1>4, BoundsAssumption DEF Inventory, Fault, TypeOK
  <2>3. seen \subseteq Keys
    BY <1>t DEF TypeOK, Touched
  <2>4. listed' \in [Deployments -> SUBSET Keys]
    BY <1>t, <2>1, <2>3 DEF TypeOK
  <2>5. pre' \in [Deployments -> [Keys -> States \union {NoRow}]]
    BY <1>t, <2>1 DEF TypeOK, States
  <2> QED BY <1>t, <1>4, <2>1, <2>4, <2>5, <2>2
             DEF Inventory, TypeOK, Goto, AfterCapture, rowVars, jobVars, worldVars
<1>5. ASSUME NEW d \in Deployments, Capture(d) PROVE TypeOK'
  <2>1. PICK chunk \in SUBSET listed[d] : \E unread \in SUBSET chunk :
           /\ pre' = [pre EXCEPT ![d] = ReadChunk(d, chunk, unread)]
           /\ listed' = [listed EXCEPT ![d] = @ \ chunk]
    BY <1>t, <1>5, CaptureEffects
  <2>2. PICK unread \in SUBSET chunk : pre' = [pre EXCEPT ![d] = ReadChunk(d, chunk, unread)]
    BY <2>1
  <2>3. ReadChunk(d, chunk, unread) \in [Keys -> States \union {NoRow}]
    BY <1>t DEF ReadChunk, TypeOK, States
  <2>4. pre' \in [Deployments -> [Keys -> States \union {NoRow}]]
    BY <1>t, <2>2, <2>3 DEF TypeOK
  <2>5. listed' \in [Deployments -> SUBSET Keys]
    BY <1>t, <2>1 DEF TypeOK
  <2>6. /\ pc' = [pc EXCEPT ![d] = "capture"] \/ pc' = [pc EXCEPT ![d] = AfterCapture(d)]
        /\ faults' \in 0..MaxFaults
        /\ UNCHANGED <<rowVars, files, jobVars, worldVars>>
    BY <1>t, <1>5, CaptureEffects
  <2> QED BY <1>t, <2>4, <2>5, <2>6 DEF TypeOK, AfterCapture, rowVars, jobVars, worldVars
<1>6. ASSUME NEW d \in Deployments, Materialize(d) PROVE TypeOK'
  <2>1. faults' \in 0..MaxFaults
    BY <1>t, <1>6, BoundsAssumption DEF Materialize, Fault, TypeOK
  <2>2. PICK got \in SUBSET package[d].components : files' = [files EXCEPT ![d] = got]
    BY <1>6 DEF Materialize
  <2>3. got \subseteq Keys
    BY <1>t DEF TypeOK
  <2> QED BY <1>t, <1>6, <2>1, <2>2, <2>3
      DEF Materialize, TypeOK, Goto, rowVars, jobVars, worldVars
<1>7. ASSUME NEW d \in Deployments, Accept(d) PROVE TypeOK'
  BY <1>t, <1>7 DEF Accept, TypeOK, Goto, rowVars, jobVars
<1>8. ASSUME NEW d \in Deployments, Listen(d) PROVE TypeOK'
  BY <1>t, <1>8 DEF Listen, TypeOK, Goto, rowVars, jobVars, worldVars
<1>9. ASSUME NEW d \in Deployments, PollReturns(d) PROVE TypeOK'
  BY <1>t, <1>9 DEF PollReturns, TypeOK, Goto, rowVars, jobVars, worldVars
<1>10. ASSUME NEW d \in Deployments, Persist(d) PROVE TypeOK'
  <2>1. PICK reported \in SUBSET (files[d] \union package[d].destructive) :
           before' = [before EXCEPT ![d] = ComponentRows(d, reported)]
    BY <1>t, <1>10, PersistEffects
  <2>2. ComponentRows(d, reported) \in [Keys -> States \union {NoRow}]
    BY <1>t DEF ComponentRows, TypeOK
  <2>3. /\ Ended(d, MapDeployStatus(Answer(request[d])), "succeeded")
        /\ faults' = faults
    BY <1>t, <1>10, PersistEffects
  <2>4. MapDeployStatus(Answer(request[d])) \in Finished
    BY <1>h, <1>t, <1>10, StatusOfAnswer, PersistEffects DEF HandlerAndRequest
  <2> QED BY <1>t, <2>1, <2>2, <2>3, <2>4, EndedTypes DEF TypeOK, Finished
<1>11. ASSUME NEW d \in Deployments, Cancel(d) PROVE TypeOK'
  BY <1>t, <1>11 DEF Cancel, Running, TypeOK, rowVars, runVars
<1>12. ASSUME NEW d \in Deployments, OrgApplies(d) PROVE TypeOK'
  <2>1. org' \in [Keys -> States]
    BY <1>t, <1>12 DEF OrgApplies, Applied, TypeOK, States
  <2> QED BY <1>t, <1>12, <2>1
      DEF OrgApplies, TypeOK, rowVars, runVars, jobVars, Reading
<1>13. ASSUME NEW d \in Deployments, OrgRejects(d) PROVE TypeOK'
  BY <1>t, <1>13 DEF OrgRejects, TypeOK, rowVars, runVars, jobVars
<1>14. ASSUME NEW k \in Keys, NEW v \in States, SomebodyEdits(k, v) PROVE TypeOK'
  BY <1>t, <1>14, BoundsAssumption
     DEF SomebodyEdits, TypeOK, Reading, rowVars, runVars, jobVars
<1>15. CASE UNCHANGED vars
  BY <1>t, <1>15 DEF vars, rowVars, runVars, jobVars, worldVars, TypeOK
<1> QED
  BY <1>1, <1>2, <1>3, <1>4, <1>5, <1>6, <1>7, <1>8, <1>9, <1>10, <1>11, <1>12,
     <1>13, <1>14, <1>15
     DEF Next, Submit, SubmitQuick, Started

(* The handler, its job and its row stay together. *)
LEMMA HandlerAndRowStep == IInv /\ [Next]_vars => HandlerAndRow'
<1> SUFFICES ASSUME IInv, [Next]_vars PROVE HandlerAndRow'
  OBVIOUS
<1>t. TypeOK
  BY DEF IInv
<1>s. PackagesAreSound
  BY DEF IInv
<1>h. HandlerAndRow
  BY DEF IInv
<1>r. HandlerAndRequest
  BY DEF IInv
<1>1. ASSUME NEW d \in Deployments, Started(d) PROVE HandlerAndRow'
  <2>1. PICK p \in Package, check \in BOOLEAN, source \in [Keys -> States],
             st \in {"running", "queued"},
             at \in {"lookup", "inventory", "materialize", "submit"} :
           StartedWith(d, p, check, source, st, at)
    BY <1>t, <1>s, <1>1, StartEffects
  <2> QED BY <1>t, <1>h, <2>1 DEF StartedWith, Begun, HandlerAndRow, TypeOK, Finished
<1>2. ASSUME NEW d \in Deployments, GenerateRollback(d) PROVE HandlerAndRow'
  BY <1>t, <1>h, <1>r, <1>2
     DEF GenerateRollback, TypeOK, HandlerAndRow, Finished, runVars, jobVars
<1>3. ASSUME NEW d \in Deployments, LookupFails(d) \/ ThrowsIfAborted(d) \/ CallFails(d)
      PROVE HandlerAndRow'
  <2>1. /\ pc[d] \notin {"none", "persist", "done"}
        /\ Ended(d, "failed", "failed") \/ Ended(d, "canceled", "canceled")
    BY <1>t, <1>3, ThrowEffects
  <2>2. PICK outcome \in {"failed", "canceled"} : Ended(d, outcome, outcome)
    BY <2>1
  <2> QED BY <1>t, <1>h, <2>2 DEF Ended, HandlerAndRow, TypeOK, Finished
<1>4. ASSUME NEW d \in Deployments, Inventory(d) PROVE HandlerAndRow'
  BY <1>t, <1>h, <1>r, <1>4
     DEF Inventory, TypeOK, HandlerAndRow, Finished, Goto, AfterCapture, rowVars,
         jobVars
<1>5. ASSUME NEW d \in Deployments, Capture(d) PROVE HandlerAndRow'
  <2>1. /\ pc[d] = "capture"
        /\ \/ pc' = [pc EXCEPT ![d] = "capture"]
           \/ pc' = [pc EXCEPT ![d] = AfterCapture(d)]
        /\ UNCHANGED <<rowVars, files, jobVars, worldVars>>
    BY <1>t, <1>5, CaptureEffects
  <2> QED BY <1>t, <1>h, <1>r, <2>1
      DEF TypeOK, HandlerAndRow, Finished, AfterCapture, rowVars, jobVars
<1>6. ASSUME NEW d \in Deployments, Materialize(d) PROVE HandlerAndRow'
  BY <1>t, <1>h, <1>r, <1>6
     DEF Materialize, TypeOK, HandlerAndRow, Finished, Goto, rowVars, jobVars
<1>7. ASSUME NEW d \in Deployments, Accept(d) PROVE HandlerAndRow'
  BY <1>t, <1>h, <1>r, <1>7
     DEF Accept, TypeOK, HandlerAndRow, Finished, Goto, rowVars, jobVars
<1>8. ASSUME NEW d \in Deployments, Listen(d) PROVE HandlerAndRow'
  BY <1>t, <1>h, <1>r, <1>8
     DEF Listen, TypeOK, HandlerAndRow, Finished, Goto, rowVars, jobVars
<1>9. ASSUME NEW d \in Deployments, PollReturns(d) PROVE HandlerAndRow'
  BY <1>t, <1>h, <1>r, <1>9
     DEF PollReturns, TypeOK, HandlerAndRow, Finished, Goto, rowVars, jobVars
<1>10. ASSUME NEW d \in Deployments, Persist(d) PROVE HandlerAndRow'
  <2>1. /\ pc[d] = "persist"
        /\ Ended(d, MapDeployStatus(Answer(request[d])), "succeeded")
    BY <1>t, <1>10, PersistEffects
  <2>2. MapDeployStatus(Answer(request[d])) \in Finished
    BY <1>r, <2>1, StatusOfAnswer DEF HandlerAndRequest
  <2> QED BY <1>t, <1>h, <2>1, <2>2 DEF Ended, HandlerAndRow, TypeOK, Finished
<1>11. ASSUME NEW d \in Deployments, Cancel(d) PROVE HandlerAndRow'
  BY <1>t, <1>h, <1>r, <1>11
     DEF Cancel, TypeOK, HandlerAndRow, Finished, rowVars, runVars
<1>12. ASSUME NEW d \in Deployments, OrgApplies(d) PROVE HandlerAndRow'
  BY <1>t, <1>h, <1>r, <1>12
     DEF OrgApplies, TypeOK, HandlerAndRow, Finished, rowVars, runVars, jobVars
<1>13. ASSUME NEW d \in Deployments, OrgRejects(d) PROVE HandlerAndRow'
  BY <1>t, <1>h, <1>r, <1>13
     DEF OrgRejects, TypeOK, HandlerAndRow, Finished, rowVars, runVars, jobVars
<1>14. ASSUME NEW k \in Keys, NEW v \in States, SomebodyEdits(k, v) PROVE HandlerAndRow'
  BY <1>t, <1>h, <1>r, <1>14
     DEF SomebodyEdits, TypeOK, HandlerAndRow, Finished, rowVars, runVars, jobVars
<1>15. CASE UNCHANGED vars
  BY <1>t, <1>h, <1>r, <1>15
     DEF vars, TypeOK, HandlerAndRow, Finished, rowVars, runVars, jobVars
<1> QED
  BY <1>1, <1>2, <1>3, <1>4, <1>5, <1>6, <1>7, <1>8, <1>9, <1>10, <1>11, <1>12,
     <1>13, <1>14, <1>15
     DEF Next, Submit, SubmitQuick, Started

(* The request and the row stay in step with the handler. *)
LEMMA HandlerAndRequestStep == IInv /\ [Next]_vars => HandlerAndRequest'
<1> SUFFICES ASSUME IInv, [Next]_vars PROVE HandlerAndRequest'
  OBVIOUS
<1>t. TypeOK
  BY DEF IInv
<1>s. PackagesAreSound
  BY DEF IInv
<1>h. HandlerAndRow
  BY DEF IInv
<1>r. HandlerAndRequest
  BY DEF IInv
<1>1. ASSUME NEW d \in Deployments, Started(d) PROVE HandlerAndRequest'
  <2>1. PICK p \in Package, check \in BOOLEAN, source \in [Keys -> States],
             st \in {"running", "queued"},
             at \in {"lookup", "inventory", "materialize", "submit"} :
           StartedWith(d, p, check, source, st, at)
    BY <1>t, <1>s, <1>1, StartEffects
  <2> QED BY <1>t, <1>h, <1>r, <2>1
      DEF StartedWith, Begun, HandlerAndRow, HandlerAndRequest, TypeOK, Finished
<1>2. ASSUME NEW d \in Deployments, GenerateRollback(d) PROVE HandlerAndRequest'
  BY <1>t, <1>h, <1>r, <1>2
     DEF GenerateRollback, TypeOK, HandlerAndRequest, HandlerAndRow, Finished,
         runVars, worldVars
<1>3. ASSUME NEW d \in Deployments, LookupFails(d) \/ ThrowsIfAborted(d) \/ CallFails(d)
      PROVE HandlerAndRequest'
  <2>1. /\ pc[d] \notin {"none", "persist", "done"}
        /\ \/ Ended(d, "failed", "failed")
           \/ Ended(d, "canceled", "canceled") /\ pc[d] \in {"inventory", "capture"}
    BY <1>t, <1>3, ThrowEffects
  <2> QED BY <1>t, <1>h, <1>r, <2>1
      DEF Ended, HandlerAndRow, HandlerAndRequest, TypeOK, Finished
<1>4. ASSUME NEW d \in Deployments, Inventory(d) PROVE HandlerAndRequest'
  BY <1>t, <1>h, <1>r, <1>4
     DEF Inventory, TypeOK, HandlerAndRequest, HandlerAndRow, Finished, Goto,
         AfterCapture, rowVars, worldVars
<1>5. ASSUME NEW d \in Deployments, Capture(d)
      PROVE HandlerAndRequest'
  <2>1. /\ pc[d] = "capture"
        /\ \/ pc' = [pc EXCEPT ![d] = "capture"]
           \/ pc' = [pc EXCEPT ![d] = AfterCapture(d)]
        /\ UNCHANGED <<rowVars, files, jobVars, worldVars>>
    BY <1>t, <1>5, CaptureEffects
  <2> QED BY <1>t, <1>h, <1>r, <2>1
      DEF TypeOK, HandlerAndRequest, HandlerAndRow, Finished, AfterCapture, rowVars, worldVars
<1>6. ASSUME NEW d \in Deployments, Materialize(d) PROVE HandlerAndRequest'
  BY <1>t, <1>h, <1>r, <1>6
     DEF Materialize, TypeOK, HandlerAndRequest, HandlerAndRow, Finished, Goto,
         rowVars, worldVars
<1>7. ASSUME NEW d \in Deployments, Accept(d) PROVE HandlerAndRequest'
  BY <1>t, <1>h, <1>r, <1>7
     DEF Accept, TypeOK, HandlerAndRequest, HandlerAndRow, Finished, Goto, rowVars
<1>8. ASSUME NEW d \in Deployments, Listen(d) PROVE HandlerAndRequest'
  BY <1>t, <1>h, <1>r, <1>8
     DEF Listen, TypeOK, HandlerAndRequest, HandlerAndRow, Finished, Goto, rowVars,
         worldVars
<1>9. ASSUME NEW d \in Deployments, PollReturns(d) PROVE HandlerAndRequest'
  BY <1>t, <1>h, <1>r, <1>9
     DEF PollReturns, TypeOK, HandlerAndRequest, HandlerAndRow, Finished, Goto,
         rowVars, worldVars
<1>10. ASSUME NEW d \in Deployments, Persist(d) PROVE HandlerAndRequest'
  <2>1. /\ pc[d] = "persist"
        /\ Ended(d, MapDeployStatus(Answer(request[d])), "succeeded")
    BY <1>t, <1>10, PersistEffects
  <2>2. request[d] \in Finished /\ MapDeployStatus(Answer(request[d])) = request[d]
    BY <1>r, <2>1, StatusOfAnswer DEF HandlerAndRequest
  <2> QED BY <1>t, <1>h, <1>r, <2>1, <2>2
      DEF Ended, HandlerAndRow, HandlerAndRequest, TypeOK, Finished
<1>11. ASSUME NEW d \in Deployments, Cancel(d) PROVE HandlerAndRequest'
  BY <1>t, <1>h, <1>r, <1>11
     DEF Cancel, TypeOK, HandlerAndRequest, HandlerAndRow, Finished, rowVars, runVars
<1>12. ASSUME NEW d \in Deployments, OrgApplies(d) PROVE HandlerAndRequest'
  BY <1>t, <1>h, <1>r, <1>12
     DEF OrgApplies, TypeOK, HandlerAndRequest, HandlerAndRow, Finished, rowVars,
         runVars
<1>13. ASSUME NEW d \in Deployments, OrgRejects(d) PROVE HandlerAndRequest'
  BY <1>t, <1>h, <1>r, <1>13
     DEF OrgRejects, TypeOK, HandlerAndRequest, HandlerAndRow, Finished, rowVars,
         runVars
<1>14. ASSUME NEW k \in Keys, NEW v \in States, SomebodyEdits(k, v)
       PROVE HandlerAndRequest'
  BY <1>t, <1>h, <1>r, <1>14
     DEF SomebodyEdits, TypeOK, HandlerAndRequest, HandlerAndRow, Finished, rowVars,
         runVars
<1>15. CASE UNCHANGED vars
  BY <1>t, <1>h, <1>r, <1>15
     DEF vars, TypeOK, HandlerAndRequest, HandlerAndRow, Finished, rowVars, runVars,
         worldVars
<1> QED
  BY <1>1, <1>2, <1>3, <1>4, <1>5, <1>6, <1>7, <1>8, <1>9, <1>10, <1>11, <1>12,
     <1>13, <1>14, <1>15
     DEF Next, Submit, SubmitQuick, Started

(* What is known of a deployment is known after its row's insert. *)
LEMMA NothingBeforeTheInsertStep == IInv /\ [Next]_vars => NothingBeforeTheInsert'
<1> SUFFICES ASSUME IInv, [Next]_vars PROVE NothingBeforeTheInsert'
  OBVIOUS
<1>t. TypeOK
  BY DEF IInv
<1>s. PackagesAreSound
  BY DEF IInv
<1>h. HandlerAndRow
  BY DEF IInv
<1>r. HandlerAndRequest
  BY DEF IInv
<1>n. NothingBeforeTheInsert
  BY DEF IInv
<1>1. ASSUME NEW d \in Deployments, Started(d) PROVE NothingBeforeTheInsert'
  <2>1. PICK p \in Package, check \in BOOLEAN, source \in [Keys -> States],
             st \in {"running", "queued"},
             at \in {"lookup", "inventory", "materialize", "submit"} :
           StartedWith(d, p, check, source, st, at)
    BY <1>t, <1>s, <1>1, StartEffects
  <2>2. CASE ChosenPackage(p, source, at)
    BY <1>t, <1>h, <1>n, <2>1, <2>2
       DEF StartedWith, Begun, ChosenPackage, HandlerAndRow, NothingBeforeTheInsert,
           TypeOK
  <2>3. CASE ChosenValidation(d, p, source, check, at)
    BY <1>t, <1>h, <1>n, <2>1, <2>3
       DEF StartedWith, Begun, ChosenValidation, HandlerAndRow,
           NothingBeforeTheInsert, TypeOK
  <2>4. CASE ChosenRollback(d, p, source, at)
    BY <1>t, <1>h, <1>n, <2>1, <2>4
       DEF StartedWith, Begun, ChosenRollback, HandlerAndRow, NothingBeforeTheInsert,
           TypeOK
  <2> QED BY <2>1, <2>2, <2>3, <2>4 DEF StartedWith
<1>2. ASSUME NEW d \in Deployments, GenerateRollback(d) PROVE NothingBeforeTheInsert'
  BY <1>t, <1>h, <1>n, <1>2
     DEF GenerateRollback, TypeOK, NothingBeforeTheInsert, HandlerAndRow, runVars,
         jobVars
<1>3. ASSUME NEW d \in Deployments, LookupFails(d) \/ ThrowsIfAborted(d) \/ CallFails(d)
      PROVE NothingBeforeTheInsert'
  <2>1. /\ before' = before
        /\ pc[d] \notin {"none", "persist", "done"}
        /\ Ended(d, "failed", "failed") \/ Ended(d, "canceled", "canceled")
    BY <1>t, <1>3, ThrowEffects
  <2>2. PICK outcome \in {"failed", "canceled"} : Ended(d, outcome, outcome)
    BY <2>1
  <2> QED BY <1>t, <1>h, <1>n, <2>1, <2>2
      DEF Ended, HandlerAndRow, NothingBeforeTheInsert, TypeOK, Finished
<1>4. ASSUME NEW d \in Deployments, Inventory(d) PROVE NothingBeforeTheInsert'
  BY <1>t, <1>h, <1>n, <1>4
     DEF Inventory, TypeOK, NothingBeforeTheInsert, HandlerAndRow, Goto,
         AfterCapture, rowVars, jobVars
<1>5. ASSUME NEW d \in Deployments, Capture(d)
      PROVE NothingBeforeTheInsert'
  <2>1. /\ pc[d] = "capture"
        /\ \/ pc' = [pc EXCEPT ![d] = "capture"]
           \/ pc' = [pc EXCEPT ![d] = AfterCapture(d)]
        /\ UNCHANGED <<rowVars, files, jobVars, worldVars>>
    BY <1>t, <1>5, CaptureEffects
  <2>2. pc'[d] # "capture" => listed'[d] = {}
    BY <1>t, <1>5, CaptureEffects
  <2>3. \A x \in Deployments \ {d} : pre'[x] = pre[x] /\ listed'[x] = listed[x]
    BY <1>t, <1>5, CaptureEffects DEF TypeOK
  <2> QED BY <1>t, <1>h, <1>n, <2>1, <2>2, <2>3
      DEF TypeOK, NothingBeforeTheInsert, HandlerAndRow, AfterCapture, rowVars, jobVars
<1>6. ASSUME NEW d \in Deployments, Materialize(d) PROVE NothingBeforeTheInsert'
  BY <1>t, <1>h, <1>n, <1>6
     DEF Materialize, TypeOK, NothingBeforeTheInsert, HandlerAndRow, Goto, rowVars,
         jobVars
<1>7. ASSUME NEW d \in Deployments, Accept(d) PROVE NothingBeforeTheInsert'
  BY <1>t, <1>h, <1>n, <1>7
     DEF Accept, TypeOK, NothingBeforeTheInsert, HandlerAndRow, Goto, rowVars, jobVars
<1>8. ASSUME NEW d \in Deployments, Listen(d) PROVE NothingBeforeTheInsert'
  BY <1>t, <1>h, <1>n, <1>8
     DEF Listen, TypeOK, NothingBeforeTheInsert, HandlerAndRow, Goto, rowVars, jobVars
<1>9. ASSUME NEW d \in Deployments, PollReturns(d) PROVE NothingBeforeTheInsert'
  BY <1>t, <1>h, <1>n, <1>9
     DEF PollReturns, TypeOK, NothingBeforeTheInsert, HandlerAndRow, Goto, rowVars,
         jobVars
<1>10. ASSUME NEW d \in Deployments, Persist(d) PROVE NothingBeforeTheInsert'
  <2>1. PICK reported \in SUBSET (files[d] \union package[d].destructive) :
           before' = [before EXCEPT ![d] = ComponentRows(d, reported)]
    BY <1>t, <1>10, PersistEffects
  <2>2. /\ pc[d] = "persist"
        /\ Ended(d, MapDeployStatus(Answer(request[d])), "succeeded")
    BY <1>t, <1>10, PersistEffects
  <2>3. request[d] \in Finished /\ MapDeployStatus(Answer(request[d])) = request[d]
    BY <1>r, <2>2, StatusOfAnswer DEF HandlerAndRequest
  <2> QED BY <1>t, <1>h, <1>n, <2>1, <2>2, <2>3
      DEF Ended, HandlerAndRow, NothingBeforeTheInsert, TypeOK, Finished
<1>11. ASSUME NEW d \in Deployments, Cancel(d) PROVE NothingBeforeTheInsert'
  BY <1>t, <1>h, <1>n, <1>11
     DEF Cancel, TypeOK, NothingBeforeTheInsert, HandlerAndRow, rowVars, runVars,
         Running
<1>12. ASSUME NEW d \in Deployments, OrgApplies(d) PROVE NothingBeforeTheInsert'
  BY <1>t, <1>h, <1>n, <1>12
     DEF OrgApplies, TypeOK, NothingBeforeTheInsert, HandlerAndRow, rowVars, runVars,
         jobVars
<1>13. ASSUME NEW d \in Deployments, OrgRejects(d) PROVE NothingBeforeTheInsert'
  BY <1>t, <1>h, <1>n, <1>13
     DEF OrgRejects, TypeOK, NothingBeforeTheInsert, HandlerAndRow, rowVars, runVars,
         jobVars
<1>14. ASSUME NEW k \in Keys, NEW v \in States, SomebodyEdits(k, v)
       PROVE NothingBeforeTheInsert'
  BY <1>t, <1>h, <1>n, <1>14
     DEF SomebodyEdits, TypeOK, NothingBeforeTheInsert, HandlerAndRow, rowVars,
         runVars, jobVars
<1>15. CASE UNCHANGED vars
  BY <1>t, <1>h, <1>n, <1>15
     DEF vars, TypeOK, NothingBeforeTheInsert, HandlerAndRow, rowVars, runVars, jobVars
<1> QED
  BY <1>1, <1>2, <1>3, <1>4, <1>5, <1>6, <1>7, <1>8, <1>9, <1>10, <1>11, <1>12,
     <1>13, <1>14, <1>15
     DEF Next, Submit, SubmitQuick, Started

(* Packages stay well formed. *)
LEMMA PackagesAreSoundStep == IInv /\ [Next]_vars => PackagesAreSound'
<1> SUFFICES ASSUME IInv, [Next]_vars PROVE PackagesAreSound'
  OBVIOUS
<1>t. TypeOK
  BY DEF IInv
<1>s. PackagesAreSound
  BY DEF IInv
<1>h. HandlerAndRow
  BY DEF IInv
<1>r. HandlerAndRequest
  BY DEF IInv
<1>n. NothingBeforeTheInsert
  BY DEF IInv
<1>1. ASSUME NEW d \in Deployments, Started(d) PROVE PackagesAreSound'
  <2>1. PICK p \in Package, check \in BOOLEAN, source \in [Keys -> States],
             st \in {"running", "queued"},
             at \in {"lookup", "inventory", "materialize", "submit"} :
           StartedWith(d, p, check, source, st, at)
    BY <1>t, <1>s, <1>1, StartEffects
  <2>2. listed[d] = {} /\ files[d] = {}
    BY <1>h, <1>n, <2>1 DEF StartedWith, Begun, HandlerAndRow, NothingBeforeTheInsert
  <2>3. CASE ChosenPackage(p, source, at)
    BY <1>t, <1>s, <2>1, <2>3, <2>2
       DEF StartedWith, Begun, ChosenPackage, PackagesAreSound, Touched, TypeOK
  <2>4. CASE ChosenValidation(d, p, source, check, at)
    BY <1>t, <1>s, <2>1, <2>4, <2>2
       DEF StartedWith, Begun, ChosenValidation, PackagesAreSound, Touched, TypeOK
  <2>5. CASE ChosenRollback(d, p, source, at)
    BY <1>t, <1>s, <2>1, <2>5, <2>2
       DEF StartedWith, Begun, ChosenRollback, PackagesAreSound, Touched, TypeOK
  <2> QED BY <2>1, <2>3, <2>4, <2>5 DEF StartedWith
<1>2. ASSUME NEW d \in Deployments, GenerateRollback(d) PROVE PackagesAreSound'
  <2>1. package[d] \in Package /\ package[d].components \intersect package[d].destructive = {}
    BY <1>t, <1>s DEF TypeOK, Package, PackagesAreSound
  <2>2. LET plan == RollbackPlan(package[d], before[d])
        IN  plan.components \intersect plan.destructive = {}
    BY <2>1, PlanIsPackage
  <2> QED BY <1>t, <1>s, <1>2, <2>2
      DEF GenerateRollback, TypeOK, PackagesAreSound, Touched, runVars
<1>3. ASSUME NEW d \in Deployments, LookupFails(d) \/ ThrowsIfAborted(d) \/ CallFails(d)
      PROVE PackagesAreSound'
  <2>1. /\ before' = before
        /\ pc[d] \notin {"none", "persist", "done"}
        /\ Ended(d, "failed", "failed") \/ Ended(d, "canceled", "canceled")
    BY <1>t, <1>3, ThrowEffects
  <2>2. PICK outcome \in {"failed", "canceled"} : Ended(d, outcome, outcome)
    BY <2>1
  <2> QED BY <1>t, <1>s, <2>2 DEF Ended, PackagesAreSound, Touched, TypeOK
<1>4. ASSUME NEW d \in Deployments, Inventory(d) PROVE PackagesAreSound'
  <2>1. PICK seen \in SUBSET Touched(d) : listed' = [listed EXCEPT ![d] = seen]
    BY <1>4 DEF Inventory
  <2> QED BY <1>t, <1>s, <1>4, <2>1
      DEF Inventory, rowVars, PackagesAreSound, Touched, TypeOK
<1>5. ASSUME NEW d \in Deployments, Capture(d)
      PROVE PackagesAreSound'
  <2>1. PICK chunk \in SUBSET listed[d] : listed' = [listed EXCEPT ![d] = @ \ chunk]
    BY <1>t, <1>5, CaptureEffects
  <2>2. UNCHANGED <<package, inverse, files, content>>
    BY <1>5 DEF Capture, rowVars
  <2> QED BY <1>t, <1>s, <2>1, <2>2 DEF TypeOK, PackagesAreSound, Touched
<1>6. ASSUME NEW d \in Deployments, Materialize(d) PROVE PackagesAreSound'
  <2>1. PICK got \in SUBSET {k \in package[d].components : content[d][k] \in Contents} :
           files' = [files EXCEPT ![d] = got]
    BY <1>6 DEF Materialize
  <2> QED BY <1>t, <1>s, <1>6, <2>1
      DEF Materialize, rowVars, PackagesAreSound, Touched, TypeOK
<1>7. ASSUME NEW d \in Deployments, Accept(d) PROVE PackagesAreSound'
  BY <1>t, <1>s, <1>7 DEF Accept, TypeOK, PackagesAreSound, Touched, rowVars
<1>8. ASSUME NEW d \in Deployments, Listen(d) PROVE PackagesAreSound'
  BY <1>t, <1>s, <1>8 DEF Listen, TypeOK, PackagesAreSound, Touched, rowVars
<1>9. ASSUME NEW d \in Deployments, PollReturns(d) PROVE PackagesAreSound'
  BY <1>t, <1>s, <1>9 DEF PollReturns, TypeOK, PackagesAreSound, Touched, rowVars
<1>10. ASSUME NEW d \in Deployments, Persist(d) PROVE PackagesAreSound'
  <2>1. PICK reported \in SUBSET (files[d] \union package[d].destructive) :
           before' = [before EXCEPT ![d] = ComponentRows(d, reported)]
    BY <1>t, <1>10, PersistEffects
  <2>2. /\ pc[d] = "persist"
        /\ Ended(d, MapDeployStatus(Answer(request[d])), "succeeded")
    BY <1>t, <1>10, PersistEffects
  <2>3. request[d] \in Finished /\ MapDeployStatus(Answer(request[d])) = request[d]
    BY <1>r, <2>2, StatusOfAnswer DEF HandlerAndRequest
  <2> QED BY <1>t, <1>s, <2>2 DEF Ended, PackagesAreSound, Touched, TypeOK
<1>11. ASSUME NEW d \in Deployments, Cancel(d) PROVE PackagesAreSound'
  BY <1>t, <1>s, <1>11 DEF Cancel, TypeOK, PackagesAreSound, Touched, rowVars, runVars
<1>12. ASSUME NEW d \in Deployments, OrgApplies(d) PROVE PackagesAreSound'
  BY <1>t, <1>s, <1>12
     DEF OrgApplies, TypeOK, PackagesAreSound, Touched, rowVars, runVars
<1>13. ASSUME NEW d \in Deployments, OrgRejects(d) PROVE PackagesAreSound'
  BY <1>t, <1>s, <1>13
     DEF OrgRejects, TypeOK, PackagesAreSound, Touched, rowVars, runVars
<1>14. ASSUME NEW k \in Keys, NEW v \in States, SomebodyEdits(k, v)
       PROVE PackagesAreSound'
  BY <1>t, <1>s, <1>14
     DEF SomebodyEdits, TypeOK, PackagesAreSound, Touched, rowVars, runVars
<1>15. CASE UNCHANGED vars
  BY <1>t, <1>s, <1>15 DEF vars, TypeOK, PackagesAreSound, Touched, rowVars, runVars
<1> QED
  BY <1>1, <1>2, <1>3, <1>4, <1>5, <1>6, <1>7, <1>8, <1>9, <1>10, <1>11, <1>12,
     <1>13, <1>14, <1>15
     DEF Next, Submit, SubmitQuick, Started

(* Component rows stay those of a finished request. *)
LEMMA RowsAreOfTheEndStep == IInv /\ [Next]_vars => RowsAreOfTheEnd'
<1> SUFFICES ASSUME IInv, [Next]_vars PROVE RowsAreOfTheEnd'
  OBVIOUS
<1>t. TypeOK
  BY DEF IInv
<1>s. PackagesAreSound
  BY DEF IInv
<1>h. HandlerAndRow
  BY DEF IInv
<1>r. HandlerAndRequest
  BY DEF IInv
<1>n. NothingBeforeTheInsert
  BY DEF IInv
<1>e. RowsAreOfTheEnd
  BY DEF IInv
<1>1. ASSUME NEW d \in Deployments, Started(d) PROVE RowsAreOfTheEnd'
  <2>1. PICK p \in Package, check \in BOOLEAN, source \in [Keys -> States],
             st \in {"running", "queued"},
             at \in {"lookup", "inventory", "materialize", "submit"} :
           StartedWith(d, p, check, source, st, at)
    BY <1>t, <1>s, <1>1, StartEffects
  <2>2. \A k \in Keys : before[d][k] = NoRow
    BY <1>h, <1>e, <1>t, <2>1
       DEF StartedWith, Begun, HandlerAndRow, RowsAreOfTheEnd, TypeOK
  <2> QED BY <1>t, <1>e, <2>1, <2>2
      DEF StartedWith, Begun, RowsAreOfTheEnd, Touched, TypeOK
<1>2. ASSUME NEW d \in Deployments, GenerateRollback(d) PROVE RowsAreOfTheEnd'
  BY <1>t, <1>e, <1>h, <1>r, <1>2
     DEF GenerateRollback, TypeOK, RowsAreOfTheEnd, HandlerAndRow, HandlerAndRequest,
         Touched, Finished, runVars, worldVars
<1>3. ASSUME NEW d \in Deployments, LookupFails(d) \/ ThrowsIfAborted(d) \/ CallFails(d)
      PROVE RowsAreOfTheEnd'
  <2>1. /\ before' = before
        /\ pc[d] \notin {"none", "persist", "done"}
        /\ Ended(d, "failed", "failed") \/ Ended(d, "canceled", "canceled")
    BY <1>t, <1>3, ThrowEffects
  <2>2. PICK outcome \in {"failed", "canceled"} : Ended(d, outcome, outcome)
    BY <2>1
  <2> QED BY <1>t, <1>e, <2>1, <2>2 DEF Ended, RowsAreOfTheEnd, Touched, TypeOK
<1>4. ASSUME NEW d \in Deployments, Inventory(d) PROVE RowsAreOfTheEnd'
  BY <1>t, <1>e, <1>h, <1>r, <1>4
     DEF Inventory, TypeOK, RowsAreOfTheEnd, HandlerAndRow, HandlerAndRequest,
         Touched, Finished, Goto, AfterCapture, rowVars, worldVars
<1>5. ASSUME NEW d \in Deployments, Capture(d) PROVE RowsAreOfTheEnd'
  <2>1. /\ pc[d] = "capture"
        /\ \/ pc' = [pc EXCEPT ![d] = "capture"]
           \/ pc' = [pc EXCEPT ![d] = AfterCapture(d)]
        /\ UNCHANGED <<rowVars, files, jobVars, worldVars>>
    BY <1>t, <1>5, CaptureEffects
  <2> QED BY <1>t, <1>e, <1>h, <1>r, <2>1
      DEF TypeOK, RowsAreOfTheEnd, HandlerAndRow, HandlerAndRequest, Touched, Finished, AfterCapture, rowVars, worldVars
<1>6. ASSUME NEW d \in Deployments, Materialize(d) PROVE RowsAreOfTheEnd'
  BY <1>t, <1>e, <1>h, <1>r, <1>6
     DEF Materialize, TypeOK, RowsAreOfTheEnd, HandlerAndRow, HandlerAndRequest,
         Touched, Finished, Goto, rowVars, worldVars
<1>7. ASSUME NEW d \in Deployments, Accept(d) PROVE RowsAreOfTheEnd'
  BY <1>t, <1>e, <1>h, <1>r, <1>7
     DEF Accept, TypeOK, RowsAreOfTheEnd, HandlerAndRow, HandlerAndRequest, Touched,
         Finished, Goto, rowVars
<1>8. ASSUME NEW d \in Deployments, Listen(d) PROVE RowsAreOfTheEnd'
  BY <1>t, <1>e, <1>h, <1>r, <1>8
     DEF Listen, TypeOK, RowsAreOfTheEnd, HandlerAndRow, HandlerAndRequest, Touched,
         Finished, Goto, rowVars, worldVars
<1>9. ASSUME NEW d \in Deployments, PollReturns(d) PROVE RowsAreOfTheEnd'
  BY <1>t, <1>e, <1>h, <1>r, <1>9
     DEF PollReturns, TypeOK, RowsAreOfTheEnd, HandlerAndRow, HandlerAndRequest,
         Touched, Finished, Goto, rowVars, worldVars
<1>10. ASSUME NEW d \in Deployments, Persist(d) PROVE RowsAreOfTheEnd'
  <2>1. PICK reported \in SUBSET (files[d] \union package[d].destructive) :
           before' = [before EXCEPT ![d] = ComponentRows(d, reported)]
    BY <1>t, <1>10, PersistEffects
  <2>2. /\ pc[d] = "persist"
        /\ Ended(d, MapDeployStatus(Answer(request[d])), "succeeded")
    BY <1>t, <1>10, PersistEffects
  <2>3. request[d] \in Finished /\ MapDeployStatus(Answer(request[d])) = request[d]
    BY <1>r, <2>2, StatusOfAnswer DEF HandlerAndRequest
  <2>4. reported \subseteq Touched(d)
    BY <1>s DEF PackagesAreSound, Touched
  <2> QED BY <1>t, <1>e, <2>1, <2>2, <2>3, <2>4
          DEF Ended, RowsAreOfTheEnd, ComponentRows, Touched, TypeOK, Finished
<1>11. ASSUME NEW d \in Deployments, Cancel(d) PROVE RowsAreOfTheEnd'
  BY <1>t, <1>e, <1>h, <1>r, <1>11
     DEF Cancel, TypeOK, RowsAreOfTheEnd, HandlerAndRow, HandlerAndRequest, Touched,
         Finished, rowVars, runVars
<1>12. ASSUME NEW d \in Deployments, OrgApplies(d) PROVE RowsAreOfTheEnd'
  BY <1>t, <1>e, <1>h, <1>r, <1>12
     DEF OrgApplies, TypeOK, RowsAreOfTheEnd, HandlerAndRow, HandlerAndRequest,
         Touched, Finished, rowVars, runVars
<1>13. ASSUME NEW d \in Deployments, OrgRejects(d) PROVE RowsAreOfTheEnd'
  BY <1>t, <1>e, <1>h, <1>r, <1>13
     DEF OrgRejects, TypeOK, RowsAreOfTheEnd, HandlerAndRow, HandlerAndRequest,
         Touched, Finished, rowVars, runVars
<1>14. ASSUME NEW k \in Keys, NEW v \in States, SomebodyEdits(k, v)
       PROVE RowsAreOfTheEnd'
  BY <1>t, <1>e, <1>h, <1>r, <1>14
     DEF SomebodyEdits, TypeOK, RowsAreOfTheEnd, HandlerAndRow, HandlerAndRequest,
         Touched, Finished, rowVars, runVars
<1>15. CASE UNCHANGED vars
  BY <1>t, <1>e, <1>h, <1>r, <1>15
     DEF vars, TypeOK, RowsAreOfTheEnd, HandlerAndRow, HandlerAndRequest, Touched,
         Finished, rowVars, runVars, worldVars
<1> QED
  BY <1>1, <1>2, <1>3, <1>4, <1>5, <1>6, <1>7, <1>8, <1>9, <1>10, <1>11, <1>12,
     <1>13, <1>14, <1>15
     DEF Next, Submit, SubmitQuick, Started

(* Aborted signals stay acknowledged. *)
LEMMA AbortedIsAckedStep == IInv /\ [Next]_vars => AbortedIsAcked'
<1> SUFFICES ASSUME IInv, [Next]_vars PROVE AbortedIsAcked'
  OBVIOUS
<1>t. TypeOK
  BY DEF IInv
<1>s. PackagesAreSound
  BY DEF IInv
<1>a. AbortedIsAcked
  BY DEF IInv
<1>r. HandlerAndRequest
  BY DEF IInv
<1>1. ASSUME NEW d \in Deployments, Started(d) PROVE AbortedIsAcked'
  <2>1. PICK p \in Package, check \in BOOLEAN, source \in [Keys -> States],
             st \in {"running", "queued"},
             at \in {"lookup", "inventory", "materialize", "submit"} :
           StartedWith(d, p, check, source, st, at)
    BY <1>t, <1>s, <1>1, StartEffects
  <2> QED BY <1>a, <2>1 DEF StartedWith, Begun, AbortedIsAcked
<1>2. ASSUME NEW d \in Deployments, GenerateRollback(d) PROVE AbortedIsAcked'
  BY <1>a, <1>2 DEF GenerateRollback, AbortedIsAcked, jobVars
<1>3. ASSUME NEW d \in Deployments, LookupFails(d) \/ ThrowsIfAborted(d) \/ CallFails(d)
      PROVE AbortedIsAcked'
  <2>1. /\ before' = before
        /\ pc[d] \notin {"none", "persist", "done"}
        /\ Ended(d, "failed", "failed") \/ Ended(d, "canceled", "canceled")
    BY <1>t, <1>3, ThrowEffects
  <2>2. PICK outcome \in {"failed", "canceled"} : Ended(d, outcome, outcome)
    BY <2>1
  <2> QED BY <1>a, <2>2 DEF Ended, AbortedIsAcked
<1>4. ASSUME NEW d \in Deployments, Inventory(d) PROVE AbortedIsAcked'
  BY <1>a, <1>4 DEF Inventory, AbortedIsAcked, jobVars
<1>5. ASSUME NEW d \in Deployments, Capture(d) PROVE AbortedIsAcked'
  BY <1>a, <1>5 DEF Capture, AbortedIsAcked, jobVars
<1>6. ASSUME NEW d \in Deployments, Materialize(d) PROVE AbortedIsAcked'
  BY <1>a, <1>6 DEF Materialize, AbortedIsAcked, jobVars
<1>7. ASSUME NEW d \in Deployments, Accept(d) PROVE AbortedIsAcked'
  BY <1>a, <1>7 DEF Accept, AbortedIsAcked, jobVars
<1>8. ASSUME NEW d \in Deployments, Listen(d) PROVE AbortedIsAcked'
  BY <1>a, <1>8 DEF Listen, AbortedIsAcked, jobVars
<1>9. ASSUME NEW d \in Deployments, PollReturns(d) PROVE AbortedIsAcked'
  BY <1>a, <1>9 DEF PollReturns, AbortedIsAcked, jobVars
<1>10. ASSUME NEW d \in Deployments, Persist(d) PROVE AbortedIsAcked'
  <2>1. PICK reported \in SUBSET (files[d] \union package[d].destructive) :
           before' = [before EXCEPT ![d] = ComponentRows(d, reported)]
    BY <1>t, <1>10, PersistEffects
  <2>2. /\ pc[d] = "persist"
        /\ Ended(d, MapDeployStatus(Answer(request[d])), "succeeded")
    BY <1>t, <1>10, PersistEffects
  <2> QED BY <1>a, <2>2 DEF Ended, AbortedIsAcked
<1>11. ASSUME NEW d \in Deployments, Cancel(d) PROVE AbortedIsAcked'
  BY <1>a, <1>11 DEF Cancel, AbortedIsAcked
<1>12. ASSUME NEW d \in Deployments, OrgApplies(d) PROVE AbortedIsAcked'
  BY <1>a, <1>12 DEF OrgApplies, AbortedIsAcked, jobVars
<1>13. ASSUME NEW d \in Deployments, OrgRejects(d) PROVE AbortedIsAcked'
  BY <1>a, <1>13 DEF OrgRejects, AbortedIsAcked, jobVars
<1>14. ASSUME NEW k \in Keys, NEW v \in States, SomebodyEdits(k, v)
       PROVE AbortedIsAcked'
  BY <1>a, <1>14 DEF SomebodyEdits, AbortedIsAcked, jobVars
<1>15. CASE UNCHANGED vars
  BY <1>a, <1>15 DEF vars, AbortedIsAcked, jobVars
<1> QED
  BY <1>1, <1>2, <1>3, <1>4, <1>5, <1>6, <1>7, <1>8, <1>9, <1>10, <1>11, <1>12,
     <1>13, <1>14, <1>15
     DEF Next, Submit, SubmitQuick, Started

(* Captured content stays the org's, or what it held. *)
LEMMA CapturedContentIsThereStep == IInv /\ [Next]_vars => CapturedContentIsThere'
<1> SUFFICES ASSUME IInv, [Next]_vars PROVE CapturedContentIsThere'
  OBVIOUS
<1>t. TypeOK
  BY DEF IInv
<1>s. PackagesAreSound
  BY DEF IInv
<1>h. HandlerAndRow
  BY DEF IInv
<1>r. HandlerAndRequest
  BY DEF IInv
<1>n. NothingBeforeTheInsert
  BY DEF IInv
<1>e. RowsAreOfTheEnd
  BY DEF IInv
<1>c. CapturedContentIsThere
  BY DEF IInv
<1>1. ASSUME NEW d \in Deployments, Started(d) PROVE CapturedContentIsThere'
  <2>1. PICK p \in Package, check \in BOOLEAN, source \in [Keys -> States],
             st \in {"running", "queued"},
             at \in {"lookup", "inventory", "materialize", "submit"} :
           StartedWith(d, p, check, source, st, at)
    BY <1>t, <1>s, <1>1, StartEffects
  <2>2. pc[d] = "none" /\ pre[d] = Unrecorded
    BY <1>h, <1>n, <2>1 DEF StartedWith, Begun, HandlerAndRow, NothingBeforeTheInsert
  <2>3. \A k \in Keys : pre'[d][k] \notin Contents
    BY <2>1, <2>2, ValuesAssumption DEF StartedWith, Begun, Unrecorded
  <2> QED BY <1>t, <1>c, <2>1, <2>3
      DEF StartedWith, Begun, CapturedContentIsThere, Reading, TypeOK
<1>2. ASSUME NEW d \in Deployments, GenerateRollback(d) PROVE CapturedContentIsThere'
  BY <1>t, <1>h, <1>r, <1>n, <1>c, <1>2
     DEF GenerateRollback, CapturedContentIsThere, Reading, HandlerAndRequest,
         TypeOK, runVars, worldVars
<1>3. ASSUME NEW d \in Deployments, LookupFails(d) \/ ThrowsIfAborted(d) \/ CallFails(d)
      PROVE CapturedContentIsThere'
  <2>1. /\ before' = before
        /\ pc[d] \notin {"none", "persist", "done"}
        /\ Ended(d, "failed", "failed") \/ Ended(d, "canceled", "canceled")
    BY <1>t, <1>3, ThrowEffects
  <2>2. PICK outcome \in {"failed", "canceled"} : Ended(d, outcome, outcome)
    BY <2>1
  <2>3. \A k \in Keys : pre'[d][k] \notin Contents
    BY <1>t, <2>2, ValuesAssumption DEF Ended, Unrecorded, TypeOK
  <2> QED BY <1>t, <1>c, <2>2, <2>3 DEF Ended, CapturedContentIsThere, Reading, TypeOK
<1>4. ASSUME NEW d \in Deployments, Inventory(d) PROVE CapturedContentIsThere'
  <2>1. PICK seen \in SUBSET Touched(d) :
           pre' = [pre EXCEPT ![d] = [k \in Keys |-> IF k \in Touched(d) \ seen THEN Absent ELSE NoRow]]
    BY <1>4 DEF Inventory
  <2>2. \A k \in Keys : pre'[d][k] \notin Contents
    BY <1>t, <2>1, ValuesAssumption DEF TypeOK
  <2>3. \A x \in Deployments \ {d} : pre'[x] = pre[x] /\ pc'[x] = pc[x]
    BY <1>t, <2>1, <1>4 DEF Inventory, Goto, AfterCapture, TypeOK
  <2> QED BY <1>c, <1>4, <2>2, <2>3
      DEF Inventory, worldVars, CapturedContentIsThere, Reading
<1>5. ASSUME NEW d \in Deployments, Capture(d)
      PROVE CapturedContentIsThere'
  <2>1. /\ pc[d] = "capture"
        /\ \/ pc' = [pc EXCEPT ![d] = "capture"]
           \/ pc' = [pc EXCEPT ![d] = AfterCapture(d)]
        /\ UNCHANGED <<rowVars, files, jobVars, worldVars>>
    BY <1>t, <1>5, CaptureEffects
  <2>2. /\ request[d] = "none" /\ d \in Reading
        /\ \A x \in Deployments \ {d} : pc'[x] = pc[x]
    BY <1>t, <1>r, <2>1 DEF HandlerAndRequest, Reading, TypeOK
  <2>3. PICK chunk \in SUBSET listed[d] : \E unread \in SUBSET chunk :
           pre' = [pre EXCEPT ![d] = ReadChunk(d, chunk, unread)]
    BY <1>t, <1>5, CaptureEffects
  <2>4. /\ \A x \in Deployments \ {d} : pre'[x] = pre[x]
        /\ \A k \in Keys : pre'[d][k] \in {org[k], Absent, pre[d][k]}
    BY <1>t, <2>3 DEF ReadChunk, TypeOK
  <2> QED BY <1>c, <2>1, <2>2, <2>4, ValuesAssumption
      DEF worldVars, CapturedContentIsThere, Reading
<1>6. ASSUME NEW d \in Deployments, Materialize(d) PROVE CapturedContentIsThere'
  BY <1>t, <1>h, <1>r, <1>n, <1>c, <1>6
     DEF Materialize, CapturedContentIsThere, Reading, HandlerAndRequest, TypeOK,
         Goto, rowVars, worldVars
<1>7. ASSUME NEW d \in Deployments, Accept(d) PROVE CapturedContentIsThere'
  BY <1>t, <1>h, <1>r, <1>n, <1>c, <1>7
     DEF Accept, CapturedContentIsThere, Reading, HandlerAndRequest, TypeOK, Goto,
         rowVars
<1>8. ASSUME NEW d \in Deployments, Listen(d) PROVE CapturedContentIsThere'
  BY <1>t, <1>h, <1>r, <1>n, <1>c, <1>8
     DEF Listen, CapturedContentIsThere, Reading, HandlerAndRequest, TypeOK, Goto,
         rowVars, worldVars
<1>9. ASSUME NEW d \in Deployments, PollReturns(d) PROVE CapturedContentIsThere'
  BY <1>t, <1>h, <1>r, <1>n, <1>c, <1>9
     DEF PollReturns, CapturedContentIsThere, Reading, HandlerAndRequest, TypeOK,
         Goto, rowVars, worldVars
<1>10. ASSUME NEW d \in Deployments, Persist(d) PROVE CapturedContentIsThere'
  <2>1. PICK reported \in SUBSET (files[d] \union package[d].destructive) :
           before' = [before EXCEPT ![d] = ComponentRows(d, reported)]
    BY <1>t, <1>10, PersistEffects
  <2>2. /\ pc[d] = "persist"
        /\ Ended(d, MapDeployStatus(Answer(request[d])), "succeeded")
    BY <1>t, <1>10, PersistEffects
  <2>3. request[d] \in Finished /\ MapDeployStatus(Answer(request[d])) = request[d]
    BY <1>r, <2>2, StatusOfAnswer DEF HandlerAndRequest
  <2>4. \A k \in Keys : pre'[d][k] \notin Contents
    BY <1>t, <2>2, ValuesAssumption DEF Ended, Unrecorded, TypeOK
  <2> QED BY <1>t, <1>c, <2>2, <2>4 DEF Ended, CapturedContentIsThere, Reading, TypeOK
<1>11. ASSUME NEW d \in Deployments, Cancel(d) PROVE CapturedContentIsThere'
  BY <1>t, <1>h, <1>r, <1>n, <1>c, <1>11
     DEF Cancel, CapturedContentIsThere, Reading, HandlerAndRequest, TypeOK, rowVars,
         runVars
<1>12. ASSUME NEW d \in Deployments, OrgApplies(d) PROVE CapturedContentIsThere'
  <2>1. /\ request[d] = "pending" /\ request'[d] = "succeeded" /\ held'[d] = org
        /\ pre' = pre /\ pc' = pc
        /\ \A x \in Deployments \ {d} : request'[x] = request[x] /\ held'[x] = held[x]
        /\ disturbed \subseteq disturbed'
        /\ \A x \in Deployments \ {d} : x \in Reading /\ x \notin disturbed' => org' = org
    BY <1>t, <1>12 DEF OrgApplies, TypeOK, runVars
  <2>2. pc[d] \in {"sent", "poll", "done"}
    BY <1>t, <1>r, <2>1 DEF HandlerAndRequest, Finished, TypeOK
  <2>3. pc[d] = "done" => \A k \in Keys : pre[d][k] \notin Contents
    BY <1>n, ValuesAssumption DEF NothingBeforeTheInsert, Unrecorded
  <2> QED BY <1>c, <2>1, <2>2, <2>3 DEF CapturedContentIsThere, Reading
<1>13. ASSUME NEW d \in Deployments, OrgRejects(d) PROVE CapturedContentIsThere'
  <2>1. /\ request[d] = "pending" /\ request'[d] \in {"failed", "canceled"}
        /\ \A x \in Deployments \ {d} : request'[x] = request[x]
        /\ UNCHANGED <<pre, pc, org, held, disturbed>>
    BY <1>t, <1>13 DEF OrgRejects, TypeOK, runVars
  <2> QED BY <1>c, <2>1 DEF CapturedContentIsThere, Reading
<1>14. ASSUME NEW k \in Keys, NEW v \in States, SomebodyEdits(k, v)
       PROVE CapturedContentIsThere'
  <2>1. /\ disturbed' = disturbed \union Reading
        /\ UNCHANGED <<pre, pc, request, held>>
    BY <1>14 DEF SomebodyEdits, runVars
  <2> QED BY <1>c, <2>1 DEF CapturedContentIsThere, Reading
<1>15. CASE UNCHANGED vars
  BY <1>t, <1>h, <1>r, <1>n, <1>c, <1>15
     DEF vars, CapturedContentIsThere, Reading, HandlerAndRequest, TypeOK, rowVars,
         runVars, worldVars
<1> QED
  BY <1>1, <1>2, <1>3, <1>4, <1>5, <1>6, <1>7, <1>8, <1>9, <1>10, <1>11, <1>12,
     <1>13, <1>14, <1>15
     DEF Next, Submit, SubmitQuick, Started

(* Recorded content stays what the org held. *)
LEMMA RecordedContentWasThereStep == IInv /\ [Next]_vars => RecordedContentWasThere'
<1> SUFFICES ASSUME IInv, [Next]_vars PROVE RecordedContentWasThere'
  OBVIOUS
<1>t. TypeOK
  BY DEF IInv
<1>s. PackagesAreSound
  BY DEF IInv
<1>h. HandlerAndRow
  BY DEF IInv
<1>r. HandlerAndRequest
  BY DEF IInv
<1>n. NothingBeforeTheInsert
  BY DEF IInv
<1>e. RowsAreOfTheEnd
  BY DEF IInv
<1>c. CapturedContentIsThere
  BY DEF IInv
<1>w. RecordedContentWasThere
  BY DEF IInv
<1>1. ASSUME NEW d \in Deployments, Started(d) PROVE RecordedContentWasThere'
  <2>1. PICK p \in Package, check \in BOOLEAN, source \in [Keys -> States],
             st \in {"running", "queued"},
             at \in {"lookup", "inventory", "materialize", "submit"} :
           StartedWith(d, p, check, source, st, at)
    BY <1>t, <1>s, <1>1, StartEffects
  <2> QED BY <1>w, <2>1 DEF StartedWith, Begun, RecordedContentWasThere
<1>2. ASSUME NEW d \in Deployments, GenerateRollback(d) PROVE RecordedContentWasThere'
  BY <1>w, <1>2 DEF GenerateRollback, RecordedContentWasThere, worldVars
<1>3. ASSUME NEW d \in Deployments, LookupFails(d) \/ ThrowsIfAborted(d) \/ CallFails(d)
      PROVE RecordedContentWasThere'
  <2>1. /\ before' = before
        /\ pc[d] \notin {"none", "persist", "done"}
        /\ Ended(d, "failed", "failed") \/ Ended(d, "canceled", "canceled")
    BY <1>t, <1>3, ThrowEffects
  <2>2. PICK outcome \in {"failed", "canceled"} : Ended(d, outcome, outcome)
    BY <2>1
  <2> QED BY <1>w, <2>1, <2>2 DEF Ended, RecordedContentWasThere
<1>4. ASSUME NEW d \in Deployments, Inventory(d) PROVE RecordedContentWasThere'
  BY <1>w, <1>4 DEF Inventory, RecordedContentWasThere, rowVars, worldVars
<1>5. ASSUME NEW d \in Deployments, Capture(d)
      PROVE RecordedContentWasThere'
  BY <1>w, <1>5 DEF Capture, RecordedContentWasThere, rowVars, worldVars
<1>6. ASSUME NEW d \in Deployments, Materialize(d) PROVE RecordedContentWasThere'
  BY <1>w, <1>6 DEF Materialize, RecordedContentWasThere, rowVars, worldVars
<1>7. ASSUME NEW d \in Deployments, Accept(d) PROVE RecordedContentWasThere'
  <2>1. before' = before /\ held' = held /\ disturbed' = disturbed
    BY <1>7 DEF Accept, rowVars
  <2>2. \A x \in Deployments : request'[x] = "succeeded" => request[x] = "succeeded"
    BY <1>t, <1>7 DEF Accept, TypeOK
  <2> QED BY <1>w, <2>1, <2>2 DEF RecordedContentWasThere
<1>8. ASSUME NEW d \in Deployments, Listen(d) PROVE RecordedContentWasThere'
  BY <1>w, <1>8 DEF Listen, RecordedContentWasThere, rowVars, worldVars
<1>9. ASSUME NEW d \in Deployments, PollReturns(d) PROVE RecordedContentWasThere'
  BY <1>w, <1>9 DEF PollReturns, RecordedContentWasThere, rowVars, worldVars
<1>10. ASSUME NEW d \in Deployments, Persist(d) PROVE RecordedContentWasThere'
  <2>1. PICK reported \in SUBSET (files[d] \union package[d].destructive) :
           before' = [before EXCEPT ![d] = ComponentRows(d, reported)]
    BY <1>t, <1>10, PersistEffects
  <2>2. /\ pc[d] = "persist"
        /\ Ended(d, MapDeployStatus(Answer(request[d])), "succeeded")
    BY <1>t, <1>10, PersistEffects
  <2>3. request[d] \in Finished /\ MapDeployStatus(Answer(request[d])) = request[d]
    BY <1>r, <2>2, StatusOfAnswer DEF HandlerAndRequest
  <2>4. /\ \A x \in Deployments \ {d} : before'[x] = before[x]
        /\ \A k \in Keys : before'[d][k] \in {pre[d][k], NoRow}
        /\ UNCHANGED <<request, held, disturbed>>
    BY <1>t, <2>1, <2>2 DEF Ended, ComponentRows, TypeOK
  <2> QED BY <1>w, <1>c, <2>2, <2>4, ValuesAssumption
          DEF RecordedContentWasThere, CapturedContentIsThere
<1>11. ASSUME NEW d \in Deployments, Cancel(d) PROVE RecordedContentWasThere'
  BY <1>w, <1>11 DEF Cancel, RecordedContentWasThere, rowVars
<1>12. ASSUME NEW d \in Deployments, OrgApplies(d) PROVE RecordedContentWasThere'
  <2>1. /\ request[d] = "pending" /\ before' = before
        /\ disturbed \subseteq disturbed'
        /\ \A x \in Deployments \ {d} : request'[x] = request[x] /\ held'[x] = held[x]
    BY <1>t, <1>12 DEF OrgApplies, TypeOK, rowVars
  <2>2. \A k \in Keys : before[d][k] = NoRow
    BY <1>e, <2>1 DEF RowsAreOfTheEnd, Finished
  <2> QED BY <1>w, <2>1, <2>2, ValuesAssumption DEF RecordedContentWasThere
<1>13. ASSUME NEW d \in Deployments, OrgRejects(d) PROVE RecordedContentWasThere'
  <2>1. before' = before /\ held' = held /\ disturbed' = disturbed
    BY <1>13 DEF OrgRejects, rowVars
  <2>2. \A x \in Deployments : request'[x] = "succeeded" => request[x] = "succeeded"
    BY <1>t, <1>13 DEF OrgRejects, TypeOK
  <2> QED BY <1>w, <2>1, <2>2 DEF RecordedContentWasThere
<1>14. ASSUME NEW k \in Keys, NEW v \in States, SomebodyEdits(k, v)
       PROVE RecordedContentWasThere'
  <2>1. disturbed \subseteq disturbed' /\ UNCHANGED <<before, held, request>>
    BY <1>14 DEF SomebodyEdits, rowVars
  <2> QED BY <1>w, <2>1 DEF RecordedContentWasThere
<1>15. CASE UNCHANGED vars
  BY <1>w, <1>15 DEF vars, RecordedContentWasThere, rowVars, worldVars
<1> QED
  BY <1>1, <1>2, <1>3, <1>4, <1>5, <1>6, <1>7, <1>8, <1>9, <1>10, <1>11, <1>12,
     <1>13, <1>14, <1>15
     DEF Next, Submit, SubmitQuick, Started

(* Without failures captures stay complete. *)
LEMMA CaptureIsCompleteStep == IInv /\ [Next]_vars => CaptureIsComplete'
<1> SUFFICES ASSUME IInv, [Next]_vars PROVE CaptureIsComplete'
  OBVIOUS
<1>t. TypeOK
  BY DEF IInv
<1>s. PackagesAreSound
  BY DEF IInv
<1>h. HandlerAndRow
  BY DEF IInv
<1>r. HandlerAndRequest
  BY DEF IInv
<1>n. NothingBeforeTheInsert
  BY DEF IInv
<1>e. RowsAreOfTheEnd
  BY DEF IInv
<1>c. CaptureIsComplete
  BY DEF IInv
<1>1. ASSUME NEW d \in Deployments, Started(d) PROVE CaptureIsComplete'
  <2>1. PICK p \in Package, check \in BOOLEAN, source \in [Keys -> States],
             st \in {"running", "queued"},
             at \in {"lookup", "inventory", "materialize", "submit"} :
           StartedWith(d, p, check, source, st, at)
    BY <1>t, <1>s, <1>1, StartEffects
  <2>2. /\ request'[d] = "none" /\ row'[d] # "succeeded"
        /\ pc[d] = "none" /\ (faults' = 0 => faults = 0)
        /\ d \in Reading' => check \/ p = NoPackage
        /\ package'[d] = p /\ checkOnly'[d] = check
    BY <1>t, <1>h, <1>r, <2>1
       DEF StartedWith, Begun, HandlerAndRow, HandlerAndRequest, Reading, TypeOK
  <2>3. /\ \A x \in Deployments \ {d} : /\ package'[x] = package[x] /\ checkOnly'[x] = checkOnly[x]
                                      /\ pc'[x] = pc[x] /\ row'[x] = row[x] /\ files'[x] = files[x]
        /\ UNCHANGED <<disturbed, request, pre, listed, before, held, org>>
    <3>1. \A x \in Deployments \ {d} : files'[x] = files[x]
      BY <1>t, <2>1
         DEF StartedWith, ChosenPackage, ChosenValidation, ChosenRollback, TypeOK
    <3> QED BY <1>t, <2>1, <3>1 DEF StartedWith, Begun, TypeOK
  <2>4. d \in Reading' /\ ~checkOnly'[d] => Touched(d)' = {}
    BY <2>2 DEF Touched, NoPackage
  <2> QED BY <1>c, <2>2, <2>3, <2>4 DEF CaptureIsComplete, Reading, Touched
<1>2. ASSUME NEW d \in Deployments, GenerateRollback(d) PROVE CaptureIsComplete'
  <2>1. /\ UNCHANGED <<faults, disturbed, checkOnly, pc, request, package, listed, pre, org>>
        /\ UNCHANGED <<held, row, files, before>>
    BY <1>2 DEF GenerateRollback, runVars, worldVars
  <2> QED BY <1>c, <2>1 DEF CaptureIsComplete, Reading, Touched
<1>3. ASSUME NEW d \in Deployments, LookupFails(d) \/ ThrowsIfAborted(d) \/ CallFails(d)
      PROVE CaptureIsComplete'
  <2>1. /\ before' = before
        /\ pc[d] \notin {"none", "persist", "done"}
        /\ Ended(d, "failed", "failed") \/ Ended(d, "canceled", "canceled")
    BY <1>t, <1>3, ThrowEffects
  <2>2. PICK outcome \in {"failed", "canceled"} : Ended(d, outcome, outcome)
    BY <2>1
  <2>3. /\ pc'[d] = "done" /\ row'[d] # "succeeded" /\ (faults' = 0 => faults = 0)
        /\ \A x \in Deployments \ {d} : /\ pc'[x] = pc[x] /\ row'[x] = row[x]
                                      /\ listed'[x] = listed[x] /\ pre'[x] = pre[x]
        /\ UNCHANGED <<disturbed, checkOnly, package, files, request, org, held, before>>
    BY <1>t, <2>1, <2>2 DEF Ended, TypeOK
  <2> QED BY <1>c, <2>3 DEF CaptureIsComplete, Reading, Touched
<1>4. ASSUME NEW d \in Deployments, Inventory(d) PROVE CaptureIsComplete'
  <2>1. PICK seen \in SUBSET {k \in Touched(d) : org[k] # Absent} :
           /\ IF seen = {k \in Touched(d) : org[k] # Absent} THEN UNCHANGED faults ELSE Fault
           /\ listed' = [listed EXCEPT ![d] = seen]
           /\ pre' = [pre EXCEPT ![d] = [k \in Keys |-> IF k \in Touched(d) \ seen THEN Absent ELSE NoRow]]
    BY <1>4 DEF Inventory
  <2>2. /\ faults' = 0 => seen = {k \in Touched(d) : org[k] # Absent}
        /\ faults' = 0 => faults = 0
    BY <1>t, <2>1, BoundsAssumption DEF Fault, TypeOK
  <2>3. Touched(d) \subseteq Keys
    BY <1>t DEF Touched, TypeOK
  <2>4. faults' = 0 => \A k \in Touched(d) : k \in listed'[d] \/ pre'[d][k] = org[k]
    BY <1>t, <2>1, <2>3, <2>2 DEF TypeOK
  <2>5. /\ request[d] = "none" /\ row[d] # "succeeded" /\ (faults' = 0 => faults = 0)
        /\ \A x \in Deployments \ {d} : /\ pc'[x] = pc[x]
                                      /\ listed'[x] = listed[x] /\ pre'[x] = pre[x]
        /\ UNCHANGED <<disturbed, checkOnly, package, files, request, org, held, before, row>>
    BY <1>t, <1>r, <2>1, <2>2, <1>4
       DEF Inventory, Goto, AfterCapture, rowVars, worldVars, HandlerAndRequest, TypeOK
  <2> QED BY <1>c, <2>4, <2>5 DEF CaptureIsComplete, Reading, Touched
<1>5. ASSUME NEW d \in Deployments, Capture(d)
      PROVE CaptureIsComplete'
  <2>1. /\ d \in Reading /\ request[d] = "none" /\ row[d] # "succeeded"
        /\ faults' = 0 => faults = 0
        /\ \A x \in Deployments \ {d} : /\ pc'[x] = pc[x]
                                      /\ listed'[x] = listed[x] /\ pre'[x] = pre[x]
        /\ UNCHANGED <<disturbed, checkOnly, package, files, request, org, held, before, row>>
    <3>1. /\ pc[d] = "capture"
          /\ \/ pc' = [pc EXCEPT ![d] = "capture"]
             \/ pc' = [pc EXCEPT ![d] = AfterCapture(d)]
          /\ faults' = 0 => faults = 0
          /\ UNCHANGED <<rowVars, files, worldVars>>
      BY <1>t, <1>5, CaptureEffects
    <3>2. \A x \in Deployments \ {d} : listed'[x] = listed[x] /\ pre'[x] = pre[x]
      BY <1>t, <1>5, CaptureEffects DEF TypeOK
    <3>3. request[d] = "none" /\ row[d] # "succeeded"
      BY <1>r, <3>1 DEF HandlerAndRequest
    <3> QED BY <1>t, <3>1, <3>2, <3>3 DEF Reading, rowVars, worldVars, TypeOK
  <2>2. Touched(d) \subseteq Keys
    BY <1>t DEF Touched, TypeOK
  <2>3. PICK chunk \in SUBSET listed[d] : \E unread \in SUBSET chunk :
           /\ faults' = 0 => unread = {}
           /\ pre' = [pre EXCEPT ![d] = ReadChunk(d, chunk, unread)]
           /\ listed' = [listed EXCEPT ![d] = @ \ chunk]
    BY <1>t, <1>5, CaptureEffects
  <2>4. faults' = 0 => /\ listed'[d] = listed[d] \ chunk
                       /\ \A k \in chunk \intersect Keys : pre'[d][k] = org[k]
                       /\ \A k \in Keys \ chunk : pre'[d][k] = pre[d][k]
    BY <1>t, <2>3 DEF ReadChunk, TypeOK
  <2> QED BY <1>c, <2>1, <2>2, <2>4 DEF CaptureIsComplete, Reading, Touched
<1>6. ASSUME NEW d \in Deployments, Materialize(d) PROVE CaptureIsComplete'
  <2>1. /\ d \in Reading /\ request[d] = "none" /\ row[d] # "succeeded"
        /\ faults' = 0 => faults = 0
        /\ \A x \in Deployments \ {d} : pc'[x] = pc[x] /\ files'[x] = files[x]
        /\ UNCHANGED <<disturbed, checkOnly, package, listed, pre, request, org, held, before, row>>
    BY <1>t, <1>r, <1>6 DEF Materialize, Goto, Fault, Reading, rowVars, worldVars,
                            HandlerAndRequest, TypeOK
  <2> QED BY <1>c, <2>1 DEF CaptureIsComplete, Reading, Touched
<1>7. ASSUME NEW d \in Deployments, Accept(d) PROVE CaptureIsComplete'
  <2>1. /\ d \in Reading /\ request[d] = "none" /\ request'[d] = "pending"
        /\ \A x \in Deployments \ {d} : pc'[x] = pc[x] /\ request'[x] = request[x]
        /\ UNCHANGED <<faults, disturbed, checkOnly, package, listed, pre, org, held, before, row, files>>
    BY <1>t, <1>r, <1>7 DEF Accept, Goto, Reading, rowVars, HandlerAndRequest, TypeOK
  <2> QED BY <1>c, <2>1 DEF CaptureIsComplete, Reading, Touched
<1>8. ASSUME NEW d \in Deployments, Listen(d) PROVE CaptureIsComplete'
  <2>1. /\ pc[d] = "sent" /\ pc'[d] = "poll"
        /\ \A x \in Deployments \ {d} : pc'[x] = pc[x]
        /\ UNCHANGED <<faults, disturbed, checkOnly, package, listed, pre, request, org, held>>
        /\ UNCHANGED <<before, row, files>>
    BY <1>t, <1>8 DEF Listen, Goto, rowVars, worldVars, TypeOK
  <2> QED BY <1>c, <2>1 DEF CaptureIsComplete, Reading, Touched
<1>9. ASSUME NEW d \in Deployments, PollReturns(d) PROVE CaptureIsComplete'
  <2>1. /\ pc[d] = "poll" /\ pc'[d] = "persist"
        /\ \A x \in Deployments \ {d} : pc'[x] = pc[x]
        /\ UNCHANGED <<faults, disturbed, checkOnly, package, listed, pre, request, org, held>>
        /\ UNCHANGED <<before, row, files>>
    BY <1>t, <1>9 DEF PollReturns, Goto, rowVars, worldVars, TypeOK
  <2> QED BY <1>c, <2>1 DEF CaptureIsComplete, Reading, Touched
<1>10. ASSUME NEW d \in Deployments, Persist(d) PROVE CaptureIsComplete'
  <2>1. PICK reported \in SUBSET (files[d] \union package[d].destructive) :
           /\ request[d] = "succeeded" => reported = files[d] \union package[d].destructive
           /\ before' = [before EXCEPT ![d] = ComponentRows(d, reported)]
    BY <1>t, <1>10, PersistEffects
  <2>2. /\ pc[d] = "persist" /\ faults' = faults
        /\ Ended(d, MapDeployStatus(Answer(request[d])), "succeeded")
    BY <1>t, <1>10, PersistEffects
  <2>3. request[d] \in Finished /\ MapDeployStatus(Answer(request[d])) = request[d]
    BY <1>r, <2>2, StatusOfAnswer DEF HandlerAndRequest
  <2>4. /\ pc'[d] = "done" /\ row'[d] = request[d]
        /\ \A x \in Deployments \ {d} : /\ pc'[x] = pc[x] /\ row'[x] = row[x] /\ before'[x] = before[x]
                                      /\ listed'[x] = listed[x] /\ pre'[x] = pre[x]
        /\ UNCHANGED <<disturbed, checkOnly, package, files, request, org, held>>
    BY <1>t, <2>1, <2>2, <2>3 DEF Ended, TypeOK
  <2>5. files[d] \union package[d].destructive \subseteq Touched(d) /\ Touched(d) \subseteq Keys
    BY <1>t, <1>s DEF PackagesAreSound, Touched, TypeOK
  <2>6. request[d] = "succeeded" =>
           \A k \in files[d] \union package[d].destructive : before'[d][k] = pre[d][k]
    BY <1>t, <2>1, <2>5 DEF ComponentRows, TypeOK
  <2> QED BY <1>c, <2>2, <2>4, <2>5, <2>6 DEF CaptureIsComplete, Reading, Touched
<1>11. ASSUME NEW d \in Deployments, Cancel(d) PROVE CaptureIsComplete'
  <2>1. /\ UNCHANGED <<faults, disturbed, checkOnly, pc, request, package, listed, pre, org>>
        /\ UNCHANGED <<held, row, files, before>>
    BY <1>11 DEF Cancel, runVars, rowVars
  <2> QED BY <1>c, <2>1 DEF CaptureIsComplete, Reading, Touched
<1>12. ASSUME NEW d \in Deployments, OrgApplies(d) PROVE CaptureIsComplete'
  <2>1. /\ request[d] = "pending" /\ request'[d] = "succeeded" /\ held'[d] = org
        /\ \A x \in Deployments \ {d} : request'[x] = request[x] /\ held'[x] = held[x]
        /\ disturbed \subseteq disturbed'
        /\ \A x \in Deployments \ {d} : x \in Reading /\ x \notin disturbed' => org' = org
        /\ UNCHANGED <<faults, checkOnly, package, files, pre, pc, listed, before, row>>
    BY <1>t, <1>12 DEF OrgApplies, TypeOK, rowVars, runVars
  <2>2. /\ pc[d] # "done" => d \in Reading /\ listed[d] = {}
        /\ row[d] # "succeeded"
    BY <1>t, <1>r, <1>n, <2>1
       DEF HandlerAndRequest, NothingBeforeTheInsert, Finished, Reading, TypeOK
  <2> QED BY <1>c, <2>1, <2>2 DEF CaptureIsComplete, Reading, Touched
<1>13. ASSUME NEW d \in Deployments, OrgRejects(d) PROVE CaptureIsComplete'
  <2>1. /\ request[d] = "pending" /\ request'[d] \in {"failed", "canceled"}
        /\ \A x \in Deployments \ {d} : request'[x] = request[x]
        /\ UNCHANGED <<faults, checkOnly, package, files, pre, pc, listed, before, row, org, held, disturbed>>
    BY <1>t, <1>13 DEF OrgRejects, TypeOK, rowVars, runVars
  <2> QED BY <1>c, <2>1 DEF CaptureIsComplete, Reading, Touched
<1>14. ASSUME NEW k \in Keys, NEW v \in States, SomebodyEdits(k, v)
       PROVE CaptureIsComplete'
  <2>1. /\ disturbed' = disturbed \union Reading
        /\ UNCHANGED <<faults, checkOnly, package, files, pre, pc, listed, before, row, request, held>>
    BY <1>14 DEF SomebodyEdits, runVars, rowVars
  <2> QED BY <1>c, <2>1 DEF CaptureIsComplete, Reading, Touched
<1>15. CASE UNCHANGED vars
  <2>1. UNCHANGED <<faults, checkOnly, package, files, pre, pc, listed, before, row, request, held, disturbed, org>>
    BY <1>15 DEF vars, runVars, rowVars, worldVars
  <2> QED BY <1>c, <2>1 DEF CaptureIsComplete, Reading, Touched
<1> QED
  BY <1>1, <1>2, <1>3, <1>4, <1>5, <1>6, <1>7, <1>8, <1>9, <1>10, <1>11, <1>12,
     <1>13, <1>14, <1>15
     DEF Next, Submit, SubmitQuick, Started

(* Rollback packages keep carrying what was recorded. *)
LEMMA RollbacksCarryTheRecordStep == IInv /\ [Next]_vars => RollbacksCarryTheRecord'
<1> SUFFICES ASSUME IInv, [Next]_vars PROVE RollbacksCarryTheRecord'
  OBVIOUS
<1>t. TypeOK
  BY DEF IInv
<1>s. PackagesAreSound
  BY DEF IInv
<1>h. HandlerAndRow
  BY DEF IInv
<1>r. HandlerAndRequest
  BY DEF IInv
<1>n. NothingBeforeTheInsert
  BY DEF IInv
<1>e. RowsAreOfTheEnd
  BY DEF IInv
<1>c. RollbacksCarryTheRecord
  BY DEF IInv
<1>1. ASSUME NEW d \in Deployments, Started(d) PROVE RollbacksCarryTheRecord'
  <2>1. PICK p \in Package, check \in BOOLEAN, source \in [Keys -> States],
             st \in {"running", "queued"},
             at \in {"lookup", "inventory", "materialize", "submit"} :
           StartedWith(d, p, check, source, st, at)
    BY <1>t, <1>s, <1>1, StartEffects
  <2>2. row[d] = "absent" /\ d \notin saved /\ saved \subseteq Deployments
    BY <1>t, <1>n, <1>c, <2>1 DEF StartedWith, Begun, RollbacksCarryTheRecord, TypeOK
  <2>3. /\ UNCHANGED <<saved, inverse, before>>
        /\ \A x \in Deployments \ {d} : /\ package'[x] = package[x] /\ content'[x] = content[x]
                                      /\ row'[x] = row[x] /\ checkOnly'[x] = checkOnly[x]
        /\ package'[d] = p /\ content'[d] = source
    BY <1>t, <2>1 DEF StartedWith, Begun, TypeOK
  <2>4. \A x \in Deployments \ {d} : rollbackOf'[x] = rollbackOf[x]
    BY <1>t, <2>1
       DEF StartedWith, ChosenPackage, ChosenValidation, ChosenRollback, TypeOK
  <2>5. CASE rollbackOf'[d] = d
    BY <1>c, <2>2, <2>3, <2>4, <2>5 DEF RollbacksCarryTheRecord
  <2>6. CASE rollbackOf'[d] # d
    <3>1. rollbackOf[d] = d
      BY <1>n, <2>2 DEF NothingBeforeTheInsert
    <3>2. PICK o \in saved : /\ p = inverse[o] /\ source = RestoreContent(o)
                             /\ rollbackOf' = [rollbackOf EXCEPT ![d] = o]
      BY <2>1, <2>6, <3>1
         DEF StartedWith, ChosenPackage, ChosenValidation, ChosenRollback
    <3>3. o \in Deployments /\ rollbackOf'[d] = o
      BY <1>t, <2>2, <3>2 DEF TypeOK
    <3>4. \A k \in p.components : /\ before[o][k] \in Contents
                                  /\ source[k] = IF k \in Bundles THEN Absent ELSE before[o][k]
      <4>1. p.components \subseteq Keys
        BY DEF Package
      <4> QED BY <1>c, <3>2, <3>3, <4>1 DEF RollbacksCarryTheRecord, RestoreContent
    <3> QED BY <1>c, <2>2, <2>3, <2>4, <3>2, <3>3, <3>4 DEF RollbacksCarryTheRecord
  <2> QED BY <2>5, <2>6
<1>2. ASSUME NEW d \in Deployments, GenerateRollback(d) PROVE RollbacksCarryTheRecord'
  <2>1. package[d] \in Package /\ package[d].components \intersect package[d].destructive = {}
    BY <1>t, <1>s DEF TypeOK, Package, PackagesAreSound
  <2>2. \A k \in RollbackPlan(package[d], before[d]).components : before[d][k] \in Contents
    BY <2>1, PlanIsPackage
  <2>3. /\ row[d] # "absent" /\ ~checkOnly[d] /\ saved' = saved \union {d}
        /\ inverse'[d] = RollbackPlan(package[d], before[d])
        /\ \A x \in Deployments \ {d} : inverse'[x] = inverse[x]
        /\ UNCHANGED <<row, checkOnly, rollbackOf, package, content, before>>
    BY <1>t, <1>2 DEF GenerateRollback, TypeOK
  <2>4. saved \subseteq Deployments
    BY <1>t DEF TypeOK
  <2> QED BY <1>c, <2>2, <2>3, <2>4 DEF RollbacksCarryTheRecord
<1>3. ASSUME NEW d \in Deployments, LookupFails(d) \/ ThrowsIfAborted(d) \/ CallFails(d)
      PROVE RollbacksCarryTheRecord'
  <2>1. /\ before' = before
        /\ pc[d] \notin {"none", "persist", "done"}
        /\ Ended(d, "failed", "failed") \/ Ended(d, "canceled", "canceled")
    BY <1>t, <1>3, ThrowEffects
  <2>2. PICK outcome \in {"failed", "canceled"} : Ended(d, outcome, outcome)
    BY <2>1
  <2>3. /\ \A x \in Deployments : row'[x] = "absent" => row[x] = "absent"
        /\ UNCHANGED <<checkOnly, saved, inverse, before, rollbackOf, package, content>>
    BY <1>t, <2>1, <2>2 DEF Ended, TypeOK
  <2> QED BY <1>t, <1>c, <2>3 DEF RollbacksCarryTheRecord, TypeOK
<1>4. ASSUME NEW d \in Deployments, Inventory(d) PROVE RollbacksCarryTheRecord'
  <2>1. /\ UNCHANGED <<row, checkOnly, saved, inverse, before>>
        /\ UNCHANGED <<rollbackOf, package, content>>
    BY <1>4 DEF Inventory, rowVars
  <2> QED BY <1>c, <2>1 DEF RollbacksCarryTheRecord
<1>5. ASSUME NEW d \in Deployments, Capture(d)
      PROVE RollbacksCarryTheRecord'
  <2>1. /\ UNCHANGED <<row, checkOnly, saved, inverse, before>>
        /\ UNCHANGED <<rollbackOf, package, content>>
    BY <1>5 DEF Capture, rowVars
  <2> QED BY <1>c, <2>1 DEF RollbacksCarryTheRecord
<1>6. ASSUME NEW d \in Deployments, Materialize(d) PROVE RollbacksCarryTheRecord'
  <2>1. /\ UNCHANGED <<row, checkOnly, saved, inverse, before>>
        /\ UNCHANGED <<rollbackOf, package, content>>
    BY <1>6 DEF Materialize, rowVars
  <2> QED BY <1>c, <2>1 DEF RollbacksCarryTheRecord
<1>7. ASSUME NEW d \in Deployments, Accept(d) PROVE RollbacksCarryTheRecord'
  <2>1. /\ UNCHANGED <<row, checkOnly, saved, inverse, before>>
        /\ UNCHANGED <<rollbackOf, package, content>>
    BY <1>7 DEF Accept, rowVars
  <2> QED BY <1>c, <2>1 DEF RollbacksCarryTheRecord
<1>8. ASSUME NEW d \in Deployments, Listen(d) PROVE RollbacksCarryTheRecord'
  <2>1. /\ UNCHANGED <<row, checkOnly, saved, inverse, before>>
        /\ UNCHANGED <<rollbackOf, package, content>>
    BY <1>8 DEF Listen, rowVars
  <2> QED BY <1>c, <2>1 DEF RollbacksCarryTheRecord
<1>9. ASSUME NEW d \in Deployments, PollReturns(d) PROVE RollbacksCarryTheRecord'
  <2>1. /\ UNCHANGED <<row, checkOnly, saved, inverse, before>>
        /\ UNCHANGED <<rollbackOf, package, content>>
    BY <1>9 DEF PollReturns, rowVars
  <2> QED BY <1>c, <2>1 DEF RollbacksCarryTheRecord
<1>10. ASSUME NEW d \in Deployments, Persist(d) PROVE RollbacksCarryTheRecord'
  <2>1. PICK reported \in SUBSET (files[d] \union package[d].destructive) :
           before' = [before EXCEPT ![d] = ComponentRows(d, reported)]
    BY <1>t, <1>10, PersistEffects
  <2>2. /\ pc[d] = "persist"
        /\ Ended(d, MapDeployStatus(Answer(request[d])), "succeeded")
    BY <1>t, <1>10, PersistEffects
  <2>3. request[d] \in Finished /\ MapDeployStatus(Answer(request[d])) = request[d]
    BY <1>r, <2>2, StatusOfAnswer DEF HandlerAndRequest
  <2>4. /\ \A x \in Deployments : row'[x] = "absent" => row[x] = "absent"
        /\ \A x \in Deployments \ {d} : before'[x] = before[x]
        /\ UNCHANGED <<checkOnly, saved, inverse, rollbackOf, package, content>>
    BY <1>t, <2>1, <2>2, <2>3 DEF Ended, TypeOK, Finished
  <2>5. \A k \in Keys : before[d][k] \notin Contents
    BY <1>e, <2>2, ValuesAssumption DEF RowsAreOfTheEnd
  <2>6. \A x \in Deployments : inverse[x].components \subseteq Keys /\ package[x].components \subseteq Keys
    BY <1>t DEF TypeOK
  <2>7. saved \subseteq Deployments
    BY <1>t DEF TypeOK
  <2>8. \A x \in Deployments, k \in Keys : before[x][k] \in Contents => before'[x][k] = before[x][k]
    BY <2>4, <2>5
  <2> QED BY <1>c, <2>4, <2>6, <2>7, <2>8 DEF RollbacksCarryTheRecord
<1>11. ASSUME NEW d \in Deployments, Cancel(d) PROVE RollbacksCarryTheRecord'
  <2>1. /\ UNCHANGED <<row, checkOnly, saved, inverse, before>>
        /\ UNCHANGED <<rollbackOf, package, content>>
    BY <1>11 DEF Cancel, rowVars
  <2> QED BY <1>c, <2>1 DEF RollbacksCarryTheRecord
<1>12. ASSUME NEW d \in Deployments, OrgApplies(d) PROVE RollbacksCarryTheRecord'
  <2>1. /\ UNCHANGED <<row, checkOnly, saved, inverse, before>>
        /\ UNCHANGED <<rollbackOf, package, content>>
    BY <1>12 DEF OrgApplies, rowVars
  <2> QED BY <1>c, <2>1 DEF RollbacksCarryTheRecord
<1>13. ASSUME NEW d \in Deployments, OrgRejects(d) PROVE RollbacksCarryTheRecord'
  <2>1. /\ UNCHANGED <<row, checkOnly, saved, inverse, before>>
        /\ UNCHANGED <<rollbackOf, package, content>>
    BY <1>13 DEF OrgRejects, rowVars
  <2> QED BY <1>c, <2>1 DEF RollbacksCarryTheRecord
<1>14. ASSUME NEW k \in Keys, NEW v \in States, SomebodyEdits(k, v)
       PROVE RollbacksCarryTheRecord'
  <2>1. /\ UNCHANGED <<row, checkOnly, saved, inverse, before>>
        /\ UNCHANGED <<rollbackOf, package, content>>
    BY <1>14 DEF SomebodyEdits, rowVars
  <2> QED BY <1>c, <2>1 DEF RollbacksCarryTheRecord
<1>15. CASE UNCHANGED vars
  <2>1. /\ UNCHANGED <<row, checkOnly, saved, inverse, before>>
        /\ UNCHANGED <<rollbackOf, package, content>>
    BY <1>15 DEF vars, rowVars
  <2> QED BY <1>c, <2>1 DEF RollbacksCarryTheRecord
<1> QED
  BY <1>1, <1>2, <1>3, <1>4, <1>5, <1>6, <1>7, <1>8, <1>9, <1>10, <1>11, <1>12,
     <1>13, <1>14, <1>15
     DEF Next, Submit, SubmitQuick, Started

(* What is left out stays bundles of rollbacks. *)
LEMMA OnlyBundlesAreLeftOutStep == IInv /\ [Next]_vars => OnlyBundlesAreLeftOut'
<1> SUFFICES ASSUME IInv, [Next]_vars PROVE OnlyBundlesAreLeftOut'
  OBVIOUS
<1>t. TypeOK
  BY DEF IInv
<1>s. PackagesAreSound
  BY DEF IInv
<1>h. HandlerAndRow
  BY DEF IInv
<1>r. HandlerAndRequest
  BY DEF IInv
<1>n. NothingBeforeTheInsert
  BY DEF IInv
<1>e. RowsAreOfTheEnd
  BY DEF IInv
<1>c. OnlyBundlesAreLeftOut
  BY DEF IInv
<1>b. RollbacksCarryTheRecord
  BY DEF IInv
<1>1. ASSUME NEW d \in Deployments, Started(d) PROVE OnlyBundlesAreLeftOut'
  <2>1. PICK p \in Package, check \in BOOLEAN, source \in [Keys -> States],
             st \in {"running", "queued"},
             at \in {"lookup", "inventory", "materialize", "submit"} :
           StartedWith(d, p, check, source, st, at)
    BY <1>t, <1>s, <1>1, StartEffects
  <2>2. /\ request'[d] = "none" /\ (faults' = 0 => faults = 0)
        /\ UNCHANGED request
        /\ package'[d] = p /\ content'[d] = source
        /\ pc'[d] = at
        /\ \A x \in Deployments \ {d} : /\ package'[x] = package[x] /\ content'[x] = content[x]
                                      /\ pc'[x] = pc[x]
    BY <1>t, <1>h, <1>r, <2>1
       DEF StartedWith, Begun, HandlerAndRow, HandlerAndRequest, TypeOK
  <2>3. p.components \subseteq Keys /\ d \notin quick
    BY <1>n, <2>1 DEF Package, StartedWith, Begun, NothingBeforeTheInsert
  <2>4. CASE ChosenPackage(p, source, at)
    BY <1>c, <2>2, <2>3, <2>4, DesiredAssumption
       DEF ChosenPackage, OnlyBundlesAreLeftOut
  <2>5. CASE ChosenValidation(d, p, source, check, at)
    <3>1. PICK v \in Deployments : /\ row[v] = "succeeded" /\ p = package[v] /\ source = content[v]
                                   /\ files' = [files EXCEPT ![d] = files[v]]
                                   /\ quick' = quick \union {d}
      BY <2>5 DEF ChosenValidation
    <3>2. request[v] # "none"
      BY <1>r, <3>1 DEF HandlerAndRequest
    <3>3. files'[d] = files[v] /\ \A x \in Deployments \ {d} : files'[x] = files[x]
      BY <1>t, <3>1 DEF TypeOK
    <3> QED BY <1>c, <2>2, <3>1, <3>2, <3>3 DEF OnlyBundlesAreLeftOut
  <2>6. CASE ChosenRollback(d, p, source, at)
    <3>1. PICK o \in saved : /\ p = inverse[o] /\ source = RestoreContent(o)
      BY <2>6 DEF ChosenRollback
    <3>2. o \in Deployments
      BY <1>t DEF TypeOK
    <3>3. \A k \in p.components : source[k] \in Contents \/ k \in Bundles
      BY <1>b, <2>3, <3>1, <3>2 DEF RollbacksCarryTheRecord, RestoreContent
    <3>4. UNCHANGED <<quick, files>> /\ at # "submit"
      BY <2>6 DEF ChosenRollback
    <3> QED BY <1>c, <2>2, <2>3, <3>3, <3>4 DEF OnlyBundlesAreLeftOut
  <2> QED BY <2>1, <2>4, <2>5, <2>6 DEF StartedWith
<1>2. ASSUME NEW d \in Deployments, GenerateRollback(d) PROVE OnlyBundlesAreLeftOut'
  <2>1. /\ UNCHANGED <<package, content, faults, pc, request, quick, files>>
    BY <1>2 DEF GenerateRollback, runVars, worldVars
  <2> QED BY <1>c, <2>1 DEF OnlyBundlesAreLeftOut
<1>3. ASSUME NEW d \in Deployments, LookupFails(d) \/ ThrowsIfAborted(d) \/ CallFails(d)
      PROVE OnlyBundlesAreLeftOut'
  <2>1. /\ before' = before
        /\ pc[d] \notin {"none", "persist", "done"}
        /\ Ended(d, "failed", "failed") \/ Ended(d, "canceled", "canceled")
    BY <1>t, <1>3, ThrowEffects
  <2>2. PICK outcome \in {"failed", "canceled"} : Ended(d, outcome, outcome)
    BY <2>1
  <2>3. /\ pc'[d] = "done" /\ (faults' = 0 => faults = 0)
        /\ \A x \in Deployments \ {d} : pc'[x] = pc[x]
        /\ UNCHANGED <<package, content, request, quick, files>>
    BY <1>t, <2>2 DEF Ended, TypeOK
  <2> QED BY <1>c, <2>3 DEF OnlyBundlesAreLeftOut
<1>4. ASSUME NEW d \in Deployments, Inventory(d) PROVE OnlyBundlesAreLeftOut'
  <2>1. /\ (faults' = 0 => faults = 0) /\ (pc'[d] = "submit" => d \in quick)
        /\ \A x \in Deployments \ {d} : pc'[x] = pc[x]
        /\ UNCHANGED <<package, content, request, quick, files>>
    BY <1>t, <1>4, BoundsAssumption
       DEF Inventory, Goto, AfterCapture, Fault, rowVars, worldVars, TypeOK
  <2> QED BY <1>c, <2>1 DEF OnlyBundlesAreLeftOut
<1>5. ASSUME NEW d \in Deployments, Capture(d)
      PROVE OnlyBundlesAreLeftOut'
  <2>1. /\ (faults' = 0 => faults = 0) /\ (pc'[d] = "submit" => d \in quick)
        /\ \A x \in Deployments \ {d} : pc'[x] = pc[x]
        /\ UNCHANGED <<package, content, request, quick, files>>
    BY <1>t, <1>5, CaptureEffects DEF AfterCapture, rowVars, worldVars, TypeOK
  <2> QED BY <1>c, <2>1 DEF OnlyBundlesAreLeftOut
<1>6. ASSUME NEW d \in Deployments, Materialize(d) PROVE OnlyBundlesAreLeftOut'
  <2>1. PICK got \in SUBSET {k \in package[d].components : content[d][k] \in Contents} :
           /\ IF got = {k \in package[d].components : content[d][k] \in Contents}
              THEN UNCHANGED faults ELSE Fault
           /\ files' = [files EXCEPT ![d] = got]
    BY <1>6 DEF Materialize
  <2>2. /\ faults' = 0 => /\ faults = 0
                          /\ got = {k \in package[d].components : content[d][k] \in Contents}
        /\ \A x \in Deployments \ {d} : pc'[x] = pc[x]
        /\ UNCHANGED <<package, content, request, quick>>
    BY <1>t, <1>6, <2>1, BoundsAssumption
       DEF Materialize, Fault, Goto, rowVars, worldVars, TypeOK
  <2>3. faults' = 0 => /\ files'[d] = {k \in package[d].components : content[d][k] \in Contents}
                       /\ \A x \in Deployments \ {d} : files'[x] = files[x]
    BY <1>t, <2>2, <2>1 DEF TypeOK
  <2> QED BY <1>c, <2>2, <2>3 DEF OnlyBundlesAreLeftOut
<1>7. ASSUME NEW d \in Deployments, Accept(d) PROVE OnlyBundlesAreLeftOut'
  <2>1. /\ pc[d] = "submit" /\ UNCHANGED <<package, content, faults, quick, files>>
        /\ \A x \in Deployments \ {d} : pc'[x] = pc[x] /\ request'[x] = request[x]
    BY <1>t, <1>7 DEF Accept, Goto, rowVars, TypeOK
  <2> QED BY <1>c, <2>1 DEF OnlyBundlesAreLeftOut
<1>8. ASSUME NEW d \in Deployments, Listen(d) PROVE OnlyBundlesAreLeftOut'
  <2>1. /\ (faults' = 0 => faults = 0) /\ pc'[d] # "submit"
        /\ \A x \in Deployments \ {d} : pc'[x] = pc[x]
        /\ UNCHANGED <<package, content, request, quick, files>>
    BY <1>t, <1>8 DEF Listen, Goto, rowVars, worldVars, TypeOK
  <2> QED BY <1>c, <2>1 DEF OnlyBundlesAreLeftOut
<1>9. ASSUME NEW d \in Deployments, PollReturns(d) PROVE OnlyBundlesAreLeftOut'
  <2>1. /\ (faults' = 0 => faults = 0) /\ pc'[d] # "submit"
        /\ \A x \in Deployments \ {d} : pc'[x] = pc[x]
        /\ UNCHANGED <<package, content, request, quick, files>>
    BY <1>t, <1>9 DEF PollReturns, Goto, rowVars, worldVars, TypeOK
  <2> QED BY <1>c, <2>1 DEF OnlyBundlesAreLeftOut
<1>10. ASSUME NEW d \in Deployments, Persist(d) PROVE OnlyBundlesAreLeftOut'
  <2>1. PICK reported \in SUBSET (files[d] \union package[d].destructive) :
           before' = [before EXCEPT ![d] = ComponentRows(d, reported)]
    BY <1>t, <1>10, PersistEffects
  <2>2. /\ pc[d] = "persist"
        /\ Ended(d, MapDeployStatus(Answer(request[d])), "succeeded")
    BY <1>t, <1>10, PersistEffects
  <2>3. request[d] \in Finished /\ MapDeployStatus(Answer(request[d])) = request[d]
    BY <1>r, <2>2, StatusOfAnswer DEF HandlerAndRequest
  <2>4. /\ pc'[d] = "done" /\ (faults' = 0 => faults = 0)
        /\ \A x \in Deployments \ {d} : pc'[x] = pc[x]
        /\ UNCHANGED <<package, content, request, quick, files>>
    BY <1>t, <2>2 DEF Ended, TypeOK
  <2> QED BY <1>c, <2>4 DEF OnlyBundlesAreLeftOut
<1>11. ASSUME NEW d \in Deployments, Cancel(d) PROVE OnlyBundlesAreLeftOut'
  <2>1. /\ UNCHANGED <<package, content, faults, pc, request, quick, files>>
    BY <1>11 DEF Cancel, rowVars, runVars
  <2> QED BY <1>c, <2>1 DEF OnlyBundlesAreLeftOut
<1>12. ASSUME NEW d \in Deployments, OrgApplies(d) PROVE OnlyBundlesAreLeftOut'
  <2>1. /\ request[d] = "pending" /\ UNCHANGED <<package, content, faults, pc, quick, files>>
        /\ \A x \in Deployments \ {d} : request'[x] = request[x]
    BY <1>t, <1>12 DEF OrgApplies, rowVars, runVars, TypeOK
  <2> QED BY <1>c, <2>1 DEF OnlyBundlesAreLeftOut
<1>13. ASSUME NEW d \in Deployments, OrgRejects(d) PROVE OnlyBundlesAreLeftOut'
  <2>1. /\ request[d] = "pending" /\ UNCHANGED <<package, content, faults, pc, quick, files>>
        /\ \A x \in Deployments \ {d} : request'[x] = request[x]
    BY <1>t, <1>13 DEF OrgRejects, rowVars, runVars, TypeOK
  <2> QED BY <1>c, <2>1 DEF OnlyBundlesAreLeftOut
<1>14. ASSUME NEW k \in Keys, NEW v \in States, SomebodyEdits(k, v)
       PROVE OnlyBundlesAreLeftOut'
  <2>1. /\ UNCHANGED <<package, content, faults, pc, request, quick, files>>
    BY <1>14 DEF SomebodyEdits, rowVars, runVars
  <2> QED BY <1>c, <2>1 DEF OnlyBundlesAreLeftOut
<1>15. CASE UNCHANGED vars
  <2>1. /\ UNCHANGED <<package, content, faults, pc, request, quick, files>>
    BY <1>15 DEF vars, rowVars, runVars, worldVars
  <2> QED BY <1>c, <2>1 DEF OnlyBundlesAreLeftOut
<1> QED
  BY <1>1, <1>2, <1>3, <1>4, <1>5, <1>6, <1>7, <1>8, <1>9, <1>10, <1>11, <1>12,
     <1>13, <1>14, <1>15
     DEF Next, Submit, SubmitQuick, Started

(* The invariant holds of the first state and of every next one. *)
LEMMA InitHolds == Init => IInv
<1> SUFFICES ASSUME Init PROVE IInv
  OBVIOUS
<1>1. TypeOK
  <2>1. org \in [Keys -> States] /\ edits \in 0..MaxEdits /\ faults \in 0..MaxFaults
    BY OrgsAssumption, BoundsAssumption DEF Init, States
  <2>2. /\ content \in [Deployments -> [Keys -> States]] /\ held \in [Deployments -> [Keys -> States]]
        /\ before \in [Deployments -> [Keys -> States \union {NoRow}]]
        /\ pre \in [Deployments -> [Keys -> States \union {NoRow}]]
    BY DEF Init, States, Unrecorded
  <2>3. /\ package \in [Deployments -> [components : SUBSET Keys, destructive : SUBSET Keys]]
        /\ inverse \in [Deployments -> [components : SUBSET Keys, destructive : SUBSET Keys]]
    BY DEF Init, NoPackage
  <2> QED BY <2>1, <2>2, <2>3 DEF Init, TypeOK
<1>2. HandlerAndRow /\ HandlerAndRequest
  BY DEF Init, HandlerAndRow, HandlerAndRequest, Finished
<1>3. NothingBeforeTheInsert /\ AbortedIsAcked
  BY DEF Init, NothingBeforeTheInsert, AbortedIsAcked
<1>4. PackagesAreSound /\ OnlyBundlesAreLeftOut /\ RollbacksCarryTheRecord
  BY
     DEF Init, PackagesAreSound, OnlyBundlesAreLeftOut, RollbacksCarryTheRecord,
         NoPackage
<1>5. RowsAreOfTheEnd /\ RecordedContentWasThere
  BY DEF Init, RowsAreOfTheEnd, RecordedContentWasThere, Unrecorded
<1>6. CapturedContentIsThere /\ CaptureIsComplete
  BY ValuesAssumption
     DEF Init, CapturedContentIsThere, CaptureIsComplete, Reading, Unrecorded
<1> QED BY <1>1, <1>2, <1>3, <1>4, <1>5, <1>6 DEF IInv

LEMMA StepHolds == IInv /\ [Next]_vars => IInv'
  BY TypeStep, HandlerAndRowStep, HandlerAndRequestStep, NothingBeforeTheInsertStep,
     PackagesAreSoundStep, RowsAreOfTheEndStep, AbortedIsAckedStep,
     CapturedContentIsThereStep, RecordedContentWasThereStep, CaptureIsCompleteStep,
     RollbacksCarryTheRecordStep, OnlyBundlesAreLeftOutStep DEF IInv

\* Every reachable state of a deployment satisfies the inductive invariant.
THEOREM Invariance == Spec => []IInv
  BY InitHolds, StepHolds, PTL DEF Spec

(* Every variable keeps its type. *)
THEOREM TypeCorrect == Spec => []TypeOK
<1>1. IInv => TypeOK
  BY DEF IInv
<1> QED BY <1>1, Invariance, PTL

(* No row is left queued or running behind a finished job, and a canceled  *)
(* or failed job's row says so (deploy.ts 73-78, 179-191).                 *)
THEOREM EveryEndReachesItsRow == Spec => []EveryEndReachesTheRow
<1>1. IInv => EveryEndReachesTheRow
  <2> SUFFICES ASSUME IInv, NEW d \in Deployments, job[d] \in Finished
               PROVE  /\ row[d] \in Finished
                      /\ job[d] # "succeeded" => row[d] = job[d]
    BY Statuses DEF EveryEndReachesTheRow, Terminal
  <2> QED BY DEF IInv, HandlerAndRow
<1> QED BY <1>1, Invariance, PTL

(* What the history says of a deployment is what the org did of it         *)
(* (deploy.ts 140-191, 388-418, executor.ts 47-70, history.ts 25-74).      *)
THEOREM RowsTellTheTruth == Spec => []RowTellsWhatTheOrgDid
<1>1. IInv => RowTellsWhatTheOrgDid
  <2> SUFFICES ASSUME IInv, NEW d \in Deployments, row[d] # "absent"
               PROVE  /\ row[d] = "succeeded" => request[d] = "succeeded"
                      /\ row[d] = "canceled" => request[d] \in {"none", "canceled"}
                      /\ IsQuickDeployable(d) =>
                            request[d] = "succeeded" /\ files[d] \subseteq package[d].components
                      /\ LET shown == {k \in Keys : before[d][k] # NoRow}
                         IN  shown # {} => /\ request[d] \in {"succeeded", "failed", "canceled"}
                                           /\ shown \subseteq Touched(d)
    BY DEF RowTellsWhatTheOrgDid, HistoryList, DeploymentStatus
  <2>1. HandlerAndRequest /\ PackagesAreSound /\ RowsAreOfTheEnd
    BY DEF IInv
  <2> QED BY <2>1
      DEF HandlerAndRequest, PackagesAreSound, RowsAreOfTheEnd, IsQuickDeployable,
          Finished
<1> QED BY <1>1, Invariance, PTL

(* A component's recorded content is what the org held when an undisturbed *)
(* deployment was applied (pre-deploy-snapshot.ts, deploy.ts 92-115).      *)
THEOREM RecordsAreTrue == Spec => []RecordedContentWasThere
<1>1. IInv => RecordedContentWasThere
  BY DEF IInv
<1> QED BY <1>1, Invariance, PTL

(* Deploying the rollback of a deployment undoes it, but for bundles left  *)
(* out (package/rollback.ts 54-68, deploy.ts 453-469).                     *)
THEOREM RollbackUndoes == Spec => []RollbackRestores
<1>1. IInv => RollbackRestores
  <2> SUFFICES ASSUME IInv, NEW d \in Deployments, NEW e \in Deployments,
                      d # e, rollbackOf[e] = d, row[d] = "succeeded",
                      request[e] = "succeeded", ~checkOnly[e], faults = 0, d \notin disturbed,
                      package[e] = RollbackPlan(package[d], before[d]),
                      held[e] = Applied(d, held[d]), NEW k \in Keys
               PROVE  \/ Applied(e, held[e])[k] = held[d][k]
                      \/ k \in Bundles \intersect (LeftOut(d) \union LeftOut(e))
    BY DEF RollbackRestores
  <2> DEFINE was == held[d][k]
             restored == package[e].components
             removed == package[e].destructive
             sent == files[d] \union package[d].destructive
  <2>1. /\ TypeOK /\ HandlerAndRequest /\ PackagesAreSound /\ CaptureIsComplete
        /\ RollbacksCarryTheRecord /\ OnlyBundlesAreLeftOut
    BY DEF IInv
  <2>2. /\ ~checkOnly[d] /\ request[d] = "succeeded" /\ was \in States
    BY <2>1 DEF RollbacksCarryTheRecord, HandlerAndRequest, TypeOK
  <2>3. /\ restored = {i \in Touched(d) : before[d][i] \in Contents}
        /\ removed = {i \in package[d].components : before[d][i] \notin Contents}
    BY DEF RollbackPlan, Touched
  <2>4. /\ files[e] \subseteq restored /\ restored \intersect removed = {}
        /\ files[d] \subseteq package[d].components
        /\ package[d].components \intersect package[d].destructive = {}
    BY <2>1 DEF PackagesAreSound
  <2>5. \A i \in sent : before[d][i] = held[d][i]
    BY <2>1, <2>2 DEF CaptureIsComplete
  <2>6. /\ Applied(d, held[d])[k] = IF k \in files[d] THEN content[d][k]
                                    ELSE IF k \in package[d].destructive THEN Absent ELSE was
        /\ Applied(e, held[e])[k] = IF k \in files[e] THEN content[e][k]
                                    ELSE IF k \in removed THEN Absent
                                    ELSE Applied(d, held[d])[k]
    BY DEF Applied
  <2>7. CASE k \notin Touched(d)
    BY <2>3, <2>4, <2>6, <2>7 DEF Touched
  <2>8. CASE k \in package[d].components \ files[d]
    BY <2>1, <2>2, <2>8 DEF OnlyBundlesAreLeftOut, LeftOut
  <2>9. CASE k \in sent /\ was \in Contents
    <3>1. k \in restored /\ before[d][k] = was
      BY <2>3, <2>4, <2>5, <2>9 DEF Touched
    <3>2. content[e][k] = IF k \in Bundles THEN Absent ELSE was
      BY <2>1, <3>1 DEF RollbacksCarryTheRecord
    <3>3. CASE k \in Bundles
      BY <2>1, <3>1, <3>2, <3>3, ValuesAssumption DEF PackagesAreSound, LeftOut
    <3>4. CASE k \notin Bundles
      <4>1. k \in files[e]
        BY <2>1, <2>9, <3>1, <3>2, <3>4 DEF OnlyBundlesAreLeftOut
      <4> QED BY <2>6, <3>2, <3>4, <4>1
    <3> QED BY <3>3, <3>4
  <2>10. CASE k \in sent /\ was \notin Contents
    <3>1. was = Absent
      BY <2>2, <2>10 DEF States
    <3>2. k \notin restored /\ k \notin files[e]
      BY <2>3, <2>4, <2>5, <2>10
    <3>3. CASE k \in files[d]
      BY <2>3, <2>4, <2>5, <2>6, <2>10, <3>1, <3>2, <3>3
    <3>4. CASE k \in package[d].destructive
      BY <2>3, <2>4, <2>6, <3>1, <3>2, <3>4
    <3> QED BY <2>10, <3>3, <3>4
  <2> QED BY <2>7, <2>8, <2>9, <2>10 DEF Touched
<1> QED BY <1>1, Invariance, PTL

(* A deployment's job obeys JobLifecycle: each step of the deployments is  *)
(* a step of the life cycle or leaves it alone.                            *)
THEOREM LifecycleImplemented == Spec => ImplementsLifecycle
<1>1. Init => Lifecycle!Init
  BY DEF Init, Lifecycle!Init
<1>2. IInv /\ [Next]_vars => [Lifecycle!Next]_(Lifecycle!lifecycleVars)
  <2> SUFFICES ASSUME IInv, [Next]_vars
               PROVE  Lifecycle!Next \/ UNCHANGED <<job, acked>>
    BY DEF Lifecycle!lifecycleVars
  <2> USE Statuses
  <2>t. TypeOK /\ PackagesAreSound /\ HandlerAndRow /\ AbortedIsAcked
    BY DEF IInv
  <2>1. ASSUME NEW d \in Deployments, Started(d) PROVE Lifecycle!Next
    <3>1. row[d] = "absent" /\ job' = [job EXCEPT ![d] = "running"] /\ acked' = acked
      BY <2>t, <2>1, StartEffects DEF StartedWith, Begun
    <3>2. Lifecycle!Create(d)
      BY <2>t, <3>1 DEF Lifecycle!Create, HandlerAndRow
    <3> QED BY <3>2 DEF Lifecycle!Next
  <2>2. ASSUME NEW d \in Deployments, LookupFails(d) \/ ThrowsIfAborted(d) \/ CallFails(d)
        PROVE  Lifecycle!Next
    <3>1. /\ pc[d] \notin {"none", "done"} /\ acked' = acked
          /\ \E outcome \in {"failed", "canceled"} :
                /\ job' = [job EXCEPT ![d] = outcome]
                /\ outcome = "canceled" => d \in aborted
      BY <2>t, <2>2, ThrowEffects DEF Ended
    <3>2. job[d] = "running"
      BY <2>t, <3>1 DEF HandlerAndRow, TypeOK, Finished
    <3>3. Lifecycle!Finish(d)
      BY <2>t, <3>1, <3>2 DEF Lifecycle!Finish, AbortedIsAcked, Finished
    <3> QED BY <3>3 DEF Lifecycle!Next
  <2>3. ASSUME NEW d \in Deployments, Persist(d) PROVE Lifecycle!Next
    <3>1. /\ pc[d] = "persist" /\ acked' = acked
          /\ job' = [job EXCEPT ![d] = "succeeded"]
      BY <2>t, <2>3, PersistEffects DEF Ended
    <3>2. job[d] = "running"
      BY <2>t, <3>1 DEF HandlerAndRow, TypeOK, Finished
    <3>3. Lifecycle!Finish(d)
      BY <3>1, <3>2 DEF Lifecycle!Finish, Finished
    <3> QED BY <3>3 DEF Lifecycle!Next
  <2>4. ASSUME NEW d \in Deployments, Cancel(d) PROVE Lifecycle!Next
    <3>1. Lifecycle!Acknowledge(d)
      BY <2>4 DEF Cancel, Running, Lifecycle!Acknowledge
    <3> QED BY <3>1 DEF Lifecycle!Next
  <2>5. ASSUME NEW d \in Deployments,
               \/ GenerateRollback(d) \/ Inventory(d) \/ Capture(d)
               \/ Materialize(d) \/ Accept(d) \/ Listen(d) \/ PollReturns(d)
               \/ OrgApplies(d) \/ OrgRejects(d)
        PROVE  UNCHANGED <<job, acked>>
    BY <2>5
       DEF GenerateRollback, Inventory, Capture, Materialize, Accept, Listen,
           PollReturns,
                OrgApplies, OrgRejects, jobVars
  <2>6. ASSUME NEW k \in Keys, NEW v \in States, SomebodyEdits(k, v)
        PROVE  UNCHANGED <<job, acked>>
    BY <2>6 DEF SomebodyEdits, jobVars
  <2>7. CASE UNCHANGED vars
    BY <2>7 DEF vars, jobVars
  <2> QED BY <2>1, <2>2, <2>3, <2>4, <2>5, <2>6, <2>7
      DEF Next, Started, Submit, SubmitQuick
<1> QED BY <1>1, <1>2, Invariance, PTL DEF Spec, ImplementsLifecycle, Lifecycle!Spec
=============================================================================
