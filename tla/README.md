# Vibeset in TLA+

Vibeset compares Salesforce metadata between orgs, sfdx projects and git
branches, builds a deployment package from what differs, deploys it, and can
roll a deployment back. This directory is its verification project: TLA+
modules translated from the code, TLC runs that check them on small instances,
and theorems proved with TLAPS for instances of any size.

Paths below are relative to `packages/` of the repository.

## 1. The system

The server is one Node process: a Fastify server with tRPC procedures, a SQLite
database, a job runner and a WebSocket route. Its logic is in `core`, called
from job handlers. The browser talks to it with tRPC and one WebSocket per job.
JavaScript code runs from one `await` to the next without interruption, so what
interleaves is whole stretches of handlers, requests from browsers, worker
threads, and the outside world (the org, files, branches) that changes on its
own.

### Components

| Component | State | Operations | Module |
|---|---|---|---|
| Job runner (`server/src/jobs/`) | `jobs` rows; in memory: abort controllers, listeners, the piscina pool | `enqueue`, `run`, `runViaPool`, `cancel`, `subscribe` | `JobRunner` |
| Job WebSocket (`server/src/routes/ws.ts`) | one socket per browser and job | connect, frame, close | `JobRunner` |
| Comparisons (`comparisons.ts`, `core/src/compare/`) | `comparisons`, `diff_results` rows; the handler's locals | `start`, `cancel`, list, plan, fetch, store, diff | `Compare` |
| Snapshot store (`snapshot-store.ts`, `server/src/store/`) | `component_snapshots`, `component_snapshot_refs`, counters | `lookupMany`, `putMany`, `stats` | `Compare` |
| Planner, chunking, coverage (`core/src/retrieval/`, `compare/coverage.ts`) | none | what to fetch, in which requests, and what was read together | `Compare`, `Retrieval` |
| Org source (`org-source.ts`) | a budget for each chunk of a request | `inventory`, `materialize`, isolation by bisection | `Retrieval`, `Filters` |
| Git and project sources (`core/src/sources/`) | files, commits | `inventory` with dates, `materialize` | `Projects`, `Filters` |
| Canonical form and diff (`core/src/diff/`) | none | natural keys, canonical order, hash, structured diff | `Documents`, `Profiles` |
| Merge (`core/src/merge/`, `merge.ts`, `web merge-resolution.ts`) | the panel's resolutions | two- and three-way resolution, of grids by coverage | `Profiles` |
| Package building (`core/src/package/`, `buildPackage`) | saved packages and manifests | selection tree, order, deletions, XML | `Packages` |
| Deployments (`deploy.ts`, `core/src/deploy/`) | `deployments`, `deployment_components`; the handler's locals; the org's request | `deploy`, `validate`, `quickDeploy`, `cancel`, the deploy job | `Deploy` |
| Rollback (`rollback.ts`, `history.ts`, `rollback-source.ts`) | a saved package | `generateRollback`, a deployment of it | `Deploy` |
| Dependencies (`core/src/dependencies/`, `dependencies.ts`) | `dependency_edges`, `dependency_sync_runs` | sync job, impact, references | `DependencySync`, `Dependencies` |
| Connections (`connections.ts`) | rows | add, remove | `DependencySync` |
| Analyzers (`core/src/analyzers/`) | none | rules over a package, the target and the graph; autofix | `Analyzers` |
| Inventory and filters (`type-filter.ts`, `filter-set.ts`, routers, the editor) | saved filter sets | list, save, open, preview | `Filters` |
| Web client (`web/src/`) | stores, hooks, query cache, the live overlay | the wizard, running and loading a comparison, selecting, following a deployment | `Browser`, `LiveDeployments`, `Packages` |
| Command line (`cli/`) | none | starts the server | not modelled |

`PROJECT.json` lists every component with its status, and every hazard at its
line with the property that covers it or the reason none does.

### What is hard, and what makes each part correct

- *Jobs.* A row must be finished exactly once although success, failure and
  cancellation leave `run()` by different paths, a worker's messages and the
  pool's answer come through two unordered ports, browsers connect at any
  moment, and the process may die. Correct: a finished row never changes, an
  acknowledged cancellation of a pool job is final, a controller exists exactly
  while its job runs, nobody waits for a job that has ended, every run ends.
- *Deployments.* Six awaits, a cancellation at any of them, an org that works on
  its own, and a rollback computed from what the handler wrote at the end.
  Correct: the row tells what the org did, every end reaches the row, what is
  recorded as the state before a deployment is what was there, and deploying
  the rollback restores it.
- *Comparisons and the store.* Listing, reading and storing are three moments,
  and the source may change between any two of them; the store is shared; what
  cannot be read must not become a verdict. Correct: the store never answers
  with a content that is not current, verdicts are true of states the sources
  really held while the comparison ran, `identical` on a binary is a fact.
- *Retrieval.* A chunk that fails is bisected, its halves run at once under one
  budget, and a Profile must be read together with what its entries are about.
  Correct: every key is answered once, one broken component costs itself, an
  outage is not taken for a few broken components, every request ends, and
  coverage claims no more than was read.
- *Projects and branches.* Files change while they are listed, dated and read.
  Correct: a date identifies a content, which is what the store relies on.
- *Diff and merge.* Hash, differ, merge and Profile grids each identify the items
  of a collection their own way, and an entry that was not read is not an entry
  that is not there. Correct: hash and diff agree, no edit is lost, nothing unread
  is deleted.
- *Packages.* Three representations of a selection (core's tree, the page's list,
  the draft), an order, a manifest, and a swap of left and right at each end.
  Correct: what is deployed is what was checked, to the right org, in an order
  that does not depend on the clicks.
- *Dependencies.* Syncs of a connection overlap and fail; walks over cycles.
  Correct: a graph is what one sync read, impact is reachability.
- *Analyzers.* Facts may be missing. Correct: an error needs evidence.
- *Filters.* One filter is applied by three kinds of code. Correct: two sides with
  the same components list the same.
- *Browser.* Answers of earlier questions arrive late, and stores outlive pages.
  Correct: the page, the selection, the package and the flow are of one
  comparison; the overlay never says more than the row, and in the end the same.

## 2. Modules

    JobLifecycle                what the jobs table promises
       ^         ^
       |         |  implemented by
    JobRunner  Deploy    Compare    Retrieval    Projects, DependencySync,
                                        ^        LiveDeployments, Browser
    MCDeploy, MCCompare:                |                  ^
    instances of Deploy and Compare     |                  |
                                   MCRetrieval <--- MCComponents
                                                           |
    ListOps <-- Documents <-- Profiles <-- Algorithms <-- MCAlgorithms
                                            v
            Packages, Filters (ListOps <-- both), Dependencies, Analyzers

An arrow goes from a module to what it extends or instantiates, or, from a
specification up, to what it implements. The proofs lie beside:

| Proofs | of |
|---|---|
| `JobRunner_proofs`, `Compare_proofs`, `Deploy_proofs`, `Retrieval_proofs` | the module of that name |
| `Components_proofs` | `DependencySync`, `Projects`, `Browser` and `LiveDeployments`, which share no state |
| `Algorithms_proofs` | `Algorithms` and the modules it asks: diff, merge, analyzers, impact |
| `Listings_proofs` | what `Algorithms` asks of `Packages` and `Filters` |
| `Induction` | lemmas the others share: least and greatest elements, induction and recursion up to a number, the lists of `ListOps`: selected (`Only`) and sorted (`Sorted`) |

Definitions named `X_Bug` (`Halves_Overlap`, `IsCovered_Always`, ...) are faults
that `X` could have: no specification uses them, and `PROJECT.json` names the
property that each of them breaks.

The parts meet where one relies on what another shows: `Compare` supposes that an
edit changes a component's date, `Projects` says when a project's or a branch's
does; `Compare` and `Deploy` take a chunk's files, `Retrieval` says which there are;
`Deploy` takes a package, `Packages` builds it, `Browser` says whose selection it is
built of; `LiveDeployments` takes the rows that `Deploy` ends; `Profiles` takes the
coverage that `Retrieval` shows to be honest or not.

### JobLifecycle

The abstract specification: a row is created once, finishes at most once, and
is canceled only if that was asked for and acknowledged. `JobRunner` and
`Deploy` both implement it (`ImplementsLifecycle`, an `INSTANCE` with their own
`status`/`job` and `acked`).

### JobRunner

`job-runner.ts`, `demo-worker.ts` and `ws.ts`.

| Variable | Code |
|---|---|
| `status`, `percent` | columns of `jobs` |
| `controllers` | `abortControllers`: none, live, aborted |
| `listeners` | the `Map` of listeners, by socket |
| `task`, `posted`, `chan` | a job in piscina, the messages its worker has posted, the ones `port1` has not delivered |
| `sock`, `watching`, `heard` | a browser's socket, its job, the last status it was sent |
| `acked` | jobs for which `cancel()` returned true |

| Action | Code |
|---|---|
| `Enqueue` | `enqueue()` and `run()` up to its await: insert as queued, update to running and emit, in one stretch |
| `Progress` | `onProgress`: row, then listeners |
| `HandlerSettles` | the handler's promise settles; `catch` and `finally` |
| `Cancel` | `cancel()`; for a pool job piscina rejects at once, so the job's end is part of the action |
| `PoolStarts`, `WorkerPosts`, `WorkerEnds` | piscina and the worker's thread |
| `PortDelivers` | `port1.on('message')` |
| `PoolAnswers` | `pool.run()` settles |
| `Connect`, `SocketCloses` | `ws.ts` |
| `Crash`, `CrashInEnqueue`, `Restart` | the process dies, also between the two writes of `enqueue`; a new one reads no row |

Jobs are split in `Handled` (an in-process handler is registered) and the rest,
which the code hands to the pool. The end of `run()` is `Settle`, built from its
four parts so that a fault in one can be tried alone.

### Deploy

`deploy.ts`, `history.ts`, `core/src/deploy/` and `rollback.ts`. `pc` is the
await the handler is at:

    (lookup) | inventory -> capture -> materialize -> submit -> sent -> poll -> persist -> done

A validation (or an empty package) goes to `materialize` at once, a quick deploy
skips it. `capture` reads one chunk after another (`listed` is what is still to be
read): the signal is looked at before each chunk, so that an abort that falls into the
last one is not noticed there. `sent` is the stretch between `cs.deploy()` being called and
the abort listener being added (`executor.ts:56-62`): a cancellation that falls
there is acknowledged and never reaches the org. The org is an actor of its own:
it applies a request as a whole, rejects it, or cancels it if asked in time
(`rollbackOnError`). `before` is what `deployment_components` records; a
rollback package is derived from it at any later moment (`GenerateRollback`) and
deployed by another deployment (`StartRollback`).

`held` (what the org held when a request was applied) and `disturbed`
(deployments the org was changed under) exist for the properties only.

### Compare

`comparisons.ts`, `comparison-engine.ts`, `planner.ts` and the store. `pc` is:

    list(left) -> plan -> list(right) -> plan -> next <-> fetch -> store -> ... -> done

| Variable | Code |
|---|---|
| `held`, `date` | each source's components and when they last changed |
| `captured` | what a deployment has read and not yet stored (`capturePreDeployState` between its awaits) |
| `refs`, `blobs` | `component_snapshot_refs` (latest capture of each source, key, date) and `component_snapshots` |
| `looked`, `base`, `reported` | `stats()` of the store, `statsBefore`, the row's statistics (they count other comparisons' lookups too, see 4) |
| `row`, `job`, `aborted` | `comparisons.status`, its job, the signal |
| `listed` | the inventory's dates |
| `hit`, `toFetch`, `fresh`, `tree` | the plan's contents, what is left to fetch, what was fetched, the chunk just read |
| `verdict`, `unreadable` | `diff_results` |
| `seen`, `together`, `lost` | for the properties: what each side held since it was listed, what a Profile was read in one request with, keys the source failed to deliver or delivered in pieces |

A content stands for its canonical form: a body, a `rest` that is hashed and that no
differ reads (an attribute), and the grants of a Profile or permission set. An org
returns of a Profile the grants on what the same request asks for (`Answer`), which is
why `Chunks` puts a Profile and the components of paired types into one, and
`Coverage` is what the diff believes each side would show. Unequal hashes are a change
of a text; of anything else only if an entry really changed (`HasRealChange`,
`dispatch.ts:123-132`). `Dateless` components are those listed
with `lastModifiedDateUnknown`; `Binary` ones are compared by presence and hash
(`diffBinaryComponent`), the others by content (`diffComponent`). `CaptureReads`
and `CaptureStores` are a deployment's `capturePreDeployState` reading a component
it listed earlier and writing it into the same store. `Edit` is the
world changing. `RowsAccepted` is the enforced foreign key from `diff_results`
to `component_snapshots`.

Not in the model because it cannot happen: the two connection lookups before
the handler's `try` (`comparisons.ts:37-51`) run in the stretch of the `start`
mutation that has just inserted a row whose foreign keys name both connections.

### Retrieval

`planMaterializeChunks`, `OrgSource.materialize` and `coverage.ts`. `chunks` is the plan,
`chunk` and `budget` the state of each, `tasks` the retrieves in flight, `got` the
files, each with the keys it was retrieved with, `missing` what was given up. A chunk is
full by files or by kilobytes (`Exceeds`).

| Action | Code |
|---|---|
| `Connect` | `getConnection`, whose session may have expired |
| `TakeChunk` | a runner of `withConcurrency` takes the next chunk; a rejected chunk costs its runner, the others go on after `materialize` has failed |
| `Answered` | a retrieve and its conversion succeed, less what `convertWithIsolation` gave up |
| `Bisected` | it throws: both halves are retrieved at once |
| `Isolated` | a single key throws and the chunk's budget pays for it |
| `Rejected` | a single key throws and the budget is spent, or its chunk was that key |
| `Finish` | every chunk is done |

`org` is what the org has against each key: it fails a retrieve (`poison`), cannot be
converted, or is gone. A component's size is one of two; `MaxFiles` and
`MaxKilobytes` make the request of six keys into the Profile's chunk of three, a chunk of
one, which is full by its bytes, and a chunk of two.

### Projects

`sfdx-project-source.ts` and `git-ref-source.ts`. `versions` are commits or the states
of a directory, `reader` a comparison that lists, dates and reads one component at
separate awaits (`ListDirectory`, or `ResolveRef`, `WalkTree`, `PathHistory`,
`ListCommit`; then `CacheHit` or `Materialize`), `store` what is kept under which
date. `raced` marks the behaviours in which the date does not tell: a file of the
component was removed, or an edit fell into the second of another or between the
reader's awaits.

### DependencySync and Dependencies

`DependencySync` is the sync job (`dependencies.ts`) with several connections: a job
per run reads page after page (`Read`), replaces the connection's edges and ends its
row in one stretch (`Replace`), or fails. `Dependencies` holds the walks of
`graph.ts` over what a sync stores (`SyncedEdges`): the edges the org answered with, less
those from or to a package the sync was told to exclude, and whatever a Profile or
Layout mentions. The second kind has the namespace that its names suggest
(`ExtractNamespaceHeuristic`) and is not filtered by it, so that a Profile's mention of an
excluded package's class stays an edge.

### LiveDeployments

`web/src/lib/adapters/deploy.ts`: `live` is the module-level overlay, `chain` the
calls of `start`, `socket` the job's WebSocket, `cancels` the call of `cancel`,
`cached` the row as last polled. The server is `rows` and `JobMoves`.

### Browser

The routes and stores from choosing sources to a deployment. `page` is the route,
`flow`, `selection` and `draft` are stores, `run` is `useRunComparison`, `loads` and
`data` are `useComparisonResult`. A run whose socket errs reads failed and keeps the socket
(`RunFails`). `Steps` are the links of the wizard's stepper.
A page of another kind unmounts the hooks of the one before (`Go`); the same page
of another comparison keeps them and cancels their load. The deploy page leaves
its draft in a store, from which the review page behind the list of deployments
deploys again (`OpenReview`, `Redeploy`), whatever became of the selection since.

### The algorithms

`Documents` (natural keys, canonical form, structured diff), `Profiles` (grids of
permissions, coverage, merges, the merge procedure and panel), `Packages`
(selection trees, the results page and deploy page, order, manifest, XML,
`buildPackage`, the swap of source and target), `Analyzers`, `Filters` and
`Dependencies` have no variables. `Algorithms` asks them one question at a time: an
initial state is an input, its one step asks, and an invariant compares the
answer with what it is for.

A document is scalar fields and one collection of items; a content of a grid is
its entries; a name is a rank in the alphabet (`Packages`), or its words
(`Analyzers`, `Filters`); an XML file is what it lists. Of a missing reference the rule's
severity is kept: an error, but for a layout's record type a warning. A project knows no
author of a component, a branch the one of its latest commit, and an org its own.

### MCComponents

Five components that share no state, and the algorithms, side by side: `part` says
whose behaviour it is, and the variables of the others stay. Every action of each
is an action here.

## 3. Runs

| Run | Bounds | Shows |
|---|---|---|
| `job_runner` | one handled and two pool jobs on one thread, 1 socket, 1 worker step, 1 crash | types, the four safety invariants, finished rows frozen, `JobLifecycle` implemented, every run ends, every follower is let go |
| `socket_closes_early` | one handled and one pool job, 1 socket, no crash | a finding |
| `deploy` | 2 deployments of one org, 2 components (one added or updated, one deleted), 1 fault | row, request and recorded state agree; a rollback restores; `JobLifecycle` implemented |
| `deploy_live` | 1 deployment, 2 faults, 1 foreign edit, a bundle | its row becomes terminal |
| `rollback_deletes_existing` | 1 deployment, 1 fault, every listing complete | a finding |
| `compare` | 2 comparisons of an org and a repository, a class and a Profile with or without a grant on it, 1 edit | the store is honest, no verdict is stale, no unread grant is a change |
| `compare_one` | 1 comparison, a binary and a dateless component, 1 edit, 1 fault, 1 capture | the binary claim, the verdicts, row and job, with captures writing into the store |
| `deleted_means_not_there` | 1 comparison, 1 fault | a finding |
| `dateless_rows_refused` | 1 comparison, no fault | a finding |
| `components` | see below | the components of `MCComponents` |
| `overlay_steps_aside` | 1 deployment, no trouble | a finding |
| `coverage_after_bisection` | the request of `components`, one broken key, no fault | a finding |

`components`:

| Part | Bounds | Shows |
|---|---|---|
| retrieval | 6 keys in chunks of 3, 1 and 2, at most 2 with something wrong, 1 fault of the network, 2 runners, a tolerance of 1 or 30 % (the code's is 5 or 30 %: scaled with the chunks) | `EveryKeyIsAnswered`, `AFewFailuresAreTolerated`, `ManyFailuresAreLoud`, `MaterializeEnds` |
| projects | 2 files of two contents, one or both of which are the component's body, 2 edits, 1 edit a second | `DatesIdentifyContentInPeace` |
| sync | 2 connections, 2 runs, 2 pages (the last being the supplement), 1 change, 1 fault | `GraphIsOneSync` |
| deployments | 1 deployment, 2 lost calls, sockets or reloads | `NothingEndsBeforeItEnds`, `EndsAreShown` |
| browser | 2 comparisons with a key in common, 2 keys, pages of 2 rows, 2 deployments, 2 loads on their way | `ShownResultsAreOwn`, `SelectionIsOfOneComparison`, `FlowIsOneFlow` |
| algorithms | every input of `MCAlgorithms` | `HashAndDiffAgree`, `MergeKeepsEdits`, `UnreadPermissionsSurvive`, `PackageIsWhatWasChecked`, `ErrorsNeedEvidence`, `ImpactIsReachability`, `SidesListTheSame` |

Why these bounds are enough to be interesting:

- two pool jobs on one thread is the smallest instance where a job waits for a
  thread another one may keep; a crash in the middle empties everything but the
  rows, and a second one adds nothing to the state a first leaves;
- two deployments is what a rollback needs, or two that overlap; the one package
  has one component to write (which the org may or may not have: `MCOrgs`) and
  one to delete, the two things rollback treats differently;
- two comparisons of the same two sources share references of the same key, and
  one edit between any two of their steps is what makes a reference stale; a Profile
  read fresh on one side and taken from the store on the other, with a grant that one
  side has, is what it takes for a grant not read to be mistaken for one not there;
- a component without a date is where a capture and a comparison could meet under the
  date `''`: one capture, before or after one edit, is what a lookup by that date would
  wrongly find;
- a chunk of three is bisected twice and has a tolerance of one: two broken keys
  in it exceed the tolerance in either order, one does not; the chunk of one key is
  the one that is not isolated at all; three chunks for two runners make one wait;
- two runs of one connection and two connections are what syncs can confuse, and
  two pages what one sync can read in part;
- two comparisons with a key in common, one whose rows fill a page to the last (the
  next page is empty) and one whose rows do not, are what a late answer, a kept
  selection or a page boundary can confuse;
- a collection of two items has all the orders, duplicates, blanks and deletions
  that can be told apart; a grid over two permissions has one that is covered and
  one that is not; graphs over three nodes have every cycle up to three and the
  depths 1 and 3; five keys make a parent with children, without, a type that ties
  and a name that two types share.

`MaxFaults` bounds failed calls and lost components, `MaxAiling` what the org has
something wrong with, `ListingsFail` whether an org's listing before a deployment may be
one of the failed calls, `MaxEdits` and `MaxChanges` changes by others,
`EditsPerSecond` edits a commit's second may hold, `MaxCaptures` captures,
`MaxCrashes` deaths of the process, `MaxTroubles` what a tab loses, `WorkerSteps` a
demo job's steps, `MaxLoads` the loads a page has on their way (its own and one
superseded). Nothing else is bounded.
`CHECK_DEADLOCK` is off because finished jobs, deployments and comparisons really
leave the system with nothing to do.

The runs `compare` and `compare_one` use symmetry over comparisons and bodies.
It is sound: no definition of `Compare` names or orders any of them (the one
`CHOOSE`, in `Cached`, is from a set with at most one element, `Stored` keeping
one reference for each source, key and date), the initial states are all
assignments of contents to sources, and the runs check invariants only. Sources and
keys are not permuted, since `Orgs`, `Binary`, `Text`, `Profiles` and `Dateless` tell
them apart.

### Liveness and fairness

`JobRunner!FairSpec` assumes: a handler's promise settles (every handler in the
repository ends in a call that answers or fails); a worker that has a thread
goes on posting and returns after its last step; the event loop delivers what
is pending; piscina gives a waiting task a free thread; and a close handshake
the server began is finished, by the peer or by the timer of `ws`. Nothing is
assumed of users (enqueueing, cancelling, connecting, disconnecting) and nobody
is obliged to restart a dead process. Each is weak fairness of one action: none
of these steps can be taken away again by another actor except by ending the job.

`Deploy!FairSpec` assumes that awaited calls answer and that the org finishes
what it accepted. `CallFails` is not fair: failures may happen, and are never
relied upon.

`Retrieval` assumes that a request in flight is answered, well or badly, and that the
event loop then goes on: weak fairness of its next-state relation as a whole,
since every one of its steps is the program's or an awaited answer, and each
behaviour is finite (every step answers a retrieve or halves it).

`LiveDeployments` assumes that a job in progress ends (`JobRunner`, `Deploy`), that an
open socket delivers what the job reports (a socket that is lost is a `SocketLost`,
which is not fair), and that the interval of the query polls a row that has changed
(`refetchInterval`). Nothing is assumed of the user.

## 4. Findings

Each is a run that shows what the code does against what a comment says; the
quotations are in `PROJECT.json`.

1. `rollback_deletes_existing`: a component the target's inventory listed and that a
   chunk comes back without is recorded as `existed: false`; the deployment succeeds,
   and the rollback generated from it deletes a component it only updated. No listing
   fails in this run, so that the trace is this one.
2. `dateless_rows_refused`: the engine compares components without a date but
   does not store them, and `diff_results` has an enforced foreign key to the
   stored blob: the insert is refused and the comparison fails though every
   source answered.
3. `deleted_means_not_there`: an XML or text component listed on both sides whose
   content does not come back is called `deleted` or `new`; the same case was
   fixed for binary types only.
4. `socket_closes_early`: the demo worker's own `succeeded` message closes the
   socket while the row is still `running`.
5. `overlay_steps_aside`: a cancellation clicked as the deployment ends is answered
   after the job's last message; the overlay then says `canceled`, over a row that
   says `succeeded`, until the tab is closed.
6. `coverage_after_bisection`: one component of a Profile's chunk that cannot be
   retrieved makes the Profile be retrieved apart from its pairs, and its coverage
   still claims them; the permissions it was not asked for read as deleted.

Observed while modelling, and contradicted by no comment that a run could quote:

- *Jobs and deployments.* `queued` and `running` rows left by a crash are never
  picked up again. A cancellation that falls while `cs.deploy()` is pending is
  acknowledged and has no effect on the org; the row then says what the org did.
  `generateRollback` accepts a deployment that is queued, running, failed or
  canceled: such a deployment has no component rows, or only some, and its rollback
  deletes every component without one; for bundles a rollback restores nothing
  (`rollback-source.ts:104-108`). `deploy.ts:88` writes the status `running`, which the
  declared union (`types/deployment.ts:40`) and the page of a deployment lack: after a
  reload a running deployment has no Cancel button.
- *Comparisons.* A comparison's statistics are a difference of global counters, and
  count the lookups of others that overlap with it (`comparisons.ts:55-71`). Pages of
  results are read without an `ORDER BY`.
- *Dates.* Removing an older file of a bundle, two commits within one second, and a
  branch that moves between `resolveRef` and the walk keep or cross a date
  (`sfdx-project-source.ts:66`).
- *Diff and merge.* Items that share a natural key, and items that differ in an XML
  attribute alone, have different hashes and no difference to show.
  A single item of an element that the natural keys do not name is compared as one
  value, and two of them by key. `layoutAssignments` are identified by `layout` in a Profile's grid
  (`profiles.ts:121`) and by `layout` and `recordType` elsewhere. A three-way merge of
  byte-identical sides takes their coverage as full (`merge.ts:197-205`) and may resolve
  an entry of the base to its deletion.
- *Packages.* A checked parent some child of which changed is not a leaf: its own
  change is not packaged (`selection.ts:165`). The deploy page counts, and previews,
  identical components that `buildPackage` drops.
- *Filters.* `extractNamespace` strips only one trailing `__c`: in a project
  `Obj__c.Field__c` and `Foo__mdt` read as of a namespace and are excluded by default,
  which an org, whose listing names the package, does not do. With no types chosen an
  org lists `DEFAULT_INVENTORY_TYPES`, a project everything. The editor drops `modifiedBy`.
- *Browser.* The deploy page does not call `ensureComparison`: going back to another
  comparison's deploy page applies this one's selection to it. A comparison canceled
  before its `start` was answered is not canceled on the server. "Quick Deploy" starts
  an ordinary deployment, and its candidate is found whatever its target and
  deletions. A sync of a connection that is no org leaves its row `running`
  (`dependencies.ts:250-261`).

## 5. Proofs

All are checked by TLAPS for every value of the constants the named assumptions
allow. Of the properties the runs that pass check, every invariant is a theorem, and so are
both refinements and the action property; what is left to TLC is liveness.

### JobRunner_proofs

| Theorem | Property |
|---|---|
| `InvariantHolds` | the inductive invariant `IInv` |
| `TypeCorrect` | `TypeOK` |
| `ControllersAreHonest` | `ControllerMeansRunning` |
| `NobodyForgotten` | `NoForgottenSubscriber` |
| `FramesAreTrue` | `TerminalFrameIsTrue` |
| `PoolCancelHolds` | `PoolCancelIsFinal` |
| `FinishedRowsStay` | `TerminalRowsAreFrozen` |
| `RunnerImplementsLifecycle` | `ImplementsLifecycle` |

`IInv` adds to the properties what they lean on: a process that is down has
nothing in memory; what the pool and `port1` hold belongs to a pool job in
progress (this is what makes `ClosePort` matter: without it a late message could
write a finished row); a listener is a connected socket that asked for its job;
a signal is aborted only after an acknowledgement; an acknowledged job has left
`queued`. The proof goes action by action; the parts of `Settle` and `Emit` are
lemmas used by all four actions that end a job. The percentage of a worker's
message stays in 0..100 by a lemma on the rounding division.

Assumptions: `Handled` are jobs, percentages reported by handlers lie in 0..100,
a demo job has at least one step, `NoJob` is no job. (`PoolAssumption` and
`CrashAssumption` are only for TLC.)

### Compare_proofs

| Theorem | Property |
|---|---|
| `CompareTypes` | `TypeOK` |
| `StoreIsHonest` | `StoreNeverLies` |
| `RowsFollowJobs` | `RowFollowsJob` |
| `VerdictsHold` | `VerdictsAreTrue` |
| `BinariesHold` | `IdenticalBinariesWereRead` |

The invariant `CInv` has two halves. Both speak of a content as a part of a state
(`ReadOf`): of a Profile of an org, grants may be missing that were not asked for, and
none may be wrong.

*The store* (`StoreInv`). A date that is written down, in a reference or in an
inventory, is never ahead of its component (`RefsPast`, `ListedPast`), and a
chunk read after an inventory is current if the date it will be stored under
still is (`TreeCurrent`), and so is what a capture has in hand (`CapturedCurrent`). An
edit only moves the date on, and so can only make
these dates past. `StoreNeverLies` follows for the reference a comparison
makes, from `TreeCurrent`, and for the one a capture makes, from `CapturedCurrent`. Stale
content may well be stored, but only under a date that nobody will ask for.

*What was seen* (`SeenInv`). Every side has been seen to hold what it holds
(`HeldSeen`), what the store has, or a capture will put, under the date it was listed with
(`RefsSeen`),
what any comparison is about to store under that date (`TreesSeen`), hence what
it compares (`ContentsSeen`); and where it has nothing to compare it was seen
without the component, or the source lost it (`MissingExplained`); a Profile fetched by a
comparison was read with everything its coverage claims (`ContentsSeen`), unless it was
read in pieces. `VerdictsAreTrue` and
`IdenticalBinariesWereRead` follow at `Finish` (`VerdictIsTrue`, `IdenticalWasRead`) and
stay, because what was seen only grows.

The proofs of the second half do not go action by action over the whole state:
lemmas say what one step can do to one comparison (`OneStepsAtATime`), to a
listed side (`ListedBefore`), to a chunk in hand (`TreeBefore`), to a reference
(`RefsBefore`) and to a source (`HeldBefore`), and each part of the invariant
follows from the ones that concern it.

Assumptions: finitely many keys, binary, text and dateless ones, Profiles and what they
grant permissions on among them, no Profile being of a binary or text type; orgs are
sources; `Absent` and `Nothing` are no contents, and `Nothing` is no date and no verdict.

The proof says exactly where the code's honesty comes from, and so what it
rests on: **every change gets a date the component never had**. That is the
model's `Edit`. For an org it holds up to the clock's resolution; a project or a
branch dates a component by the newest of its files, so that removing an older
file of a bundle, or committing twice within a second, keeps the date (`Projects`, and the
hazard at `sfdx-project-source.ts:66`).

### Deploy_proofs

| Theorem | Property |
|---|---|
| `Invariance` | the inductive invariant `IInv` |
| `TypeCorrect` | `TypeOK` |
| `EveryEndReachesItsRow` | `EveryEndReachesTheRow` |
| `RowsTellTheTruth` | `RowTellsWhatTheOrgDid` |
| `RecordsAreTrue` | `RecordedContentWasThere` |
| `RollbackUndoes` | `RollbackRestores` |
| `LifecycleImplemented` | `ImplementsLifecycle` |

A deployment's handler, its row, its job and its request at the org change at
different awaits. `IInv` says which combinations can occur: what each step of the
handler knows of the row (`HandlerAndRow`) and of the request (`HandlerAndRequest`),
that nothing exists before the insert, that packages are sound, that an ended row tells of an ended
handler (`RowsAreOfTheEnd`) and that a signal is aborted only after an acknowledgement.

`RecordedContentWasThere` is about the moment a request is applied, but what is
recorded was read long before: `CapturedContentIsThere` bridges the two. While nobody else
changed the org, what a deployment captured is what the org holds, until the request is
applied, and what it held, afterwards. `RollbackRestores` adds that without a failed call
the capture is complete (`CaptureIsComplete`), that a rollback's package is the record it
undoes (`RollbacksCarryTheRecord`) and that only bundles are left out
(`OnlyBundlesAreLeftOut`). The proof showed where the property had to be more careful:
a rollback of a rollback that left a bundle out does not bring that bundle back.

Assumptions: `Absent` is no content and `NoRow` neither; bundles are components;
packages, the desired contents and the orgs are of the components.

### Retrieval_proofs

| Theorem | Property |
|---|---|
| `RetrievalInvariance` | the inductive invariant `RInv` |
| `RetrievalTypeCorrect` | `RTypeOK` |
| `EveryKeyIsAnsweredOnce` | `EveryKeyIsAnswered` |
| `AFewFailuresCostThemselves` | `AFewFailuresAreTolerated` |
| `ManyFailuresFail` | `ManyFailuresAreLoud` |
| `ProfilesAreReadWithTheirPairs` | `ProfileReadWithItsPairs` |

`RInv`: the retrieves in flight share no key and belong to their chunk (`TasksInv`),
what is settled and what is in flight are together what the plan asked for
(`AnswersInv`), and what a chunk gave up and what it may still give up add up to the tolerance it
began with (`BudgetInv`), so that no order of the halves can give up more. The
invariant begins with the plan: that `PlanMaterializeChunks` covers the request, each key once,
and puts a Profile's pairs into its chunk is proved by induction over
the lists it is built from, and so is what `convertWithIsolation` gives up of any list.

One thing the proof made plain: core takes the tolerance of the conversion from the number of
components that came back, not from the number that were asked for.

Assumption: the request is a list without repetition, no Profile is a
Profile's pair, and the failure percentage is a percentage (`RetrievalAssumption`).

### Components_proofs

| Theorem | Property |
|---|---|
| `SyncInvariance`, `SyncTypeCorrect` | the inductive invariant `SyncInv`, `STypeOK` |
| `GraphsAreOfOneSync` | `GraphIsOneSync` |
| `ProjectInvariance`, `ProjectTypeCorrect` | the inductive invariant `ProjectInv`, `PTypeOK` |
| `DatesNameContents` | `DatesIdentifyContentInPeace` |
| `BrowserInvariance`, `StoresCorrect` | the inductive invariant `BrowserInv`, `StoresOK` |
| `ResultsShownAreOwn` | `ShownResultsAreOwn` |
| `SelectionsAreOfOneComparison` | `SelectionIsOfOneComparison` |
| `FlowsAreOneFlow` | `FlowIsOneFlow` |
| `LiveInvariance`, `LiveTypeCorrect` | the inductive invariant `LiveInv`, `DTypeOK` |
| `ShownEndsAreEnds` | `NothingEndsBeforeItEnds` |

*Syncs.* Rows are of connections that exist, a job that reads has read a prefix of its
org's pages, and a graph is what a succeeded sync read: an insert that fails rolls
back the delete before it.

*Projects.* The history of the files is the argument: as long as no two edits share a
second (`SecondsGrow`) and nothing is removed, the newest date of a component's
files names the edit that made it what it is. A reader that met no edit saw one moment
of the history (`ReaderSawNow`), and what is stored is what such a reader saw
(`StoreWasRead`). Each exception in the property is a case the proof cannot do without.

*Browser.* A load under way has a prefix of the rows of the comparison in the address
bar (`LoadsAreOfThePage`), the results page claims the flow for its own comparison before
anything can be selected (`ResultsPageClaims`), and the run page follows the job
its socket was opened for (`RunFollowsItsSocket`).

*LiveDeployments.* What the poll, the overlay and the socket's last message
say of an end is an end (`PolledEndsAreEnds`, `OverlaidEndsAreEnds`), unless this tab
canceled the deployment (`CancelsAreOwn`) or lost a call or a socket of it.

### Algorithms_proofs and Listings_proofs

| Theorem | Property |
|---|---|
| `QuestionsArePosed` | the question asked is one of those of its topic |
| `ErrorsAreEvidenced` | `ErrorsNeedEvidence` |
| `ImpactReachesAll` | `ImpactIsReachability` |
| `HashAndDiffAre` | `HashAndDiffAgree` |
| `EditsAreKept` | `MergeKeepsEdits` |
| `UnreadEntriesSurvive` | `UnreadPermissionsSurvive` |
| `PackagesAreWhatWasChecked` | `PackageIsWhatWasChecked` |
| `SidesListTheSameComponents` | `SidesListTheSame` |

The state is a question and no step changes an answer: the work is in the
lemmas about the operators, one for each function of the code that a property asks of. TLC
asks about
some 100 documents and graphs; the theorems speak of all that the assumptions
(`ContextsAssumption`, `WalksAssumption`, `DocumentsAssumption`, `MergesAssumption`,
`GrantsAssumption`, `SelectionsAssumption`, `ListingsAssumption`) allow: documents as the
parser makes them, whose values are not the model's marks for what is missing; finite
graphs, whatever namespaces their edges have; the results of a comparison, told apart by type and name, under any clicks and
sent in any order; the components of an org, in a folder exactly if their type lives in
folders, under any filter whose fields ask or are left out.

- *Impact.* What the search has reached after n rounds is what a path of at most n edges
  reaches (an induction over the rounds), for any finite answer of the org, any
  namespaces in its edges and in the names a Profile or Layout mentions, and any packages
  excluded. Its default depth reaches everything only in
  graphs no deeper than that; the property says so.
- *Hash and diff.* Two canonical forms are equal exactly if scalars, the keys of
  items and each item's values are; the diff lists exactly the differences of these. The
  property's exception (items that share a key) is where the last step fails.
- *Merge.* An entry is decided by what the sides and the ancestor hold of it: three lemmas,
  `EntryInTwoWays`, `EntryInThreeWays` and `EntriesByStatus`, carry all the clauses.
- *Profiles.* A permission leaves a Profile only where the read side read the
  component it is about, or lacks it.
- *Packages.* A state of the tree is read off the set of checked leaves
  (`LeavesReadAsChecked`), and the package holds what was picked of the list sent
  (`PackageIsAsSent`). Sorting a list is sorting its places by the order and then by where
  they stand: such a list is in the order for any list sent (`PackagesAreOrdered`), and where no two
  components tie (`Ties`) there is only one (`OneOrder`), which is why the order of the
  clicks does not matter. The deploy page is an induction over the clicks: what is ticked
  was on the screen (`TickStaysOnTheScreen`, `TickedIsShown`), so a sorted, filtered or
  grouped list shows the picked rows and no others. `TargetBecomesSource`
  is a case for each status and side.
- *Listings.* The batches an org is queried in list what the filter asks, whatever the
  order (`BatchesHaveAll`, `BatchesListAll`); a filter asks of each component field
  by field (`FiltersByField`), and what the editor makes of one asks the same
  (`EditedAsksTheSame`). The numbers it shows are bounds on finite sets.
  Here the attempt to prove corrected the property: a removal reads as 0 % not only
  when nothing is removed, but whenever it is less than half a tenth of a percent,
  which takes an org of more than 2000 components that TLC never had.

### Recursion and induction

The provers cannot take an operator as an argument, and so not the library's induction
rules. `Induction` does induction over a *set* of numbers instead, a bounded
range at a time, and defines by it the functions the models define by recursion: so what
`Retrieval`, `Profiles` and the impact search compute by recursive functions is proved,
for every input. `ListOps` has two such
functions, `Only` (the part of a list in a set) and `Sorted` (a set as a list along an
order), used where the library's `SelectSeq` and `SetToSortSeq`, which take operators,
could have been; the clicks of `Algorithms` are folded the same way. A fold that is left
(`SumEstimate`, `MapThenSumSet`) is one whose sum no theorem depends on.

### Only model-checked

| | Why |
|---|---|
| `FollowedToTheEnd`, `EveryRunEnds`, `EveryDeploymentEnds`, `MaterializeEnds`, `EndsAreShown` | liveness: fairness and `ENABLED` are beyond the prover |

The six findings are violations, shown by TLC. The other way round,
`ProfileReadWithItsPairs` is proved and no run checks it: for a bisected chunk it is
excepted, and what it says of the others is within `VerdictsAreTrue` and the finding
`coverage_after_bisection`.

## 6. What is abstracted

- In `Compare` and `Deploy` a content is its canonical form, and equality of hashes is
  equality of contents; `HashAndDiffAgree` is about the canonical form itself. XML and
  file formats are left out everywhere: a parsed document is where models begin.
- Two captures of one reference in the same millisecond: the store orders
  captures by time, the model keeps the last one made.
- In `Compare`, a chunk is the Profiles to be fetched with all of what they are paired
  with, or else an arbitrary non-empty subset of what is to be fetched; that a bisected
  chunk's pieces are arbitrary is more than bisection does. The two sides are fetched one
  after the other, as the engine does. Grids are one grant for each paired component;
  `Profiles` has them in full.
- `Deploy`'s package is a constant; per-component test results and diagnostics are left
  out; quick deploy's server-side expiry is a fault.
- Crashes are modelled for jobs, not for comparisons and deployments, whose
  handlers simply stop.
- Deleting a connection is always refused while a comparison or deployment
  names it (foreign keys), so connections never disappear under a handler;
  `Deploy` keeps the failing lookup, which the code's own comment tells of.
- A component is two files in `Projects`, and a table of types is a few of its rows
  in `Documents`, `Profiles`, `Packages` and `Analyzers`: enough that each way of
  treating a type occurs.
- An org's faults are independent of the requests: a key that cannot be retrieved
  fails every retrieve it is in, a fault of the network any one.

Not modelled at all: the login job (it wraps the Salesforce CLI), resolving paths
and parsing XML (libraries), the texts of findings, rendering and the settings
pages, exporting packages, the command line.

## 7. Plan

Every invariant, refinement and action property is proved. Next would come models of what is
abstracted or left out above: crashes of a comparison's and a deployment's handler,
quick deploy's expiry, the login job.

## 8. Running

    tlc -config JobRunner.cfg JobRunner.tla
    tlc -config MCCompare.cfg MCCompare.tla
    tlc -config MCComponents.cfg MCComponents.tla
    tlapm Compare_proofs.tla            (and the other *_proofs, Induction)

Every run is listed in `PROJECT.json` with its module, configuration and
properties; `map` there gives the source lines of every definition, and `mutants`
the faults that each property has been shown to catch.
