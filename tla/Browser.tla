-------------------------------- MODULE Browser --------------------------------
(***************************************************************************)
(* The web client from a comparison to its deployment: the pages and the   *)
(* stores they share (web routes/, lib/), the hook that runs a comparison  *)
(* and the one that loads its results page by page.  What becomes of a     *)
(* deployment the deploy page starts is module LiveDeployments.            *)
(***************************************************************************)
EXTENDS Naturals, Sequences, FiniteSets

CONSTANTS Comparisons, FlowDeployments, Nil,
          DiffResults,    \* the rows of each comparison that succeeded, in the order they are read
          ResultsPageSize,
          MaxLoads        \* bound: loads of earlier comparisons still on their way, and the last

\* What a comparison found, each component once (module Compare): its verdict on it.
DiffRows == UNION {{DiffResults[c][i] : i \in DOMAIN DiffResults[c]} : c \in Comparisons}
ASSUME BrowserAssumption ==
    /\ ResultsPageSize \in Nat \ {0}
    /\ Nil \notin Comparisons \cup FlowDeployments \cup {"running", "succeeded", "failed", "canceled"}
    /\ DiffResults \in [Comparisons -> Seq(DiffRows)]
    /\ \A c \in Comparisons : \A i, j \in DOMAIN DiffResults[c] :
          DiffResults[c][i].key = DiffResults[c][j].key => i = j

VARIABLES
    jobs,      \* external: the status of each comparison
    page,      \* the route: what is open, of which comparison
    flow,      \* comparison-flow-store: were sources chosen, and what came of them
    selection, \* selection-store
    draft,     \* deployment-draft-store, with whose selection it was and what of it was checked there
    run,       \* the state of useRunComparison on the types page
    loads,     \* the loops of useComparisonResult that await an answer
    data,      \* its result on the page that is open
    checked,   \* <<key, comparison>>: in whose results each selected key was last checked
    of         \* the comparison each deployment was started from
bvars == <<jobs, page, flow, selection, draft, run, loads, data, checked, of>>

Terminal == {"succeeded", "failed", "canceled"}
Idle == [status |-> "idle", comparisonId |-> Nil, pending |-> Nil, socket |-> Nil]
PageAt(at, id) == [at |-> at, id |-> id]
Key(c) == {DiffResults[c][i].key : i \in DOMAIN DiffResults[c]}
DiffStatus == {"new", "changed", "deleted", "identical"}

BInit ==
    /\ jobs = [c \in Comparisons |-> Nil] /\ page = PageAt("sources", Nil)
    /\ flow = [sources |-> FALSE, comparisonId |-> Nil, deploymentId |-> Nil]
    /\ selection = [selected |-> {}, active |-> Nil]
    /\ draft = [comparisonId |-> Nil, components |-> {}, from |-> Nil, checked |-> {}]
    /\ run = Idle /\ loads = {} /\ data = Nil /\ checked = {}
    /\ of = [d \in FlowDeployments |-> Nil]

-----------------------------------------------------------------------------
\* The server's side of a load: comparisons.get counts the rows by status,
\* comparisons.results reads a page of them.
Summary(c) == [s \in DiffStatus |-> Cardinality({i \in DOMAIN DiffResults[c] : DiffResults[c][i].status = s})]
ServeResults(c, limit, offset) ==
    {DiffResults[c][i] : i \in {n \in DOMAIN DiffResults[c] : offset < n /\ n <= offset + limit}}

-----------------------------------------------------------------------------
\* buildWizardSteps: the pages the stepper links to, from what a page knows.
BuildWizardSteps(ctx) ==
    {PageAt("sources", Nil)}
        \cup (IF ctx.sourcesReady THEN {PageAt("types", Nil)} ELSE {})
        \cup (IF ctx.comparisonId = Nil THEN {}
              ELSE {PageAt("results", ctx.comparisonId), PageAt("deploy", ctx.comparisonId)})
        \cup (IF ctx.deploymentId = Nil THEN {} ELSE {PageAt("detail", ctx.deploymentId)})
WizardContext(ready, c, d) == [sourcesReady |-> ready, comparisonId |-> c, deploymentId |-> d]
\* The page of a deployment is a step of the wizard if the flow started it.
IsWizardResult == page.at = "detail" /\ flow.deploymentId = page.id /\ flow.comparisonId # Nil
SourcesMatchThisComparison == flow.sources /\ flow.comparisonId = page.id
Steps ==
    CASE page.at = "sources" -> BuildWizardSteps(WizardContext(flow.sources, flow.comparisonId, flow.deploymentId))
      [] page.at = "types" -> BuildWizardSteps(WizardContext(TRUE, flow.comparisonId, flow.deploymentId))
      [] page.at = "results" -> BuildWizardSteps(WizardContext(SourcesMatchThisComparison, page.id, flow.deploymentId))
      [] page.at = "deploy" -> BuildWizardSteps(WizardContext(TRUE, page.id, flow.deploymentId))
      [] IsWizardResult -> BuildWizardSteps(WizardContext(TRUE, flow.comparisonId, page.id))
      [] OTHER -> {}

\* Navigation: a page of another kind unmounts this one, and its loads and its run
\* hook with it; the same page of another comparison stays mounted and its
\* effect cancels the load before it starts the next.
Load(c) == [comparison |-> c, summary |-> Nil, offset |-> 0, got |-> {}, cancelled |-> FALSE]
Superseded_GoOn(ls) == ls
Superseded(ls) == {[l EXCEPT !.cancelled = TRUE] : l \in ls}
Go(to) ==
    /\ page' = to /\ data' = Nil
    /\ loads' = (IF to.at = page.at THEN Superseded(loads) ELSE {})
                    \cup (IF to.at \in {"results", "deploy"} THEN {Load(to.id)} ELSE {})
    /\ Cardinality(loads') <= MaxLoads
\* ensureComparison, on the results page.
EnsureComparison_KeepsSelection(c) == [selection EXCEPT !.active = c]
EnsureComparison(c) == IF selection.active = c THEN selection ELSE [selected |-> {}, active |-> c]
Claim(c) ==
    /\ selection' = EnsureComparison(c)
    /\ checked' = {p \in checked : p[1] \in selection'.selected}
\* setComparisonId.
FlowOf_KeepsDeployment(c) == [flow EXCEPT !.comparisonId = c]
FlowOf(c) == [flow EXCEPT !.comparisonId = c, !.deploymentId = Nil]
SetSources(to) == flow' = [FlowOf(Nil) EXCEPT !.sources = to]

OpenSources ==   \* the menu, the stepper and Back, or startOver on the page of a deployment
    /\ page.at # "sources" /\ Go(PageAt("sources", Nil)) /\ run' = Idle
    /\ \/ UNCHANGED flow
       \/ IsWizardResult /\ SetSources(FALSE)
    /\ UNCHANGED <<jobs, selection, draft, checked, of>>
ChooseSources == \* handleContinue
    /\ page.at = "sources" /\ Go(PageAt("types", Nil)) /\ SetSources(TRUE)
    /\ UNCHANGED <<jobs, selection, draft, run, checked, of>>
OpenTypes ==     \* the stepper and Back; beforeLoad sends a flow without sources away
    /\ page.at # "types" /\ PageAt("types", Nil) \in Steps
    /\ Go(IF flow.sources THEN PageAt("types", Nil) ELSE PageAt("sources", Nil))
    /\ UNCHANGED <<jobs, flow, selection, draft, run, checked, of>>
OpenResults(c) == \* the stepper, Back, the recent comparisons and links
    /\ jobs[c] = "succeeded" /\ page # PageAt("results", c)
    /\ Go(PageAt("results", c)) /\ Claim(c) /\ run' = Idle
    /\ UNCHANGED <<jobs, flow, draft, of>>
OpenDeploy(c) == \* Continue, the stepper, Back, the tab's history and links
    /\ jobs[c] = "succeeded" /\ page # PageAt("deploy", c)
    /\ Go(PageAt("deploy", c)) /\ run' = Idle
    /\ UNCHANGED <<jobs, flow, selection, draft, checked, of>>
OpenDeployment(d) == \* the stepper, the list, the history
    /\ of[d] # Nil /\ page # PageAt("detail", d)
    /\ Go(PageAt("detail", d)) /\ run' = Idle
    /\ UNCHANGED <<jobs, flow, selection, draft, checked, of>>

-----------------------------------------------------------------------------
\* useRunComparison.  The callbacks of a start are dropped by the next start.
Run(c) ==
    /\ page.at = "types" /\ run.status # "running" /\ jobs[c] = Nil
    /\ run' = [Idle EXCEPT !.status = "running", !.pending = c]
    /\ jobs' = [jobs EXCEPT ![c] = "running"]
    /\ UNCHANGED <<page, flow, selection, draft, loads, data, checked, of>>
RunStarts ==
    /\ run.pending # Nil
    /\ run' = [run EXCEPT !.comparisonId = run.pending, !.socket = run.pending, !.pending = Nil]
    /\ UNCHANGED <<jobs, page, flow, selection, draft, loads, data, checked, of>>
RunFails ==      \* onError; or ws.onerror, which keeps the socket and its handlers
    /\ \/ run.pending # Nil /\ run' = [run EXCEPT !.status = "failed", !.pending = Nil]
       \/ run.socket # Nil /\ run' = [run EXCEPT !.status = "failed"]
    /\ UNCHANGED <<jobs, page, flow, selection, draft, loads, data, checked, of>>
\* ws.onmessage.  Once succeeded, an effect of the types page claims the
\* comparison and opens its results, even if the user had canceled the run.
RunMessage ==
    LET c == run.socket IN
    /\ c # Nil /\ jobs[c] \in Terminal
    /\ IF jobs[c] = "succeeded"
       THEN /\ flow' = FlowOf(run.comparisonId) /\ run' = Idle
            /\ Go(PageAt("results", run.comparisonId)) /\ Claim(run.comparisonId)
       ELSE /\ run' = [run EXCEPT !.status = jobs[c], !.socket = Nil]
            /\ UNCHANGED <<page, flow, selection, checked, loads, data>>
    /\ UNCHANGED <<jobs, draft, of>>
\* A cancel before the start is answered tells the server nothing.
RunCancel ==
    /\ run.status = "running"
    /\ run' = [run EXCEPT !.status = "canceled", !.socket = Nil]
    /\ UNCHANGED <<jobs, page, flow, selection, draft, loads, data, checked, of>>
\* external: a comparison ends, canceled or not.
ComparisonEnds(c) ==
    /\ jobs[c] = "running" /\ \E end \in Terminal : jobs' = [jobs EXCEPT ![c] = end]
    /\ UNCHANGED <<page, flow, selection, draft, run, loads, data, checked, of>>

-----------------------------------------------------------------------------
\* useComparisonResult.
SummaryArrives(l) ==
    /\ l.summary = Nil
    /\ loads' = (loads \ {l}) \cup {[l EXCEPT !.summary = Summary(l.comparison)]}
    /\ UNCHANGED <<jobs, page, flow, selection, draft, run, data, checked, of>>
\* A page of results is answered; a short one is the last.
PageArrives(l) ==
    LET answer == ServeResults(l.comparison, ResultsPageSize, l.offset)
        got == l.got \cup answer
    IN
    /\ l.summary # Nil
    /\ IF l.cancelled THEN loads' = loads \ {l} /\ UNCHANGED data
       ELSE IF Cardinality(answer) < ResultsPageSize
       THEN /\ loads' = loads \ {l}
            /\ data' = [comparison |-> l.comparison, results |-> got, summary |-> l.summary]
       ELSE /\ loads' = (loads \ {l}) \cup {[l EXCEPT !.offset = @ + ResultsPageSize, !.got = got]}
            /\ UNCHANGED data
    /\ UNCHANGED <<jobs, page, flow, selection, draft, run, checked, of>>
ShownKeys == {row.key : row \in data.results}

\* setLeaf, setGroup: in the tree of the results page.
Check(keys, to) ==
    /\ page.at = "results" /\ data # Nil /\ keys \subseteq ShownKeys
    /\ selection' = [selection EXCEPT !.selected = IF to THEN @ \cup keys ELSE @ \ keys]
    /\ checked' = {p \in checked : p[1] \notin keys} \cup (IF to THEN keys \X {page.id} ELSE {})
    /\ UNCHANGED <<jobs, page, flow, draft, run, loads, data, of>>
\* SelectedComponentsView, on the deploy page too, only takes out.
Uncheck(k) ==
    /\ page.at \in {"results", "deploy"} /\ data # Nil /\ k \in ShownKeys \cap selection.selected
    /\ selection' = [selection EXCEPT !.selected = @ \ {k}]
    /\ checked' = {p \in checked : p[1] # k}
    /\ UNCHANGED <<jobs, page, flow, draft, run, loads, data, of>>

\* runDeployment of the deploy page: the draft is what is selected of the results shown.
Deploy(d) ==
    /\ page.at = "deploy" /\ data # Nil /\ selection.selected \cap ShownKeys # {}
    /\ of[d] = Nil   \* start(): LiveDeployments
    /\ draft' = [comparisonId |-> page.id, components |-> selection.selected \cap ShownKeys,
                 from |-> selection.active, checked |-> {k \in selection.selected : <<k, page.id>> \in checked}]
    /\ flow' = [FlowOf(page.id) EXCEPT !.deploymentId = d]
    /\ of' = [of EXCEPT ![d] = page.id]
    /\ Go(PageAt("detail", d))
    /\ UNCHANGED <<jobs, selection, run, checked>>

\* DeploymentReviewPage: the draft again, from the list of deployments; of the
\* comparison it was made from and no part of the flow.
OpenReview ==
    /\ page.at # "review" /\ draft.components # {}
    /\ Go(PageAt("review", Nil)) /\ run' = Idle
    /\ UNCHANGED <<jobs, flow, selection, draft, checked, of>>
Redeploy(d) ==
    /\ page.at = "review" /\ draft.components # {} /\ of[d] = Nil
    /\ of' = [of EXCEPT ![d] = draft.comparisonId]
    /\ Go(PageAt("detail", d))
    /\ UNCHANGED <<jobs, flow, selection, draft, run, checked>>

\* The tab is reloaded: the stores are empty, the address bar is not.
Reopen ==
    /\ data' = Nil
    /\ page' = IF page.at = "types" THEN PageAt("sources", Nil) ELSE page
    /\ loads' = IF page.at \in {"results", "deploy"} THEN {Load(page.id)} ELSE {}
    /\ selection' = [selected |-> {}, active |-> IF page.at = "results" THEN page.id ELSE Nil]
    /\ draft' = [comparisonId |-> Nil, components |-> {}, from |-> Nil, checked |-> {}]
    /\ SetSources(FALSE) /\ run' = Idle
    /\ checked' = {} /\ UNCHANGED <<jobs, of>>

-----------------------------------------------------------------------------
BNext ==
    \/ OpenSources \/ ChooseSources \/ OpenTypes \/ Reopen \/ RunStarts \/ RunFails \/ RunMessage \/ RunCancel
    \/ OpenReview
    \/ \E l \in loads : SummaryArrives(l) \/ PageArrives(l)
    \/ \E c \in Comparisons :
          \/ OpenResults(c) \/ OpenDeploy(c) \/ Run(c) \/ ComparisonEnds(c)
          \/ \E keys \in SUBSET Key(c), to \in BOOLEAN : Check(keys, to)
          \/ \E k \in Key(c) : Uncheck(k)
    \/ \E d \in FlowDeployments : Deploy(d) \/ OpenDeployment(d) \/ Redeploy(d)

BSpec == BInit /\ [][BNext]_bvars

-----------------------------------------------------------------------------
\* The results on the screen are all the results of the comparison in the
\* address bar, each once, and add up to the counts shown over them, whatever
\* loads of other comparisons were on their way when it changed and wherever
\* the pages end (adapters/comparisons.ts:229-290).
ShownResultsAreOwn ==
    data # Nil =>
        /\ data.comparison = page.id /\ ShownKeys = Key(page.id)
        /\ \A s \in DiffStatus : Cardinality({row \in data.results : row.status = s}) = data.summary[s]

\* What is selected was checked in the results of one comparison; a draft, which
\* can be deployed again when everything else has changed, is of components its
\* own comparison found; and one of that comparison's selection holds nothing else (selection-store.ts:45-48,
\* comparisons.$comparisonId.deploy.tsx:53-61).  A draft of another comparison's
\* selection exists: the deploy page does not call ensureComparison.
SelectionIsOfOneComparison ==
    /\ \A k \in selection.selected : <<k, selection.active>> \in checked
    /\ draft.components # {} => jobs[draft.comparisonId] = "succeeded" /\ draft.components \subseteq Key(draft.comparisonId)
    /\ draft.from = draft.comparisonId => draft.components \subseteq draft.checked

\* The wizard's flow is one flow: the comparison it claims has succeeded, and its
\* deployment was started from that comparison (comparison-flow-store.ts:87-106,
\* comparisons.new.types.tsx:61-67), whatever runs were canceled and restarted; and
\* no step of the wizard leads to the results of a comparison that has none.
FlowIsOneFlow ==
    /\ flow.comparisonId # Nil => jobs[flow.comparisonId] = "succeeded"
    /\ flow.deploymentId # Nil => of[flow.deploymentId] = flow.comparisonId
    /\ \A step \in Steps : step.at \in {"results", "deploy"} => jobs[step.id] = "succeeded"
=============================================================================
