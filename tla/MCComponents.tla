----------------------------- MODULE MCComponents -----------------------------
(***************************************************************************)
(* Five components that share no state, and the questions of Algorithms,   *)
(* checked side by side: a behaviour is a behaviour of one of them, and    *)
(* the variables of the others keep the values they start with.            *)
(***************************************************************************)
EXTENDS MCRetrieval, MCAlgorithms, Projects, DependencySync, LiveDeployments, Browser

CONSTANTS
    c1, c2, k1, k2, d1

VARIABLES
    part \* the component whose behaviour this is

\* Two comparisons that found a change in the same key: one fills its page of
\* results to the last row, the other does not.
ResultRow(k, verdict) == [key |-> k, status |-> verdict]
Found == c1 :> <<ResultRow(k1, "changed"), ResultRow(k2, "new")>> @@ c2 :> <<ResultRow(k1, "deleted")>>

\* A deployment gets a random id: which of those not taken is all the same.
NextId == IF of[d1] = Nil THEN {d1} ELSE FlowDeployments \ {d1}

r == <<chunks, org, status, chunk, budget, tasks, got, missing>>
s == <<connections, orgEdges, syncRuns, edges, local, changes, failures>>
d == <<rows, live, chain, socket, cancels, cached, crossed, troubles>>
b == <<jobs, page, flow, selection, draft, run, loads, data, checked, of>>
vars == <<part, avars, r, faults, pvars, s, d, b>>

Off == "off"
ROff ==
    /\ chunks = Off /\ org = Off /\ status = Off /\ chunk = Off /\ budget = Off
    /\ tasks = {} /\ got = {} /\ missing = {} /\ faults = 0
POff == kind = Off /\ body = {} /\ versions = <<>> /\ clock = 0 /\ reader = Off /\ raced = FALSE /\ store = {}

Init ==
    /\ part \in {"retrieval", "projects", "sync", "deployments", "browser", "algorithms"}
    /\ SInit /\ DInit /\ BInit
    /\ IF part = "retrieval" THEN RInit ELSE ROff
    /\ IF part = "projects" THEN PInit ELSE POff
    /\ IF part = "algorithms" THEN AInit ELSE about = Off /\ asked = FALSE /\ question = Off

RetrievalStays == UNCHANGED <<part, avars, pvars, s, d, b>>
ProjectsStay == UNCHANGED <<part, avars, r, faults, s, d, b>>
SyncStays == UNCHANGED <<part, avars, r, faults, pvars, d, b>>
DeploymentsStay == UNCHANGED <<part, avars, r, faults, pvars, s, b>>
BrowserStays == UNCHANGED <<part, avars, r, faults, pvars, s, d>>
AlgorithmsStay == UNCHANGED <<part, r, faults, pvars, s, d, b>>

Next ==
    \/ part = "retrieval" /\ Connect /\ RetrievalStays
    \/ part = "retrieval" /\ Finish /\ RetrievalStays
    \/ part = "retrieval" /\ (\E i \in DOMAIN chunks : TakeChunk(i)) /\ RetrievalStays
    \/ part = "retrieval" /\ (\E t \in tasks : Answered(t)) /\ RetrievalStays
    \/ part = "retrieval" /\ (\E t \in tasks : Bisected(t)) /\ RetrievalStays
    \/ part = "retrieval" /\ (\E t \in tasks : Isolated(t)) /\ RetrievalStays
    \/ part = "retrieval" /\ (\E t \in tasks : Rejected(t)) /\ RetrievalStays
    \/ part = "projects" /\ (\E q \in Paths, c \in Contents \cup {NoFile} : Edit(q, c)) /\ ProjectsStay
    \/ part = "projects" /\ ClockTicks /\ ProjectsStay
    \/ part = "projects" /\ BeginReading /\ ProjectsStay
    \/ part = "projects" /\ ResolveRef /\ ProjectsStay
    \/ part = "projects" /\ WalkTree /\ ProjectsStay
    \/ part = "projects" /\ PathHistory /\ ProjectsStay
    \/ part = "projects" /\ ListDirectory /\ ProjectsStay
    \/ part = "projects" /\ ListCommit /\ ProjectsStay
    \/ part = "projects" /\ CacheHit /\ ProjectsStay
    \/ part = "projects" /\ Materialize /\ ProjectsStay
    \/ part = "sync" /\ (\E c \in Conns : AddConnection(c)) /\ SyncStays
    \/ part = "sync" /\ (\E c \in Conns : RemoveConnection(c)) /\ SyncStays
    \/ part = "sync" /\ (\E n \in Runs, c \in Conns : Sync(n, c)) /\ SyncStays
    \/ part = "sync" /\ (\E n \in Runs : Begin(n)) /\ SyncStays
    \/ part = "sync" /\ (\E n \in Runs : ReadPage(n)) /\ SyncStays
    \/ part = "sync" /\ (\E n \in Runs : Replace(n)) /\ SyncStays
    \/ part = "sync" /\ (\E n \in Runs : Fail(n)) /\ SyncStays
    \/ part = "sync" /\ Change /\ SyncStays
    \/ part = "deployments" /\ Reload /\ DeploymentsStay
    \/ part = "deployments" /\ (\E x \in Deployments : Start(x)) /\ DeploymentsStay
    \/ part = "deployments" /\ (\E x \in Deployments : ChainFails(x)) /\ DeploymentsStay
    \/ part = "deployments" /\ (\E x \in Deployments : SocketLost(x)) /\ DeploymentsStay
    \/ part = "deployments" /\ (\E x \in Deployments : Cancel(x)) /\ DeploymentsStay
    \/ part = "deployments" /\ (\E x \in Deployments : Built(x)) /\ DeploymentsStay
    \/ part = "deployments" /\ (\E x \in Deployments : RowInserted(x)) /\ DeploymentsStay
    \/ part = "deployments" /\ (\E x \in Deployments : Started(x)) /\ DeploymentsStay
    \/ part = "deployments" /\ (\E x \in Deployments : JobMoves(x)) /\ DeploymentsStay
    \/ part = "deployments" /\ (\E x \in Deployments : Message(x)) /\ DeploymentsStay
    \/ part = "deployments" /\ (\E x \in Deployments : Poll(x)) /\ DeploymentsStay
    \/ part = "deployments" /\ (\E x \in Deployments : CancelHeard(x)) /\ DeploymentsStay
    \/ part = "deployments" /\ (\E x \in Deployments : CancelSettles(x)) /\ DeploymentsStay
    \/ part = "browser" /\ OpenSources /\ BrowserStays
    \/ part = "browser" /\ ChooseSources /\ BrowserStays
    \/ part = "browser" /\ OpenTypes /\ BrowserStays
    \/ part = "browser" /\ (\E c \in Comparisons : OpenResults(c)) /\ BrowserStays
    \/ part = "browser" /\ (\E c \in Comparisons : OpenDeploy(c)) /\ BrowserStays
    \/ part = "browser" /\ Reopen /\ BrowserStays
    \/ part = "browser" /\ (\E c \in Comparisons : Run(c)) /\ BrowserStays
    \/ part = "browser" /\ RunStarts /\ BrowserStays
    \/ part = "browser" /\ RunFails /\ BrowserStays
    \/ part = "browser" /\ RunMessage /\ BrowserStays
    \/ part = "browser" /\ RunCancel /\ BrowserStays
    \/ part = "browser" /\ (\E c \in Comparisons : ComparisonEnds(c)) /\ BrowserStays
    \/ part = "browser" /\ (\E x \in FlowDeployments : OpenDeployment(x)) /\ BrowserStays
    \/ part = "browser" /\ (\E l \in loads : SummaryArrives(l)) /\ BrowserStays
    \/ part = "browser" /\ (\E l \in loads : PageArrives(l)) /\ BrowserStays
    \/ part = "browser" /\ (\E keys \in SUBSET {k1, k2}, to \in BOOLEAN : Check(keys, to)) /\ BrowserStays
    \/ part = "browser" /\ (\E k \in {k1, k2} : Uncheck(k)) /\ BrowserStays
    \/ part = "browser" /\ (\E x \in NextId : Deploy(x)) /\ BrowserStays
    \/ part = "browser" /\ OpenReview /\ BrowserStays
    \/ part = "browser" /\ (\E x \in NextId : Redeploy(x)) /\ BrowserStays
    \/ part = "algorithms" /\ ANext /\ AlgorithmsStay

FairSpec ==
    /\ Init /\ [][Next]_vars
    /\ WF_vars(part = "retrieval" /\ RNext /\ RetrievalStays)
    /\ \A x \in Deployments :
          /\ WF_vars(part = "deployments" /\ JobMoves(x) /\ DeploymentsStay)
          /\ WF_vars(part = "deployments" /\ Message(x) /\ DeploymentsStay)
          /\ WF_vars(part = "deployments" /\ Poll(x) /\ DeploymentsStay)

=============================================================================
