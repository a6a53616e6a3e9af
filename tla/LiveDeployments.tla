---------------------------- MODULE LiveDeployments ----------------------------
(***************************************************************************)
(* What the browser shows of deployments (web lib/adapters/deploy.ts):     *)
(* the row of the server as last polled, under an overlay kept by the tab  *)
(* that started the deployment, fed by the calls that start and cancel it  *)
(* and by the messages of its job.                                         *)
(***************************************************************************)
EXTENDS Naturals, FiniteSets

CONSTANTS Deployments, Nothing,
          MaxTroubles  \* bound: calls and sockets lost, and reloads of the page

VARIABLES
    rows,     \* external: the status of each row, and of its job
    live,     \* liveDeployments: the phase, or Nothing
    chain,    \* the call of useStartDeployment.start that is in flight
    socket,   \* the WebSocket of the job: none, open or closed
    cancels,  \* deploy.cancel: none, sent, or answered by the server and not yet settled
    cached,   \* the row as last polled
    crossed,  \* deployments canceled here, or that lost a call or a socket
    troubles
dvars == <<rows, live, chain, socket, cancels, cached, crossed, troubles>>

Ended == {"succeeded", "failed", "canceled"}
RowStatus == {"queued", "running"} \cup Ended
Phase == {"starting", "running", "done", "failed", "canceled"}

ASSUME LiveDeploymentsAssumption == Nothing \notin RowStatus \cup Phase /\ MaxTroubles \in Nat

DInit ==
    /\ rows = [d \in Deployments |-> Nothing] /\ live = rows /\ cached = rows
    /\ chain = [d \in Deployments |-> "none"] /\ socket = chain /\ cancels = chain
    /\ crossed = {} /\ troubles = 0

\* patchLive changes an overlay that is there, whatever it says.
PatchLive(d, phase) == live' = IF live[d] = Nothing THEN live ELSE [live EXCEPT ![d] = phase]
Trouble(d) == troubles < MaxTroubles /\ troubles' = troubles + 1 /\ crossed' = crossed \cup {d}

\* withLiveOverlay.
Overlay(phase, base) ==
    CASE phase \in {Nothing, "done"}       -> base
      [] phase \in {"failed", "canceled"}  -> phase
      [] phase = "running"                 -> "in-progress"
      [] phase = "starting"                -> IF base = Nothing THEN "queued" ELSE base
Shown(d) == Overlay(live[d], cached[d])
\* useDeployments: the pending ones before what the server lists.
PendingOnly == {d \in Deployments : cached[d] = Nothing /\ live[d] \notin {Nothing, "done"}}
Listed == PendingOnly \cup {d \in Deployments : cached[d] # Nothing}

Start(d) ==
    /\ live[d] = Nothing /\ chain[d] = "none" /\ rows[d] = Nothing
    /\ live' = [live EXCEPT ![d] = "starting"]
    /\ chain' = [chain EXCEPT ![d] = "building"]   \* comparisons.get, deploy.buildPackage
    /\ UNCHANGED <<rows, socket, cancels, cached, crossed, troubles>>
Built(d) ==
    /\ chain[d] = "building" /\ chain' = [chain EXCEPT ![d] = "starting"]
    /\ UNCHANGED <<rows, live, socket, cancels, cached, crossed, troubles>>
\* external: deploy.deploy inserts the row and queues the job.
RowInserted(d) ==
    /\ chain[d] = "starting" /\ rows[d] = Nothing
    /\ rows' = [rows EXCEPT ![d] = "queued"]
    /\ UNCHANGED <<live, chain, socket, cancels, cached, crossed, troubles>>
Started(d) ==
    /\ chain[d] = "starting" /\ rows[d] # Nothing
    /\ PatchLive(d, "running")
    /\ chain' = [chain EXCEPT ![d] = "done"]
    /\ socket' = [socket EXCEPT ![d] = "open"]
    /\ UNCHANGED <<rows, cancels, cached, crossed, troubles>>
\* A call of the chain fails, on the server or on the way back.
ChainFails(d) ==
    /\ chain[d] \in {"building", "starting"} /\ Trouble(d)
    /\ PatchLive(d, "failed")
    /\ chain' = [chain EXCEPT ![d] = "done"]
    /\ UNCHANGED <<rows, socket, cancels, cached>>

\* external: the job runs; one that was told to stop may still end another way.
JobMoves(d) ==
    /\ \/ rows[d] = "queued" /\ rows' = [rows EXCEPT ![d] = "running"]
       \/ /\ rows[d] = "running"
          /\ \E end \in Ended : /\ end = "canceled" => cancels[d] \in {"heard", "settled"}
                                /\ rows' = [rows EXCEPT ![d] = end]
    /\ UNCHANGED <<live, chain, socket, cancels, cached, crossed, troubles>>
\* What a message of the job makes of the overlay.
PhaseOf_AnyOtherIsFailed(job) == IF job = "succeeded" THEN "done" ELSE "failed"
PhaseOf_NeverDone(job) == IF job \in {"failed", "canceled"} THEN job ELSE "running"
PhaseOf(job) ==
    CASE job = "succeeded"             -> "done"
      [] job \in {"failed", "canceled"} -> job
      [] OTHER                         -> "running"
\* ws.onmessage: the last message closes the socket and asks for the row again.
Message(d) ==
    /\ socket[d] = "open"
    /\ PatchLive(d, PhaseOf(rows[d]))
    /\ socket' = IF rows[d] \in Ended THEN [socket EXCEPT ![d] = "closed"] ELSE socket
    /\ UNCHANGED <<rows, chain, cancels, cached, crossed, troubles>>
SocketLost(d) ==
    /\ socket[d] = "open" /\ Trouble(d)
    /\ socket' = [socket EXCEPT ![d] = "closed"]
    /\ \/ PatchLive(d, "failed")   \* ws.onerror
       \/ UNCHANGED live           \* closed by the server: there is no onclose
    /\ UNCHANGED <<rows, chain, cancels, cached>>

\* The page of the deployment has a useStartDeployment of its own, whose map of
\* sockets is empty: what start opened stays open.
Cancel(d) ==
    /\ Shown(d) = "in-progress" /\ cancels[d] = "none"
    /\ PatchLive(d, "canceled")
    /\ cancels' = [cancels EXCEPT ![d] = "sent"]
    /\ crossed' = crossed \cup {d}
    /\ UNCHANGED <<rows, chain, socket, cached, troubles>>
CancelHeard(d) ==
    /\ cancels[d] = "sent" /\ cancels' = [cancels EXCEPT ![d] = "heard"]
    /\ UNCHANGED <<rows, live, chain, socket, cached, crossed, troubles>>
CancelSettles(d) ==
    /\ cancels[d] = "heard" /\ cancels' = [cancels EXCEPT ![d] = "settled"]
    /\ PatchLive(d, "canceled")
    /\ UNCHANGED <<rows, chain, socket, cached, crossed, troubles>>

\* The query of the row: on an interval, and when invalidated.
Poll(d) ==
    /\ cached[d] # rows[d] /\ cached' = [cached EXCEPT ![d] = rows[d]]
    /\ UNCHANGED <<rows, live, chain, socket, cancels, crossed, troubles>>
\* The tab is reloaded: nothing but what the server knows is left.
Reload ==
    /\ troubles < MaxTroubles /\ troubles' = troubles + 1
    /\ live' = [d \in Deployments |-> Nothing] /\ cached' = live'
    /\ chain' = [d \in Deployments |-> IF chain[d] = "none" THEN "none" ELSE "done"]
    /\ socket' = [d \in Deployments |-> IF socket[d] = "none" THEN "none" ELSE "closed"]
    /\ cancels' = [d \in Deployments |-> IF cancels[d] = "none" THEN "none" ELSE "settled"]
    /\ crossed' = {}
    /\ UNCHANGED rows

Moves(d) ==
    \/ Built(d) \/ RowInserted(d) \/ Started(d) \/ JobMoves(d) \/ Message(d)
    \/ CancelHeard(d) \/ CancelSettles(d)
DNext ==
    \/ Reload
    \/ \E d \in Deployments : 
        Start(d) \/ ChainFails(d) \/ SocketLost(d) \/ Cancel(d) \/ Poll(d) \/ Moves(d)
DSpec == DInit /\ [][DNext]_dvars
DFairSpec == DSpec /\ \A d \in Deployments : /\ WF_dvars(JobMoves(d)) /\ WF_dvars(Message(d)) /\ WF_dvars(Poll(d))

-----------------------------------------------------------------------------
\* The state is of the shape the definitions above suppose.
DTypeOK ==
    /\ rows \in [Deployments -> RowStatus \cup {Nothing}]
    /\ cached \in [Deployments -> RowStatus \cup {Nothing}]
    /\ live \in [Deployments -> Phase \cup {Nothing}]
    /\ \A d \in Deployments : socket[d] = "open" => chain[d] = "done"
    /\ crossed \subseteq Deployments /\ troubles \in 0 .. MaxTroubles

\* The overlay never runs ahead of the server: what is shown as ended has ended
\* that way, whichever of the poll, the message and the answers came first,
\* unless the user canceled it or a call or socket was lost (adapters/deploy.ts:178-203).
NothingEndsBeforeItEnds ==
    \A d \in Deployments : (d \notin crossed /\ Shown(d) \in Ended) => Shown(d) = rows[d]

\* A deployment that ended comes to be listed and shown as it ended, in every
\* tab that neither canceled it nor lost a call or a socket (adapters/deploy.ts:362-381).
EndsAreShown ==
    \A d \in Deployments :
        (rows[d] \in Ended /\ (socket[d] # "none" \/ live[d] = Nothing)) ~>
            (d \in crossed \/ (d \in Listed /\ Shown(d) = rows[d]))

\* "a module-level "live" overlay (below) synthesizes a queued/in-progress record
\* for that id until the server's deployments row actually exists, then steps
\* aside once it does" (adapters/deploy.ts:26-29): once the row is known to have
\* ended and no message or answer is on its way, the row is what is shown.
OverlayStepsAside ==
    \A d \in Deployments :
        (/\ rows[d] \in Ended /\ cached[d] = rows[d] /\ socket[d] # "open"
         /\ chain[d] \in {"none", "done"} /\ cancels[d] \in {"none", "settled"}) => Shown(d) = rows[d]
=============================================================================
