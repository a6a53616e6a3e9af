------------------------------ MODULE JobRunner ------------------------------
(***************************************************************************)
(* The job queue of @vibeset/server: jobs/job-runner.ts, the piscina demo  *)
(* worker it falls back to, and the WebSocket route that streams one job's *)
(* progress (routes/ws.ts).                                                *)
(*                                                                         *)
(* The server is one JavaScript thread: a callback runs to its next await  *)
(* with nothing in between, so each action is one such stretch.  Worker    *)
(* threads, browser sockets and the process's death interleave with it.    *)
(***************************************************************************)
EXTENDS Naturals, Sequences, FiniteSets

CONSTANTS
    Jobs,                   \* job ids that enqueue() will mint
    Handled,                \* the jobs whose type has a registered in-process handler
    Sockets,                \* browser connections to /ws/jobs/:jobId
    Percents,               \* percentages in-process handlers report
    WorkerSteps,            \* payload.steps of the demo jobs
    PoolThreads,            \* maxThreads of the pool
    MaxCrashes,             \* bound: how often the process dies
    NoJob                   \* what a browser not yet connected is watching

ASSUME JobsAssumption == Handled \subseteq Jobs
ASSUME PercentsAssumption == Percents \subseteq 0..100
ASSUME StepsAssumption == WorkerSteps \in Nat \ {0}
ASSUME PoolAssumption == PoolThreads \in Nat \ {0}
ASSUME NoJobAssumption == NoJob \notin Jobs
ASSUME CrashAssumption == MaxCrashes \in Nat

VARIABLES
    up,                     \* the server process is running
    status,                 \* jobs.status, "absent" while there is no row
    percent,                \* jobs.progress_percent
    controllers,            \* abortControllers: "none", "live" or "aborted"
    listeners,              \* listeners: the sockets subscribed to each job
    task,                   \* the piscina task of a job without a handler
    posted,                 \* messages its worker has posted so far
    chan,                   \* the ones port1 has not delivered yet
    sock,                   \* state of each socket
    watching,               \* the job each socket asked for
    heard,                  \* the last status frame that reached the browser
    acked,                  \* jobs for which cancel() has returned true
    crashes

rowVars == <<status, percent>>
poolVars == <<task, posted, chan>>
sockVars == <<sock, watching, heard>>
vars == <<up, rowVars, controllers, listeners, poolVars, sockVars, acked, crashes>>

Lifecycle == INSTANCE JobLifecycle

Terminal == Lifecycle!Terminal
JobStatus == Lifecycle!JobStatus

(* The jobs whose run() has not settled: exactly those `run' gave a        *)
(* controller and has not yet removed it for (its `finally').              *)
InProgress == {j \in Jobs : controllers[j] # "none"}

(* The worker posts one "running" message per step and then its own        *)
(* "succeeded"; message n carries the status and percentage the worker put *)
(* in it.                                                                  *)
MessageStatus(n) == IF n > WorkerSteps THEN "succeeded" ELSE "running"
MessagePercent_Unbounded(n) == (200 * n + WorkerSteps) \div (2 * WorkerSteps)
MessagePercent(n) ==
    IF n > WorkerSteps THEN 100
    ELSE (200 * n + WorkerSteps) \div (2 * WorkerSteps)

TypeOK ==
    /\ up \in BOOLEAN
    /\ status \in [Jobs -> JobStatus \union {"absent"}]
    /\ percent \in [Jobs -> 0..100]
    /\ controllers \in [Jobs -> {"none", "live", "aborted"}]
    /\ listeners \in [Jobs -> SUBSET Sockets]
    /\ task \in [Jobs -> {"none", "waiting", "run", "returned", "died"}]
    /\ posted \in [Jobs -> Nat]
    /\ chan \in [Jobs -> Seq(Nat)]
    /\ sock \in [Sockets -> {"idle", "open", "closing", "closed"}]
    /\ watching \in [Sockets -> Jobs \union {NoJob}]
    /\ heard \in [Sockets -> JobStatus \union {"none"}]
    /\ acked \in SUBSET Jobs
    /\ crashes \in Nat

Init ==
    /\ up = TRUE
    /\ status = [j \in Jobs |-> "absent"]
    /\ percent = [j \in Jobs |-> 0]
    /\ controllers = [j \in Jobs |-> "none"]
    /\ listeners = [j \in Jobs |-> {}]
    /\ task = [j \in Jobs |-> "none"]
    /\ posted = [j \in Jobs |-> 0]
    /\ chan = [j \in Jobs |-> <<>>]
    /\ sock = [s \in Sockets |-> "idle"]
    /\ watching = [s \in Sockets |-> NoJob]
    /\ heard = [s \in Sockets |-> "none"]
    /\ acked = {}
    /\ crashes = 0

(***************************************************************************)
(* The runner.                                                             *)
(***************************************************************************)

Emit_NeverCloses(j, st) ==
    /\ heard' = [s \in Sockets |->
                    IF s \in listeners[j] /\ sock[s] = "open" THEN st ELSE heard[s]]
    /\ UNCHANGED <<sock, watching>>

(* emit(): every listener of j sends a frame, which a socket already       *)
(* closing drops, and closes its socket when the status is terminal.       *)
Emit(j, st) ==
    LET reached == {s \in listeners[j] : sock[s] = "open"} IN
    /\ heard' = [s \in Sockets |-> IF s \in reached THEN st ELSE heard[s]]
    /\ sock' = [s \in Sockets |->
                  IF s \in reached /\ st \in Terminal THEN "closing" ELSE sock[s]]
    /\ UNCHANGED watching

(* enqueue() and the stretch of run() before its await: the row is         *)
(* inserted as queued and, in the same stretch, updated to running; a job  *)
(* without a handler is handed to the pool.                                *)
Enqueue(j) ==
    /\ up
    /\ status[j] = "absent"
    /\ status' = [status EXCEPT ![j] = "running"]
    /\ percent' = [percent EXCEPT ![j] = 0]
    /\ Emit(j, "running")
    /\ controllers' = [controllers EXCEPT ![j] = "live"]
    /\ task' = [task EXCEPT ![j] = IF j \in Handled THEN "none" ELSE "waiting"]
    /\ UNCHANGED <<up, listeners, posted, chan, acked, crashes>>

(* onProgress() of an in-process handler: row first, then the listeners. *)
Progress(j, p) ==
    /\ up
    /\ j \in Handled \intersect InProgress
    /\ percent' = [percent EXCEPT ![j] = p]
    /\ Emit(j, "running")
    /\ UNCHANGED <<up, status, controllers, listeners, poolVars, acked, crashes>>

(* The parts of the end of run(), in its order: port1 is closed and what   *)
(* it had not delivered is lost; the row becomes terminal; the listeners   *)
(* are told; the controller goes.                                          *)
ClosePort_Forgotten(j) == UNCHANGED chan
ClosePort(j) == chan' = [chan EXCEPT ![j] = <<>>]

LeavePool_Forgotten(j) == UNCHANGED task
LeavePool(j) == task' = [task EXCEPT ![j] = "none"]

FinishRow_AbortIsFailure(j, st) ==
    /\ status' = [status EXCEPT ![j] = IF st = "canceled" THEN "failed" ELSE st]
    /\ UNCHANGED percent
FinishRow(j, st) ==
    /\ status' = [status EXCEPT ![j] = st]
    /\ percent' = [percent EXCEPT ![j] = IF st = "succeeded" THEN 100 ELSE @]

ReleaseController_Forgotten(j) == UNCHANGED controllers
ReleaseController(j) == controllers' = [controllers EXCEPT ![j] = "none"]

Settle(j, st) ==
    /\ ClosePort(j)
    /\ LeavePool(j)
    /\ FinishRow(j, st)
    /\ Emit(j, st)
    /\ ReleaseController(j)
    /\ UNCHANGED <<up, listeners, posted, crashes>>

HandlerSettles_AnyAbortError(j) ==
    /\ up
    /\ j \in Handled \intersect InProgress
    /\ \E st \in Terminal : Settle(j, st)
    /\ UNCHANGED acked

(* An in-process handler's promise settles.  It rejects with an AbortError *)
(* only from a check of the signal, but it may also ignore the signal.     *)
HandlerSettles(j) ==
    /\ up
    /\ j \in Handled \intersect InProgress
    /\ \E st \in Terminal :
          /\ st = "canceled" => controllers[j] = "aborted"
          /\ Settle(j, st)
    /\ UNCHANGED acked

Cancel_SignalNotPassedToPool(j) ==
    /\ up
    /\ j \in InProgress
    /\ acked' = acked \union {j}
    /\ controllers' = [controllers EXCEPT ![j] = "aborted"]
    /\ UNCHANGED <<up, rowVars, listeners, poolVars, sockVars, crashes>>

(* cancel(): false without a controller.  Aborting a piscina task rejects  *)
(* it at once, queued or running, so run() settles before another event;   *)
(* a handler only sees its signal change.                                  *)
Cancel(j) ==
    /\ up
    /\ j \in InProgress
    /\ acked' = acked \union {j}
    /\ IF j \in Handled
       THEN /\ controllers' = [controllers EXCEPT ![j] = "aborted"]
            /\ UNCHANGED <<up, rowVars, listeners, poolVars, sockVars, crashes>>
       ELSE Settle(j, "canceled")

(***************************************************************************)
(* The pool: runViaPool() and the demo worker's thread.                    *)
(***************************************************************************)
Busy == {j \in Jobs : task[j] \in {"run", "returned", "died"}}

PoolStarts(j) ==
    /\ up
    /\ task[j] = "waiting"
    /\ Cardinality(Busy) < PoolThreads
    /\ task' = [task EXCEPT ![j] = "run"]
    /\ UNCHANGED <<up, rowVars, controllers, listeners, posted, chan, sockVars, acked, crashes>>

WorkerPosts(j) ==
    /\ up
    /\ task[j] = "run"
    /\ posted[j] <= WorkerSteps
    /\ posted' = [posted EXCEPT ![j] = @ + 1]
    /\ chan' = [chan EXCEPT ![j] = Append(@, posted[j] + 1)]
    /\ UNCHANGED <<up, rowVars, controllers, listeners, task, sockVars, acked, crashes>>

WorkerEnds(j) ==
    /\ up
    /\ task[j] = "run"
    /\ \/ /\ posted[j] = WorkerSteps + 1
          /\ task' = [task EXCEPT ![j] = "returned"]
       \/ task' = [task EXCEPT ![j] = "died"]
    /\ UNCHANGED <<up, rowVars, controllers, listeners, posted, chan, sockVars, acked, crashes>>

(* port1's message handler: the worker's message is written to the row     *)
(* (its percentage) and emitted as it is (its status too).                 *)
PortDelivers(j) ==
    /\ up
    /\ chan[j] # <<>>
    /\ percent' = [percent EXCEPT ![j] = MessagePercent(Head(chan[j]))]
    /\ Emit(j, MessageStatus(Head(chan[j])))
    /\ chan' = [chan EXCEPT ![j] = Tail(@)]
    /\ UNCHANGED <<up, status, controllers, listeners, task, posted, acked, crashes>>

(* The pool's own port answers; nothing orders it after port1's messages. *)
PoolAnswers(j) ==
    /\ up
    /\ \/ task[j] = "returned" /\ Settle(j, "succeeded")
       \/ task[j] = "died" /\ Settle(j, "failed")
    /\ UNCHANGED acked

(***************************************************************************)
(* The WebSocket route.                                                    *)
(***************************************************************************)

Connect_SubscribesAlways(s, j) ==
    /\ up
    /\ sock[s] = "idle"
    /\ status[j] # "absent"
    /\ watching' = [watching EXCEPT ![s] = j]
    /\ heard' = [heard EXCEPT ![s] = status[j]]
    /\ sock' = [sock EXCEPT ![s] = "open"]
    /\ listeners' = [listeners EXCEPT ![j] = @ \union {s}]
    /\ UNCHANGED <<up, rowVars, controllers, poolVars, acked, crashes>>

(* A browser connects: it is sent the row's state; a terminal one closes   *)
(* the socket, any other subscribes it.                                    *)
Connect(s, j) ==
    /\ up
    /\ sock[s] = "idle"
    /\ status[j] # "absent"
    /\ watching' = [watching EXCEPT ![s] = j]
    /\ heard' = [heard EXCEPT ![s] = status[j]]
    /\ IF status[j] \in Terminal
       THEN /\ sock' = [sock EXCEPT ![s] = "closing"]
            /\ UNCHANGED listeners
       ELSE /\ sock' = [sock EXCEPT ![s] = "open"]
            /\ listeners' = [listeners EXCEPT ![j] = @ \union {s}]
    /\ UNCHANGED <<up, rowVars, controllers, poolVars, acked, crashes>>

(* The `close' event, after the server's close() or the browser's: the     *)
(* listener is removed.                                                    *)
SocketCloses(s) ==
    /\ up
    /\ sock[s] \in {"open", "closing"}
    /\ sock' = [sock EXCEPT ![s] = "closed"]
    /\ listeners' = [listeners EXCEPT ![watching[s]] = @ \ {s}]
    /\ UNCHANGED <<up, rowVars, controllers, poolVars, watching, heard, acked, crashes>>

(***************************************************************************)
(* The process.  Only the rows survive it.                                 *)
(***************************************************************************)
ProcessLost ==
    /\ up' = FALSE
    /\ crashes' = crashes + 1
    /\ controllers' = [j \in Jobs |-> "none"]
    /\ listeners' = [j \in Jobs |-> {}]
    /\ task' = [j \in Jobs |-> "none"]
    /\ chan' = [j \in Jobs |-> <<>>]
    /\ sock' = [s \in Sockets |-> IF sock[s] = "idle" THEN "idle" ELSE "closed"]
    /\ UNCHANGED <<posted, watching, heard, acked>>

Crash ==
    /\ up
    /\ crashes < MaxCrashes
    /\ ProcessLost
    /\ UNCHANGED rowVars

(* The process dies between enqueue's insert and run's first update. *)
CrashInEnqueue(j) ==
    /\ up
    /\ crashes < MaxCrashes
    /\ status[j] = "absent"
    /\ status' = [status EXCEPT ![j] = "queued"]
    /\ UNCHANGED percent
    /\ ProcessLost

(* A new JobRunner: empty maps; it reads no row. *)
Restart ==
    /\ ~up
    /\ up' = TRUE
    /\ UNCHANGED <<rowVars, controllers, listeners, poolVars, sockVars, acked, crashes>>

Next ==
    \/ \E j \in Jobs :
          \/ Enqueue(j)
          \/ \E p \in Percents : Progress(j, p)
          \/ HandlerSettles(j)
          \/ Cancel(j)
          \/ PoolStarts(j)
          \/ WorkerPosts(j)
          \/ WorkerEnds(j)
          \/ PortDelivers(j)
          \/ PoolAnswers(j)
          \/ CrashInEnqueue(j)
          \/ \E s \in Sockets : Connect(s, j)
    \/ \E s \in Sockets : SocketCloses(s)
    \/ Crash
    \/ Restart

Spec == Init /\ [][Next]_vars

(* A handler's promise settles in the end, a worker thread that is given a *)
(* task goes on with it and the event loop delivers what is pending.       *)
(* Nothing makes a user enqueue, cancel, connect, disconnect or restart.   *)
(* A close the server began is completed by the peer or by ws's timer.     *)
Fairness ==
    /\ \A j \in Jobs :
          /\ WF_vars(HandlerSettles(j))
          /\ WF_vars(PoolStarts(j))
          /\ WF_vars(WorkerPosts(j))
          /\ WF_vars(WorkerEnds(j) /\ posted[j] = WorkerSteps + 1)
          /\ WF_vars(PortDelivers(j))
          /\ WF_vars(PoolAnswers(j))
    /\ \A s \in Sockets : WF_vars(sock[s] = "closing" /\ SocketCloses(s))

FairSpec == Spec /\ Fairness

(***************************************************************************)
(* Safety.                                                                 *)
(***************************************************************************)

(* A controller exists exactly while the job's row is `running' and this   *)
(* process runs it: run() neither leaves one behind nor loses one early,   *)
(* which is what cancel()'s answer is taken from (job-runner.ts 111-116,   *)
(* 155-156, 197-199).                                                      *)
ControllerMeansRunning == \A j \in InProgress : up /\ status[j] = "running"

(* No browser is left waiting for a job that has ended: a socket still     *)
(* open and subscribed belongs to an unfinished row, whichever order       *)
(* connecting, the worker's messages and the end of run() take (ws.ts      *)
(* 15-45 against job-runner.ts 172-199).                                   *)
NoForgottenSubscriber ==
    \A s \in Sockets : sock[s] = "open" =>
        /\ s \in listeners[watching[s]]
        /\ status[watching[s]] \notin Terminal

(* What a browser was told of an in-process job is what the row says: a    *)
(* terminal frame never precedes, or disagrees with, the row.              *)
TerminalFrameIsTrue ==
    \A s \in Sockets : watching[s] \in Handled /\ heard[s] \in Terminal =>
        heard[s] = status[watching[s]]

(* A cancellation that was acknowledged for a pool job is never lost: the  *)
(* job is not reported as succeeded or failed afterwards.                  *)
PoolCancelIsFinal == \A j \in acked \ Handled : status[j] = "canceled"

FinishedRowsKept ==
    \A j \in Jobs : status[j] \in Terminal =>
        status'[j] = status[j] /\ percent'[j] = percent[j]

(* A finished row is never written again: not by the worker's messages     *)
(* still in flight when the job ends, not by a later event (job-runner.ts  *)
(* 205-208, 215-217).                                                      *)
TerminalRowsAreFrozen == [][FinishedRowsKept]_vars

(* The runner implements the life cycle of JobLifecycle. *)
ImplementsLifecycle == Lifecycle!Spec

(***************************************************************************)
(* Liveness.                                                               *)
(***************************************************************************)

(* A browser watching a job this process is running is, in the end, let    *)
(* go: the job ends and its socket closes, or the process dies.            *)
FollowedToTheEnd ==
    \A s \in Sockets : \A j \in Jobs :
        (sock[s] = "open" /\ watching[s] = j /\ j \in InProgress) ~> sock[s] = "closed"

(* Every job this process runs ends, also when more pool jobs are queued   *)
(* than there are threads.                                                 *)
EveryRunEnds == \A j \in Jobs : j \in InProgress ~> (status[j] \in Terminal \/ ~up)

(***************************************************************************)
(* What the source's own comments say.                                     *)
(***************************************************************************)

(* ws.ts 5-9: the route "closes once the job reaches a terminal status". *)
ClosesOnceTerminal ==
    \A s \in Sockets : sock[s] = "closing" => status[watching[s]] \in Terminal
=============================================================================
