--------------------------- MODULE JobRunner_proofs ---------------------------
(***************************************************************************)
(* Proofs about JobRunner for any jobs, handlers, sockets, percentages,    *)
(* worker steps, threads and crashes: type correctness, the safety         *)
(* invariants and the action property the runs check, and that the runner  *)
(* implements JobLifecycle.                                                *)
(***************************************************************************)
EXTENDS JobRunner, TLAPS

(* Everything in memory goes with the process. *)
DownIsEmpty ==
    ~up => \A s \in Sockets : sock[s] \in {"idle", "closed"}

(* What the pool and port1 hold belongs to a pool job still in progress. *)
PoolWorkIsInProgress ==
    \A j \in Jobs : task[j] # "none" \/ chan[j] # <<>> =>
        j \notin Handled /\ controllers[j] # "none"

(* A listener is a connected socket that asked for this job. *)
ListenersWatch ==
    \A j \in Jobs : \A s \in listeners[j] :
        watching[s] = j /\ sock[s] \in {"open", "closing"}

(* A socket that has connected knows its job, which has a row. *)
ConnectedSocketsKnowTheirJob ==
    \A s \in Sockets :
        /\ sock[s] \in {"open", "closing"} => watching[s] \in Jobs
        /\ sock[s] = "idle" => heard[s] = "none"
        /\ watching[s] \in Jobs => status[watching[s]] # "absent"

(* A queued row is one a crash left behind, and nothing acknowledged it. *)
AckedHaveRun == \A j \in acked : status[j] \notin {"absent", "queued"}

(* A signal is aborted only by a cancellation that was acknowledged. *)
AbortedWasAcked == \A j \in Jobs : controllers[j] = "aborted" => j \in acked

IInv ==
    /\ TypeOK
    /\ ControllerMeansRunning
    /\ DownIsEmpty
    /\ PoolWorkIsInProgress
    /\ ListenersWatch
    /\ ConnectedSocketsKnowTheirJob
    /\ AckedHaveRun
    /\ AbortedWasAcked
    /\ NoForgottenSubscriber
    /\ TerminalFrameIsTrue
    /\ PoolCancelIsFinal

(* The statuses, spelled out. *)
LEMMA TerminalStatuses ==
    /\ Terminal = {"succeeded", "failed", "canceled"}
    /\ JobStatus = {"queued", "running", "succeeded", "failed", "canceled"}
  BY DEF Terminal, JobStatus, Lifecycle!Terminal, Lifecycle!JobStatus

LEMMA EmptyChannel == <<>> \in Seq(Nat)
  OBVIOUS

(* A worker's percentage, rounded from its step number, is one. *)
LEMMA MessagePercentRange == \A n \in Nat : MessagePercent(n) \in 0..100
<1> SUFFICES ASSUME NEW n \in Nat PROVE MessagePercent(n) \in 0..100
  OBVIOUS
<1> DEFINE S == WorkerSteps
<1> DEFINE q == (200 * n + S) \div (2 * S)
<1>1. S \in Nat /\ S > 0
  BY StepsAssumption
<1>2. CASE n > S
  BY <1>2, <1>1 DEF MessagePercent
<1>3. CASE n <= S
  <2>1. 2 * S > 0 /\ 200 * n + S <= 201 * S /\ 200 * n + S \in Nat
    BY <1>1, <1>3
  <2>2. q \in Nat
    BY <2>1, <1>1
  <2>3. (2 * S) * q <= 200 * n + S
    BY <2>1, <1>1
  <2>4. ASSUME q > 100 PROVE FALSE
    <3>1. (2 * S) * q >= (2 * S) * 101
      BY <2>2, <2>4, <1>1
    <3> QED BY <3>1, <2>3, <2>1, <1>1
  <2>5. q \in 0..100
    BY <2>2, <2>4
  <2> QED BY <2>5, <1>1, <1>3 DEF MessagePercent
<1> QED BY <1>1, <1>2, <1>3

(* What an emission does to the sockets: those listening and open hear the *)
(* status, and it closes them when it is terminal.                         *)
Notified(j, st) ==
    /\ watching' = watching
    /\ sock' \in [Sockets -> {"idle", "open", "closing", "closed"}]
    /\ heard' \in [Sockets -> JobStatus \union {"none"}]
    /\ \A s \in Sockets :
          IF s \in listeners[j] /\ sock[s] = "open"
          THEN /\ heard'[s] = st
               /\ sock'[s] = IF st \in Terminal THEN "closing" ELSE "open"
          ELSE heard'[s] = heard[s] /\ sock'[s] = sock[s]

LEMMA EmitEffects ==
    ASSUME TypeOK, NEW j \in Jobs, NEW st \in JobStatus, Emit(j, st)
    PROVE  Notified(j, st)
  BY DEF Emit, TypeOK, Notified

(* What the end of a run does. *)
Settled(j, st) ==
    /\ Notified(j, st)
    /\ UNCHANGED <<up, listeners, posted, crashes>>
    /\ chan' = [chan EXCEPT ![j] = <<>>] /\ chan' \in [Jobs -> Seq(Nat)]
    /\ task' = [task EXCEPT ![j] = "none"]
    /\ controllers' = [controllers EXCEPT ![j] = "none"]
    /\ status' = [status EXCEPT ![j] = st]
    /\ status' \in [Jobs -> JobStatus \union {"absent"}]
    /\ percent' = [percent EXCEPT ![j] = IF st = "succeeded" THEN 100 ELSE percent[j]]

LEMMA SettleEffects ==
    ASSUME TypeOK, NEW j \in Jobs, NEW st \in Terminal, Settle(j, st)
    PROVE  Settled(j, st)
  <1>1. st \in JobStatus
    BY TerminalStatuses
  <1>2. Notified(j, st)
    BY <1>1, EmitEffects DEF Settle
  <1>3. chan' = [chan EXCEPT ![j] = <<>>] /\ chan' \in [Jobs -> Seq(Nat)]
    BY EmptyChannel DEF Settle, ClosePort, TypeOK
  <1>4. /\ status' = [status EXCEPT ![j] = st]
        /\ status' \in [Jobs -> JobStatus \union {"absent"}]
    BY <1>1 DEF Settle, FinishRow, TypeOK
  <1> QED
    BY <1>2, <1>3, <1>4 DEF Settled, Settle, LeavePool, FinishRow, ReleaseController

(* What the process's death does. *)
Lost ==
    /\ up' = FALSE
    /\ crashes' \in Nat
    /\ \A j \in Jobs : /\ controllers'[j] = "none"
                        /\ listeners'[j] = {}
                        /\ task'[j] = "none"
                        /\ chan'[j] = <<>>
    /\ controllers' \in [Jobs -> {"none", "live", "aborted"}]
    /\ listeners' \in [Jobs -> SUBSET Sockets]
    /\ task' \in [Jobs -> {"none", "waiting", "run", "returned", "died"}]
    /\ chan' \in [Jobs -> Seq(Nat)]
    /\ sock' \in [Sockets -> {"idle", "open", "closing", "closed"}]
    /\ \A s \in Sockets : sock'[s] = IF sock[s] = "idle" THEN "idle" ELSE "closed"
    /\ UNCHANGED <<posted, watching, heard, acked>>

LEMMA LossEffects == TypeOK /\ ProcessLost => Lost
  <1> SUFFICES ASSUME TypeOK, ProcessLost PROVE Lost
    OBVIOUS
  <1>1. chan' \in [Jobs -> Seq(Nat)]
    BY EmptyChannel DEF ProcessLost
  <1>2. sock' \in [Sockets -> {"idle", "open", "closing", "closed"}]
    BY DEF ProcessLost, TypeOK
  <1> QED BY <1>1, <1>2 DEF ProcessLost, TypeOK, Lost

(* Type correctness is preserved. *)
LEMMA TypeStep == IInv /\ [Next]_vars => TypeOK'
<1> SUFFICES ASSUME IInv, [Next]_vars PROVE TypeOK'
  OBVIOUS
<1>t. TypeOK
  BY DEF IInv
<1>s. ASSUME NEW j \in Jobs, NEW st \in Terminal, Settle(j, st),
             acked' \in SUBSET Jobs
      PROVE  TypeOK'
  <2>2. Settled(j, st)
    BY <1>t, <1>s, SettleEffects
  <2>3. /\ task' \in [Jobs -> {"none", "waiting", "run", "returned", "died"}]
        /\ controllers' \in [Jobs -> {"none", "live", "aborted"}]
        /\ percent' \in [Jobs -> 0..100]
    BY <1>t, <2>2 DEF TypeOK, Settled
  <2> QED BY <1>s, <1>t, <2>2, <2>3 DEF TypeOK, Settled, Notified
<1>1. ASSUME NEW j \in Jobs, Enqueue(j) PROVE TypeOK'
  <2>1. Notified(j, "running")
    BY <1>t, <1>1, EmitEffects, TerminalStatuses DEF Enqueue
  <2> QED BY <1>t, <1>1, <2>1, TerminalStatuses DEF Enqueue, TypeOK, Notified
<1>2. ASSUME NEW j \in Jobs, NEW p \in Percents, Progress(j, p) PROVE TypeOK'
  <2>1. Notified(j, "running")
    BY <1>t, <1>2, EmitEffects, TerminalStatuses DEF Progress
  <2> QED BY <1>t, <1>2, <2>1, PercentsAssumption DEF Progress, TypeOK, Notified, poolVars
<1>3. ASSUME NEW j \in Jobs, HandlerSettles(j) PROVE TypeOK'
  BY <1>t, <1>3, <1>s DEF HandlerSettles, TypeOK
<1>4. ASSUME NEW j \in Jobs, Cancel(j) PROVE TypeOK'
  <2>1. acked' \in SUBSET Jobs
    BY <1>t, <1>4 DEF Cancel, TypeOK
  <2>2. CASE j \in Handled
    BY <1>t, <1>4, <2>1, <2>2 DEF Cancel, TypeOK, rowVars, poolVars, sockVars
  <2>3. CASE j \notin Handled
    BY <1>4, <2>1, <2>3, <1>s, TerminalStatuses DEF Cancel
  <2> QED BY <2>2, <2>3
<1>5. ASSUME NEW j \in Jobs, PoolStarts(j) PROVE TypeOK'
  BY <1>t, <1>5 DEF PoolStarts, TypeOK, rowVars, sockVars
<1>6. ASSUME NEW j \in Jobs, WorkerPosts(j) PROVE TypeOK'
  <2>1. posted[j] \in Nat /\ posted[j] + 1 \in Nat /\ chan[j] \in Seq(Nat)
    BY <1>t DEF TypeOK
  <2>2. Append(chan[j], posted[j] + 1) \in Seq(Nat)
    BY <2>1
  <2>3. /\ posted' \in [Jobs -> Nat]
        /\ chan' \in [Jobs -> Seq(Nat)]
    BY <1>t, <1>6, <2>1, <2>2 DEF WorkerPosts, TypeOK
  <2> QED BY <1>t, <1>6, <2>3 DEF WorkerPosts, TypeOK, rowVars, sockVars
<1>7. ASSUME NEW j \in Jobs, WorkerEnds(j) PROVE TypeOK'
  BY <1>t, <1>7 DEF WorkerEnds, TypeOK, rowVars, sockVars
<1>8. ASSUME NEW j \in Jobs, PortDelivers(j) PROVE TypeOK'
  <2>1. chan[j] \in Seq(Nat) /\ chan[j] # <<>>
    BY <1>t, <1>8 DEF PortDelivers, TypeOK
  <2>2. Head(chan[j]) \in Nat /\ Tail(chan[j]) \in Seq(Nat)
    BY <2>1
  <2>3. /\ MessagePercent(Head(chan[j])) \in 0..100
        /\ MessageStatus(Head(chan[j])) \in JobStatus
    BY <2>2, MessagePercentRange, TerminalStatuses DEF MessageStatus
  <2>4. Notified(j, MessageStatus(Head(chan[j])))
    BY <1>t, <1>8, <2>3, EmitEffects DEF PortDelivers
  <2>5. chan' \in [Jobs -> Seq(Nat)] /\ percent' \in [Jobs -> 0..100]
    BY <1>t, <1>8, <2>2, <2>3 DEF PortDelivers, TypeOK
  <2> QED BY <1>t, <1>8, <2>4, <2>5 DEF PortDelivers, TypeOK, Notified
<1>9. ASSUME NEW j \in Jobs, PoolAnswers(j) PROVE TypeOK'
  <2>1. acked' \in SUBSET Jobs
    BY <1>t, <1>9 DEF PoolAnswers, TypeOK
  <2> QED BY <1>9, <1>s, <2>1, TerminalStatuses DEF PoolAnswers
<1>10. ASSUME NEW j \in Jobs, CrashInEnqueue(j) PROVE TypeOK'
  <2>1. Lost
    BY <1>t, <1>10, LossEffects DEF CrashInEnqueue
  <2> QED BY <1>t, <1>10, <2>1, TerminalStatuses DEF CrashInEnqueue, TypeOK, Lost
<1>11. ASSUME NEW j \in Jobs, NEW s \in Sockets, Connect(s, j) PROVE TypeOK'
  <2>1. /\ watching' \in [Sockets -> Jobs \union {NoJob}]
        /\ heard' \in [Sockets -> JobStatus \union {"none"}]
    BY <1>t, <1>11 DEF Connect, TypeOK
  <2>2. CASE status[j] \in Terminal
    <3>1. sock' = [sock EXCEPT ![s] = "closing"] /\ listeners' = listeners
      BY <1>11, <2>2 DEF Connect
    <3> QED BY <1>t, <1>11, <2>1, <3>1 DEF Connect, TypeOK, rowVars, poolVars
  <2>3. CASE status[j] \notin Terminal
    <3>1. /\ sock' = [sock EXCEPT ![s] = "open"]
          /\ listeners' = [listeners EXCEPT ![j] = listeners[j] \union {s}]
      BY <1>11, <2>3 DEF Connect
    <3> QED BY <1>t, <1>11, <2>1, <3>1 DEF Connect, TypeOK, rowVars, poolVars
  <2> QED BY <2>2, <2>3
<1>12. ASSUME NEW s \in Sockets, SocketCloses(s) PROVE TypeOK'
  BY <1>t, <1>12 DEF SocketCloses, TypeOK, rowVars, poolVars
<1>13. ASSUME Crash PROVE TypeOK'
  <2>1. Lost
    BY <1>t, <1>13, LossEffects DEF Crash
  <2> QED BY <1>t, <1>13, <2>1 DEF Crash, TypeOK, rowVars, Lost
<1>14. ASSUME Restart PROVE TypeOK'
  BY <1>t, <1>14 DEF Restart, TypeOK, rowVars, poolVars, sockVars
<1>15. ASSUME UNCHANGED vars PROVE TypeOK'
  BY <1>t, <1>15 DEF vars, TypeOK, rowVars, poolVars, sockVars
<1> QED
  BY <1>1, <1>2, <1>3, <1>4, <1>5, <1>6, <1>7, <1>8, <1>9, <1>10, <1>11, <1>12,
     <1>13, <1>14, <1>15 DEF Next

(* The runner's memory: controllers, pool tasks and ports belong to runs,  *)
(* and all of it goes with the process.                                    *)
LEMMA MemoryStep ==
    IInv /\ [Next]_vars => (ControllerMeansRunning /\ DownIsEmpty /\ PoolWorkIsInProgress)'
<1> DEFINE Goal == ControllerMeansRunning /\ DownIsEmpty /\ PoolWorkIsInProgress
<1> SUFFICES ASSUME IInv, [Next]_vars PROVE Goal'
  OBVIOUS
<1>t. TypeOK
  BY DEF IInv
<1>i. ControllerMeansRunning /\ DownIsEmpty /\ PoolWorkIsInProgress
  BY DEF IInv
<1>s. ASSUME NEW j \in Jobs, NEW st \in Terminal, controllers[j] # "none",
             Settled(j, st),
             \/ acked' = acked
             \/ j \notin Handled /\ acked' = acked \union {j} /\ st = "canceled"
      PROVE  Goal'
  BY <1>t, <1>i, <1>s, TerminalStatuses, JobsAssumption DEF Settled, Notified,
     ControllerMeansRunning, DownIsEmpty, PoolWorkIsInProgress, InProgress,
     TypeOK
<1>1. ASSUME NEW j \in Jobs, Enqueue(j) PROVE Goal'
  <2>1. Notified(j, "running")
    BY <1>1, <1>t, EmitEffects, TerminalStatuses DEF Enqueue
  <2> QED BY <1>1, <1>t, <1>i, <2>1, TerminalStatuses, JobsAssumption DEF
     Enqueue, Notified, MessageStatus, rowVars, poolVars,
     ControllerMeansRunning, DownIsEmpty, PoolWorkIsInProgress, InProgress,
     TypeOK
<1>2. ASSUME NEW j \in Jobs, NEW p \in Percents, Progress(j, p) PROVE Goal'
  <2>1. Notified(j, "running")
    BY <1>2, <1>t, EmitEffects, TerminalStatuses DEF Progress
  <2> QED BY <1>2, <1>t, <1>i, <2>1, TerminalStatuses, JobsAssumption DEF
     Progress, Notified, MessageStatus, rowVars, poolVars,
     ControllerMeansRunning, DownIsEmpty, PoolWorkIsInProgress, InProgress,
     TypeOK
<1>3. ASSUME NEW j \in Jobs, HandlerSettles(j) PROVE Goal'
  <2>1. PICK st \in Terminal : Settle(j, st) /\ controllers[j] # "none"
    BY <1>3, <1>t, <1>i, TerminalStatuses DEF HandlerSettles,
       ControllerMeansRunning, DownIsEmpty, PoolWorkIsInProgress, InProgress,
       TypeOK
  <2>2. Settled(j, st)
    BY <1>t, <2>1, SettleEffects
  <2> QED BY <1>3, <1>s, <2>1, <2>2 DEF HandlerSettles
<1>4. ASSUME NEW j \in Jobs, Cancel(j) PROVE Goal'
  <2>1. CASE j \in Handled
    BY <1>4, <1>t, <1>i, <2>1, TerminalStatuses, JobsAssumption DEF Cancel,
       rowVars, poolVars, sockVars, ControllerMeansRunning, DownIsEmpty,
       PoolWorkIsInProgress, InProgress, TypeOK
  <2>2. CASE j \notin Handled
    <3>1. Settle(j, "canceled") /\ controllers[j] # "none" /\ acked' = acked \union {j}
      BY <1>4, <2>2 DEF Cancel, InProgress
    <3>2. Settled(j, "canceled")
      BY <1>t, <3>1, SettleEffects, TerminalStatuses
    <3> QED BY <1>s, <2>2, <3>1, <3>2, TerminalStatuses
  <2> QED BY <2>1, <2>2
<1>5. ASSUME NEW j \in Jobs, PoolStarts(j) PROVE Goal'
  BY <1>5, <1>t, <1>i, TerminalStatuses, JobsAssumption DEF PoolStarts,
     rowVars, poolVars, sockVars, ControllerMeansRunning, DownIsEmpty,
     PoolWorkIsInProgress, InProgress, TypeOK
<1>6. ASSUME NEW j \in Jobs, WorkerPosts(j) PROVE Goal'
  BY <1>6, <1>t, <1>i, TerminalStatuses, JobsAssumption DEF WorkerPosts,
     rowVars, poolVars, sockVars, ControllerMeansRunning, DownIsEmpty,
     PoolWorkIsInProgress, InProgress, TypeOK
<1>7. ASSUME NEW j \in Jobs, WorkerEnds(j) PROVE Goal'
  BY <1>7, <1>t, <1>i, TerminalStatuses, JobsAssumption DEF WorkerEnds,
     rowVars, poolVars, sockVars, ControllerMeansRunning, DownIsEmpty,
     PoolWorkIsInProgress, InProgress, TypeOK
<1>8. ASSUME NEW j \in Jobs, PortDelivers(j) PROVE Goal'
  <2>1. MessageStatus(Head(chan[j])) \in JobStatus
    BY TerminalStatuses DEF MessageStatus
  <2>2. Notified(j, MessageStatus(Head(chan[j])))
    BY <1>8, <1>t, <2>1, EmitEffects DEF PortDelivers
  <2> QED BY <1>8, <1>t, <1>i, <2>2, TerminalStatuses, JobsAssumption DEF
     PortDelivers, Notified, MessageStatus, rowVars, poolVars,
     ControllerMeansRunning, DownIsEmpty, PoolWorkIsInProgress, InProgress,
     TypeOK
<1>9. ASSUME NEW j \in Jobs, PoolAnswers(j) PROVE Goal'
  <2>1. PICK st \in Terminal : Settle(j, st) /\ controllers[j] # "none"
    BY <1>9, <1>t, <1>i, TerminalStatuses DEF PoolAnswers,
       ControllerMeansRunning, DownIsEmpty, PoolWorkIsInProgress, InProgress,
       TypeOK
  <2>2. Settled(j, st)
    BY <1>t, <2>1, SettleEffects
  <2> QED BY <1>9, <1>s, <2>1, <2>2 DEF PoolAnswers
<1>10. ASSUME NEW j \in Jobs, CrashInEnqueue(j) PROVE Goal'
  <2>1. Lost
    BY <1>10, <1>t, LossEffects DEF CrashInEnqueue
  <2> QED BY <1>10, <1>t, <1>i, <2>1, TerminalStatuses, JobsAssumption DEF
     CrashInEnqueue, Lost, rowVars, ControllerMeansRunning, DownIsEmpty,
     PoolWorkIsInProgress, InProgress, TypeOK
<1>11. ASSUME NEW j \in Jobs, NEW s \in Sockets, Connect(s, j) PROVE Goal'
  <2>1. CASE status[j] \in Terminal
    BY <1>11, <1>t, <1>i, <2>1, TerminalStatuses, JobsAssumption DEF Connect,
       rowVars, poolVars, ControllerMeansRunning, DownIsEmpty,
       PoolWorkIsInProgress, InProgress, TypeOK
  <2>2. CASE status[j] \notin Terminal
    BY <1>11, <1>t, <1>i, <2>2, TerminalStatuses, JobsAssumption DEF Connect,
       rowVars, poolVars, ControllerMeansRunning, DownIsEmpty,
       PoolWorkIsInProgress, InProgress, TypeOK
  <2> QED BY <2>1, <2>2
<1>12. ASSUME NEW s \in Sockets, SocketCloses(s) PROVE Goal'
  BY <1>12, <1>t, <1>i, TerminalStatuses, JobsAssumption DEF SocketCloses,
     rowVars, poolVars, sockVars, ControllerMeansRunning, DownIsEmpty,
     PoolWorkIsInProgress, InProgress, TypeOK
<1>13. ASSUME Crash PROVE Goal'
  <2>1. Lost
    BY <1>13, <1>t, LossEffects DEF Crash
  <2> QED BY <1>13, <1>t, <1>i, <2>1, TerminalStatuses, JobsAssumption DEF
     Crash, Lost, rowVars, ControllerMeansRunning, DownIsEmpty,
     PoolWorkIsInProgress, InProgress, TypeOK
<1>14. ASSUME Restart PROVE Goal'
  BY <1>14, <1>t, <1>i, TerminalStatuses, JobsAssumption DEF Restart, rowVars,
     poolVars, sockVars, ControllerMeansRunning, DownIsEmpty,
     PoolWorkIsInProgress, InProgress, TypeOK
<1>15. ASSUME UNCHANGED vars PROVE Goal'
  BY <1>15, <1>t, <1>i, TerminalStatuses, JobsAssumption DEF vars, rowVars,
     poolVars, sockVars, ControllerMeansRunning, DownIsEmpty,
     PoolWorkIsInProgress, InProgress, TypeOK
<1> QED BY <1>1, <1>2, <1>3, <1>4, <1>5, <1>6, <1>7, <1>8, <1>9, <1>10, <1>11,
   <1>12, <1>13, <1>14, <1>15 DEF Next

(* The sockets: who listens, to what, and that none is left behind. *)
LEMMA SocketStep ==
    IInv /\ [Next]_vars => (ListenersWatch /\ ConnectedSocketsKnowTheirJob /\ NoForgottenSubscriber)'
<1> DEFINE Goal == ListenersWatch /\ ConnectedSocketsKnowTheirJob /\ NoForgottenSubscriber
<1> SUFFICES ASSUME IInv, [Next]_vars PROVE Goal'
  OBVIOUS
<1>t. TypeOK
  BY DEF IInv
<1>i. ControllerMeansRunning /\ PoolWorkIsInProgress /\ ListenersWatch /\
   ConnectedSocketsKnowTheirJob /\ NoForgottenSubscriber
  BY DEF IInv
<1>s. ASSUME NEW j \in Jobs, NEW st \in Terminal, controllers[j] # "none",
             Settled(j, st),
             \/ acked' = acked
             \/ j \notin Handled /\ acked' = acked \union {j} /\ st = "canceled"
      PROVE  Goal'
  BY <1>t, <1>i, <1>s, TerminalStatuses, NoJobAssumption DEF Settled, Notified,
     ControllerMeansRunning, PoolWorkIsInProgress, ListenersWatch,
     ConnectedSocketsKnowTheirJob, NoForgottenSubscriber, InProgress, TypeOK
<1>1. ASSUME NEW j \in Jobs, Enqueue(j) PROVE Goal'
  <2>1. Notified(j, "running")
    BY <1>1, <1>t, EmitEffects, TerminalStatuses DEF Enqueue
  <2> QED BY <1>1, <1>t, <1>i, <2>1, TerminalStatuses, NoJobAssumption DEF
     Enqueue, Notified, MessageStatus, rowVars, poolVars,
     ControllerMeansRunning, PoolWorkIsInProgress, ListenersWatch,
     ConnectedSocketsKnowTheirJob, NoForgottenSubscriber, InProgress, TypeOK
<1>2. ASSUME NEW j \in Jobs, NEW p \in Percents, Progress(j, p) PROVE Goal'
  <2>1. Notified(j, "running")
    BY <1>2, <1>t, EmitEffects, TerminalStatuses DEF Progress
  <2> QED BY <1>2, <1>t, <1>i, <2>1, TerminalStatuses, NoJobAssumption DEF
     Progress, Notified, MessageStatus, rowVars, poolVars,
     ControllerMeansRunning, PoolWorkIsInProgress, ListenersWatch,
     ConnectedSocketsKnowTheirJob, NoForgottenSubscriber, InProgress, TypeOK
<1>3. ASSUME NEW j \in Jobs, HandlerSettles(j) PROVE Goal'
  <2>1. PICK st \in Terminal : Settle(j, st) /\ controllers[j] # "none"
    BY <1>3, <1>t, <1>i, TerminalStatuses DEF HandlerSettles,
       ControllerMeansRunning, PoolWorkIsInProgress, ListenersWatch,
       ConnectedSocketsKnowTheirJob, NoForgottenSubscriber, InProgress, TypeOK
  <2>2. Settled(j, st)
    BY <1>t, <2>1, SettleEffects
  <2> QED BY <1>3, <1>s, <2>1, <2>2 DEF HandlerSettles
<1>4. ASSUME NEW j \in Jobs, Cancel(j) PROVE Goal'
  <2>1. CASE j \in Handled
    BY <1>4, <1>t, <1>i, <2>1, TerminalStatuses, NoJobAssumption DEF Cancel,
       rowVars, poolVars, sockVars, ControllerMeansRunning,
       PoolWorkIsInProgress, ListenersWatch, ConnectedSocketsKnowTheirJob,
       NoForgottenSubscriber, InProgress, TypeOK
  <2>2. CASE j \notin Handled
    <3>1. Settle(j, "canceled") /\ controllers[j] # "none" /\ acked' = acked \union {j}
      BY <1>4, <2>2 DEF Cancel, InProgress
    <3>2. Settled(j, "canceled")
      BY <1>t, <3>1, SettleEffects, TerminalStatuses
    <3> QED BY <1>s, <2>2, <3>1, <3>2, TerminalStatuses
  <2> QED BY <2>1, <2>2
<1>5. ASSUME NEW j \in Jobs, PoolStarts(j) PROVE Goal'
  BY <1>5, <1>t, <1>i, TerminalStatuses, NoJobAssumption DEF PoolStarts,
     rowVars, poolVars, sockVars, ControllerMeansRunning, PoolWorkIsInProgress,
     ListenersWatch, ConnectedSocketsKnowTheirJob, NoForgottenSubscriber,
     InProgress, TypeOK
<1>6. ASSUME NEW j \in Jobs, WorkerPosts(j) PROVE Goal'
  BY <1>6, <1>t, <1>i, TerminalStatuses, NoJobAssumption DEF WorkerPosts,
     rowVars, poolVars, sockVars, ControllerMeansRunning, PoolWorkIsInProgress,
     ListenersWatch, ConnectedSocketsKnowTheirJob, NoForgottenSubscriber,
     InProgress, TypeOK
<1>7. ASSUME NEW j \in Jobs, WorkerEnds(j) PROVE Goal'
  BY <1>7, <1>t, <1>i, TerminalStatuses, NoJobAssumption DEF WorkerEnds,
     rowVars, poolVars, sockVars, ControllerMeansRunning, PoolWorkIsInProgress,
     ListenersWatch, ConnectedSocketsKnowTheirJob, NoForgottenSubscriber,
     InProgress, TypeOK
<1>8. ASSUME NEW j \in Jobs, PortDelivers(j) PROVE Goal'
  <2>1. MessageStatus(Head(chan[j])) \in JobStatus
    BY TerminalStatuses DEF MessageStatus
  <2>2. Notified(j, MessageStatus(Head(chan[j])))
    BY <1>8, <1>t, <2>1, EmitEffects DEF PortDelivers
  <2> QED BY <1>8, <1>t, <1>i, <2>2, TerminalStatuses, NoJobAssumption DEF
     PortDelivers, Notified, MessageStatus, rowVars, poolVars,
     ControllerMeansRunning, PoolWorkIsInProgress, ListenersWatch,
     ConnectedSocketsKnowTheirJob, NoForgottenSubscriber, InProgress, TypeOK
<1>9. ASSUME NEW j \in Jobs, PoolAnswers(j) PROVE Goal'
  <2>1. PICK st \in Terminal : Settle(j, st) /\ controllers[j] # "none"
    BY <1>9, <1>t, <1>i, TerminalStatuses DEF PoolAnswers,
       ControllerMeansRunning, PoolWorkIsInProgress, ListenersWatch,
       ConnectedSocketsKnowTheirJob, NoForgottenSubscriber, InProgress, TypeOK
  <2>2. Settled(j, st)
    BY <1>t, <2>1, SettleEffects
  <2> QED BY <1>9, <1>s, <2>1, <2>2 DEF PoolAnswers
<1>10. ASSUME NEW j \in Jobs, CrashInEnqueue(j) PROVE Goal'
  <2>1. Lost
    BY <1>10, <1>t, LossEffects DEF CrashInEnqueue
  <2>2. ListenersWatch'
    BY <1>10, <1>t, <1>i, <2>1, TerminalStatuses, NoJobAssumption DEF
       CrashInEnqueue, Lost, rowVars, ControllerMeansRunning,
       PoolWorkIsInProgress, ListenersWatch, ConnectedSocketsKnowTheirJob,
       NoForgottenSubscriber, InProgress, TypeOK
  <2>3. ConnectedSocketsKnowTheirJob'
    BY <1>10, <1>t, <1>i, <2>1, TerminalStatuses, NoJobAssumption DEF
       CrashInEnqueue, Lost, rowVars, ControllerMeansRunning,
       PoolWorkIsInProgress, ListenersWatch, ConnectedSocketsKnowTheirJob,
       NoForgottenSubscriber, InProgress, TypeOK
  <2>4. NoForgottenSubscriber'
    BY <1>10, <1>t, <1>i, <2>1, TerminalStatuses, NoJobAssumption DEF
       CrashInEnqueue, Lost, rowVars, ControllerMeansRunning,
       PoolWorkIsInProgress, ListenersWatch, ConnectedSocketsKnowTheirJob,
       NoForgottenSubscriber, InProgress, TypeOK
  <2> QED BY <2>2, <2>3, <2>4
<1>11. ASSUME NEW j \in Jobs, NEW s \in Sockets, Connect(s, j) PROVE Goal'
  <2>1. CASE status[j] \in Terminal
    BY <1>11, <1>t, <1>i, <2>1, TerminalStatuses, NoJobAssumption DEF Connect,
       rowVars, poolVars, ControllerMeansRunning, PoolWorkIsInProgress,
       ListenersWatch, ConnectedSocketsKnowTheirJob, NoForgottenSubscriber,
       InProgress, TypeOK
  <2>2. CASE status[j] \notin Terminal
    <3>1. ListenersWatch'
      BY <1>11, <1>t, <1>i, <2>2, TerminalStatuses, NoJobAssumption DEF
         Connect, rowVars, poolVars, ControllerMeansRunning,
         PoolWorkIsInProgress, ListenersWatch, ConnectedSocketsKnowTheirJob,
         NoForgottenSubscriber, InProgress, TypeOK
    <3>2. ConnectedSocketsKnowTheirJob'
      BY <1>11, <1>t, <1>i, <2>2, TerminalStatuses, NoJobAssumption DEF
         Connect, rowVars, poolVars, ControllerMeansRunning,
         PoolWorkIsInProgress, ListenersWatch, ConnectedSocketsKnowTheirJob,
         NoForgottenSubscriber, InProgress, TypeOK
    <3>3. NoForgottenSubscriber'
      <4>1. SUFFICES ASSUME NEW r \in Sockets, sock'[r] = "open"
                     PROVE  /\ r \in listeners'[watching'[r]]
                            /\ status'[watching'[r]] \notin Terminal
        BY DEF NoForgottenSubscriber
      <4>2. /\ sock' = [sock EXCEPT ![s] = "open"]
            /\ listeners' = [listeners EXCEPT ![j] = listeners[j] \union {s}]
            /\ watching' = [watching EXCEPT ![s] = j]
            /\ status' = status
        BY <1>11, <2>2 DEF Connect, rowVars
      <4>3. CASE r = s
        BY <1>t, <2>2, <4>2, <4>3 DEF TypeOK
      <4>4. CASE r # s
        <5>1. sock[r] = "open" /\ watching'[r] = watching[r] /\ watching[r] \in Jobs
          BY <1>t, <1>i, <4>1, <4>2, <4>4 DEF TypeOK, ConnectedSocketsKnowTheirJob
        <5>2. r \in listeners[watching[r]] /\ status[watching[r]] \notin Terminal
          BY <1>i, <5>1 DEF NoForgottenSubscriber
        <5> QED BY <1>t, <4>2, <5>1, <5>2 DEF TypeOK
      <4> QED BY <4>3, <4>4
    <3> QED BY <3>1, <3>2, <3>3
  <2> QED BY <2>1, <2>2
<1>12. ASSUME NEW s \in Sockets, SocketCloses(s) PROVE Goal'
  BY <1>12, <1>t, <1>i, TerminalStatuses, NoJobAssumption DEF SocketCloses,
     rowVars, poolVars, sockVars, ControllerMeansRunning, PoolWorkIsInProgress,
     ListenersWatch, ConnectedSocketsKnowTheirJob, NoForgottenSubscriber,
     InProgress, TypeOK
<1>13. ASSUME Crash PROVE Goal'
  <2>1. Lost
    BY <1>13, <1>t, LossEffects DEF Crash
  <2>2. ListenersWatch'
    BY <1>13, <1>t, <1>i, <2>1, TerminalStatuses, NoJobAssumption DEF Crash,
       Lost, rowVars, ControllerMeansRunning, PoolWorkIsInProgress,
       ListenersWatch, ConnectedSocketsKnowTheirJob, NoForgottenSubscriber,
       InProgress, TypeOK
  <2>3. ConnectedSocketsKnowTheirJob'
    BY <1>13, <1>t, <1>i, <2>1, TerminalStatuses, NoJobAssumption DEF Crash,
       Lost, rowVars, ControllerMeansRunning, PoolWorkIsInProgress,
       ListenersWatch, ConnectedSocketsKnowTheirJob, NoForgottenSubscriber,
       InProgress, TypeOK
  <2>4. NoForgottenSubscriber'
    BY <1>13, <1>t, <1>i, <2>1, TerminalStatuses, NoJobAssumption DEF Crash,
       Lost, rowVars, ControllerMeansRunning, PoolWorkIsInProgress,
       ListenersWatch, ConnectedSocketsKnowTheirJob, NoForgottenSubscriber,
       InProgress, TypeOK
  <2> QED BY <2>2, <2>3, <2>4
<1>14. ASSUME Restart PROVE Goal'
  BY <1>14, <1>t, <1>i, TerminalStatuses, NoJobAssumption DEF Restart, rowVars,
     poolVars, sockVars, ControllerMeansRunning, PoolWorkIsInProgress,
     ListenersWatch, ConnectedSocketsKnowTheirJob, NoForgottenSubscriber,
     InProgress, TypeOK
<1>15. ASSUME UNCHANGED vars PROVE Goal'
  BY <1>15, <1>t, <1>i, TerminalStatuses, NoJobAssumption DEF vars, rowVars,
     poolVars, sockVars, ControllerMeansRunning, PoolWorkIsInProgress,
     ListenersWatch, ConnectedSocketsKnowTheirJob, NoForgottenSubscriber,
     InProgress, TypeOK
<1> QED BY <1>1, <1>2, <1>3, <1>4, <1>5, <1>6, <1>7, <1>8, <1>9, <1>10, <1>11,
   <1>12, <1>13, <1>14, <1>15 DEF Next

(* What the browsers of an in-process job were told. *)
LEMMA TruthStep ==
    IInv /\ [Next]_vars => (TerminalFrameIsTrue)'
<1> DEFINE Goal == TerminalFrameIsTrue
<1> SUFFICES ASSUME IInv, [Next]_vars PROVE Goal'
  OBVIOUS
<1>t. TypeOK
  BY DEF IInv
<1>i. ControllerMeansRunning /\ PoolWorkIsInProgress /\ ListenersWatch /\
   ConnectedSocketsKnowTheirJob /\ TerminalFrameIsTrue
  BY DEF IInv
<1>s. ASSUME NEW j \in Jobs, NEW st \in Terminal, controllers[j] # "none",
             Settled(j, st),
             \/ acked' = acked
             \/ j \notin Handled /\ acked' = acked \union {j} /\ st = "canceled"
      PROVE  Goal'
  BY <1>t, <1>i, <1>s, TerminalStatuses, NoJobAssumption, JobsAssumption DEF
     Settled, Notified, ControllerMeansRunning, PoolWorkIsInProgress,
     ListenersWatch, ConnectedSocketsKnowTheirJob, TerminalFrameIsTrue,
     InProgress, TypeOK
<1>1. ASSUME NEW j \in Jobs, Enqueue(j) PROVE Goal'
  <2>1. Notified(j, "running")
    BY <1>1, <1>t, EmitEffects, TerminalStatuses DEF Enqueue
  <2> QED BY <1>1, <1>t, <1>i, <2>1, TerminalStatuses, NoJobAssumption,
     JobsAssumption DEF Enqueue, Notified, MessageStatus, rowVars, poolVars,
     ControllerMeansRunning, PoolWorkIsInProgress, ListenersWatch,
     ConnectedSocketsKnowTheirJob, TerminalFrameIsTrue, InProgress, TypeOK
<1>2. ASSUME NEW j \in Jobs, NEW p \in Percents, Progress(j, p) PROVE Goal'
  <2>1. Notified(j, "running")
    BY <1>2, <1>t, EmitEffects, TerminalStatuses DEF Progress
  <2> QED BY <1>2, <1>t, <1>i, <2>1, TerminalStatuses, NoJobAssumption,
     JobsAssumption DEF Progress, Notified, MessageStatus, rowVars, poolVars,
     ControllerMeansRunning, PoolWorkIsInProgress, ListenersWatch,
     ConnectedSocketsKnowTheirJob, TerminalFrameIsTrue, InProgress, TypeOK
<1>3. ASSUME NEW j \in Jobs, HandlerSettles(j) PROVE Goal'
  <2>1. PICK st \in Terminal : Settle(j, st) /\ controllers[j] # "none"
    BY <1>3, <1>t, <1>i, TerminalStatuses DEF HandlerSettles,
       ControllerMeansRunning, PoolWorkIsInProgress, ListenersWatch,
       ConnectedSocketsKnowTheirJob, TerminalFrameIsTrue, InProgress, TypeOK
  <2>2. Settled(j, st)
    BY <1>t, <2>1, SettleEffects
  <2> QED BY <1>3, <1>s, <2>1, <2>2 DEF HandlerSettles
<1>4. ASSUME NEW j \in Jobs, Cancel(j) PROVE Goal'
  <2>1. CASE j \in Handled
    BY <1>4, <1>t, <1>i, <2>1, TerminalStatuses, NoJobAssumption,
       JobsAssumption DEF Cancel, rowVars, poolVars, sockVars,
       ControllerMeansRunning, PoolWorkIsInProgress, ListenersWatch,
       ConnectedSocketsKnowTheirJob, TerminalFrameIsTrue, InProgress, TypeOK
  <2>2. CASE j \notin Handled
    <3>1. Settle(j, "canceled") /\ controllers[j] # "none" /\ acked' = acked \union {j}
      BY <1>4, <2>2 DEF Cancel, InProgress
    <3>2. Settled(j, "canceled")
      BY <1>t, <3>1, SettleEffects, TerminalStatuses
    <3> QED BY <1>s, <2>2, <3>1, <3>2, TerminalStatuses
  <2> QED BY <2>1, <2>2
<1>5. ASSUME NEW j \in Jobs, PoolStarts(j) PROVE Goal'
  BY <1>5, <1>t, <1>i, TerminalStatuses, NoJobAssumption, JobsAssumption DEF
     PoolStarts, rowVars, poolVars, sockVars, ControllerMeansRunning,
     PoolWorkIsInProgress, ListenersWatch, ConnectedSocketsKnowTheirJob,
     TerminalFrameIsTrue, InProgress, TypeOK
<1>6. ASSUME NEW j \in Jobs, WorkerPosts(j) PROVE Goal'
  BY <1>6, <1>t, <1>i, TerminalStatuses, NoJobAssumption, JobsAssumption DEF
     WorkerPosts, rowVars, poolVars, sockVars, ControllerMeansRunning,
     PoolWorkIsInProgress, ListenersWatch, ConnectedSocketsKnowTheirJob,
     TerminalFrameIsTrue, InProgress, TypeOK
<1>7. ASSUME NEW j \in Jobs, WorkerEnds(j) PROVE Goal'
  BY <1>7, <1>t, <1>i, TerminalStatuses, NoJobAssumption, JobsAssumption DEF
     WorkerEnds, rowVars, poolVars, sockVars, ControllerMeansRunning,
     PoolWorkIsInProgress, ListenersWatch, ConnectedSocketsKnowTheirJob,
     TerminalFrameIsTrue, InProgress, TypeOK
<1>8. ASSUME NEW j \in Jobs, PortDelivers(j) PROVE Goal'
  <2>1. MessageStatus(Head(chan[j])) \in JobStatus
    BY TerminalStatuses DEF MessageStatus
  <2>2. Notified(j, MessageStatus(Head(chan[j])))
    BY <1>8, <1>t, <2>1, EmitEffects DEF PortDelivers
  <2> QED BY <1>8, <1>t, <1>i, <2>2, TerminalStatuses, NoJobAssumption,
     JobsAssumption DEF PortDelivers, Notified, MessageStatus, rowVars,
     poolVars, ControllerMeansRunning, PoolWorkIsInProgress, ListenersWatch,
     ConnectedSocketsKnowTheirJob, TerminalFrameIsTrue, InProgress, TypeOK
<1>9. ASSUME NEW j \in Jobs, PoolAnswers(j) PROVE Goal'
  <2>1. PICK st \in Terminal : Settle(j, st) /\ controllers[j] # "none"
    BY <1>9, <1>t, <1>i, TerminalStatuses DEF PoolAnswers,
       ControllerMeansRunning, PoolWorkIsInProgress, ListenersWatch,
       ConnectedSocketsKnowTheirJob, TerminalFrameIsTrue, InProgress, TypeOK
  <2>2. Settled(j, st)
    BY <1>t, <2>1, SettleEffects
  <2> QED BY <1>9, <1>s, <2>1, <2>2 DEF PoolAnswers
<1>10. ASSUME NEW j \in Jobs, CrashInEnqueue(j) PROVE Goal'
  <2>1. Lost
    BY <1>10, <1>t, LossEffects DEF CrashInEnqueue
  <2> QED BY <1>10, <1>t, <1>i, <2>1, TerminalStatuses, NoJobAssumption,
     JobsAssumption DEF CrashInEnqueue, Lost, rowVars, ControllerMeansRunning,
     PoolWorkIsInProgress, ListenersWatch, ConnectedSocketsKnowTheirJob,
     TerminalFrameIsTrue, InProgress, TypeOK
<1>11. ASSUME NEW j \in Jobs, NEW s \in Sockets, Connect(s, j) PROVE Goal'
  <2>1. CASE status[j] \in Terminal
    BY <1>11, <1>t, <1>i, <2>1, TerminalStatuses, NoJobAssumption,
       JobsAssumption DEF Connect, rowVars, poolVars, ControllerMeansRunning,
       PoolWorkIsInProgress, ListenersWatch, ConnectedSocketsKnowTheirJob,
       TerminalFrameIsTrue, InProgress, TypeOK
  <2>2. CASE status[j] \notin Terminal
    BY <1>11, <1>t, <1>i, <2>2, TerminalStatuses, NoJobAssumption,
       JobsAssumption DEF Connect, rowVars, poolVars, ControllerMeansRunning,
       PoolWorkIsInProgress, ListenersWatch, ConnectedSocketsKnowTheirJob,
       TerminalFrameIsTrue, InProgress, TypeOK
  <2> QED BY <2>1, <2>2
<1>12. ASSUME NEW s \in Sockets, SocketCloses(s) PROVE Goal'
  BY <1>12, <1>t, <1>i, TerminalStatuses, NoJobAssumption, JobsAssumption DEF
     SocketCloses, rowVars, poolVars, sockVars, ControllerMeansRunning,
     PoolWorkIsInProgress, ListenersWatch, ConnectedSocketsKnowTheirJob,
     TerminalFrameIsTrue, InProgress, TypeOK
<1>13. ASSUME Crash PROVE Goal'
  <2>1. Lost
    BY <1>13, <1>t, LossEffects DEF Crash
  <2> QED BY <1>13, <1>t, <1>i, <2>1, TerminalStatuses, NoJobAssumption,
     JobsAssumption DEF Crash, Lost, rowVars, ControllerMeansRunning,
     PoolWorkIsInProgress, ListenersWatch, ConnectedSocketsKnowTheirJob,
     TerminalFrameIsTrue, InProgress, TypeOK
<1>14. ASSUME Restart PROVE Goal'
  BY <1>14, <1>t, <1>i, TerminalStatuses, NoJobAssumption, JobsAssumption DEF
     Restart, rowVars, poolVars, sockVars, ControllerMeansRunning,
     PoolWorkIsInProgress, ListenersWatch, ConnectedSocketsKnowTheirJob,
     TerminalFrameIsTrue, InProgress, TypeOK
<1>15. ASSUME UNCHANGED vars PROVE Goal'
  BY <1>15, <1>t, <1>i, TerminalStatuses, NoJobAssumption, JobsAssumption DEF
     vars, rowVars, poolVars, sockVars, ControllerMeansRunning,
     PoolWorkIsInProgress, ListenersWatch, ConnectedSocketsKnowTheirJob,
     TerminalFrameIsTrue, InProgress, TypeOK
<1> QED BY <1>1, <1>2, <1>3, <1>4, <1>5, <1>6, <1>7, <1>8, <1>9, <1>10, <1>11,
   <1>12, <1>13, <1>14, <1>15 DEF Next

(* Acknowledged cancellations. *)
LEMMA CancelStep ==
    IInv /\ [Next]_vars => (AckedHaveRun /\ AbortedWasAcked /\ PoolCancelIsFinal)'
<1> DEFINE Goal == AckedHaveRun /\ AbortedWasAcked /\ PoolCancelIsFinal
<1> SUFFICES ASSUME IInv, [Next]_vars PROVE Goal'
  OBVIOUS
<1>t. TypeOK
  BY DEF IInv
<1>i. ControllerMeansRunning /\ PoolWorkIsInProgress /\ AckedHaveRun /\
   AbortedWasAcked /\ PoolCancelIsFinal
  BY DEF IInv
<1>s. ASSUME NEW j \in Jobs, NEW st \in Terminal, controllers[j] # "none",
             Settled(j, st),
             \/ acked' = acked
             \/ j \notin Handled /\ acked' = acked \union {j} /\ st = "canceled"
      PROVE  Goal'
  BY <1>t, <1>i, <1>s, TerminalStatuses DEF Settled, Notified,
     ControllerMeansRunning, PoolWorkIsInProgress, AckedHaveRun,
     AbortedWasAcked, PoolCancelIsFinal, InProgress, TypeOK
<1>1. ASSUME NEW j \in Jobs, Enqueue(j) PROVE Goal'
  <2>1. Notified(j, "running")
    BY <1>1, <1>t, EmitEffects, TerminalStatuses DEF Enqueue
  <2> QED BY <1>1, <1>t, <1>i, <2>1, TerminalStatuses DEF Enqueue, Notified,
     MessageStatus, rowVars, poolVars, ControllerMeansRunning,
     PoolWorkIsInProgress, AckedHaveRun, AbortedWasAcked, PoolCancelIsFinal,
     InProgress, TypeOK
<1>2. ASSUME NEW j \in Jobs, NEW p \in Percents, Progress(j, p) PROVE Goal'
  <2>1. Notified(j, "running")
    BY <1>2, <1>t, EmitEffects, TerminalStatuses DEF Progress
  <2> QED BY <1>2, <1>t, <1>i, <2>1, TerminalStatuses DEF Progress, Notified,
     MessageStatus, rowVars, poolVars, ControllerMeansRunning,
     PoolWorkIsInProgress, AckedHaveRun, AbortedWasAcked, PoolCancelIsFinal,
     InProgress, TypeOK
<1>3. ASSUME NEW j \in Jobs, HandlerSettles(j) PROVE Goal'
  <2>1. PICK st \in Terminal : Settle(j, st) /\ controllers[j] # "none"
    BY <1>3, <1>t, <1>i, TerminalStatuses DEF HandlerSettles,
       ControllerMeansRunning, PoolWorkIsInProgress, AckedHaveRun,
       AbortedWasAcked, PoolCancelIsFinal, InProgress, TypeOK
  <2>2. Settled(j, st)
    BY <1>t, <2>1, SettleEffects
  <2> QED BY <1>3, <1>s, <2>1, <2>2 DEF HandlerSettles
<1>4. ASSUME NEW j \in Jobs, Cancel(j) PROVE Goal'
  <2>1. CASE j \in Handled
    BY <1>4, <1>t, <1>i, <2>1, TerminalStatuses DEF Cancel, rowVars, poolVars,
       sockVars, ControllerMeansRunning, PoolWorkIsInProgress, AckedHaveRun,
       AbortedWasAcked, PoolCancelIsFinal, InProgress, TypeOK
  <2>2. CASE j \notin Handled
    <3>1. Settle(j, "canceled") /\ controllers[j] # "none" /\ acked' = acked \union {j}
      BY <1>4, <2>2 DEF Cancel, InProgress
    <3>2. Settled(j, "canceled")
      BY <1>t, <3>1, SettleEffects, TerminalStatuses
    <3> QED BY <1>s, <2>2, <3>1, <3>2, TerminalStatuses
  <2> QED BY <2>1, <2>2
<1>5. ASSUME NEW j \in Jobs, PoolStarts(j) PROVE Goal'
  BY <1>5, <1>t, <1>i, TerminalStatuses DEF PoolStarts, rowVars, poolVars,
     sockVars, ControllerMeansRunning, PoolWorkIsInProgress, AckedHaveRun,
     AbortedWasAcked, PoolCancelIsFinal, InProgress, TypeOK
<1>6. ASSUME NEW j \in Jobs, WorkerPosts(j) PROVE Goal'
  BY <1>6, <1>t, <1>i, TerminalStatuses DEF WorkerPosts, rowVars, poolVars,
     sockVars, ControllerMeansRunning, PoolWorkIsInProgress, AckedHaveRun,
     AbortedWasAcked, PoolCancelIsFinal, InProgress, TypeOK
<1>7. ASSUME NEW j \in Jobs, WorkerEnds(j) PROVE Goal'
  BY <1>7, <1>t, <1>i, TerminalStatuses DEF WorkerEnds, rowVars, poolVars,
     sockVars, ControllerMeansRunning, PoolWorkIsInProgress, AckedHaveRun,
     AbortedWasAcked, PoolCancelIsFinal, InProgress, TypeOK
<1>8. ASSUME NEW j \in Jobs, PortDelivers(j) PROVE Goal'
  <2>1. MessageStatus(Head(chan[j])) \in JobStatus
    BY TerminalStatuses DEF MessageStatus
  <2>2. Notified(j, MessageStatus(Head(chan[j])))
    BY <1>8, <1>t, <2>1, EmitEffects DEF PortDelivers
  <2> QED BY <1>8, <1>t, <1>i, <2>2, TerminalStatuses DEF PortDelivers,
     Notified, MessageStatus, rowVars, poolVars, ControllerMeansRunning,
     PoolWorkIsInProgress, AckedHaveRun, AbortedWasAcked, PoolCancelIsFinal,
     InProgress, TypeOK
<1>9. ASSUME NEW j \in Jobs, PoolAnswers(j) PROVE Goal'
  <2>1. PICK st \in Terminal : Settle(j, st) /\ controllers[j] # "none"
    BY <1>9, <1>t, <1>i, TerminalStatuses DEF PoolAnswers,
       ControllerMeansRunning, PoolWorkIsInProgress, AckedHaveRun,
       AbortedWasAcked, PoolCancelIsFinal, InProgress, TypeOK
  <2>2. Settled(j, st)
    BY <1>t, <2>1, SettleEffects
  <2> QED BY <1>9, <1>s, <2>1, <2>2 DEF PoolAnswers
<1>10. ASSUME NEW j \in Jobs, CrashInEnqueue(j) PROVE Goal'
  <2>1. Lost
    BY <1>10, <1>t, LossEffects DEF CrashInEnqueue
  <2> QED BY <1>10, <1>t, <1>i, <2>1, TerminalStatuses DEF CrashInEnqueue,
     Lost, rowVars, ControllerMeansRunning, PoolWorkIsInProgress, AckedHaveRun,
     AbortedWasAcked, PoolCancelIsFinal, InProgress, TypeOK
<1>11. ASSUME NEW j \in Jobs, NEW s \in Sockets, Connect(s, j) PROVE Goal'
  <2>1. CASE status[j] \in Terminal
    BY <1>11, <1>t, <1>i, <2>1, TerminalStatuses DEF Connect, rowVars,
       poolVars, ControllerMeansRunning, PoolWorkIsInProgress, AckedHaveRun,
       AbortedWasAcked, PoolCancelIsFinal, InProgress, TypeOK
  <2>2. CASE status[j] \notin Terminal
    BY <1>11, <1>t, <1>i, <2>2, TerminalStatuses DEF Connect, rowVars,
       poolVars, ControllerMeansRunning, PoolWorkIsInProgress, AckedHaveRun,
       AbortedWasAcked, PoolCancelIsFinal, InProgress, TypeOK
  <2> QED BY <2>1, <2>2
<1>12. ASSUME NEW s \in Sockets, SocketCloses(s) PROVE Goal'
  BY <1>12, <1>t, <1>i, TerminalStatuses DEF SocketCloses, rowVars, poolVars,
     sockVars, ControllerMeansRunning, PoolWorkIsInProgress, AckedHaveRun,
     AbortedWasAcked, PoolCancelIsFinal, InProgress, TypeOK
<1>13. ASSUME Crash PROVE Goal'
  <2>1. Lost
    BY <1>13, <1>t, LossEffects DEF Crash
  <2> QED BY <1>13, <1>t, <1>i, <2>1, TerminalStatuses DEF Crash, Lost,
     rowVars, ControllerMeansRunning, PoolWorkIsInProgress, AckedHaveRun,
     AbortedWasAcked, PoolCancelIsFinal, InProgress, TypeOK
<1>14. ASSUME Restart PROVE Goal'
  BY <1>14, <1>t, <1>i, TerminalStatuses DEF Restart, rowVars, poolVars,
     sockVars, ControllerMeansRunning, PoolWorkIsInProgress, AckedHaveRun,
     AbortedWasAcked, PoolCancelIsFinal, InProgress, TypeOK
<1>15. ASSUME UNCHANGED vars PROVE Goal'
  BY <1>15, <1>t, <1>i, TerminalStatuses DEF vars, rowVars, poolVars, sockVars,
     ControllerMeansRunning, PoolWorkIsInProgress, AckedHaveRun,
     AbortedWasAcked, PoolCancelIsFinal, InProgress, TypeOK
<1> QED BY <1>1, <1>2, <1>3, <1>4, <1>5, <1>6, <1>7, <1>8, <1>9, <1>10, <1>11,
   <1>12, <1>13, <1>14, <1>15 DEF Next

LEMMA Initially == Init => IInv
  BY StepsAssumption, NoJobAssumption, JobsAssumption, EmptyChannel, TerminalStatuses
     DEF Init, IInv, TypeOK, ControllerMeansRunning, InProgress, DownIsEmpty,
         PoolWorkIsInProgress, ListenersWatch, ConnectedSocketsKnowTheirJob,
         AckedHaveRun, AbortedWasAcked, NoForgottenSubscriber, TerminalFrameIsTrue, PoolCancelIsFinal

LEMMA Inductive == IInv /\ [Next]_vars => IInv'
  BY TypeStep, MemoryStep, SocketStep, TruthStep, CancelStep DEF IInv

(* Every reachable state satisfies the inductive invariant. *)
THEOREM InvariantHolds == Spec => []IInv
  BY Initially, Inductive, PTL DEF Spec

(* Type correctness, for any jobs, sockets and bounds. *)
THEOREM TypeCorrect == Spec => []TypeOK
<1>1. IInv => TypeOK
  BY DEF IInv
<1> QED BY <1>1, InvariantHolds, PTL

(* A controller is held exactly for the rows this process is running. *)
THEOREM ControllersAreHonest == Spec => []ControllerMeansRunning
<1>1. IInv => ControllerMeansRunning
  BY DEF IInv
<1> QED BY <1>1, InvariantHolds, PTL

(* However connecting, disconnecting, the worker's messages and the end of *)
(* a run interleave, no open socket is left on a finished job.             *)
THEOREM NobodyForgotten == Spec => []NoForgottenSubscriber
<1>1. IInv => NoForgottenSubscriber
  BY DEF IInv
<1> QED BY <1>1, InvariantHolds, PTL

(* A terminal frame of an in-process job says what the row says. *)
THEOREM FramesAreTrue == Spec => []TerminalFrameIsTrue
<1>1. IInv => TerminalFrameIsTrue
  BY DEF IInv
<1> QED BY <1>1, InvariantHolds, PTL

(* An acknowledged cancellation of a pool job is never lost. *)
THEOREM PoolCancelHolds == Spec => []PoolCancelIsFinal
<1>1. IInv => PoolCancelIsFinal
  BY DEF IInv
<1> QED BY <1>1, InvariantHolds, PTL

(* A step writes no finished row. *)
LEMMA FrozenStep == IInv /\ [Next]_vars => FinishedRowsKept
<1> SUFFICES ASSUME IInv, [Next]_vars PROVE FinishedRowsKept
  OBVIOUS
<1>t. TypeOK
  BY DEF IInv
<1>i. ControllerMeansRunning /\ PoolWorkIsInProgress
  BY DEF IInv
<1>1. ASSUME NEW j \in Jobs, Enqueue(j) PROVE FinishedRowsKept
  BY <1>1, <1>t, <1>i, TerminalStatuses DEF Enqueue, rowVars, FinishedRowsKept,
     ControllerMeansRunning, PoolWorkIsInProgress, InProgress, TypeOK
<1>2. ASSUME NEW j \in Jobs, NEW p \in Percents, Progress(j, p) PROVE FinishedRowsKept
  BY <1>2, <1>t, <1>i, TerminalStatuses DEF Progress, rowVars,
     FinishedRowsKept, ControllerMeansRunning, PoolWorkIsInProgress,
     InProgress, TypeOK
<1>3. ASSUME NEW j \in Jobs, HandlerSettles(j) PROVE FinishedRowsKept
  <2>1. PICK st \in Terminal :
          Settle(j, st) /\ controllers[j] # "none"
    BY <1>3, <1>i, TerminalStatuses DEF HandlerSettles, InProgress,
       PoolWorkIsInProgress
  <2>2. Settled(j, st)
    BY <1>t, <2>1, SettleEffects
  <2> QED BY <1>3, <1>t, <1>i, <2>1, <2>2, TerminalStatuses DEF HandlerSettles,
     Settled, FinishedRowsKept, ControllerMeansRunning, PoolWorkIsInProgress,
     InProgress, TypeOK
<1>4. ASSUME NEW j \in Jobs, Cancel(j) PROVE FinishedRowsKept
  <2>1. CASE j \in Handled
    BY <1>4, <1>t, <1>i, <2>1, TerminalStatuses DEF Cancel, rowVars,
       FinishedRowsKept, ControllerMeansRunning, PoolWorkIsInProgress,
       InProgress, TypeOK
  <2>2. CASE j \notin Handled
    <3>1. Settle(j, "canceled") /\ controllers[j] # "none" /\ acked' = acked \union {j}
      BY <1>4, <2>2 DEF Cancel, InProgress
    <3>2. Settled(j, "canceled")
      BY <1>t, <3>1, SettleEffects, TerminalStatuses
    <3> QED BY <1>t, <1>i, <3>1, <3>2, TerminalStatuses DEF Settled,
       FinishedRowsKept, ControllerMeansRunning, PoolWorkIsInProgress,
       InProgress, TypeOK
  <2> QED BY <2>1, <2>2
<1>5. ASSUME NEW j \in Jobs, PoolStarts(j) PROVE FinishedRowsKept
  BY <1>5, <1>t, <1>i, TerminalStatuses DEF PoolStarts, rowVars,
     FinishedRowsKept, ControllerMeansRunning, PoolWorkIsInProgress,
     InProgress, TypeOK
<1>6. ASSUME NEW j \in Jobs, WorkerPosts(j) PROVE FinishedRowsKept
  BY <1>6, <1>t, <1>i, TerminalStatuses DEF WorkerPosts, rowVars,
     FinishedRowsKept, ControllerMeansRunning, PoolWorkIsInProgress,
     InProgress, TypeOK
<1>7. ASSUME NEW j \in Jobs, WorkerEnds(j) PROVE FinishedRowsKept
  BY <1>7, <1>t, <1>i, TerminalStatuses DEF WorkerEnds, rowVars,
     FinishedRowsKept, ControllerMeansRunning, PoolWorkIsInProgress,
     InProgress, TypeOK
<1>8. ASSUME NEW j \in Jobs, PortDelivers(j) PROVE FinishedRowsKept
  BY <1>8, <1>t, <1>i, TerminalStatuses DEF PortDelivers, rowVars,
     FinishedRowsKept, ControllerMeansRunning, PoolWorkIsInProgress,
     InProgress, TypeOK
<1>9. ASSUME NEW j \in Jobs, PoolAnswers(j) PROVE FinishedRowsKept
  <2>1. PICK st \in Terminal :
          Settle(j, st) /\ controllers[j] # "none"
    BY <1>9, <1>i, TerminalStatuses DEF PoolAnswers, InProgress,
       PoolWorkIsInProgress
  <2>2. Settled(j, st)
    BY <1>t, <2>1, SettleEffects
  <2> QED BY <1>9, <1>t, <1>i, <2>1, <2>2, TerminalStatuses DEF PoolAnswers,
     Settled, FinishedRowsKept, ControllerMeansRunning, PoolWorkIsInProgress,
     InProgress, TypeOK
<1>10. ASSUME NEW j \in Jobs, CrashInEnqueue(j) PROVE FinishedRowsKept
  BY <1>10, <1>t, <1>i, TerminalStatuses DEF CrashInEnqueue, ProcessLost,
     rowVars, FinishedRowsKept, ControllerMeansRunning, PoolWorkIsInProgress,
     InProgress, TypeOK
<1>11. ASSUME NEW j \in Jobs, NEW s \in Sockets, Connect(s, j) PROVE FinishedRowsKept
  BY <1>11, <1>t, <1>i, TerminalStatuses DEF Connect, rowVars,
     FinishedRowsKept, ControllerMeansRunning, PoolWorkIsInProgress,
     InProgress, TypeOK
<1>12. ASSUME NEW s \in Sockets, SocketCloses(s) PROVE FinishedRowsKept
  BY <1>12, <1>t, <1>i, TerminalStatuses DEF SocketCloses, rowVars,
     FinishedRowsKept, ControllerMeansRunning, PoolWorkIsInProgress,
     InProgress, TypeOK
<1>13. ASSUME Crash PROVE FinishedRowsKept
  BY <1>13, <1>t, <1>i, TerminalStatuses DEF Crash, ProcessLost, rowVars,
     FinishedRowsKept, ControllerMeansRunning, PoolWorkIsInProgress,
     InProgress, TypeOK
<1>14. ASSUME Restart PROVE FinishedRowsKept
  BY <1>14, <1>t, <1>i, TerminalStatuses DEF Restart, rowVars,
     FinishedRowsKept, ControllerMeansRunning, PoolWorkIsInProgress,
     InProgress, TypeOK
<1>15. ASSUME UNCHANGED vars PROVE FinishedRowsKept
  BY <1>15, <1>t, <1>i, TerminalStatuses DEF vars, rowVars, FinishedRowsKept,
     ControllerMeansRunning, PoolWorkIsInProgress, InProgress, TypeOK
<1> QED BY <1>1, <1>2, <1>3, <1>4, <1>5, <1>6, <1>7, <1>8, <1>9, <1>10, <1>11,
   <1>12, <1>13, <1>14, <1>15 DEF Next

(* A finished row is never written again. *)
THEOREM FinishedRowsStay == Spec => TerminalRowsAreFrozen
<1>1. IInv /\ [Next]_vars => [FinishedRowsKept]_vars
  BY FrozenStep
<1> QED BY <1>1, InvariantHolds, PTL DEF Spec, TerminalRowsAreFrozen

(* The runner's steps are steps of JobLifecycle, or leave its variables as  *)
(* they are.                                                               *)
LEMMA LifecycleStep ==
    IInv /\ [Next]_vars => [Lifecycle!Next]_<<status, acked>>
<1> DEFINE Goal == [Lifecycle!Next]_<<status, acked>>
<1> SUFFICES ASSUME IInv, [Next]_vars PROVE Goal
  OBVIOUS
<1>t. TypeOK
  BY DEF IInv
<1>i. ControllerMeansRunning /\ PoolWorkIsInProgress /\ AbortedWasAcked
  BY DEF IInv
<1>1. ASSUME NEW j \in Jobs, Enqueue(j) PROVE Goal
  BY <1>1, <1>t, <1>i, TerminalStatuses DEF Enqueue, rowVars, Lifecycle!Next,
     Lifecycle!Create, Lifecycle!Acknowledge, Lifecycle!Finish,
     Lifecycle!AcknowledgeAndFinish, Lifecycle!Terminal,
     ControllerMeansRunning, PoolWorkIsInProgress, AbortedWasAcked, InProgress,
     TypeOK
<1>2. ASSUME NEW j \in Jobs, NEW p \in Percents, Progress(j, p) PROVE Goal
  BY <1>2, <1>t, <1>i, TerminalStatuses DEF Progress, rowVars, Lifecycle!Next,
     Lifecycle!Create, Lifecycle!Acknowledge, Lifecycle!Finish,
     Lifecycle!AcknowledgeAndFinish, Lifecycle!Terminal,
     ControllerMeansRunning, PoolWorkIsInProgress, AbortedWasAcked, InProgress,
     TypeOK
<1>3. ASSUME NEW j \in Jobs, HandlerSettles(j) PROVE Goal
  <2>1. PICK st \in Terminal :
          Settle(j, st) /\ (st = "canceled" => controllers[j] = "aborted")
    BY <1>3 DEF HandlerSettles
  <2>2. controllers[j] # "none" /\ (st = "canceled" => j \in acked)
    <3>1. j \in InProgress
      BY <1>3 DEF HandlerSettles
    <3>2. controllers[j] # "none"
      BY <3>1 DEF InProgress
    <3>3. controllers[j] = "aborted" => j \in acked
      BY <1>i DEF AbortedWasAcked
    <3> QED BY <2>1, <3>2, <3>3
  <2>3. Settled(j, st)
    BY <1>t, <2>1, SettleEffects
  <2> QED BY <1>3, <1>t, <1>i, <2>1, <2>2, <2>3, TerminalStatuses DEF
     HandlerSettles, Settled, Lifecycle!Next, Lifecycle!Create,
     Lifecycle!Acknowledge, Lifecycle!Finish, Lifecycle!AcknowledgeAndFinish,
     Lifecycle!Terminal, ControllerMeansRunning, PoolWorkIsInProgress,
     AbortedWasAcked, InProgress, TypeOK
<1>4. ASSUME NEW j \in Jobs, Cancel(j) PROVE Goal
  <2>1. CASE j \in Handled
    BY <1>4, <1>t, <1>i, <2>1, TerminalStatuses DEF Cancel, rowVars,
       Lifecycle!Next, Lifecycle!Create, Lifecycle!Acknowledge,
       Lifecycle!Finish, Lifecycle!AcknowledgeAndFinish, Lifecycle!Terminal,
       ControllerMeansRunning, PoolWorkIsInProgress, AbortedWasAcked,
       InProgress, TypeOK
  <2>2. CASE j \notin Handled
    <3>1. Settle(j, "canceled") /\ controllers[j] # "none" /\ acked' = acked \union {j}
      BY <1>4, <2>2 DEF Cancel, InProgress
    <3>2. Settled(j, "canceled")
      BY <1>t, <3>1, SettleEffects, TerminalStatuses
    <3> QED BY <1>t, <1>i, <3>1, <3>2, TerminalStatuses DEF Settled,
       Lifecycle!Next, Lifecycle!Create, Lifecycle!Acknowledge,
       Lifecycle!Finish, Lifecycle!AcknowledgeAndFinish, Lifecycle!Terminal,
       ControllerMeansRunning, PoolWorkIsInProgress, AbortedWasAcked,
       InProgress, TypeOK
  <2> QED BY <2>1, <2>2
<1>5. ASSUME NEW j \in Jobs, PoolStarts(j) PROVE Goal
  BY <1>5, <1>t, <1>i, TerminalStatuses DEF PoolStarts, rowVars,
     Lifecycle!Next, Lifecycle!Create, Lifecycle!Acknowledge, Lifecycle!Finish,
     Lifecycle!AcknowledgeAndFinish, Lifecycle!Terminal,
     ControllerMeansRunning, PoolWorkIsInProgress, AbortedWasAcked, InProgress,
     TypeOK
<1>6. ASSUME NEW j \in Jobs, WorkerPosts(j) PROVE Goal
  BY <1>6, <1>t, <1>i, TerminalStatuses DEF WorkerPosts, rowVars,
     Lifecycle!Next, Lifecycle!Create, Lifecycle!Acknowledge, Lifecycle!Finish,
     Lifecycle!AcknowledgeAndFinish, Lifecycle!Terminal,
     ControllerMeansRunning, PoolWorkIsInProgress, AbortedWasAcked, InProgress,
     TypeOK
<1>7. ASSUME NEW j \in Jobs, WorkerEnds(j) PROVE Goal
  BY <1>7, <1>t, <1>i, TerminalStatuses DEF WorkerEnds, rowVars,
     Lifecycle!Next, Lifecycle!Create, Lifecycle!Acknowledge, Lifecycle!Finish,
     Lifecycle!AcknowledgeAndFinish, Lifecycle!Terminal,
     ControllerMeansRunning, PoolWorkIsInProgress, AbortedWasAcked, InProgress,
     TypeOK
<1>8. ASSUME NEW j \in Jobs, PortDelivers(j) PROVE Goal
  BY <1>8, <1>t, <1>i, TerminalStatuses DEF PortDelivers, rowVars,
     Lifecycle!Next, Lifecycle!Create, Lifecycle!Acknowledge, Lifecycle!Finish,
     Lifecycle!AcknowledgeAndFinish, Lifecycle!Terminal,
     ControllerMeansRunning, PoolWorkIsInProgress, AbortedWasAcked, InProgress,
     TypeOK
<1>9. ASSUME NEW j \in Jobs, PoolAnswers(j) PROVE Goal
  <2>1. PICK st \in Terminal :
          Settle(j, st) /\ controllers[j] # "none" /\ st # "canceled"
    BY <1>9, <1>i, TerminalStatuses DEF PoolAnswers, InProgress,
       PoolWorkIsInProgress
  <2>2. Settled(j, st)
    BY <1>t, <2>1, SettleEffects
  <2> QED BY <1>9, <1>t, <1>i, <2>1, <2>2, TerminalStatuses DEF PoolAnswers,
     Settled, Lifecycle!Next, Lifecycle!Create, Lifecycle!Acknowledge,
     Lifecycle!Finish, Lifecycle!AcknowledgeAndFinish, Lifecycle!Terminal,
     ControllerMeansRunning, PoolWorkIsInProgress, AbortedWasAcked, InProgress,
     TypeOK
<1>10. ASSUME NEW j \in Jobs, CrashInEnqueue(j) PROVE Goal
  BY <1>10, <1>t, <1>i, TerminalStatuses DEF CrashInEnqueue, ProcessLost,
     rowVars, Lifecycle!Next, Lifecycle!Create, Lifecycle!Acknowledge,
     Lifecycle!Finish, Lifecycle!AcknowledgeAndFinish, Lifecycle!Terminal,
     ControllerMeansRunning, PoolWorkIsInProgress, AbortedWasAcked, InProgress,
     TypeOK
<1>11. ASSUME NEW j \in Jobs, NEW s \in Sockets, Connect(s, j) PROVE Goal
  BY <1>11, <1>t, <1>i, TerminalStatuses DEF Connect, rowVars, Lifecycle!Next,
     Lifecycle!Create, Lifecycle!Acknowledge, Lifecycle!Finish,
     Lifecycle!AcknowledgeAndFinish, Lifecycle!Terminal,
     ControllerMeansRunning, PoolWorkIsInProgress, AbortedWasAcked, InProgress,
     TypeOK
<1>12. ASSUME NEW s \in Sockets, SocketCloses(s) PROVE Goal
  BY <1>12, <1>t, <1>i, TerminalStatuses DEF SocketCloses, rowVars,
     Lifecycle!Next, Lifecycle!Create, Lifecycle!Acknowledge, Lifecycle!Finish,
     Lifecycle!AcknowledgeAndFinish, Lifecycle!Terminal,
     ControllerMeansRunning, PoolWorkIsInProgress, AbortedWasAcked, InProgress,
     TypeOK
<1>13. ASSUME Crash PROVE Goal
  BY <1>13, <1>t, <1>i, TerminalStatuses DEF Crash, ProcessLost, rowVars,
     Lifecycle!Next, Lifecycle!Create, Lifecycle!Acknowledge, Lifecycle!Finish,
     Lifecycle!AcknowledgeAndFinish, Lifecycle!Terminal,
     ControllerMeansRunning, PoolWorkIsInProgress, AbortedWasAcked, InProgress,
     TypeOK
<1>14. ASSUME Restart PROVE Goal
  BY <1>14, <1>t, <1>i, TerminalStatuses DEF Restart, rowVars, Lifecycle!Next,
     Lifecycle!Create, Lifecycle!Acknowledge, Lifecycle!Finish,
     Lifecycle!AcknowledgeAndFinish, Lifecycle!Terminal,
     ControllerMeansRunning, PoolWorkIsInProgress, AbortedWasAcked, InProgress,
     TypeOK
<1>15. ASSUME UNCHANGED vars PROVE Goal
  BY <1>15, <1>t, <1>i, TerminalStatuses DEF vars, rowVars, Lifecycle!Next,
     Lifecycle!Create, Lifecycle!Acknowledge, Lifecycle!Finish,
     Lifecycle!AcknowledgeAndFinish, Lifecycle!Terminal,
     ControllerMeansRunning, PoolWorkIsInProgress, AbortedWasAcked, InProgress,
     TypeOK
<1> QED BY <1>1, <1>2, <1>3, <1>4, <1>5, <1>6, <1>7, <1>8, <1>9, <1>10, <1>11,
   <1>12, <1>13, <1>14, <1>15 DEF Next

(* The runner implements the life cycle. *)
THEOREM RunnerImplementsLifecycle == Spec => ImplementsLifecycle
<1>1. Init => Lifecycle!Init
  BY DEF Init, Lifecycle!Init
<1> QED
  BY <1>1, LifecycleStep, InvariantHolds, PTL
  DEF Spec, ImplementsLifecycle, Lifecycle!Spec, Lifecycle!lifecycleVars

===============================================================================
