---------------------------- MODULE JobLifecycle ----------------------------
(***************************************************************************)
(* What the `jobs` table promises the rest of the program, without saying  *)
(* how jobs run: a row is created once, finishes at most once, and is      *)
(* `canceled' only if somebody asked for that and was told the request was *)
(* taken (core/src/types/job.ts, JobStatus).                               *)
(***************************************************************************)
CONSTANT Jobs               \* identities of the jobs ever enqueued

VARIABLES
    status,                 \* status[j]: the row's status, "absent" before the insert
    acked                   \* jobs whose cancellation was acknowledged

lifecycleVars == <<status, acked>>

Terminal == {"succeeded", "failed", "canceled"}
JobStatus == {"queued", "running"} \union Terminal

Init ==
    /\ status = [j \in Jobs |-> "absent"]
    /\ acked = {}

Create(j) ==
    /\ status[j] = "absent"
    /\ \E st \in {"queued", "running"} : status' = [status EXCEPT ![j] = st]
    /\ UNCHANGED acked

Acknowledge(j) ==
    /\ status[j] = "running"
    /\ acked' = acked \union {j}
    /\ UNCHANGED status

Finish(j) ==
    /\ status[j] = "running"
    /\ \E st \in Terminal :
          /\ st = "canceled" => j \in acked
          /\ status' = [status EXCEPT ![j] = st]
    /\ UNCHANGED acked

(* A request that is taken and honoured before anything else can happen. *)
AcknowledgeAndFinish(j) ==
    /\ status[j] = "running"
    /\ acked' = acked \union {j}
    /\ status' = [status EXCEPT ![j] = "canceled"]

Next == \E j \in Jobs : Create(j) \/ Acknowledge(j) \/ Finish(j) \/ AcknowledgeAndFinish(j)

Spec == Init /\ [][Next]_lifecycleVars
=============================================================================
