--------------------------- MODULE TaskLifecycle ---------------------------
(***************************************************************************)
(* What the AgentTask controller promises of one task: the life cycle that *)
(* the comment above Reconcile draws (agenttask_controller.go:91-102),     *)
(* with the retry budget of AgentTaskSpec.MaxRetries.  Only the durable    *)
(* facts of the status are kept: the phase, the retry count and whether    *)
(* the status names a pull request.  AgentTaskController implements it.    *)
(***************************************************************************)
EXTENDS TaskTypes

VARIABLES phase, retryCount, hasPR

lifecycleVars == <<phase, retryCount, hasPR>>

LifecycleTypeOK ==
    /\ phase \in Phases
    /\ retryCount \in RetryCounts
    /\ hasPR \in BOOLEAN

-----------------------------------------------------------------------------
LifecycleInit ==
    /\ phase = Unset
    /\ retryCount = 0
    /\ ~hasPR

MoveTo(to) == phase' = to /\ UNCHANGED <<retryCount, hasPR>>

Admit == phase = Unset /\ MoveTo("Pending")

Launch == phase = "Pending" /\ MoveTo("Running")

\* The pod ended before the worker's answer could be read.
LoseWorker == phase = "Running" /\ MoveTo("Failed")

PodExits == phase = "Running" /\ MoveTo("Completed")

\* The worker reported; its report may name the pull request, never unname it.
Report ==
    /\ phase = "Running"
    /\ phase' \in {"Running", "Failed", "WaitingForPR"}
    /\ hasPR' \in {TRUE, hasPR}
    /\ UNCHANGED retryCount

\* The same branch and pull request are kept for the next attempt.
Retry ==
    /\ phase = "Failed"
    /\ CanRetry(retryCount)
    /\ phase' = "Pending"
    /\ retryCount' = retryCount + 1
    /\ UNCHANGED hasPR

\* Only a task that names a pull request can wait for it or see it merged.
Await ==
    /\ phase \in {"Completed", "WaitingForPR"}
    /\ hasPR
    /\ phase' \in {"WaitingForPR", "Merged"}
    /\ UNCHANGED <<retryCount, hasPR>>

Close == phase \in {"Completed", "WaitingForPR"} /\ MoveTo("Closed")

LifecycleNext ==
    \/ Admit
    \/ Launch
    \/ LoseWorker
    \/ PodExits
    \/ Report
    \/ Retry
    \/ Await
    \/ Close

LifecycleSpec == LifecycleInit /\ [][LifecycleNext]_lifecycleVars
=============================================================================
