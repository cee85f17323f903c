---------------------------- MODULE WorkerPromise ----------------------------
(***************************************************************************)
(* What the operator may expect of the workers of one task and of the pull *)
(* request of their branch.  AgentTaskController takes its workers' steps  *)
(* from this module; WorkerRun, the detailed model of a run, implements    *)
(* it.  The two together say what operator and worker do side by side.     *)
(***************************************************************************)
CONSTANT Workers

VARIABLES
    work,      \* what each worker answers to GET /status
    knowsPR,   \* the workers that hold the pull request's URL
    pr         \* the newest pull request of the task's branch

promiseVars == <<work, knowsPR, pr>>

Outcomes == {"Succeeded", "Incomplete", "Failed"}

PromiseInit ==
    /\ work = [w \in Workers |-> "none"]
    /\ knowsPR = {}
    /\ pr = "none"

Answers(w, phase) == work' = [work EXCEPT ![w] = phase]

\* lifespan takes the task from the pod's environment.
Starts(w) == work[w] = "none" /\ Answers(w, "Running") /\ UNCHANGED <<knowsPR, pr>>

\* A branch has at most one open pull request.
CanOpenPR(w) ==
    work[w] = "Running" /\ w \notin knowsPR /\ pr \in {"none", "merged", "closed"}

OpensPR(w) ==
    /\ CanOpenPR(w)
    /\ pr' = "draft"
    /\ knowsPR' = knowsPR \cup {w}
    /\ UNCHANGED work

\* The pull request is created, but the call fails after that: its URL is lost.
LosesPR(w) ==
    /\ CanOpenPR(w)
    /\ pr' = "draft"
    /\ Answers(w, "Failed")
    /\ UNCHANGED knowsPR

\* Without the URL of a pull request the run can only fail.
Ends(w) ==
    /\ work[w] = "Running"
    /\ \E outcome \in Outcomes :
          (outcome # "Failed" => w \in knowsPR) /\ Answers(w, outcome)
    /\ UNCHANGED <<knowsPR, pr>>

\* The operator creates the worker's pod, with or without the URL, or it is lost.
Replaced(w) ==
    /\ Answers(w, "none")
    /\ knowsPR' \in {knowsPR \cup {w}, knowsPR \ {w}}
    /\ UNCHANGED pr

\* Only what a succeeded worker made is offered for review.
Finalized(w) ==
    /\ work[w] = "Succeeded" /\ w \in knowsPR
    /\ pr = "draft" /\ pr' = "ready"
    /\ UNCHANGED <<work, knowsPR>>

\* A human merges it, having marked it ready if need be, or closes it.
Decided ==
    /\ pr \in {"draft", "ready", "reopened"}
    /\ pr' \in {"merged", "closed"}
    /\ UNCHANGED <<work, knowsPR>>

\* A human opens it again, as a draft or not.
Reopened == pr = "closed" /\ pr' = "reopened" /\ UNCHANGED <<work, knowsPR>>

PromiseNext ==
    \/ \E w \in Workers :
          Starts(w) \/ OpensPR(w) \/ LosesPR(w) \/ Ends(w) \/ Replaced(w) \/ Finalized(w)
    \/ Decided \/ Reopened

PromiseSpec == PromiseInit /\ [][PromiseNext]_promiseVars
=============================================================================
