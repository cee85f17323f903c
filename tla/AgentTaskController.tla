------------------------ MODULE AgentTaskController ------------------------
(***************************************************************************)
(* AgentTaskReconciler and what it works on, for one AgentTask.            *)
(*                                                                         *)
(* A reconcile is a handler cut at its calls to the API server, to the     *)
(* worker pod and to the pod cache: between two steps the pods, the        *)
(* worker, the humans and the informers move, and the operator may crash.  *)
(* Everything the handler carries from step to step is in op, and is lost  *)
(* with the process; task is what the API server keeps.                    *)
(*                                                                         *)
(* The worker's run is abstracted to its outcome, GitHub to the state of   *)
(* the task's pull request, Elasticsearch to where the task's memory is.   *)
(* Messages, timestamps, progress and failure reasons are left out.        *)
(***************************************************************************)
EXTENDS TaskTypes, FiniteSets

CONSTANTS
    Faults,        \* the kinds of failure that can happen in this instance
    MaxFaults,     \* how many of them can
    PodCacheLag    \* whether reads of pods may lag behind the API server

FaultKinds == {"api",     \* a write or delete fails, or lands without an answer
               "http",    \* a call to the worker fails, before or after its effect
               "evict",   \* a worker pod is evicted, crashes or is drained
               "github",  \* GitHub fails a call of the worker
               "agent",   \* the Agent is missing when it is looked up
               "edit",    \* a user edits the AgentTask's spec
               "crash"}   \* the operator crashes and restarts

ASSUME FaultsAreKinds == Faults \subseteq FaultKinds
ASSUME MaxFaultsIsNat == MaxFaults \in Nat
ASSUME PodCacheLagIsBoolean == PodCacheLag \in BOOLEAN

VARIABLES
    task,        \* the AgentTask's status in the API server
    cache,       \* the operator's informer copy of it
    cacheFresh,  \* that copy has the current resourceVersion
    pod,         \* phase of the pod of each attempt in the API server
    deleting,    \* the pods that have a deletion timestamp
    seen,        \* the operator's informer copy of pod
    work,        \* what each attempt's worker answers to GET /status
    knowsPR,     \* the attempts whose worker holds the pull request's URL
    deaf,        \* the attempts whose worker refuses its payload
    pr,          \* the pull request of the task's branch on GitHub
    memory,      \* where the task's memory documents are
    queued,      \* the task's key is in the work queue
    delay,       \* why the key waits in the delaying queue
    op,          \* the reconcile in progress
    faults       \* failures so far

apiVars == <<task, cache, cacheFresh>>
podVars == <<pod, deleting, seen>>
workerVars == <<work, knowsPR, deaf>>
worldVars == <<pr, memory>>
queueVars == <<queued, delay>>
vars == <<apiVars, podVars, workerVars, worldVars, queueVars, op, faults>>

-----------------------------------------------------------------------------
(* Types *)

\* The pod of attempt n is named by its retry count: worker-<task>[-r<n>].
Attempts == RetryCounts
NoPod == -1

PodPhases == {"absent", "Pending", "Running", "Succeeded", "Failed"}
\* reopened is open again: a human has seen whether as a draft or not.
PRStates == {"none", "draft", "ready", "merged", "closed", "reopened"}
Outcomes == {"Succeeded", "Incomplete", "Failed"}
WorkStates == {"none", "Running"} \cup Outcomes

Status == [phase : Phases, retryCount : RetryCounts,
           workerPod : Attempts \cup {NoPod}, hasPR : BOOLEAN,
           prState : {Unset, "open", "merged", "closed", "error"}]

NewTask == [phase |-> Unset, retryCount |-> 0, workerPod |-> NoPod,
            hasPR |-> FALSE, prState |-> Unset]

\* How a reconcile returns, and how if its status update returns an error.
Results == {"done", "requeue", "poll", "backoff"}

PCs == {"idle", "dispatch", "create", "query", "finalize", "update",
        "closeNoPR", "cleanupLast", "prquery", "graduate", "cleanup"}

Reconciles == [pc : PCs, status : Status, worker : Attempts \cup {NoPod},
               fresh : BOOLEAN, result : Results, onError : Results]

\* status is what the next update writes; worker is the pod named by the
\* status that was read, which the handler polls and cleans up.
Idle == [pc |-> "idle", status |-> NewTask, worker |-> NoPod, fresh |-> FALSE,
         result |-> "done", onError |-> "done"]

TypeOK ==
    /\ task \in Status
    /\ cache \in Status
    /\ cacheFresh \in BOOLEAN
    /\ pod \in [Attempts -> PodPhases]
    /\ deleting \subseteq Attempts
    /\ seen \in [Attempts -> PodPhases]
    /\ work \in [Attempts -> WorkStates]
    /\ knowsPR \subseteq Attempts
    /\ deaf \subseteq Attempts
    /\ pr \in PRStates
    /\ memory \in {"empty", "task", "graduated"}
    /\ queued \in BOOLEAN
    /\ delay \in {"none", "poll", "backoff"}
    /\ op \in Reconciles
    /\ faults \in 0..MaxFaults

-----------------------------------------------------------------------------
(* Helpers *)

Fault(kind) == kind \in Faults /\ faults < MaxFaults /\ faults' = faults + 1

NoFault == UNCHANGED faults

\* The pod phase that a Get through the informer cache returns.
Seen(p) == IF p = NoPod THEN "absent" ELSE seen[p]

\* Without lag the informer follows the API server at once; with it, PodEvent
\* brings the change and its event later.
PodsBecome(pods) ==
    /\ pod' = pods
    /\ IF PodCacheLag THEN UNCHANGED <<seen, queued>>
                      ELSE seen' = pods /\ queued' = TRUE

\* The next step of the reconcile with this status in hand.
Goto(pc, status) == op' = [op EXCEPT !.pc = pc, !.status = status]

\* The next step is the status update; then the reconcile returns.
Save(pc, status, result, onError) ==
    op' = [op EXCEPT !.pc = pc, !.status = status,
                     !.result = result, !.onError = onError]

\* Mutant: a poll is not asked for.
ReturnWithoutPoll(result) ==
    /\ op' = Idle
    /\ queued' = (queued \/ result = "requeue")
    /\ delay' \in IF result = "backoff" THEN {result} ELSE {delay}

\* Of two delayed adds of one key the earlier is kept, whichever that is.
Return(result) ==
    /\ op' = Idle
    /\ queued' = (queued \/ result = "requeue")
    /\ delay' \in IF result \in {"poll", "backoff"}
                  THEN {result} \cup ({delay} \ {"none"})
                  ELSE {delay}

\* A call to the worker's HTTP API reaches it: the pod runs and the worker
\* has a status for the task (it answers 404 until it has).
Answers(p) == p # NoPod /\ pod[p] = "Running" /\ work[p] # "none"

-----------------------------------------------------------------------------
Init ==
    /\ task = NewTask
    /\ cache = NewTask
    /\ cacheFresh = TRUE
    /\ pod = [a \in Attempts |-> "absent"]
    /\ deleting = {}
    /\ seen = pod
    /\ work = [a \in Attempts |-> "none"]
    /\ knowsPR = {}
    /\ deaf = {}
    /\ pr = "none"
    /\ memory = "empty"
    /\ queued = TRUE
    /\ delay = "none"
    /\ op = Idle
    /\ faults = 0

-----------------------------------------------------------------------------
(* Reconcile: one worker takes the key and reads the task from the cache. *)

Dequeue ==
    /\ op.pc = "idle"
    /\ queued
    /\ queued' = FALSE
    /\ op' = [Idle EXCEPT !.pc = "dispatch", !.status = cache,
                          !.worker = cache.workerPod, !.fresh = cacheFresh]
    /\ UNCHANGED <<apiVars, podVars, workerVars, worldVars, delay, faults>>

\* The switch of Reconcile; each handler below starts from it.
Handling(phases) == op.pc = "dispatch" /\ op.status.phase \in phases

\* A step of a handler that only moves the reconcile along.
Local == UNCHANGED <<apiVars, podVars, workerVars, worldVars, queueVars>>

Initialize ==
    /\ Handling({Unset})
    /\ Save("update", [op.status EXCEPT !.phase = "Pending"], "requeue", "requeue")
    /\ NoFault /\ Local

ReconcileTerminal ==
    /\ Handling(TerminalPhases)
    /\ Return("done")
    /\ NoFault /\ UNCHANGED <<apiVars, podVars, workerVars, worldVars>>

-----------------------------------------------------------------------------
(* Status().Update, with the resourceVersion the reconcile read. *)

\* A write that changes no field keeps the resourceVersion and sends no
\* event; fields that are not modelled may change, so it may also get a new one.
WriteStatus(status) ==
    /\ task' = status
    /\ cacheFresh' \in IF status = task THEN {cacheFresh, FALSE} ELSE {FALSE}
    /\ UNCHANGED cache

\* Mutant: the update ignores the resourceVersion.
StatusOverwritten == WriteStatus(op.status) /\ NoFault

StatusStored ==
    /\ op.fresh
    /\ WriteStatus(op.status)
    /\ NoFault

\* Mutant: a conflict is answered by writing once more, over what is there.
StatusConflictForced == ~op.fresh /\ NoFault /\ WriteStatus(op.status)

StatusConflict ==
    /\ ~op.fresh
    /\ NoFault /\ UNCHANGED apiVars

\* The call fails, or the write lands and its answer is lost.
StatusCallFails ==
    /\ Fault("api")
    /\ \/ UNCHANGED apiVars
       \/ op.fresh /\ WriteStatus(op.status)

Update ==
    /\ op.pc = "update"
    /\ \/ StatusStored /\ Return(op.result)
       \/ StatusConflict /\ Return(op.onError)
       \/ StatusCallFails /\ Return(op.onError)
    /\ UNCHANGED <<podVars, workerVars, worldVars>>

-----------------------------------------------------------------------------
(* handlePending *)

\* The Agent is not found: only the message changes.
PendingNoAgent ==
    /\ Handling({"Pending"})
    /\ Fault("agent")
    /\ Save("update", op.status, "poll", "poll")
    /\ Local

PendingLaunch ==
    /\ Handling({"Pending"})
    /\ Goto("create", op.status)
    /\ NoFault /\ Local

\* The status that follows a pod for this attempt, new or adopted.
Launched(status) ==
    [status EXCEPT !.phase = "Running", !.workerPod = status.retryCount]

\* Mutant: the pull request is left out of the payload.
PayloadWithoutPR(a) == knowsPR' = knowsPR \ {a}

\* A new pod's worker gets the pull request named in the status it was
\* built from.
PayloadPR(a) ==
    knowsPR' = IF op.status.hasPR THEN knowsPR \cup {a} ELSE knowsPR \ {a}

\* If neither the Agent nor the task names a skill at this moment, the payload
\* says null, which the worker refuses: it never has a status for the task.
PayloadSkills(a) == deaf' \in {deaf \cup {a}, deaf \ {a}}

PodCreated(a) ==
    /\ pod[a] = "absent"
    /\ PodsBecome([pod EXCEPT ![a] = "Pending"])
    /\ work' = [work EXCEPT ![a] = "none"]
    /\ PayloadPR(a)
    /\ PayloadSkills(a)
    /\ UNCHANGED deleting

PodAlreadyExists(a) ==
    /\ pod[a] # "absent"
    /\ UNCHANGED <<podVars, workerVars, queued>>

CreatePod ==
    /\ op.pc = "create"
    /\ LET a == op.status.retryCount IN
       \/ /\ PodCreated(a) \/ PodAlreadyExists(a)
          /\ Save("update", Launched(op.status), "poll", "requeue")
          /\ NoFault
       \/ /\ Fault("api")
          /\ PodCreated(a) \/ UNCHANGED <<podVars, workerVars, queued>>
          /\ Save("update", op.status, "poll", "poll")
    /\ UNCHANGED <<apiVars, worldVars, delay>>

-----------------------------------------------------------------------------
(* handleRunning *)

RunningPod(podPhases) ==
    Handling({"Running"}) /\ Seen(op.worker) \in podPhases

RunningPodLost ==
    /\ RunningPod({"absent", "Failed"})
    /\ Save("update", [op.status EXCEPT !.phase = "Failed"], "requeue", "requeue")
    /\ NoFault /\ Local

\* The error of this update is dropped and nothing is requeued.
RunningPodSucceeded ==
    /\ RunningPod({"Succeeded"})
    /\ Save("update", [op.status EXCEPT !.phase = "Completed"], "done", "done")
    /\ NoFault /\ Local

\* Mutant: nothing makes the operator look again.
RunningPodNotReadyDone ==
    /\ RunningPod({"Pending"})
    /\ Return("done")
    /\ NoFault /\ UNCHANGED <<apiVars, podVars, workerVars, worldVars>>

RunningPodNotReady ==
    /\ RunningPod({"Pending"})
    /\ Return("poll")
    /\ NoFault /\ UNCHANGED <<apiVars, podVars, workerVars, worldVars>>

RunningPodReady ==
    /\ RunningPod({"Running"})
    /\ Goto("query", op.status)
    /\ NoFault /\ Local

\* The git and GitHub calls of run_task block the worker's event loop, so one
\* that is still running may fail to answer though nothing is wrong.
QueryFails ==
    /\ op.pc = "query"
    /\ \/ ~Answers(op.worker) /\ NoFault
       \/ Answers(op.worker) /\ work[op.worker] = "Running" /\ NoFault
       \/ Answers(op.worker) /\ Fault("http")
    /\ Return("poll")
    /\ UNCHANGED <<apiVars, podVars, workerVars, worldVars>>

\* Mutant: the URL is taken from a success only.
LearnedFromSuccess(status, p) ==
    [status EXCEPT !.hasPR = @ \/ (work[p] = "Succeeded" /\ p \in knowsPR)]

\* Mutant: an answer without a URL takes the URL away.
LearnedAsReported(status, p) ==
    [status EXCEPT !.hasPR = work[p] \in Outcomes /\ p \in knowsPR]

\* A worker names its pull request only in the status it ends with.
Learned(status, p) ==
    [status EXCEPT !.hasPR = @ \/ (work[p] \in Outcomes /\ p \in knowsPR)]

\* Mutant: an incomplete run counts as a success.
SuccessOrIncomplete == {"Succeeded", "Incomplete"}

SuccessReplies == {"Succeeded"}

QueryAnswered ==
    /\ op.pc = "query"
    /\ Answers(op.worker)
    /\ LET reply == work[op.worker]
           status == Learned(op.status, op.worker)
       IN \/ /\ reply = "Running"
             /\ Save("update", status, "poll", "requeue")
          \/ /\ reply \in SuccessReplies
             /\ Save("finalize", [status EXCEPT !.phase = "WaitingForPR",
                                                !.prState = "open"],
                     "done", "requeue")
          \/ /\ reply \in Outcomes \ SuccessReplies
             /\ Save("update", [status EXCEPT !.phase = "Failed"],
                     "requeue", "requeue")
    /\ NoFault /\ Local

\* Mutant: finalize refuses the phase it should accept.
MarkReadyUnlessSucceeded(p) ==
    pr' = IF Answers(p) /\ work[p] # "Succeeded" /\ p \in knowsPR /\ pr = "draft"
          THEN "ready" ELSE pr

\* Mutant: a pull request that was decided meanwhile is opened again.
MarkReadyAgain(p) ==
    pr' = IF Answers(p) /\ work[p] = "Succeeded" /\ p \in knowsPR THEN "ready" ELSE pr

\* POST /finalize: the worker marks its pull request ready.  Every error, of
\* the call or of GitHub, is dropped.
MarkReady(p) ==
    pr' = IF Answers(p) /\ work[p] = "Succeeded" /\ p \in knowsPR /\ pr = "draft"
          THEN "ready" ELSE pr

Finalize ==
    /\ op.pc = "finalize"
    /\ \/ MarkReady(op.worker) /\ NoFault
       \/ UNCHANGED pr /\ (Fault("http") \/ Fault("github"))
    /\ Goto("update", op.status)
    /\ UNCHANGED <<apiVars, podVars, workerVars, memory, queueVars>>

-----------------------------------------------------------------------------
(* cleanupWorkerPod *)

\* Nothing is deleted if the cache does not hold the pod; a Delete that fails
\* is logged and forgotten.
DeletePod(p) ==
    \/ /\ deleting' = IF Seen(p) # "absent" /\ pod[p] # "absent"
                      THEN deleting \cup {p} ELSE deleting
       /\ NoFault
    \/ /\ Seen(p) # "absent"
       /\ UNCHANGED deleting
       /\ Fault("api")

\* The deletion timestamp is an event of its own, which may come before or
\* together with the one of the removal.
DeletionEvent == queued' \in {queued, queued \/ deleting' # deleting}

\* handleFailed and handleWaitingForPR tear the pod down before they save.
Cleanup ==
    /\ op.pc = "cleanup"
    /\ DeletePod(op.worker)
    /\ DeletionEvent
    /\ Goto("update", op.status)
    /\ UNCHANGED <<apiVars, pod, seen, workerVars, worldVars, delay>>

-----------------------------------------------------------------------------
(* handleFailed *)

\* Mutant: the retry is not counted.
RetriedUncounted(status) ==
    [status EXCEPT !.phase = "Pending", !.workerPod = NoPod]

Retried(status) ==
    [status EXCEPT !.phase = "Pending", !.retryCount = @ + 1, !.workerPod = NoPod]

\* Mutant: the failed attempt's pod is left alone.
CleanupNever == "update"

CleanupFirst == IF op.worker = NoPod THEN "update" ELSE "cleanup"

FailedRetry ==
    /\ Handling({"Failed"})
    /\ CanRetry(op.status.retryCount)
    /\ Save(CleanupFirst, Retried(op.status), "backoff", "requeue")
    /\ NoFault /\ Local

\* Only the message changes; the error of this update is dropped.
FailedForGood ==
    /\ Handling({"Failed"})
    /\ ~CanRetry(op.status.retryCount)
    /\ Save(CleanupFirst, op.status, "done", "done")
    /\ NoFault /\ Local

-----------------------------------------------------------------------------
(* handleWaitingForPR, for the phases Completed and WaitingForPR *)

Waiting == Handling({"Completed", "WaitingForPR"})

Closed(status) == [status EXCEPT !.phase = "Closed"]

\* No pull request: save first (the error is dropped), clean up after.
WaitingWithoutPR ==
    /\ Waiting
    /\ ~op.status.hasPR
    /\ Goto("closeNoPR", Closed(op.status))
    /\ NoFault /\ Local

CloseWithoutPR ==
    /\ op.pc = "closeNoPR"
    /\ StatusStored \/ StatusConflict \/ StatusCallFails
    /\ Goto("cleanupLast", op.status)
    /\ UNCHANGED <<podVars, workerVars, worldVars, queueVars>>

CleanupLast ==
    /\ op.pc = "cleanupLast"
    /\ IF op.worker = NoPod THEN UNCHANGED deleting /\ NoFault
                            ELSE DeletePod(op.worker)
    /\ Return("done")
    /\ UNCHANGED <<apiVars, pod, seen, workerVars, worldVars>>

\* The pod that could be asked is gone: give up, dropping the update's error.
WaitingPodLost ==
    /\ Waiting
    /\ op.status.hasPR
    /\ Seen(op.worker) # "Running"
    /\ Save("update", Closed(op.status), "done", "done")
    /\ NoFault /\ Local

WaitingPodReady ==
    /\ Waiting
    /\ op.status.hasPR
    /\ Seen(op.worker) = "Running"
    /\ Goto("prquery", op.status)
    /\ NoFault /\ Local

PRQueryFails ==
    /\ op.pc = "prquery"
    /\ \/ ~Answers(op.worker) /\ NoFault
       \/ Answers(op.worker) /\ Fault("http")
    /\ Return("poll")
    /\ UNCHANGED <<apiVars, podVars, workerVars, worldVars>>

\* GET /pr-status: the state GitHub gives, "error" if it gives none, and
\* nothing at all if the worker holds no URL.
OpenStates == {"none", "draft", "ready", "reopened"}

\* Mutants: a closed pull request counts as merged, or as still open.
ReportedAsMerged == IF op.worker \notin knowsPR THEN Unset
                    ELSE IF pr \in OpenStates THEN "open" ELSE "merged"

ReportedAsOpen == IF op.worker \notin knowsPR THEN Unset
                  ELSE IF pr = "merged" THEN "merged" ELSE "open"

ReportedPRState == IF op.worker \notin knowsPR THEN Unset
                   ELSE IF pr \in OpenStates THEN "open" ELSE pr

PRQueryAnswered ==
    /\ op.pc = "prquery"
    /\ Answers(op.worker)
    /\ \E state \in {ReportedPRState, "error"} :
          LET status == [op.status EXCEPT !.prState = state] IN
          /\ IF state = "error" THEN Fault("github") ELSE NoFault
          /\ CASE state = "merged" ->
                    Save("graduate", [status EXCEPT !.phase = "Merged"],
                         "done", "requeue")
               [] state = "closed" ->
                    Save("graduate", Closed(status), "done", "requeue")
               [] OTHER ->
                    Save("update", [status EXCEPT !.phase = "WaitingForPR"],
                         "poll", "requeue")
    /\ Local

\* Mutant: only merged work is graduated.
GraduateMerged(p) ==
    memory' = IF Answers(p) /\ memory = "task" /\ pr = "merged"
              THEN "graduated" ELSE memory

\* POST /graduate: the task's memory moves to the shared index.  The answer
\* is not read, and an error is dropped.
GraduateMemory(p) ==
    memory' = IF Answers(p) /\ memory = "task" THEN "graduated" ELSE memory

Graduate ==
    /\ op.pc = "graduate"
    /\ \/ GraduateMemory(op.worker) /\ NoFault
       \/ UNCHANGED memory /\ Fault("http")
    /\ Goto("cleanup", op.status)
    /\ UNCHANGED <<apiVars, podVars, workerVars, pr, queueVars>>

-----------------------------------------------------------------------------
(* The work queue and the informers of the manager *)

\* Mutant: the event is not enqueued.
TaskEventIgnored ==
    /\ ~cacheFresh
    /\ cache' = task
    /\ cacheFresh' = TRUE
    /\ UNCHANGED <<task, podVars, workerVars, worldVars, queueVars, op, faults>>

\* Any change of the AgentTask is an event for its key.
TaskEvent ==
    /\ ~cacheFresh
    /\ cache' = task
    /\ cacheFresh' = TRUE
    /\ queued' = TRUE
    /\ UNCHANGED <<task, podVars, workerVars, worldVars, delay, op, faults>>

\* So is any change of a pod the AgentTask owns.
PodEvent(a) ==
    /\ seen[a] # pod[a]
    /\ seen' = [seen EXCEPT ![a] = pod[a]]
    /\ queued' = TRUE
    /\ UNCHANGED <<apiVars, pod, deleting, workerVars, worldVars, delay, op, faults>>

DelayExpires ==
    /\ delay # "none"
    /\ delay' = "none"
    /\ queued' = TRUE
    /\ UNCHANGED <<apiVars, podVars, workerVars, worldVars, op, faults>>

\* A new operator lists everything afresh and starts with an empty queue, to
\* which the list adds every task.
Crash ==
    /\ Fault("crash")
    /\ op' = Idle
    /\ cache' = task
    /\ cacheFresh' = TRUE
    /\ seen' = pod
    /\ queued' = TRUE
    /\ delay' = "none"
    /\ UNCHANGED <<task, pod, deleting, workerVars, worldVars>>

\* Somebody else writes the AgentTask: its resourceVersion moves on.
EditSpec ==
    /\ Fault("edit")
    /\ cacheFresh' = FALSE
    /\ op' = [op EXCEPT !.fresh = FALSE]
    /\ UNCHANGED <<task, cache, podVars, workerVars, worldVars, queueVars>>

-----------------------------------------------------------------------------
(* The kubelet and the pods *)

Live(a) == pod[a] \in {"Pending", "Running"}

KubeletStarts(a) ==
    /\ pod[a] = "Pending"
    /\ a \notin deleting
    /\ PodsBecome([pod EXCEPT ![a] = "Running"])
    /\ UNCHANGED <<apiVars, deleting, workerVars, worldVars, delay, op, faults>>

KubeletRemoves(a) ==
    /\ a \in deleting
    /\ PodsBecome([pod EXCEPT ![a] = "absent"])
    /\ deleting' = deleting \ {a}
    /\ UNCHANGED <<apiVars, workerVars, worldVars, delay, op, faults>>

\* Evicted or killed (Failed), stopped cleanly (Succeeded), or its node is gone.
PodDies(a) ==
    /\ Live(a)
    /\ Fault("evict")
    /\ \E phase \in {"Failed", "Succeeded", "absent"} :
          /\ PodsBecome([pod EXCEPT ![a] = phase])
          /\ deleting' = IF phase = "absent" THEN deleting \ {a} ELSE deleting
    /\ UNCHANGED <<apiVars, workerVars, worldVars, delay, op>>

-----------------------------------------------------------------------------
(* The worker, abstracted to what the controller can tell apart *)

WorkerActs(a) ==
    /\ pod[a] = "Running"
    /\ UNCHANGED <<apiVars, podVars, deaf, queueVars, op>>

\* What a worker does is what it promises, see WorkerPromise and WorkerRun.
Promise == INSTANCE WorkerPromise WITH Workers <- Attempts

WorkerStarts(a) ==
    /\ a \notin deaf
    /\ WorkerActs(a) /\ Promise!Starts(a) /\ UNCHANGED <<memory, faults>>

WorkerOpensPR(a) ==
    WorkerActs(a) /\ Promise!OpensPR(a) /\ UNCHANGED <<memory, faults>>

WorkerLosesPR(a) ==
    WorkerActs(a) /\ Promise!LosesPR(a) /\ Fault("github") /\ memory' = "task"

WorkerEnds(a) ==
    WorkerActs(a) /\ Promise!Ends(a) /\ memory' = "task" /\ UNCHANGED faults

-----------------------------------------------------------------------------
(* The humans who review the pull request *)

HumanActs == UNCHANGED <<apiVars, podVars, workerVars, memory, queueVars, op, faults>>

HumanMarksReady == pr = "draft" /\ pr' = "ready" /\ HumanActs
HumanMerges == pr \in {"ready", "reopened"} /\ pr' = "merged" /\ HumanActs
HumanCloses == pr \in {"draft", "ready", "reopened"} /\ pr' = "closed" /\ HumanActs
HumanReopens == pr = "closed" /\ pr' = "reopened" /\ HumanActs

-----------------------------------------------------------------------------
\* What one reconcile does after it has been dequeued.
Step ==
    \/ Initialize \/ ReconcileTerminal
    \/ PendingNoAgent \/ PendingLaunch \/ CreatePod
    \/ RunningPodLost \/ RunningPodSucceeded \/ RunningPodNotReady \/ RunningPodReady
    \/ QueryFails \/ QueryAnswered \/ Finalize
    \/ FailedRetry \/ FailedForGood
    \/ WaitingWithoutPR \/ CloseWithoutPR \/ CleanupLast
    \/ WaitingPodLost \/ WaitingPodReady
    \/ PRQueryFails \/ PRQueryAnswered \/ Graduate
    \/ Cleanup \/ Update

Events == TaskEvent \/ DelayExpires \/ \E a \in Attempts : PodEvent(a)

Kubelet == \E a \in Attempts : KubeletStarts(a) \/ KubeletRemoves(a) \/ PodDies(a)

Worker == \E a \in Attempts : WorkerStarts(a) \/ WorkerOpensPR(a)
                              \/ WorkerLosesPR(a) \/ WorkerEnds(a)

Human == HumanMarksReady \/ HumanMerges \/ HumanCloses \/ HumanReopens

Next == Dequeue \/ Step \/ Events \/ Crash \/ EditSpec \/ Kubelet \/ Worker \/ Human

Spec == Init /\ [][Next]_vars

-----------------------------------------------------------------------------
(* Fairness: the operator keeps its loops running, the informers deliver,  *)
(* the kubelet acts on its pods, and a worker that accepts its payload     *)
(* starts and ends its run.  Nothing is asked of the humans, nor that a    *)
(* worker opens a pull request.                                            *)

Fairness ==
    /\ WF_vars(Dequeue) /\ WF_vars(Step)
    /\ WF_vars(TaskEvent) /\ WF_vars(DelayExpires)
    /\ \A a \in Attempts :
          /\ WF_vars(PodEvent(a))
          /\ WF_vars(KubeletStarts(a)) /\ WF_vars(KubeletRemoves(a))
          /\ WF_vars(WorkerStarts(a)) /\ WF_vars(WorkerEnds(a))

FairSpec == Spec /\ Fairness

-----------------------------------------------------------------------------
(* Properties *)

Lifecycle == INSTANCE TaskLifecycle
    WITH phase <- task.phase, retryCount <- task.retryCount, hasPR <- task.hasPR

\* Every change the API server accepts is a move of the life cycle drawn above
\* Reconcile, and no retry is spent twice or beyond the budget, in spite of
\* stale caches, lost answers, restarts and concurrent edits.
ImplementsLifecycle == Lifecycle!LifecycleSpec

\* One move of the life cycle, or a write that leaves it where it is.
Moves(s, t) ==
    \/ /\ t.retryCount = s.retryCount /\ t.hasPR = s.hasPR
       /\ \/ t.phase = s.phase
          \/ <<s.phase, t.phase>> \in
                {<<Unset, "Pending">>, <<"Pending", "Running">>,
                 <<"Running", "Failed">>, <<"Running", "Completed">>,
                 <<"Completed", "Closed">>, <<"WaitingForPR", "Closed">>}
          \/ /\ s.phase \in {"Completed", "WaitingForPR"} /\ s.hasPR
             /\ t.phase \in {"WaitingForPR", "Merged"}
    \/ /\ s.phase = "Running" /\ t.phase \in {"Running", "Failed", "WaitingForPR"}
       /\ t.retryCount = s.retryCount /\ (s.hasPR => t.hasPR)
    \/ /\ s.phase = "Failed" /\ t.phase = "Pending" /\ CanRetry(s.retryCount)
       /\ t.retryCount = s.retryCount + 1 /\ t.hasPR = s.hasPR

\* What a reconcile is about to save is one move away from what is stored, for
\* as long as its resourceVersion is current: no step between its read and its
\* update leaves it with a status that was computed for another one.
Coherent ==
    /\ cacheFresh => cache = task
    /\ op.fresh /\ op.pc \in {"dispatch", "create", "query", "prquery"}
          => op.status = task
    /\ op.fresh /\ op.pc \in {"finalize", "update", "closeNoPR", "graduate", "cleanup"}
          => Moves(task, op.status)
    /\ op.pc = "create" => op.status.phase = "Pending"
    /\ op.pc = "query" => op.status.phase = "Running"
    /\ op.pc = "prquery" =>
          op.status.phase \in {"Completed", "WaitingForPR"} /\ op.status.hasPR

\* At most one worker can push to the branch: a pod that runs and is not being
\* deleted serves the current attempt, and an idle operator has left none for a
\* task that is over (cleanupWorkerPod in handleFailed and handleWaitingForPR).
NoStrayWorker ==
    \A a \in Attempts : Live(a) /\ a \notin deleting =>
        /\ a = task.retryCount
        /\ task.phase \in TerminalPhases => op.pc # "idle"

\* A task waits for a review only if the worker it names has succeeded: the
\* phase is never revived from a failed or a vanished attempt.
WaitingWorkerSucceeded ==
    task.phase = "WaitingForPR" =>
        task.workerPod # NoPod /\ work[task.workerPod] = "Succeeded"

\* Only a merge by a human makes a task Merged, also if the answer to the poll
\* is stored much later.
MergedMeansMerged == task.phase = "Merged" => pr = "merged"

\* The worker of the current attempt holds the pull request its task names, so
\* it pushes to that one and does not try to open another.
WorkerHoldsPR ==
    \A a \in Attempts :
        (Live(a) /\ a = task.retryCount /\ task.hasPR) => a \in knowsPR

Settled == \/ task.phase \in TerminalPhases
           \/ task.phase = "Failed" /\ ~CanRetry(task.retryCount)

\* An unfinished task is never forgotten: whenever the operator is idle, some
\* event, delayed add or queued key will make it look at the task again.
NotParked ==
    op.pc = "idle" /\ ~Settled =>
        \/ queued \/ delay # "none" \/ ~cacheFresh
        \/ \E a \in Attempts : seen[a] # pod[a]

\* A task whose pull request was decided, or given up on, leaves nothing behind
\* in the task's memory: it was graduated before the pod was torn down.
OverMeansGraduated ==
    task.phase \in TerminalPhases /\ task.hasPR => memory = "graduated"

\* A task that waits for a review has a pull request that can be reviewed: out
\* of draft, unless a human has closed it and opened it again.
WaitingMeansReady == task.phase = "WaitingForPR" => pr # "draft"

\* Closed says that a human closed the pull request the task names: it was
\* reported closed, is closed, or was opened again after that.
ClosedMeansClosed ==
    task.phase = "Closed" /\ task.hasPR =>
        task.prState = "closed" \/ pr \in {"closed", "reopened"}

\* The retry of a task whose branch has an open pull request works on that one.
RetryHoldsOpenPR ==
    LET a == task.retryCount IN
    a > 0 /\ Live(a) /\ a \notin deleting /\ pr \in {"draft", "ready", "reopened"}
        => a \in knowsPR

\* MemoryStore's premise: the runs of a task follow one another, none goes on
\* beside a review, and a graduation is asked of a worker that has succeeded,
\* once its pull request was decided: a merge is for good, a pull request that
\* was closed may be open again by now.  (handleRunning, handleWaitingForPR)
GraduationComesLast ==
    /\ \A a \in Attempts : Live(a) /\ work[a] \notin Outcomes =>
          a = task.retryCount /\ task.phase \in {"Pending", "Running"}
    /\ op.pc = "graduate" =>
          /\ task.phase \in {"WaitingForPR", "Merged", "Closed"}
          /\ work[op.worker] = "Succeeded"
          /\ IF op.status.phase = "Merged" THEN pr = "merged"
                                           ELSE pr \in {"merged", "closed", "reopened"}

\* WorkerRun's premise: a worker's answer and its URL change by its own doing or
\* with its pod, and its pull request by a decision, or from draft to ready when a
\* succeeded worker is finalized or a human does it.  (handlePending, finalizeWorker)
KeepsPromise ==
    /\ Promise!PromiseInit
    /\ [][Promise!PromiseNext \/ HumanMarksReady]_(Promise!promiseVars)

\* The operator polls a worker that was given no skill and answers 404 for ever.
PollsDeafWorker ==
    task.phase = "Running" /\ task.workerPod \in deaf /\ Live(task.workerPod)

\* Once nothing fails any more and the Agent is there, a task comes to rest: it
\* is over, its retries are spent, it waits for a human, or, what the code has
\* no end for, its worker was given no skill.  (Reconcile)
ComesToRest == <>[](Settled \/ task.phase = "WaitingForPR" \/ PollsDeafWorker)

\* A decision on the pull request of a waiting task ends the task, unless the
\* humans take it back: the poll sees nothing of a pull request that is closed
\* and opened again in between.  (handleWaitingForPR)
DecisionEndsTask ==
    task.phase = "WaitingForPR" /\ pr \in {"merged", "closed"}
        ~> task.phase \in TerminalPhases \/ pr = "reopened"

\* A failed task with retries left gets its next worker.
FailedIsRetried ==
    \A n \in {m \in RetryCounts : CanRetry(m)} :
        task.phase = "Failed" /\ task.retryCount = n
            ~> task.phase = "Running" /\ task.retryCount = n + 1

\* A task that is over, or failed for good, gives its pods back.
PodsReleased == Settled ~> \A a \in Attempts : ~Live(a)
=============================================================================
