--------------------- MODULE AgentTaskControllerProofs ---------------------
(***************************************************************************)
(* For every retry budget, every set of failures and with or without lag   *)
(* of the pod cache: the controller's state is well typed, and what it     *)
(* stores of a task moves along the life cycle of module TaskLifecycle.    *)
(***************************************************************************)
EXTENDS AgentTaskController, TLAPS

-----------------------------------------------------------------------------
(* Lemmas on the types *)

\* The empty string is neither a phase with a name nor a state of a pull
\* request.
LEMMA UnsetIsNoName ==
    Unset \notin {"Pending", "Running", "Completed", "Failed", "WaitingForPR",
                  "Merged", "Closed", "open", "merged", "closed", "error"}
BY DEF Unset

\* A retry within the budget gives a retry count again, and no retry count is
\* mistaken for the absence of a pod.
LEMMA RetryCountFacts ==
    /\ 0 \in RetryCounts
    /\ RetryCounts \subseteq Nat
    /\ \A n \in RetryCounts : CanRetry(n) => n + 1 \in RetryCounts
    /\ NoPod \notin RetryCounts
<1>1. MaxRetries \in Int
  BY SpecMaxRetriesIsInt DEF MaxRetries, DefaultMaxRetries
<1>2. QED
  BY <1>1 DEF RetryCounts, CanRetry, NoPod

\* A new task and an idle reconcile are of their types.
LEMMA InitialTypes == NewTask \in Status /\ Idle \in Reconciles
BY RetryCountFacts
DEF NewTask, Status, Idle, Reconciles, PCs, Results, Attempts, Phases

\* The statuses that the handlers build from a typed one are typed.
LEMMA StatusTypes ==
    ASSUME NEW status \in Status
    PROVE  /\ \A phase \in Phases : [status EXCEPT !.phase = phase] \in Status
           /\ Closed(status) \in Status
           /\ Launched(status) \in Status
           /\ CanRetry(status.retryCount) => Retried(status) \in Status
           /\ \A p \in Attempts \cup {NoPod} : Learned(status, p) \in Status
BY RetryCountFacts
DEF Status, Closed, Launched, Retried, Learned, Phases, Attempts

\* The two ways in which a step of a handler goes on keep the reconcile typed.
LEMMA StepTypes ==
    ASSUME op \in Reconciles, NEW status \in Status, NEW pc \in PCs,
           NEW result \in Results, NEW onError \in Results
    PROVE  /\ Goto(pc, status) => op' \in Reconciles
           /\ Save(pc, status, result, onError) => op' \in Reconciles
BY DEF Reconciles, Goto, Save

\* A failure that still fits in the budget is counted within it.
LEMMA FaultTypes ==
    ASSUME faults \in 0..MaxFaults, NEW kind, Fault(kind)
    PROVE  faults' \in 0..MaxFaults
BY MaxFaultsIsNat DEF Fault

\* However a reconcile returns, it leaves an idle operator and a typed queue.
LEMMA ReturnTypes ==
    ASSUME NEW result \in Results, Return(result),
           queued \in BOOLEAN, delay \in {"none", "poll", "backoff"}
    PROVE  /\ op' \in Reconciles
           /\ queued' \in BOOLEAN
           /\ delay' \in {"none", "poll", "backoff"}
BY InitialTypes DEF Return, Results

-----------------------------------------------------------------------------
(* Type correctness *)

\* A step that only moves the reconcile along, with a typed status in hand and
\* at most one failure, preserves the types.
LEMMA LocalTypes ==
    ASSUME TypeOK, Local, op' \in Reconciles, faults' \in 0..MaxFaults
    PROVE  TypeOK'
BY DEF TypeOK, Local, apiVars, podVars, workerVars, worldVars, queueVars

\* So does a step that ends the reconcile and touches nothing else.
LEMMA ReturnPreservesTypes ==
    ASSUME TypeOK, NEW result \in Results, Return(result),
           UNCHANGED <<apiVars, podVars, workerVars, worldVars>>,
           faults' \in 0..MaxFaults
    PROVE  TypeOK'
BY ReturnTypes DEF TypeOK, apiVars, podVars, workerVars, worldVars

\* The three outcomes of a status update leave the API server's side typed.
LEMMA WriteTypes ==
    ASSUME TypeOK, StatusStored \/ StatusConflict \/ StatusCallFails
    PROVE  /\ task' \in Status /\ cache' \in Status /\ cacheFresh' \in BOOLEAN
           /\ faults' \in 0..MaxFaults
BY FaultTypes
DEF TypeOK, StatusStored, StatusConflict, StatusCallFails, WriteStatus, NoFault,
    apiVars, Reconciles

\* A change of one pod keeps the pods, their cached copy and the queue typed.
LEMMA PodTypes ==
    ASSUME TypeOK, NEW pods \in [Attempts -> PodPhases], PodsBecome(pods)
    PROVE  /\ pod' \in [Attempts -> PodPhases]
           /\ seen' \in [Attempts -> PodPhases]
           /\ queued' \in BOOLEAN
BY DEF TypeOK, PodsBecome

\* The steps of the handlers that touch nothing but the reconcile.
LEMMA HandlerStepTypes ==
    ASSUME TypeOK,
           \/ Initialize \/ ReconcileTerminal \/ PendingNoAgent \/ PendingLaunch
           \/ RunningPodLost \/ RunningPodSucceeded \/ RunningPodNotReady
           \/ RunningPodReady \/ QueryFails \/ QueryAnswered
           \/ FailedRetry \/ FailedForGood \/ WaitingWithoutPR
           \/ WaitingPodLost \/ WaitingPodReady \/ PRQueryFails \/ PRQueryAnswered
    PROVE  TypeOK'
<1> USE DEF Handling, NoFault, Local
<1>t. /\ op \in Reconciles /\ op.status \in Status
      /\ op.worker \in Attempts \cup {NoPod} /\ faults \in 0..MaxFaults
  BY DEF TypeOK, Reconciles
<1>p. /\ {Unset, "Pending", "Running", "Completed", "Failed", "WaitingForPR",
          "Merged", "Closed"} \subseteq Phases
      /\ Results = {"done", "requeue", "poll", "backoff"}
  BY DEF Phases, Results
<1>1. CASE Initialize
  <2>1. op' \in Reconciles
    BY <1>1, <1>t, <1>p, StatusTypes, StepTypes DEF Initialize, PCs
  <2>2. QED
    BY <2>1, <1>1, <1>t, FaultTypes, LocalTypes DEF Initialize
<1>2. CASE PendingNoAgent
  <2>1. op' \in Reconciles
    BY <1>2, <1>t, <1>p, StatusTypes, StepTypes DEF PendingNoAgent, PCs
  <2>2. QED
    BY <2>1, <1>2, <1>t, FaultTypes, LocalTypes DEF PendingNoAgent
<1>3. CASE PendingLaunch
  <2>1. op' \in Reconciles
    BY <1>3, <1>t, <1>p, StatusTypes, StepTypes DEF PendingLaunch, PCs
  <2>2. QED
    BY <2>1, <1>3, <1>t, FaultTypes, LocalTypes DEF PendingLaunch
<1>4. CASE RunningPodLost
  <2>1. op' \in Reconciles
    BY <1>4, <1>t, <1>p, StatusTypes, StepTypes DEF RunningPodLost, PCs, RunningPod
  <2>2. QED
    BY <2>1, <1>4, <1>t, FaultTypes, LocalTypes DEF RunningPodLost
<1>5. CASE RunningPodSucceeded
  <2>1. op' \in Reconciles
    BY <1>5, <1>t, <1>p, StatusTypes, StepTypes DEF RunningPodSucceeded, PCs, RunningPod
  <2>2. QED
    BY <2>1, <1>5, <1>t, FaultTypes, LocalTypes DEF RunningPodSucceeded
<1>6. CASE RunningPodReady
  <2>1. op' \in Reconciles
    BY <1>6, <1>t, <1>p, StatusTypes, StepTypes DEF RunningPodReady, PCs, RunningPod
  <2>2. QED
    BY <2>1, <1>6, <1>t, FaultTypes, LocalTypes DEF RunningPodReady
<1>7. CASE QueryAnswered
  <2>1. PICK status \in Status : \E pc \in PCs, result \in Results, onError \in Results :
            Save(pc, status, result, onError)
    <3> DEFINE learned == Learned(op.status, op.worker)
    <3>1. learned \in Status
      BY <1>t, StatusTypes
    <3>2. [learned EXCEPT !.phase = "Failed"] \in Status
      BY <3>1, <1>p, StatusTypes
    <3>3. [learned EXCEPT !.phase = "WaitingForPR", !.prState = "open"] \in Status
      BY <3>1, <1>p DEF Status
    <3>4. QED
      BY <1>7, <3>1, <3>2, <3>3, <1>p DEF QueryAnswered, PCs
  <2>2. op' \in Reconciles
    BY <2>1, <1>t, StepTypes
  <2>3. QED
    BY <2>2, <1>t, <1>7, LocalTypes DEF QueryAnswered
<1>8. CASE FailedRetry
  <2>1. op' \in Reconciles
    BY <1>8, <1>t, <1>p, StatusTypes, StepTypes DEF FailedRetry, PCs, CleanupFirst
  <2>2. QED
    BY <2>1, <1>8, <1>t, FaultTypes, LocalTypes DEF FailedRetry
<1>9. CASE FailedForGood
  <2>1. op' \in Reconciles
    BY <1>9, <1>t, <1>p, StatusTypes, StepTypes DEF FailedForGood, PCs, CleanupFirst
  <2>2. QED
    BY <2>1, <1>9, <1>t, FaultTypes, LocalTypes DEF FailedForGood
<1>10. CASE WaitingWithoutPR
  <2>1. op' \in Reconciles
    BY <1>10, <1>t, <1>p, StatusTypes, StepTypes DEF WaitingWithoutPR, PCs, Waiting
  <2>2. QED
    BY <2>1, <1>10, <1>t, FaultTypes, LocalTypes DEF WaitingWithoutPR
<1>11. CASE WaitingPodLost
  <2>1. op' \in Reconciles
    BY <1>11, <1>t, <1>p, StatusTypes, StepTypes DEF WaitingPodLost, PCs, Waiting
  <2>2. QED
    BY <2>1, <1>11, <1>t, FaultTypes, LocalTypes DEF WaitingPodLost
<1>12. CASE WaitingPodReady
  <2>1. op' \in Reconciles
    BY <1>12, <1>t, <1>p, StatusTypes, StepTypes DEF WaitingPodReady, PCs, Waiting
  <2>2. QED
    BY <2>1, <1>12, <1>t, FaultTypes, LocalTypes DEF WaitingPodReady
<1>13. CASE PRQueryAnswered
  <2>1. PICK state \in {ReportedPRState, "error"} :
          LET status == [op.status EXCEPT !.prState = state] IN
          /\ IF state = "error" THEN Fault("github") ELSE NoFault
          /\ CASE state = "merged" ->
                    Save("graduate", [status EXCEPT !.phase = "Merged"],
                         "done", "requeue")
               [] state = "closed" ->
                    Save("graduate", Closed(status), "done", "requeue")
               [] OTHER ->
                    Save("update", [status EXCEPT !.phase = "WaitingForPR"],
                         "poll", "requeue")
    BY <1>13 DEF PRQueryAnswered
  <2> DEFINE status == [op.status EXCEPT !.prState = state]
  <2>2. state \in {Unset, "open", "merged", "closed", "error"}
    BY DEF ReportedPRState, OpenStates, TypeOK, PRStates
  <2>3. status \in Status
    BY <1>t, <2>2 DEF Status
  <2>4. /\ [status EXCEPT !.phase = "Merged"] \in Status
        /\ [status EXCEPT !.phase = "WaitingForPR"] \in Status
        /\ Closed(status) \in Status
    BY <2>3, <1>p, StatusTypes
  <2>5. op' \in Reconciles
    BY <2>1, <2>4, <1>t, <1>p, StepTypes DEF PCs
  <2>6. faults' \in 0..MaxFaults
    BY <2>1, <1>t, FaultTypes
  <2>7. QED
    BY <2>5, <2>6, <1>13, LocalTypes DEF PRQueryAnswered
<1>14. CASE ReconcileTerminal
  BY <1>14, <1>t, <1>p, FaultTypes, ReturnPreservesTypes DEF ReconcileTerminal
<1>15. CASE RunningPodNotReady
  BY <1>15, <1>t, <1>p, FaultTypes, ReturnPreservesTypes DEF RunningPodNotReady
<1>16. CASE QueryFails
  BY <1>16, <1>t, <1>p, FaultTypes, ReturnPreservesTypes DEF QueryFails
<1>17. CASE PRQueryFails
  BY <1>17, <1>t, <1>p, FaultTypes, ReturnPreservesTypes DEF PRQueryFails
<1>18. QED
  BY <1>1, <1>2, <1>3, <1>4, <1>5, <1>6, <1>7, <1>8, <1>9, <1>10, <1>11, <1>12, <1>13, <1>14, <1>15, <1>16, <1>17

\* The steps of the handlers that call the API server, the worker or both.
LEMMA CallTypes ==
    ASSUME TypeOK,
           \/ CreatePod \/ Finalize \/ CloseWithoutPR \/ CleanupLast
           \/ Graduate \/ Cleanup \/ Update
    PROVE  TypeOK'
<1> USE DEF NoFault
<1>t. /\ op \in Reconciles /\ op.status \in Status
      /\ op.worker \in Attempts \cup {NoPod} /\ faults \in 0..MaxFaults
      /\ op.result \in Results /\ op.onError \in Results
      /\ op.status.retryCount \in Attempts
  BY DEF TypeOK, Reconciles, Status, Attempts
<1>p. Results = {"done", "requeue", "poll", "backoff"}
  BY DEF Results
<1>d. ASSUME NEW p \in Attempts \cup {NoPod}, DeletePod(p)
      PROVE  deleting' \subseteq Attempts /\ faults' \in 0..MaxFaults
  BY <1>d, <1>t, FaultTypes DEF DeletePod, Seen, TypeOK
<1>1. CASE CreatePod
  <2> DEFINE a == op.status.retryCount
  <2>1. ASSUME PodCreated(a)
        PROVE  /\ pod' \in [Attempts -> PodPhases] /\ deleting' \subseteq Attempts
               /\ seen' \in [Attempts -> PodPhases] /\ queued' \in BOOLEAN
               /\ work' \in [Attempts -> WorkStates] /\ knowsPR' \subseteq Attempts
               /\ deaf' \subseteq Attempts
    <3>1. [pod EXCEPT ![a] = "Pending"] \in [Attempts -> PodPhases]
      BY DEF TypeOK, PodPhases
    <3>2. PodsBecome([pod EXCEPT ![a] = "Pending"])
      BY <2>1 DEF PodCreated
    <3>3. /\ work' \in [Attempts -> WorkStates] /\ knowsPR' \subseteq Attempts
          /\ deaf' \subseteq Attempts
      BY <2>1, <1>t DEF PodCreated, PayloadPR, PayloadSkills, TypeOK, WorkStates
    <3>4. deleting' \subseteq Attempts
      BY <2>1 DEF PodCreated, TypeOK
    <3>5. QED
      BY <3>1, <3>2, <3>3, <3>4, PodTypes
  <2>2. ASSUME UNCHANGED <<podVars, workerVars, queued>>
        PROVE  /\ pod' \in [Attempts -> PodPhases] /\ deleting' \subseteq Attempts
               /\ seen' \in [Attempts -> PodPhases] /\ queued' \in BOOLEAN
               /\ work' \in [Attempts -> WorkStates] /\ knowsPR' \subseteq Attempts
               /\ deaf' \subseteq Attempts
    BY <2>2 DEF podVars, workerVars, TypeOK
  <2>3. /\ PodCreated(a) \/ UNCHANGED <<podVars, workerVars, queued>>
        /\ op' \in Reconciles
        /\ faults' \in 0..MaxFaults
    BY <1>1, <1>t, <1>p, StatusTypes, StepTypes, FaultTypes
    DEF CreatePod, PodAlreadyExists, PCs
  <2>4. UNCHANGED <<apiVars, worldVars, delay>>
    BY <1>1 DEF CreatePod
  <2>5. QED
    BY <2>1, <2>2, <2>3, <2>4 DEF TypeOK, apiVars, worldVars
<1>2. CASE Finalize
  <2>1. op' \in Reconciles /\ faults' \in 0..MaxFaults /\ pr' \in PRStates
    BY <1>2, <1>t, StepTypes, FaultTypes DEF Finalize, MarkReady, PCs, PRStates, TypeOK
  <2>2. QED
    BY <2>1, <1>2 DEF Finalize, TypeOK, apiVars, podVars, workerVars, queueVars
<1>3. CASE CloseWithoutPR
  <2>1. op' \in Reconciles
    BY <1>3, <1>t, StepTypes DEF CloseWithoutPR, PCs
  <2>2. QED
    BY <2>1, <1>3, WriteTypes
    DEF CloseWithoutPR, TypeOK, podVars, workerVars, worldVars, queueVars
<1>4. CASE CleanupLast
  <2>1. deleting' \subseteq Attempts /\ faults' \in 0..MaxFaults
    BY <1>4, <1>d, <1>t DEF CleanupLast, TypeOK
  <2>2. /\ op' \in Reconciles /\ queued' \in BOOLEAN
        /\ delay' \in {"none", "poll", "backoff"}
    BY <1>4, <1>p, ReturnTypes DEF CleanupLast, TypeOK
  <2>3. QED
    BY <2>1, <2>2, <1>4 DEF CleanupLast, TypeOK, apiVars, workerVars, worldVars
<1>5. CASE Graduate
  <2>1. /\ op' \in Reconciles /\ faults' \in 0..MaxFaults
        /\ memory' \in {"empty", "task", "graduated"}
    BY <1>5, <1>t, StepTypes, FaultTypes DEF Graduate, GraduateMemory, PCs, TypeOK
  <2>2. QED
    BY <2>1, <1>5 DEF Graduate, TypeOK, apiVars, podVars, workerVars, queueVars
<1>6. CASE Cleanup
  <2>1. deleting' \subseteq Attempts /\ faults' \in 0..MaxFaults
    BY <1>6, <1>d, <1>t DEF Cleanup
  <2>2. op' \in Reconciles /\ queued' \in BOOLEAN
    BY <1>6, <1>t, StepTypes DEF Cleanup, DeletionEvent, PCs, TypeOK
  <2>3. QED
    BY <2>1, <2>2, <1>6 DEF Cleanup, TypeOK, apiVars, workerVars, worldVars
<1>7. CASE Update
  <2>1. /\ op' \in Reconciles /\ queued' \in BOOLEAN
        /\ delay' \in {"none", "poll", "backoff"}
    BY <1>7, <1>t, ReturnTypes DEF Update, TypeOK
  <2>2. QED
    BY <2>1, <1>7, WriteTypes DEF Update, TypeOK, podVars, workerVars, worldVars
<1>8. QED
  BY <1>1, <1>2, <1>3, <1>4, <1>5, <1>6, <1>7

\* What happens around the reconcile: the queue, the informers, restarts,
\* users, the kubelet, the workers and the humans.
LEMMA EnvironmentTypes ==
    ASSUME TypeOK, Dequeue \/ Events \/ Crash \/ EditSpec \/ Kubelet \/ Worker \/ Human
    PROVE  TypeOK'
<1> USE DEF apiVars, podVars, workerVars, worldVars, queueVars
<1>1. CASE Dequeue
  <2>1. op' \in Reconciles
    BY <1>1, InitialTypes DEF Dequeue, TypeOK, Reconciles, Status, PCs
  <2>2. QED
    BY <2>1, <1>1 DEF Dequeue, TypeOK
<1>2. CASE Events
  <2>1. CASE TaskEvent
    BY <2>1 DEF TaskEvent, TypeOK
  <2>2. CASE DelayExpires
    BY <2>2 DEF DelayExpires, TypeOK
  <2>3. ASSUME NEW a \in Attempts, PodEvent(a) PROVE TypeOK'
    <3>1. seen' \in [Attempts -> PodPhases]
      BY <2>3 DEF PodEvent, TypeOK
    <3>2. QED
      BY <3>1, <2>3 DEF PodEvent, TypeOK
  <2>4. QED
    BY <1>2, <2>1, <2>2, <2>3 DEF Events
<1>3. CASE Crash
  BY <1>3, InitialTypes, FaultTypes DEF Crash, TypeOK
<1>4. CASE EditSpec
  <2>1. op' \in Reconciles /\ faults' \in 0..MaxFaults
    BY <1>4, FaultTypes DEF EditSpec, TypeOK, Reconciles
  <2>2. QED
    BY <2>1, <1>4 DEF EditSpec, TypeOK
<1>5. CASE Kubelet
  <2>1. PICK a \in Attempts : KubeletStarts(a) \/ KubeletRemoves(a) \/ PodDies(a)
    BY <1>5 DEF Kubelet
  <2>2. /\ faults' \in 0..MaxFaults
        /\ deleting' \subseteq Attempts
        /\ UNCHANGED <<apiVars, workerVars, worldVars, delay, op>>
    BY <2>1, FaultTypes DEF KubeletStarts, KubeletRemoves, PodDies, TypeOK
  <2>3. PICK phase \in PodPhases : PodsBecome([pod EXCEPT ![a] = phase])
    BY <2>1 DEF KubeletStarts, KubeletRemoves, PodDies, PodPhases
  <2>4. [pod EXCEPT ![a] = phase] \in [Attempts -> PodPhases]
    BY DEF TypeOK
  <2>5. QED
    BY <2>2, <2>3, <2>4, PodTypes DEF TypeOK
<1>6. CASE Worker
  <2>1. PICK a \in Attempts : WorkerStarts(a) \/ WorkerOpensPR(a)
                              \/ WorkerLosesPR(a) \/ WorkerEnds(a)
    BY <1>6 DEF Worker
  <2>2. UNCHANGED <<apiVars, podVars, deaf, queueVars, op>>
    BY <2>1 DEF WorkerStarts, WorkerOpensPR, WorkerLosesPR, WorkerEnds, WorkerActs
  <2>3. /\ knowsPR' \subseteq Attempts /\ pr' \in PRStates
        /\ memory' \in {"empty", "task", "graduated"}
        /\ faults' \in 0..MaxFaults
    BY <2>1, FaultTypes
    DEF WorkerStarts, WorkerOpensPR, WorkerLosesPR, WorkerEnds,
        Promise!Starts, Promise!OpensPR, Promise!LosesPR, Promise!Ends, TypeOK, PRStates
  <2>4. work' \in [Attempts -> WorkStates]
    BY <2>1
    DEF WorkerStarts, WorkerOpensPR, WorkerLosesPR, WorkerEnds,
        Promise!Starts, Promise!OpensPR, Promise!LosesPR, Promise!Ends,
        Promise!Answers, Promise!Outcomes, TypeOK, WorkStates, Outcomes
  <2>5. QED
    BY <2>2, <2>3, <2>4 DEF TypeOK
<1>7. CASE Human
  BY <1>7
  DEF Human, HumanActs, HumanMarksReady, HumanMerges, HumanCloses, HumanReopens, TypeOK, PRStates
<1>8. QED
  BY <1>1, <1>2, <1>3, <1>4, <1>5, <1>6, <1>7

\* Everything the controller keeps, in the API server, in its caches and in the
\* reconcile in progress, stays within its type: the retry count within the
\* budget, the worker pod among the attempts' pods.
THEOREM TypeCorrect == Spec => []TypeOK
<1>1. Init => TypeOK
  BY InitialTypes, RetryCountFacts, MaxFaultsIsNat
  DEF Init, TypeOK, Attempts, PodPhases, PRStates, WorkStates
<1>2. TypeOK /\ [Next]_vars => TypeOK'
  <2> SUFFICES ASSUME TypeOK, [Next]_vars PROVE TypeOK'
    OBVIOUS
  <2>1. CASE Step
    BY <2>1, HandlerStepTypes, CallTypes DEF Step
  <2>2. CASE Dequeue \/ Events \/ Crash \/ EditSpec \/ Kubelet \/ Worker \/ Human
    BY <2>2, EnvironmentTypes
  <2>3. CASE UNCHANGED vars
    BY <2>3 DEF vars, apiVars, podVars, workerVars, worldVars, queueVars, TypeOK
  <2>4. QED
    BY <2>1, <2>2, <2>3 DEF Next
<1>3. QED
  BY <1>1, <1>2, PTL DEF Spec

-----------------------------------------------------------------------------
(* The controller implements the life cycle *)

\* A stored status that moves along the life cycle is a step of TaskLifecycle.
LEMMA MovesIsLifecycleStep ==
    ASSUME TypeOK, TypeOK', Moves(task, task')
    PROVE  [Lifecycle!LifecycleNext]_(Lifecycle!lifecycleVars)
<1> USE DEF Lifecycle!LifecycleNext, Lifecycle!lifecycleVars, Lifecycle!MoveTo
<1>t. task.hasPR \in BOOLEAN /\ task'.hasPR \in BOOLEAN
  BY DEF TypeOK, Status
<1>r. \A n : Lifecycle!CanRetry(n) <=> CanRetry(n)
  BY DEF Lifecycle!CanRetry, Lifecycle!MaxRetries, Lifecycle!DefaultMaxRetries,
         CanRetry, MaxRetries, DefaultMaxRetries
<1>1. CASE task'.retryCount = task.retryCount /\ task'.hasPR = task.hasPR
  <2>1. CASE task'.phase = task.phase
    BY <1>1, <2>1
  <2>2. ASSUME NEW from, NEW to, task.phase = from, task'.phase = to,
               <<from, to>> \in
                 {<<Unset, "Pending">>, <<"Pending", "Running">>,
                  <<"Running", "Failed">>, <<"Running", "Completed">>,
                  <<"Completed", "Closed">>, <<"WaitingForPR", "Closed">>}
        PROVE  Lifecycle!LifecycleNext
    <3>1. \/ from = Unset /\ to = "Pending"
          \/ from = "Pending" /\ to = "Running"
          \/ from = "Running" /\ to \in {"Failed", "Completed"}
          \/ from \in {"Completed", "WaitingForPR"} /\ to = "Closed"
      BY <2>2
    <3>2. QED
      BY <1>1, <2>2, <3>1
      DEF Lifecycle!Admit, Lifecycle!Launch, Lifecycle!LoseWorker,
          Lifecycle!PodExits, Lifecycle!Close, Lifecycle!Unset, Unset
  <2>3. CASE /\ task.phase \in {"Completed", "WaitingForPR"} /\ task.hasPR
             /\ task'.phase \in {"WaitingForPR", "Merged"}
    BY <1>1, <2>3 DEF Lifecycle!Await
  <2>4. CASE /\ task.phase = "Running"
             /\ task'.phase \in {"Running", "Failed", "WaitingForPR"}
    BY <1>1, <1>t, <2>4 DEF Lifecycle!Report
  <2>5. CASE /\ task.phase = "Failed" /\ task'.phase = "Pending"
             /\ task'.retryCount = task.retryCount + 1 /\ CanRetry(task.retryCount)
    BY <1>1, <2>5, <1>r DEF Lifecycle!Retry
  <2>6. QED
    BY <1>1, <2>1, <2>2, <2>3, <2>4, <2>5 DEF Moves
<1>2. CASE /\ task.phase = "Running"
           /\ task'.phase \in {"Running", "Failed", "WaitingForPR"}
           /\ task'.retryCount = task.retryCount /\ (task.hasPR => task'.hasPR)
  BY <1>2, <1>t DEF Lifecycle!Report
<1>3. CASE /\ task.phase = "Failed" /\ task'.phase = "Pending"
           /\ CanRetry(task.retryCount)
           /\ task'.retryCount = task.retryCount + 1 /\ task'.hasPR = task.hasPR
  BY <1>3, <1>r DEF Lifecycle!Retry
<1>4. QED
  BY <1>1, <1>2, <1>3 DEF Moves

\* Outside the two updates the stored status does not change.
LEMMA OnlyUpdatesStore ==
    ASSUME [Next]_vars
    PROVE  Update \/ CloseWithoutPR \/ task' = task
BY DEF Next, Step, Initialize, ReconcileTerminal, PendingNoAgent, PendingLaunch,
       CreatePod, RunningPodLost, RunningPodSucceeded, RunningPodNotReady,
       RunningPodReady, QueryFails, QueryAnswered, Finalize, FailedRetry,
       FailedForGood, WaitingWithoutPR, CleanupLast, WaitingPodLost,
       WaitingPodReady, PRQueryFails, PRQueryAnswered, Graduate, Cleanup, Local,
       Dequeue, Events, TaskEvent, DelayExpires, PodEvent, Crash, EditSpec,
       Kubelet, KubeletStarts, KubeletRemoves, PodDies,
       Worker, WorkerStarts, WorkerOpensPR, WorkerLosesPR, WorkerEnds, WorkerActs,
       Human, HumanMarksReady, HumanMerges, HumanCloses, HumanReopens, HumanActs, vars, apiVars

\* An update stores a move or nothing.
LEMMA UpdatesMove ==
    ASSUME TypeOK, Coherent, Update \/ CloseWithoutPR
    PROVE  Moves(task, task')
<1>1. \/ op.fresh /\ task' = op.status
      \/ task' = task
  BY DEF Update, CloseWithoutPR, StatusStored, StatusConflict, StatusCallFails,
         WriteStatus, apiVars
<1>2. op.pc \in {"update", "closeNoPR"}
  BY DEF Update, CloseWithoutPR
<1>3. op.fresh => Moves(task, op.status)
  BY <1>2 DEF Coherent
<1>4. Moves(task, task)
  BY DEF Moves
<1>5. QED
  BY <1>1, <1>3, <1>4

\* A step that keeps what is stored and cached and leaves the reconcile where
\* it is, forgets its resourceVersion or ends it, keeps it coherent.
LEMMA QuietStepsCoherent ==
    ASSUME Coherent, UNCHANGED <<task, cache, cacheFresh>>,
           op' = op \/ op' = [op EXCEPT !.fresh = FALSE] \/ op' = Idle,
           op \in Reconciles
    PROVE  Coherent'
BY DEF Coherent, Idle, Reconciles

\* After a status update the cache is only taken to be current if it is.
LEMMA WritesKeepCache ==
    ASSUME TypeOK, Coherent, StatusStored \/ StatusConflict \/ StatusCallFails
    PROVE  cacheFresh' => cache' = task'
<1>1. ASSUME WriteStatus(op.status) PROVE cacheFresh' => cache' = task'
  <2>1. CASE op.status = task
    BY <1>1, <2>1 DEF WriteStatus, Coherent, TypeOK
  <2>2. CASE op.status # task
    BY <1>1, <2>2 DEF WriteStatus
  <2>3. QED
    BY <2>1, <2>2
<1>2. CASE UNCHANGED apiVars
  BY <1>2 DEF apiVars, Coherent
<1>3. QED
  BY <1>1, <1>2 DEF StatusStored, StatusConflict, StatusCallFails

\* A handler that read the stored status prepares a move from it.
LEMMA HandlersPrepareMoves ==
    ASSUME TypeOK, Coherent, Step,
           ~Update, ~CloseWithoutPR, ~CleanupLast, ~ReconcileTerminal,
           ~RunningPodNotReady, ~QueryFails, ~PRQueryFails
    PROVE  Coherent'
<1> USE DEF Coherent, Handling, Save, Goto, Reconciles, Local, apiVars
<1>t. /\ op \in Reconciles /\ op.status \in Status
      /\ task \in Status
  BY DEF TypeOK
<1>1. CASE Initialize
  BY <1>1, <1>t DEF Initialize, Moves, Status
<1>2. CASE PendingNoAgent
  BY <1>2, <1>t DEF PendingNoAgent, Moves, Status
<1>3. CASE PendingLaunch
  BY <1>3, <1>t DEF PendingLaunch
<1>4. CASE CreatePod
  <2>1. /\ op'.pc = "update" /\ op'.fresh = op.fresh
        /\ op'.status \in {Launched(op.status), op.status}
    BY <1>4, <1>t DEF CreatePod
  <2>2. op.status.phase = "Pending" /\ (op.fresh => op.status = task)
    BY <1>4 DEF CreatePod
  <2>3. Moves(op.status, Launched(op.status)) /\ Moves(op.status, op.status)
    BY <1>t, <2>2 DEF Moves, Launched, Status
  <2>4. QED
    BY <1>4, <2>1, <2>2, <2>3 DEF CreatePod
<1>5. CASE RunningPodLost
  BY <1>5, <1>t DEF RunningPodLost, RunningPod, Moves, Status
<1>6. CASE RunningPodSucceeded
  BY <1>6, <1>t DEF RunningPodSucceeded, RunningPod, Moves, Status
<1>7. CASE RunningPodReady
  BY <1>7, <1>t DEF RunningPodReady, RunningPod
<1>8. CASE QueryAnswered
  <2> DEFINE learned == Learned(op.status, op.worker)
  <2>1. /\ op'.fresh = op.fresh
        /\ \/ op'.pc = "update" /\ op'.status = learned
           \/ /\ op'.pc = "finalize"
              /\ op'.status = [learned EXCEPT !.phase = "WaitingForPR",
                                              !.prState = "open"]
           \/ op'.pc = "update" /\ op'.status = [learned EXCEPT !.phase = "Failed"]
    BY <1>8, <1>t DEF QueryAnswered
  <2>2. op.status.phase = "Running" /\ (op.fresh => op.status = task)
    BY <1>8 DEF QueryAnswered
  <2>3. /\ learned \in [phase : Phases, retryCount : RetryCounts,
                        workerPod : Attempts \cup {NoPod}, hasPR : BOOLEAN,
                        prState : {Unset, "open", "merged", "closed", "error"}]
        /\ learned.phase = "Running" /\ learned.retryCount = op.status.retryCount
        /\ op.status.hasPR => learned.hasPR
    BY <1>t, <2>2 DEF Learned, Status
  <2>4. Moves(op.status, op'.status)
    BY <2>1, <2>2, <2>3 DEF Moves
  <2>5. QED
    BY <1>8, <2>1, <2>2, <2>4 DEF QueryAnswered
<1>9. CASE Finalize
  BY <1>9, <1>t DEF Finalize
<1>10. CASE FailedRetry
  BY <1>10, <1>t DEF FailedRetry, CleanupFirst, Retried, Moves, Status
<1>11. CASE FailedForGood
  BY <1>11, <1>t DEF FailedForGood, CleanupFirst, Moves, Status
<1>12. CASE WaitingWithoutPR
  BY <1>12, <1>t DEF WaitingWithoutPR, Waiting, Closed, Moves, Status
<1>13. CASE WaitingPodLost
  BY <1>13, <1>t DEF WaitingPodLost, Waiting, Closed, Moves, Status
<1>14. CASE WaitingPodReady
  BY <1>14, <1>t DEF WaitingPodReady, Waiting
<1>15. CASE PRQueryAnswered
  <2>1. PICK state : LET status == [op.status EXCEPT !.prState = state] IN
          CASE state = "merged" ->
                 Save("graduate", [status EXCEPT !.phase = "Merged"],
                      "done", "requeue")
            [] state = "closed" ->
                 Save("graduate", Closed(status), "done", "requeue")
            [] OTHER ->
                 Save("update", [status EXCEPT !.phase = "WaitingForPR"],
                      "poll", "requeue")
    BY <1>15 DEF PRQueryAnswered
  <2>2. /\ op'.fresh = op.fresh /\ op'.pc \in {"graduate", "update"}
        /\ \E phase \in {"Merged", "Closed", "WaitingForPR"} :
              op'.status = [op.status EXCEPT !.prState = state, !.phase = phase]
    BY <2>1, <1>t DEF Closed
  <2>3. /\ op.status.phase \in {"Completed", "WaitingForPR"} /\ op.status.hasPR
        /\ op.fresh => op.status = task
    BY <1>15 DEF PRQueryAnswered
  <2>4. Moves(op.status, op'.status)
    BY <2>2, <2>3, <1>t DEF Moves, Status
  <2>5. QED
    BY <1>15, <2>2, <2>3, <2>4 DEF PRQueryAnswered
<1>16. CASE Graduate
  BY <1>16, <1>t DEF Graduate
<1>17. CASE Cleanup
  BY <1>17, <1>t DEF Cleanup
<1>18. QED
  BY <1>1, <1>2, <1>3, <1>4, <1>5, <1>6, <1>7, <1>8, <1>9, <1>10, <1>11, <1>12, <1>13, <1>14, <1>15, <1>16, <1>17 DEF Step

\* Every step keeps what is read, prepared and stored coherent.
LEMMA CoherentInductive ==
    ASSUME TypeOK, Coherent, [Next]_vars
    PROVE  Coherent'
<1> USE DEF apiVars
<1>t. op \in Reconciles /\ cache \in Status
  BY DEF TypeOK
<1>1. CASE Step
  <2>1. CASE ReconcileTerminal \/ RunningPodNotReady \/ QueryFails \/ PRQueryFails
             \/ CleanupLast
    BY <2>1, <1>t, QuietStepsCoherent
    DEF ReconcileTerminal, RunningPodNotReady, QueryFails, PRQueryFails,
        CleanupLast, Return
  <2>2. CASE Update
    <3>1. op' = Idle
      BY <2>2 DEF Update, Return
    <3>2. cacheFresh' => cache' = task'
      BY <2>2, WritesKeepCache DEF Update
    <3>3. QED
      BY <3>1, <3>2 DEF Coherent, Idle
  <2>3. CASE CloseWithoutPR
    <3>1. op'.pc = "cleanupLast"
      BY <2>3, <1>t DEF CloseWithoutPR, Goto, Reconciles
    <3>2. cacheFresh' => cache' = task'
      BY <2>3, WritesKeepCache DEF CloseWithoutPR
    <3>3. QED
      BY <3>1, <3>2 DEF Coherent
  <2>4. QED
    BY <1>1, <2>1, <2>2, <2>3, HandlersPrepareMoves
<1>2. CASE Dequeue
  BY <1>2, <1>t DEF Dequeue, Idle, Coherent
<1>3. CASE TaskEvent
  BY <1>3 DEF TaskEvent, Coherent
<1>4. CASE Crash
  BY <1>4 DEF Crash, Coherent, Idle
<1>5. CASE EditSpec
  BY <1>5, <1>t DEF EditSpec, Coherent, Reconciles
<1>6. CASE \/ DelayExpires \/ \E a \in Attempts : PodEvent(a)
           \/ Kubelet \/ Worker \/ Human \/ UNCHANGED vars
  <2>1. UNCHANGED <<task, cache, cacheFresh, op>>
    BY <1>6
    DEF DelayExpires, PodEvent, Kubelet, KubeletStarts, KubeletRemoves, PodDies,
        Worker, WorkerStarts, WorkerOpensPR, WorkerLosesPR, WorkerEnds, WorkerActs,
        Human, HumanMarksReady, HumanMerges, HumanCloses, HumanReopens, HumanActs, vars
  <2>2. QED
    BY <2>1, <1>t, QuietStepsCoherent
<1>7. QED
  BY <1>1, <1>2, <1>3, <1>4, <1>5, <1>6 DEF Next, Events

\* While its resourceVersion is current, the status a reconcile is about to
\* save is one move away from the stored one.
THEOREM AlwaysCoherent == Spec => []Coherent
<1>1. Init => Coherent
  BY DEF Init, Coherent, Idle
<1>2. TypeOK /\ Coherent /\ [Next]_vars => Coherent'
  BY CoherentInductive
<1>3. QED
  BY <1>1, <1>2, TypeCorrect, PTL DEF Spec

\* Every change of the stored status is a move of the life cycle, or none.
THEOREM ControllerImplementsLifecycle == Spec => ImplementsLifecycle
<1>1. Init => Lifecycle!LifecycleInit
  <2> SUFFICES ASSUME Init PROVE Lifecycle!LifecycleInit
    OBVIOUS
  <2>1. task = NewTask
    BY DEF Init
  <2>2. task.phase = Unset /\ task.retryCount = 0
    BY <2>1 DEF NewTask
  <2>3. ~task.hasPR
    BY <2>1 DEF NewTask
  <2>4. QED
    BY <2>2, <2>3 DEF Lifecycle!LifecycleInit, Lifecycle!Unset, Unset
<1>2. TypeOK /\ TypeOK' /\ Coherent /\ [Next]_vars
        => [Lifecycle!LifecycleNext]_(Lifecycle!lifecycleVars)
  <2> SUFFICES ASSUME TypeOK, TypeOK', Coherent, [Next]_vars
               PROVE  [Lifecycle!LifecycleNext]_(Lifecycle!lifecycleVars)
    OBVIOUS
  <2>1. CASE Update \/ CloseWithoutPR
    BY <2>1, UpdatesMove, MovesIsLifecycleStep
  <2>2. CASE task' = task
    BY <2>2 DEF Lifecycle!lifecycleVars
  <2>3. QED
    BY <2>1, <2>2, OnlyUpdatesStore
<1>3. QED
  BY <1>1, <1>2, TypeCorrect, AlwaysCoherent, PTL
  DEF Spec, ImplementsLifecycle, Lifecycle!LifecycleSpec
=============================================================================
