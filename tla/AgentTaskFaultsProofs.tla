------------------------ MODULE AgentTaskFaultsProofs ------------------------
(***************************************************************************)
(* For every retry budget and every number of failures: which kind of      *)
(* failure each of the controller's weaker promises cannot stand.  Every   *)
(* theorem names in its hypothesis the failures that would break it.       *)
(***************************************************************************)
EXTENDS AgentTaskWorkersProofs

-----------------------------------------------------------------------------
(* No task is forgotten, if no call to the API server fails *)

\* The retries of a failed task are spent, or the task is over.
AtRest(s) == s.phase \in TerminalPhases \/ (s.phase = "Failed" /\ ~CanRetry(s.retryCount))

\* Whatever ends a reconcile without asking for another either changes the
\* task, which wakes the operator, leaves it at rest, or lost a race, and what
\* won it wakes the operator.
Woken ==
    /\ op.pc # "idle" /\ ~op.fresh => queued \/ ~cacheFresh
    /\ op.pc = "cleanupLast" => queued \/ ~cacheFresh \/ Settled
    /\ op.pc = "closeNoPR" => op.status.phase = "Closed"
    /\ Prepares /\ op.result = "done" /\ op.pc # "closeNoPR" =>
          op.status.phase # task.phase \/ AtRest(op.status)
    /\ op.pc = "idle" /\ ~Settled => queued \/ delay # "none" \/ ~cacheFresh

\* Only the start of a reconcile takes the key; an event to come comes.
LEMMA WakeUpStays ==
    ASSUME TypeOK, [Next]_vars, ~Dequeue, queued \/ ~cacheFresh
    PROVE  queued' \/ ~cacheFresh'
<1> USE DEF apiVars, queueVars
<1>1. CASE Deliberation
  BY <1>1, DeliberationReads
  DEF Deliberation, Initialize, ReconcileTerminal, PendingNoAgent, PendingLaunch,
      RunningPodLost, RunningPodSucceeded, RunningPodNotReady,
      RunningPodReady, QueryFails, QueryAnswered, FailedRetry,
      FailedForGood, WaitingWithoutPR, WaitingPodLost,
      WaitingPodReady, PRQueryFails, PRQueryAnswered, Local, Return
<1>2. CASE CreatePod \/ Kubelet
  BY <1>2
  DEF CreatePod, PodCreated, PodAlreadyExists, PodsBecome,
      Kubelet, KubeletStarts, KubeletRemoves, PodDies
<1>3. CASE Update \/ CloseWithoutPR
  BY <1>3
  DEF Update, CloseWithoutPR, StatusStored, StatusConflict, StatusCallFails,
      WriteStatus, Return, TypeOK
<1>4. CASE Finalize \/ Graduate \/ Cleanup \/ CleanupLast
  BY <1>4 DEF Finalize, Graduate, Cleanup, CleanupLast, DeletionEvent, Return
<1>5. CASE Events \/ Crash \/ EditSpec \/ UNCHANGED vars
  BY <1>5 DEF Events, TaskEvent, PodEvent, DelayExpires, Crash, EditSpec, vars
<1>6. CASE Worker \/ Human
  BY <1>6
  DEF Worker, WorkerStarts, WorkerOpensPR, WorkerLosesPR, WorkerEnds, WorkerActs,
      Human, HumanMarksReady, HumanMerges, HumanCloses, HumanReopens, HumanActs
<1>7. QED
  BY <1>1, <1>2, <1>3, <1>4, <1>5, <1>6, StepEffects DEF Events

\* While the operator is idle, a delayed key stays or is queued.
LEMMA DelayStays ==
    ASSUME TypeOK, [Next]_vars, op.pc = "idle", ~Dequeue, delay # "none"
    PROVE  queued' \/ delay' # "none"
<1> USE DEF queueVars
<1>1. CASE Step
  BY <1>1, DeliberationReads
  DEF Step, Deliberation, Reading, CreatePod, Finalize, CloseWithoutPR, CleanupLast,
      Graduate, Cleanup, Update
<1>2. CASE Events \/ Crash \/ EditSpec \/ UNCHANGED vars
  BY <1>2 DEF Events, TaskEvent, PodEvent, DelayExpires, Crash, EditSpec, vars
<1>3. CASE Kubelet \/ Worker \/ Human
  BY <1>3
  DEF Kubelet, KubeletStarts, KubeletRemoves, PodDies,
      Worker, WorkerStarts, WorkerOpensPR, WorkerLosesPR, WorkerEnds, WorkerActs,
      Human, HumanMarksReady, HumanMerges, HumanCloses, HumanReopens, HumanActs
<1>4. QED
  BY <1>1, <1>2, <1>3 DEF Next

\* A handler asks for no other reconcile only if its update changes the phase
\* or leaves the task at rest.
LEMMA DoneMeansChanged ==
    ASSUME TypeOK, Coherent, Deliberation, op'.pc \in Writing, op'.pc # "closeNoPR",
           op'.result = "done"
    PROVE  op'.status.phase # op.status.phase \/ AtRest(op'.status)
<1> USE DEF Handling, Save, Goto, Reconciles, Writing
<1>t. op \in Reconciles /\ op.status \in Status
  BY DEF TypeOK
<1>1. CASE ReconcileTerminal \/ RunningPodNotReady \/ QueryFails \/ PRQueryFails
  <2>1. op' = Idle
    BY <1>1 DEF ReconcileTerminal, RunningPodNotReady, QueryFails, PRQueryFails, Return
  <2>2. QED
    BY <2>1 DEF Idle
<1>2. CASE Initialize \/ PendingNoAgent \/ RunningPodLost \/ FailedRetry
  BY <1>2, <1>t DEF Initialize, PendingNoAgent, RunningPodLost, FailedRetry
<1>3. CASE PendingLaunch \/ RunningPodReady \/ WaitingWithoutPR \/ WaitingPodReady
  BY <1>3, <1>t DEF PendingLaunch, RunningPodReady, WaitingWithoutPR, WaitingPodReady
<1>4. CASE RunningPodSucceeded
  BY <1>4, <1>t DEF RunningPodSucceeded, RunningPod, Status
<1>5. CASE QueryAnswered
  <2>1. op.status.phase = "Running"
    BY <1>5 DEF QueryAnswered, Coherent
  <2>2. op'.status = [Learned(op.status, op.worker) EXCEPT
                        !.phase = "WaitingForPR", !.prState = "open"]
    BY <1>5, <1>t DEF QueryAnswered
  <2>3. op'.status.phase = "WaitingForPR"
    BY <1>t, <2>2 DEF Learned, Status
  <2>4. QED
    BY <2>1, <2>3
<1>6. CASE FailedForGood
  BY <1>6, <1>t DEF FailedForGood, AtRest
<1>7. CASE WaitingPodLost
  BY <1>7, <1>t DEF WaitingPodLost, Closed, Status, AtRest, TerminalPhases
<1>8. CASE PRQueryAnswered
  <2>1. PICK state : LET status == [op.status EXCEPT !.prState = state] IN
          CASE state = "merged" ->
                 Save("graduate", [status EXCEPT !.phase = "Merged"],
                      "done", "requeue")
            [] state = "closed" ->
                 Save("graduate", Closed(status), "done", "requeue")
            [] OTHER ->
                 Save("update", [status EXCEPT !.phase = "WaitingForPR"],
                      "poll", "requeue")
    BY <1>8 DEF PRQueryAnswered
  <2>2. \E phase \in {"Merged", "Closed"} :
           op'.status = [op.status EXCEPT !.prState = state, !.phase = phase]
    BY <1>t, <2>1 DEF Closed
  <2>3. QED
    BY <1>t, <2>2 DEF AtRest, TerminalPhases, Status
<1>9. QED
  BY <1>1, <1>2, <1>3, <1>4, <1>5, <1>6, <1>7, <1>8 DEF Deliberation

\* A reconcile ends without a word only for a task that is over.
LEMMA DeliberationEnds ==
    ASSUME TypeOK, Deliberation, op' = Idle
    PROVE  \/ delay' # "none"
           \/ op.pc = "dispatch" /\ op.status.phase \in TerminalPhases
<1>1. CASE ReconcileTerminal
  BY <1>1 DEF ReconcileTerminal, Handling
<1>2. CASE RunningPodNotReady \/ QueryFails \/ PRQueryFails
  BY <1>2 DEF RunningPodNotReady, QueryFails, PRQueryFails, Return, TypeOK
<1>3. CASE ~ReconcileTerminal /\ ~RunningPodNotReady /\ ~QueryFails /\ ~PRQueryFails
  <2>1. op'.pc # "idle"
    BY <1>3
    DEF Deliberation, Initialize, PendingNoAgent, PendingLaunch,
        RunningPodLost, RunningPodSucceeded, RunningPodReady, QueryAnswered,
        FailedRetry, FailedForGood, CleanupFirst, WaitingWithoutPR, WaitingPodLost,
        WaitingPodReady, PRQueryAnswered, Save, Goto, TypeOK, Reconciles
  <2>2. QED
    BY <2>1 DEF Idle
<1>4. QED
  BY <1>1, <1>2, <1>3

\* Whether a task is at rest is a matter of what is stored.
LEMMA SettledIsAtRest == (Settled <=> AtRest(task)) /\ (Settled' <=> AtRest(task'))
BY DEF Settled, AtRest

\* Without failing calls, the operator is awake or will be woken.
LEMMA WokenInductive ==
    ASSUME TruthInv, Woken, [Next]_vars, "api" \notin Faults
    PROVE  Woken'
<1> USE DEF TruthInv
<1>t. /\ op \in Reconciles /\ op.status \in Status /\ task \in Status
      /\ op.result \in Results /\ op.onError \in Results
  BY DEF TypeOK, Reconciles
<1>f. ~Fault("api")
  BY DEF Fault
<1>d. Prepares' /\ op'.result = "done" /\ op'.pc # "closeNoPR" =>
          op'.status.phase # task'.phase \/ AtRest(op'.status)
  <2> SUFFICES ASSUME Prepares', op'.result = "done", op'.pc # "closeNoPR"
               PROVE  op'.status.phase # task'.phase \/ AtRest(op'.status)
    OBVIOUS
  <2>1. CASE /\ Prepares /\ op' = [op EXCEPT !.pc = op'.pc]
             /\ op'.pc = op.pc \/ op.pc \in {"finalize", "graduate", "cleanup"}
    <3>1. op'.status = op.status /\ op'.result = op.result /\ op.pc # "closeNoPR"
      BY <1>t, <2>1 DEF Reconciles
    <3>2. task' = task
      BY PreparesFrom
    <3>3. QED
      BY <2>1, <3>1, <3>2 DEF Woken
  <2>2. CASE Deliberation /\ op.status = task
    BY <2>2, DoneMeansChanged, PreparesFrom DEF Prepares
  <2>3. CASE CreatePod
    BY <2>3, <1>t DEF CreatePod, Save, Reconciles
  <2>4. QED
    BY <2>1, <2>2, <2>3, PreparesFrom
<1>w. ASSUME op.pc # "idle", op'.fresh = op.fresh, ~Dequeue
      PROVE  ~op'.fresh => queued' \/ ~cacheFresh'
  BY <1>w, WakeUpStays DEF Woken
<1>1. CASE Deliberation
  <2>1. op.pc \in Reading /\ task' = task /\ ~Dequeue
    BY <1>1, DeliberationReads DEF apiVars, Reading, Dequeue
  <2>2. CASE op' = Idle
    <3>1. op.status.phase \in TerminalPhases /\ op.fresh => AtRest(task')
      BY <2>1 DEF Coherent, Reading, AtRest
    <3>2. ~op.fresh => queued' \/ ~cacheFresh'
      BY <2>1, WakeUpStays DEF Woken, Reading
    <3>3. Settled' \/ queued' \/ delay' # "none" \/ ~cacheFresh'
      BY <1>1, <2>2, <3>1, <3>2, DeliberationEnds, SettledIsAtRest
    <3>4. op'.pc = "idle"
      BY <2>2 DEF Idle
    <3>5. QED
      BY <1>d, <3>3, <3>4 DEF Woken
  <2>3. CASE /\ op'.fresh = op.fresh
             /\ op'.pc \in Reading
    BY <1>d, <1>w, <2>1, <2>3 DEF Woken, Reading
  <2>4. CASE /\ op'.fresh = op.fresh
             /\ op'.pc \in Writing /\ Derives(op.status, op'.pc, op'.status)
    <3>1. op'.pc = "closeNoPR" => op'.status.phase = "Closed"
      BY <1>t, <2>4
      DEF Derives, FromReply, FromPRReply, FromPod, FromPhase, Closed, Status
    <3>2. QED
      BY <1>d, <1>w, <2>1, <2>4, <3>1 DEF Woken, Reading, Writing
  <2>5. QED
    BY <1>1, <2>1, <2>2, <2>3, <2>4, DeliberationEffect DEF Trail
<1>2. CASE CreatePod
  <2>1. op.pc = "create" /\ op'.pc = "update" /\ op'.fresh = op.fresh
    BY <1>2, <1>t, CreatePodEffect DEF Reconciles
  <2>2. ~Dequeue
    BY <2>1 DEF Dequeue
  <2>3. QED
    BY <1>d, <1>w, <2>1, <2>2 DEF Woken
<1>3. CASE Update
  <2>1. op.pc = "update" /\ op' = Idle /\ ~Dequeue
    BY <1>3, UpdateEffect DEF Update, Dequeue
  <2>2. Settled' \/ queued' \/ delay' # "none" \/ ~cacheFresh'
    <3>1. CASE op.fresh
      <4>1. StatusStored /\ Return(op.result) /\ task' = op.status
        BY <1>3, <1>f, <3>1 DEF Update, StatusStored, StatusConflict, StatusCallFails, WriteStatus
      <4>2. CASE op.result = "done"
        <5>1. op.status.phase # task.phase \/ AtRest(op.status)
          BY <2>1, <3>1, <4>2 DEF Woken, Prepares, Writing
        <5>2. op.status # task => ~cacheFresh'
          BY <4>1 DEF StatusStored, WriteStatus
        <5>3. QED
          BY <4>1, <5>1, <5>2, SettledIsAtRest
      <4>3. CASE op.result # "done"
        BY <1>t, <4>1, <4>3 DEF Return, Results, TypeOK
      <4>4. QED
        BY <4>2, <4>3
    <3>2. CASE ~op.fresh
      BY <2>1, <3>2, WakeUpStays DEF Woken
    <3>3. QED
      BY <3>1, <3>2
  <2>3. op'.pc = "idle"
    BY <2>1 DEF Idle
  <2>4. QED
    BY <1>d, <2>2, <2>3 DEF Woken
<1>4. CASE CloseWithoutPR
  <2>1. /\ op.pc = "closeNoPR" /\ op'.pc = "cleanupLast" /\ op'.fresh = op.fresh
        /\ ~Dequeue
    BY <1>4, <1>t, UpdateEffect DEF CloseWithoutPR, Reconciles, Dequeue
  <2>2. op.fresh => Settled'
    <3>1. op.fresh => task' = op.status
      BY <1>4, <1>f
      DEF CloseWithoutPR, StatusStored, StatusConflict, StatusCallFails, WriteStatus
    <3>2. AtRest(op.status)
      BY <2>1 DEF Woken, AtRest, TerminalPhases
    <3>3. QED
      BY <3>1, <3>2, SettledIsAtRest
  <2>3. QED
    BY <1>d, <1>w, <2>1, <2>2 DEF Woken
<1>5. CASE CleanupLast
  <2>1. op.pc = "cleanupLast" /\ task' = task /\ ~Dequeue /\ op'.pc = "idle"
    BY <1>5 DEF CleanupLast, Return, Idle, Dequeue, apiVars
  <2>2. queued' \/ ~cacheFresh' \/ Settled'
    BY <2>1, WakeUpStays, SettledIsAtRest DEF Woken
  <2>3. QED
    BY <1>d, <2>1, <2>2 DEF Woken
<1>6. CASE Dequeue
  <2>1. op'.pc = "dispatch" /\ (~op'.fresh => ~cacheFresh')
    BY <1>6 DEF Dequeue, Idle, apiVars
  <2>2. QED
    BY <1>d, <2>1 DEF Woken
<1>7. CASE Crash
  <2>1. op'.pc = "idle" /\ queued'
    BY <1>7 DEF Crash, Idle
  <2>2. QED
    BY <1>d, <2>1 DEF Woken
<1>8. CASE Finalize \/ Graduate \/ Cleanup
  <2>1. /\ op.pc # "idle" /\ op'.fresh = op.fresh /\ ~Dequeue
        /\ op'.pc \in {"update", "cleanup"}
    BY <1>8, <1>t DEF Finalize, Graduate, Cleanup, Goto, Reconciles, Dequeue
  <2>2. QED
    BY <1>d, <1>w, <2>1 DEF Woken
<1>9. CASE Events \/ EditSpec \/ Kubelet \/ Worker \/ Human \/ UNCHANGED vars
  <2>1. /\ task' = task /\ op'.pc = op.pc /\ op'.status = op.status
        /\ op'.fresh = op.fresh \/ ~cacheFresh'
    BY <1>9, <1>t
    DEF Events, TaskEvent, DelayExpires, PodEvent, EditSpec, vars, apiVars, Reconciles,
        Kubelet, KubeletStarts, KubeletRemoves, PodDies,
        Worker, WorkerStarts, WorkerOpensPR, WorkerLosesPR, WorkerEnds, WorkerActs,
        Human, HumanMarksReady, HumanMerges, HumanCloses, HumanReopens, HumanActs
  <2>2. CASE ~Dequeue
    BY <1>d, <2>1, <2>2, WakeUpStays, DelayStays, SettledIsAtRest DEF Woken
  <2>3. CASE Dequeue
    BY <1>6, <2>3
  <2>4. QED
    BY <2>2, <2>3
<1>10. QED
  BY <1>1, <1>2, <1>3, <1>4, <1>5, <1>6, <1>7, <1>8, <1>9, StepEffects DEF Events

\* While no call to the API server fails, an unfinished task is never
\* forgotten: whenever the operator is idle, something will make it look at the
\* task again.  (With failing calls it can be: handleRunning drops the error of
\* one of its updates.)
THEOREM NeverParked ==
    ASSUME "api" \notin Faults
    PROVE  Spec => []NotParked
<1>1. Init => Woken
  BY DEF Init, Idle, Woken, Prepares
<1>2. TruthInv /\ Woken /\ [Next]_vars => Woken'
  BY WokenInductive
<1>3. Woken => NotParked
  BY DEF Woken, NotParked
<1>4. QED
  BY <1>1, <1>2, <1>3, AlwaysTruthful, PTL DEF Spec

-----------------------------------------------------------------------------
(* Only a merge by a human makes a task Merged, if the pod cache is current *)

\* By status s, the worker of an attempt that is over has ended its run, or its
\* pod has.
Over(s) ==
    \A a \in Attempts : PastIn(s, a) /\ Live(a) => work[a] \in Outcomes

\* The workers of the attempts that are over have ended, so nobody opens a pull
\* request behind a merge.
Quiet ==
    /\ seen = pod
    /\ Over(task)
    /\ Prepares => Over(op.status)
    /\ MergedMeansMerged
    /\ Prepares /\ op.status.phase = "Merged" => pr = "merged"

\* Without lag the cache holds what the API server holds.
LEMMA CacheIsCurrent ==
    ASSUME ~PodCacheLag, seen = pod, [Next]_vars
    PROVE  seen' = pod'
<1> USE DEF podVars
<1>1. CASE CreatePod \/ Kubelet
  BY <1>1
  DEF CreatePod, PodCreated, PodAlreadyExists, PodsBecome,
      Kubelet, KubeletStarts, KubeletRemoves, PodDies
<1>2. CASE \E a \in Attempts : PodEvent(a)
  BY <1>2 DEF PodEvent
<1>3. CASE \/ Crash \/ Finalize \/ Update \/ CloseWithoutPR \/ Cleanup
           \/ CleanupLast \/ Graduate \/ Worker \/ Human
  BY <1>3
  DEF Crash, Finalize, Update, CloseWithoutPR, Cleanup, CleanupLast, Graduate,
      Worker, WorkerStarts, WorkerOpensPR, WorkerLosesPR, WorkerEnds, WorkerActs,
      Human, HumanMarksReady, HumanMerges, HumanCloses, HumanReopens, HumanActs
<1>4. QED
  BY <1>1, <1>2, <1>3, StepEffects

\* A pod becomes live only when it is made, and a run that has ended has ended
\* unless its pod is made again.
LEMMA PodsAndRunsEnd ==
    ASSUME TypeOK, [Next]_vars, NEW a \in Attempts,
           ~(CreatePod /\ PodCreated(op.status.retryCount) /\ op.status.retryCount = a)
    PROVE  /\ pod'[a] \in {"Pending", "Running"} => Live(a)
           /\ work[a] \in Outcomes => work'[a] = work[a]
<1>t. pod \in [Attempts -> PodPhases] /\ work \in [Attempts -> WorkStates]
  BY DEF TypeOK
<1>1. CASE CreatePod /\ PodCreated(op.status.retryCount)
  BY <1>1, <1>t DEF PodCreated, PodsBecome, Live
<1>2. ASSUME NEW b \in Attempts, UNCHANGED <<work, knowsPR>>,
             KubeletStarts(b) \/ KubeletRemoves(b) \/ PodDies(b)
      PROVE  /\ pod'[a] \in {"Pending", "Running"} => Live(a)
             /\ work[a] \in Outcomes => work'[a] = work[a]
  BY <1>2, <1>t DEF KubeletStarts, KubeletRemoves, PodDies, PodsBecome, Live
<1>3. ASSUME NEW b \in Attempts, UNCHANGED podVars,
             \/ WorkerStarts(b) \/ WorkerOpensPR(b)
             \/ WorkerLosesPR(b) \/ WorkerEnds(b)
      PROVE  /\ pod'[a] \in {"Pending", "Running"} => Live(a)
             /\ work[a] \in Outcomes => work'[a] = work[a]
  BY <1>3, <1>t
  DEF WorkerStarts, WorkerOpensPR, WorkerLosesPR, WorkerEnds, podVars, Live, Outcomes,
      Promise!Starts, Promise!OpensPR, Promise!LosesPR, Promise!Ends,
      Promise!CanOpenPR, Promise!Answers
<1>4. QED
  BY <1>1, <1>2, <1>3, PodEffects DEF Live

\* What is over stays over.
LEMMA OverStays ==
    ASSUME TypeOK, Coherent, Trail, [Next]_vars, NEW s \in Status, Over(s),
           CreatePod => ~PastIn(s, task.retryCount)
    PROVE  \A a \in Attempts :
              PastIn(s, a) /\ pod'[a] \in {"Pending", "Running"} => work'[a] \in Outcomes
<1> SUFFICES ASSUME NEW a \in Attempts, PastIn(s, a), pod'[a] \in {"Pending", "Running"}
             PROVE  work'[a] \in Outcomes
  OBVIOUS
<1>1. ~(CreatePod /\ op.status.retryCount = a)
  BY CreatesForCurrent
<1>2. Live(a) /\ (work[a] \in Outcomes => work'[a] = work[a])
  BY <1>1, PodsAndRunsEnd
<1>3. QED
  BY <1>2 DEF Over

\* What a handler derives from the stored status calls no run over that is not.
LEMMA DerivesOver ==
    ASSUME TypeOK, Trail, seen = pod, Over(task), NEW pc, NEW t, Derives(task, pc, t)
    PROVE  Over(t)
<1> DEFINE n == task.retryCount
<1>t. task \in Status /\ n \in Attempts /\ n \in Int /\ n # NoPod
  BY AttemptsAreNumbers, RetryCountFacts DEF TypeOK, Status, Attempts
<1>w. task.phase \in {"Running", "Completed", "WaitingForPR"} => task.workerPod = n
  BY UnsetIsNoName DEF Trail, WellFormed
<1>1. CASE t.retryCount = n /\ (Live(n) => work[n] \in Outcomes)
  <2>1. \A a \in Attempts : PastIn(t, a) => PastIn(task, a) \/ a = n
    BY <1>1 DEF PastIn
  <2>2. QED
    BY <1>1, <2>1 DEF Over
<1>2. CASE /\ t.retryCount = n /\ t.phase \in {Unset, "Pending", "Running"}
  <2>1. \A a \in Attempts : PastIn(t, a) => PastIn(task, a)
    BY <1>2 DEF PastIn
  <2>2. QED
    BY <2>1 DEF Over
<1>3. CASE task.phase \notin {Unset, "Pending", "Running"}
  <2>1. Live(n) => work[n] \in Outcomes
    BY <1>3, <1>t DEF Over, PastIn
  <2>2. CASE t.retryCount = n
    BY <1>1, <2>1, <2>2
  <2>3. CASE t.retryCount = n + 1 /\ t.phase = "Pending"
    <3>1. \A a \in Attempts : PastIn(t, a) => PastIn(task, a)
      BY <1>3, <1>t, <2>3, AttemptsAreNumbers DEF PastIn
    <3>2. QED
      BY <3>1 DEF Over
  <2>4. t.retryCount = n \/ (t.retryCount = n + 1 /\ t.phase = "Pending")
    BY <1>3, <1>t, UnsetIsNoName, RetryCountFacts
    DEF Derives, FromReply, FromPRReply, FromPod, FromPhase, Learned, Closed, Retried,
        Status, Attempts
  <2>5. QED
    BY <2>2, <2>3, <2>4
<1>4. CASE task.phase = "Running"
  <2>1. t.retryCount = n
    BY <1>4, <1>t, UnsetIsNoName
    DEF Derives, FromReply, FromPRReply, FromPod, FromPhase, Learned, Status
  <2>2. \/ t.phase = "Running"
        \/ work[n] \in Outcomes
        \/ seen[n] \in {"absent", "Failed", "Succeeded"}
    BY <1>4, <1>t, <1>w, UnsetIsNoName
    DEF Derives, FromReply, FromPRReply, FromPod, FromPhase, Learned, Status, Seen,
        Outcomes
  <2>3. QED
    BY <1>1, <1>2, <2>1, <2>2 DEF Live
<1>5. CASE task.phase \in {Unset, "Pending"}
  <2>1. t.retryCount = n /\ t.phase \in {Unset, "Pending"}
    BY <1>5, <1>t, UnsetIsNoName
    DEF Derives, FromReply, FromPRReply, FromPod, FromPhase, Status
  <2>2. QED
    BY <1>2, <2>1
<1>6. QED
  BY <1>3, <1>4, <1>5

\* The pull request changes when a live worker opens one, when it is marked
\* ready, and when a human decides on it or opens it again.
LEMMA PREffects ==
    ASSUME [Next]_vars
    PROVE  \/ pr' = pr
           \/ /\ \E a \in Attempts : /\ WorkerOpensPR(a) \/ WorkerLosesPR(a)
                                     /\ pod[a] = "Running" /\ work[a] = "Running"
                                     /\ a \notin knowsPR
              /\ pr \in {"none", "merged", "closed"} /\ pr' = "draft"
              /\ UNCHANGED <<task, podVars, op>>
           \/ pr = "draft" /\ pr' = "ready" /\ (Finalize \/ Human)
           \/ pr \in {"draft", "ready", "reopened"} /\ pr' \in {"merged", "closed"} /\ Human
           \/ pr = "closed" /\ pr' = "reopened" /\ Human
<1> USE DEF apiVars
<1>1. CASE Worker
  BY <1>1
  DEF Worker, WorkerStarts, WorkerOpensPR, WorkerLosesPR, WorkerEnds, WorkerActs,
      Promise!Starts, Promise!OpensPR, Promise!LosesPR, Promise!Ends, Promise!CanOpenPR
<1>2. CASE Finalize \/ Human
  BY <1>2 DEF Finalize, MarkReady, Human, HumanMarksReady, HumanMerges, HumanCloses, HumanReopens
<1>3. CASE \/ CreatePod \/ Update \/ CloseWithoutPR \/ Cleanup \/ CleanupLast
           \/ Graduate \/ (\E a \in Attempts : PodEvent(a)) \/ Crash \/ Kubelet
  BY <1>3
  DEF CreatePod, Update, CloseWithoutPR, Cleanup, CleanupLast, Graduate,
      PodEvent, Crash, Kubelet, KubeletStarts, KubeletRemoves, PodDies, worldVars
<1>4. QED
  BY <1>1, <1>2, <1>3, StepEffects DEF worldVars

\* Nobody works for a task that is over.
LEMMA NobodyWorks ==
    ASSUME TypeOK, Fates, NEW s \in Status, Over(s), s.retryCount = task.retryCount,
           s.phase \notin {Unset, "Pending", "Running"}, NEW a \in Attempts, Live(a)
    PROVE  work[a] \in Outcomes
<1>1. a \in Int /\ task.retryCount \in Int
  BY AttemptsAreNumbers DEF TypeOK, Status, Attempts
<1>2. a <= task.retryCount
  BY <1>1 DEF Fates, Live
<1>3. PastIn(s, a)
  BY <1>1, <1>2 DEF PastIn
<1>4. QED
  BY <1>3 DEF Over

\* Every step keeps the attempts that are over quiet and a merge in place.
LEMMA QuietInductive ==
    ASSUME ~PodCacheLag, TruthInv, Quiet, [Next]_vars
    PROVE  Quiet'
<1> USE DEF TruthInv
<1>t. /\ op \in Reconciles /\ op.status \in Status /\ task \in Status
      /\ pr \in PRStates
  BY DEF TypeOK, Reconciles
<1>c. CreatePod => ~PastIn(task, task.retryCount)
  BY CreatesForCurrent, AttemptsAreNumbers DEF PastIn, TypeOK, Status, Attempts
<1>m. Prepares => op.pc # "create"
  BY DEF Prepares, Writing
<1>1. seen' = pod'
  BY CacheIsCurrent DEF Quiet
<1>2. Over(task)'
  <2>1. CASE task' = task
    BY <1>t, <1>c, <2>1, OverStays DEF Quiet, Over, Live
  <2>2. CASE Prepares /\ task' = op.status /\ UNCHANGED <<podVars, workerVars>>
    BY <2>2 DEF Quiet, Over, Live, podVars, workerVars
  <2>3. QED
    BY <2>1, <2>2, StoresPrepared
<1>3. ASSUME Prepares' PROVE Over(op.status)'
  <2>1. CASE Prepares /\ op' = [op EXCEPT !.pc = op'.pc] /\ ~CreatePod
    <3>1. op'.status = op.status
      BY <1>t, <2>1 DEF Reconciles
    <3>2. QED
      BY <1>t, <2>1, <3>1, OverStays DEF Quiet, Over, Live
  <2>2. CASE Deliberation /\ Derives(task, op'.pc, op'.status)
    <3>1. Over(op'.status)
      BY <2>2, DerivesOver DEF Quiet
    <3>2. UNCHANGED <<podVars, workerVars>>
      BY <2>2, DeliberationReads
    <3>3. QED
      BY <3>1, <3>2 DEF Over, Live, podVars, workerVars
  <2>3. CASE CreatePod /\ op.status = task /\ op'.status \in {task, Launched(task)}
    <3>1. task' = task /\ op.status.phase = "Pending"
      BY <2>3, CreatePodEffect DEF apiVars, CreatePod, Coherent
    <3>2. \A a \in Attempts : PastIn(op'.status, a) => PastIn(task', a)
      BY <1>t, <2>3, <3>1 DEF PastIn, Launched, Status
    <3>3. QED
      BY <1>2, <3>2 DEF Over, Live
  <2>4. QED
    BY <1>3, <2>1, <2>2, <2>3, PreparesFrom
<1>4. \A s \in Status :
         /\ Over(s) /\ s.retryCount = task.retryCount /\ s.phase = "Merged"
         /\ pr = "merged"
         => pr' = "merged"
  <2> SUFFICES ASSUME NEW s \in Status, Over(s), s.retryCount = task.retryCount,
                      s.phase = "Merged", pr = "merged", pr' # "merged"
               PROVE  FALSE
    OBVIOUS
  <2>1. PICK a \in Attempts : pod[a] = "Running" /\ work[a] = "Running"
    BY PREffects
  <2>2. work[a] \in Outcomes
    BY <2>1, NobodyWorks, UnsetIsNoName DEF Live
  <2>3. QED
    BY <2>1, <2>2 DEF Outcomes
<1>5. task'.phase = "Merged" => pr' = "merged"
  <2>1. CASE task' = task
    BY <1>t, <1>4, <2>1 DEF Quiet, MergedMeansMerged
  <2>2. CASE Prepares /\ task' = op.status /\ UNCHANGED worldVars
    BY <2>2 DEF Quiet, worldVars
  <2>3. QED
    BY <2>1, <2>2, StoresPrepared
<1>6. ASSUME Prepares', op'.status.phase = "Merged" PROVE pr' = "merged"
  <2>1. CASE Prepares /\ op' = [op EXCEPT !.pc = op'.pc]
    <3>1. op'.status = op.status
      BY <1>t, <2>1 DEF Reconciles
    <3>2. Moves(task, op.status)
      BY <2>1 DEF Coherent, Prepares, Writing
    <3>3. op.status.retryCount = task.retryCount
      BY <1>6, <3>1, <3>2, MoveCases
    <3>4. QED
      BY <1>6, <1>t, <1>4, <2>1, <3>1, <3>3 DEF Quiet
  <2>2. CASE Deliberation /\ Derives(task, op'.pc, op'.status)
    <3>1. pr = "merged" \/ task.phase = "Merged"
      BY <1>6, <1>t, <2>2
      DEF Derives, FromReply, FromPRReply, FromPod, FromPhase, Learned, Closed, Retried,
          Status
    <3>2. pr' = pr
      BY <2>2, DeliberationReads DEF worldVars
    <3>3. QED
      BY <3>1, <3>2 DEF Quiet, MergedMeansMerged
  <2>3. CASE CreatePod /\ op.status = task /\ op'.status \in {task, Launched(task)}
    <3>1. op.status.phase = "Pending"
      BY <2>3 DEF CreatePod, Coherent
    <3>2. op'.status.phase \in {"Pending", "Running"}
      BY <1>t, <2>3, <3>1 DEF Launched, Status
    <3>3. QED
      BY <1>6, <3>2
  <2>4. QED
    BY <1>6, <2>1, <2>2, <2>3, PreparesFrom
<1>7. QED
  BY <1>1, <1>2, <1>3, <1>5, <1>6 DEF Quiet, MergedMeansMerged

\* What holds of the runs when the pod cache follows the API server at once.
LEMMA AlwaysQuiet ==
    ASSUME ~PodCacheLag
    PROVE  Spec => []Quiet
<1>1. Init => Quiet
  BY UnsetIsNoName
  DEF Init, Quiet, Over, Live, Idle, NewTask, Prepares, MergedMeansMerged
<1>2. TruthInv /\ Quiet /\ [Next]_vars => Quiet'
  BY QuietInductive
<1>3. QED
  BY <1>1, <1>2, AlwaysTruthful, PTL DEF Spec

\* While the pod cache is current, a task is Merged only if a human merged its
\* pull request and no other was opened since, also if the answer to the poll
\* is stored much later.
THEOREM MergedByHuman ==
    ASSUME ~PodCacheLag
    PROVE  Spec => []MergedMeansMerged
<1>1. Quiet => MergedMeansMerged
  BY DEF Quiet
<1>2. QED
  BY <1>1, AlwaysQuiet, PTL

-----------------------------------------------------------------------------
(* No stray worker, if also no call to the API server fails *)

\* By status s, only its attempt's worker may live, unless it is being deleted,
\* and none once the task is over.
Alone(s) ==
    \A a \in Attempts : Live(a) /\ a \notin deleting =>
        a = s.retryCount /\ s.phase \notin TerminalPhases

\* A status is stored once the pod it leaves behind is gone or being deleted.
TidiedUp ==
    /\ Alone(task)
    /\ op.fresh /\ op.pc = "update" => Alone(op.status)
    /\ op.fresh /\ op.pc \in {"graduate", "cleanup"} => op.worker = task.retryCount
    /\ op.fresh /\ op.pc = "closeNoPR" =>
          task.phase = "Completed" /\ op.status.retryCount = task.retryCount

\* A pod that lives and is not being deleted did so before, or was just made.
LEMMA LivesOn ==
    ASSUME TypeOK, [Next]_vars, NEW a \in Attempts,
           pod'[a] \in {"Pending", "Running"}, a \notin deleting'
    PROVE  \/ Live(a) /\ a \notin deleting
           \/ CreatePod /\ op.status.retryCount = a
<1>t. pod \in [Attempts -> PodPhases]
  BY DEF TypeOK
<1>1. CASE Kubelet
  <2>1. PICK b \in Attempts : KubeletStarts(b) \/ KubeletRemoves(b) \/ PodDies(b)
    BY <1>1 DEF Kubelet
  <2>2. QED
    BY <1>t, <2>1 DEF KubeletStarts, KubeletRemoves, PodDies, PodsBecome, Live
<1>2. CASE CreatePod
  BY <1>2, <1>t DEF CreatePod, PodCreated, PodAlreadyExists, PodsBecome, podVars, Live
<1>3. CASE Cleanup \/ CleanupLast
  BY <1>3 DEF Cleanup, CleanupLast, DeletePod, Live
<1>4. CASE ~Kubelet /\ ~CreatePod /\ ~Cleanup /\ ~CleanupLast
  <2>1. UNCHANGED <<pod, deleting>>
    BY <1>4, StepEffects
    DEF podVars, Finalize, Update, CloseWithoutPR, Graduate, PodEvent, Crash,
        Worker, WorkerStarts, WorkerOpensPR, WorkerLosesPR, WorkerEnds, WorkerActs,
        Human, HumanMarksReady, HumanMerges, HumanCloses, HumanReopens, HumanActs
  <2>2. QED
    BY <2>1 DEF Live
<1>5. QED
  BY <1>1, <1>2, <1>3, <1>4

\* A waiting task's pod does not start any more, and a completed one's is gone.
LEMMA NotRunningMeansGone ==
    ASSUME TypeOK, Answered, Truthful, task.phase \in {"Completed", "WaitingForPR"},
           pod[task.retryCount] # "Running"
    PROVE  ~Live(task.retryCount)
<1>1. task.retryCount \in Attempts
  BY DEF TypeOK, Status, Attempts
<1>2. QED
  BY <1>1 DEF Answered, Truthful, SaysTruth, Live

\* What a handler derives and saves without cleaning up needs no clean-up.
LEMMA DerivesAlone ==
    ASSUME TruthInv, seen = pod, Alone(task), NEW pc, NEW t, Derives(task, pc, t)
    PROVE  /\ pc = "update" => Alone(t)
           /\ pc \in {"graduate", "cleanup"} => task.workerPod = task.retryCount
           /\ pc = "closeNoPR" =>
                task.phase = "Completed" /\ t.retryCount = task.retryCount
<1> USE DEF TruthInv
<1> DEFINE n == task.retryCount
<1>t. task \in Status /\ n \in Attempts /\ n # NoPod
  BY RetryCountFacts DEF TypeOK, Status, Attempts
<1>w. /\ task.phase \in {"Running", "Completed", "WaitingForPR", "Failed"} =>
            task.workerPod = n
      /\ task.phase = "WaitingForPR" => task.hasPR
  BY UnsetIsNoName DEF Trail, WellFormed
<1>1. CASE FromReply(task, pc, t)
  BY <1>1, <1>t DEF FromReply, Learned, Status, Alone, TerminalPhases
<1>2. CASE FromPRReply(task, pc, t)
  BY <1>2, <1>t, <1>w DEF FromPRReply, Status, Alone, TerminalPhases
<1>3. CASE FromPod(task, pc, t)
  <2>1. CASE task.phase = "Running"
    BY <1>3, <1>t, <2>1 DEF FromPod, Status, Alone, TerminalPhases
  <2>2. CASE task.phase \in {"Completed", "WaitingForPR"}
    <3>1. t.retryCount = n /\ pc \in {"closeNoPR", "update"}
          /\ (pc = "closeNoPR" => ~task.hasPR)
          /\ (pc = "update" => seen[n] # "Running")
      BY <1>3, <1>t, <1>w, <2>2 DEF FromPod, Closed, Status, Seen
    <3>2. pc = "update" => ~Live(n)
      BY <2>2, <3>1, NotRunningMeansGone
    <3>3. QED
      BY <1>w, <2>2, <3>1, <3>2 DEF Alone
  <2>3. QED
    BY <1>3, <2>1, <2>2 DEF FromPod
<1>4. CASE FromPhase(task, pc, t)
  BY <1>4, <1>t, <1>w DEF FromPhase, Status, Alone, TerminalPhases
<1>5. QED
  BY <1>1, <1>2, <1>3, <1>4 DEF Derives

\* A reconcile that has derived what to write moves on by its calls only.
LEMMA MovesOnItsOwn ==
    ASSUME TypeOK, [Next]_vars, ~Deliberation, ~CreatePod, Prepares, Prepares'
    PROVE  op'.pc = op.pc \/ Finalize \/ Graduate \/ Cleanup
<1>t. op \in Reconciles
  BY DEF TypeOK
<1>1. CASE Update \/ CloseWithoutPR
  BY <1>1, <1>t, UpdateEffect DEF Prepares, Writing, Idle, Reconciles
<1>2. CASE Dequeue \/ Crash \/ CleanupLast
  BY <1>2 DEF Dequeue, Crash, CleanupLast, Return, Prepares, Writing, Idle
<1>3. CASE TaskEvent \/ DelayExpires \/ EditSpec \/ UNCHANGED vars
           \/ (\E a \in Attempts : PodEvent(a))
  BY <1>3, <1>t DEF TaskEvent, DelayExpires, EditSpec, PodEvent, vars, Reconciles
<1>4. CASE Kubelet \/ Worker \/ Human
  BY <1>4
  DEF Kubelet, KubeletStarts, KubeletRemoves, PodDies,
      Worker, WorkerStarts, WorkerOpensPR, WorkerLosesPR, WorkerEnds, WorkerActs,
      Human, HumanMarksReady, HumanMerges, HumanCloses, HumanReopens, HumanActs
<1>5. QED
  BY <1>1, <1>2, <1>3, <1>4, StepEffects

\* A step leaves a pod of another attempt only if it is being deleted.
LEMMA TidiedUpInductive ==
    ASSUME ~PodCacheLag, "api" \notin Faults, TruthInv, Quiet, TidiedUp, [Next]_vars
    PROVE  TidiedUp'
<1> USE DEF TruthInv
<1>t. /\ op \in Reconciles /\ op.status \in Status /\ task \in Status
      /\ op.status.retryCount \in Attempts /\ task.retryCount \in Attempts
  BY DEF TypeOK, Reconciles, Status, Attempts
<1>a. \A s \in Status :
         Alone(s) /\ (CreatePod => task.retryCount = s.retryCount /\
                                   s.phase \notin TerminalPhases)
         => \A a \in Attempts : pod'[a] \in {"Pending", "Running"} /\ a \notin deleting'
              => a = s.retryCount /\ s.phase \notin TerminalPhases
  BY LivesOn, CreatesForCurrent DEF Alone
<1>c. CreatePod => task.phase \notin TerminalPhases
  BY CreatesForCurrent DEF TerminalPhases
<1>1. Alone(task)'
  <2>1. CASE task' = task
    BY <1>a, <1>c, <1>t, <2>1 DEF TidiedUp, Alone, Live
  <2>2. CASE Update /\ Prepares /\ task' = op.status /\ UNCHANGED podVars
    BY <2>2 DEF Update, TidiedUp, Prepares, Alone, Live, podVars
  <2>3. CASE CloseWithoutPR /\ Prepares /\ task' = op.status /\ UNCHANGED podVars
    <3>1. ~Live(task.retryCount) /\ op.status.retryCount = task.retryCount
      BY <2>3 DEF CloseWithoutPR, TidiedUp, Prepares, Truthful, SaysTruth
    <3>2. \A a \in Attempts : Live(a) => a \in deleting
      BY <3>1 DEF TidiedUp, Alone
    <3>3. QED
      BY <2>3, <3>2 DEF Alone, Live, podVars
  <2>4. QED
    BY <2>1, <2>2, <2>3, StoresPrepared
<1>2. ASSUME Prepares'
      PROVE  /\ op'.pc = "update" => Alone(op.status)'
             /\ op'.pc \in {"graduate", "cleanup"} => op'.worker = task'.retryCount
             /\ op'.pc = "closeNoPR" =>
                  task'.phase = "Completed" /\ op'.status.retryCount = task'.retryCount
  <2>1. CASE /\ Prepares /\ op' = [op EXCEPT !.pc = op'.pc]
             /\ op'.pc = op.pc \/ op.pc \in {"finalize", "graduate", "cleanup"}
             /\ ~Deliberation /\ ~CreatePod /\ task' = task
    <3>1. op'.status = op.status /\ op'.worker = op.worker
      BY <1>t, <2>1 DEF Reconciles
    <3>2. CASE op'.pc = op.pc
      BY <1>a, <1>t, <2>1, <3>1, <3>2 DEF TidiedUp, Prepares, Alone, Live
    <3>3. CASE op.pc # op'.pc /\ Finalize
      <4>1. op'.pc = "update" /\ Moves(task, op.status) /\ op.status.phase = "WaitingForPR"
        BY <1>t, <2>1, <3>3
        DEF Finalize, Goto, Reconciles, Coherent, Prepares, Writing, Trail
      <4>2. op.status.retryCount = task.retryCount
        BY <4>1, MoveCases
      <4>3. \A a \in Attempts : pod'[a] \in {"Pending", "Running"} /\ a \notin deleting'
              => a = op.status.retryCount
        BY <1>a, <1>t, <2>1, <4>2 DEF TidiedUp
      <4>4. QED
        BY <3>1, <4>1, <4>3 DEF Alone, Live, TerminalPhases
    <3>4. CASE op.pc # op'.pc /\ Graduate
      <4>1. op'.pc = "cleanup" /\ op.pc = "graduate"
        BY <1>t, <3>4 DEF Graduate, Goto, Reconciles
      <4>2. QED
        BY <2>1, <3>1, <4>1 DEF TidiedUp, Prepares
    <3>5. CASE op.pc # op'.pc /\ Cleanup
      <4>1. /\ op'.pc = "update" /\ op.pc = "cleanup" /\ DeletePod(op.worker)
            /\ pod' = pod
        BY <1>t, <3>5 DEF Cleanup, Goto, Reconciles
      <4>2. op.worker = task.retryCount /\ op.worker # NoPod
        BY <1>t, <2>1, <4>1, RetryCountFacts DEF TidiedUp, Prepares, Attempts
      <4>3. Live(op.worker) => deleting' = deleting \cup {op.worker}
        BY <4>1, <4>2 DEF DeletePod, Fault, Seen, Quiet, Live
      <4>4. deleting \subseteq deleting'
        BY <4>1, <4>2 DEF DeletePod
      <4>5. \A a \in Attempts : pod'[a] \in {"Pending", "Running"} => a \in deleting'
        BY <4>1, <4>2, <4>3, <4>4 DEF TidiedUp, Alone, Live
      <4>6. QED
        BY <4>1, <4>5 DEF Alone, Live
    <3>6. op'.pc = op.pc \/ Finalize \/ Graduate \/ Cleanup
      BY <1>2, <2>1, MovesOnItsOwn
    <3>7. QED
      BY <3>2, <3>3, <3>4, <3>5, <3>6
  <2>2. CASE /\ Deliberation /\ Derives(task, op'.pc, op'.status)
             /\ op'.worker = task.workerPod /\ task' = task
    <3>1. /\ op'.pc = "update" => Alone(op'.status)
          /\ op'.pc \in {"graduate", "cleanup"} => op'.worker = task.retryCount
          /\ op'.pc = "closeNoPR" =>
               task.phase = "Completed" /\ op'.status.retryCount = task.retryCount
      BY <2>2, DerivesAlone DEF TidiedUp, Quiet
    <3>2. UNCHANGED podVars
      BY <2>2, DeliberationReads
    <3>3. QED
      BY <2>2, <3>1, <3>2 DEF Alone, Live, podVars
  <2>3. CASE /\ CreatePod /\ op.status = task /\ task' = task
             /\ op'.pc = "update" /\ op'.status \in {task, Launched(task)}
    <3>1. /\ op'.status.retryCount = task.retryCount
          /\ op'.status.phase \notin TerminalPhases
      BY <1>c, <1>t, <2>3 DEF Launched, Status, TerminalPhases
    <3>2. QED
      BY <1>1, <2>3, <3>1 DEF Alone, Live
  <2>4. QED
    BY <1>2, <2>1, <2>2, <2>3, PreparesFrom
<1>3. QED
  BY <1>1, <1>2 DEF TidiedUp, Prepares, Writing

\* What the clean-ups leave behind when no call fails and the cache is current.
LEMMA AlwaysTidiedUp ==
    ASSUME ~PodCacheLag, "api" \notin Faults
    PROVE  Spec => []TidiedUp
<1>1. Init => TidiedUp
  BY DEF Init, TidiedUp, Alone, Live, Idle
<1>2. TruthInv /\ Quiet /\ TidiedUp /\ [Next]_vars => TidiedUp'
  BY TidiedUpInductive
<1>3. QED
  BY <1>1, <1>2, AlwaysTruthful, AlwaysQuiet, PTL DEF Spec

\* At most one worker can push to the branch, that of the current attempt, and
\* none once the task is over, if the pod cache is current and no Delete fails.
THEOREM OneWorker ==
    ASSUME ~PodCacheLag, "api" \notin Faults
    PROVE  Spec => []NoStrayWorker
<1>1. TidiedUp => NoStrayWorker
  BY DEF TidiedUp, Alone, NoStrayWorker
<1>2. QED
  BY <1>1, AlwaysTidiedUp, PTL

-----------------------------------------------------------------------------
(* Pods that nobody evicts *)

\* A pod runs until the operator deletes it, after its attempt: no task is
\* Completed, and the current attempt's worker and what it knows do not vanish.
Steady ==
    /\ \A a \in Attempts : pod[a] \in {"absent", "Pending", "Running"}
    /\ \A s \in {task, cache, op.status} : s.phase # "Completed"
    /\ \A a \in Attempts : ~PastIn(task, a) =>
          /\ work[a] # "none" => pod[a] = "Running"
          /\ a \in knowsPR => pod[a] # "absent"
    /\ task.phase = "Running" => pod[task.retryCount] # "absent"
    /\ Prepares /\ op.status.phase = "Running" => pod[op.status.retryCount] # "absent"

\* Without evictions only a deleted pod goes away, after its attempt.
LEMMA PodsStay ==
    ASSUME "evict" \notin Faults, TypeOK, Fates, [Next]_vars, NEW a \in Attempts
    PROVE  /\ pod[a] \in {"absent", "Pending", "Running"} =>
                pod'[a] \in {"absent", "Pending", "Running"}
           /\ ~PastIn(task, a) /\ pod[a] # "absent" => pod'[a] # "absent"
           /\ ~PastIn(task, a) /\ pod[a] = "Running" => pod'[a] = "Running"
<1>t. pod \in [Attempts -> PodPhases]
  BY DEF TypeOK
<1>1. CASE CreatePod /\ PodCreated(op.status.retryCount)
  BY <1>1, <1>t DEF PodCreated, PodsBecome
<1>2. ASSUME NEW b \in Attempts, KubeletStarts(b) \/ KubeletRemoves(b) \/ PodDies(b)
      PROVE  /\ pod[a] \in {"absent", "Pending", "Running"} =>
                  pod'[a] \in {"absent", "Pending", "Running"}
             /\ ~PastIn(task, a) /\ pod[a] # "absent" => pod'[a] # "absent"
             /\ ~PastIn(task, a) /\ pod[a] = "Running" => pod'[a] = "Running"
  BY <1>2, <1>t
  DEF KubeletStarts, KubeletRemoves, PodDies, PodsBecome, Fault, Fates
<1>3. QED
  BY <1>1, <1>2, PodEffects DEF podVars

\* What the workers of unfinished attempts say and know comes from their pods.
LEMMA SteadyWorkers ==
    ASSUME "evict" \notin Faults, TypeOK, Fates, Steady, [Next]_vars,
           NEW a \in Attempts, ~PastIn(task, a)
    PROVE  /\ work'[a] # "none" => pod'[a] = "Running"
           /\ a \in knowsPR' => pod'[a] # "absent"
<1>t. pod \in [Attempts -> PodPhases] /\ work \in [Attempts -> WorkStates]
  BY DEF TypeOK
<1>s. /\ work[a] # "none" => pod[a] = "Running"
      /\ a \in knowsPR => pod[a] # "absent"
  BY DEF Steady
<1>1. CASE CreatePod /\ PodCreated(op.status.retryCount)
  BY <1>1, <1>s, <1>t DEF PodCreated, PodsBecome, PayloadPR
<1>2. CASE UNCHANGED <<work, knowsPR>>
  BY <1>2, <1>s, PodsStay
<1>3. ASSUME NEW b \in Attempts, UNCHANGED podVars,
             \/ WorkerStarts(b) \/ WorkerOpensPR(b)
             \/ WorkerLosesPR(b) \/ WorkerEnds(b)
      PROVE  /\ work'[a] # "none" => pod'[a] = "Running"
             /\ a \in knowsPR' => pod'[a] # "absent"
  BY <1>3, <1>s, <1>t
  DEF podVars, WorkerStarts, WorkerOpensPR, WorkerLosesPR, WorkerEnds, WorkerActs,
      Promise!Starts, Promise!OpensPR, Promise!LosesPR, Promise!Ends, Promise!CanOpenPR,
      Promise!Answers
<1>4. QED
  BY <1>1, <1>2, <1>3, PodEffects

\* No handler derives Completed, which takes a pod that ended by itself.
LEMMA NeverCompleted ==
    ASSUME TruthInv, Steady, seen = pod, [Next]_vars
    PROVE  /\ task'.phase # "Completed" /\ cache'.phase # "Completed"
           /\ op'.status.phase # "Completed"
<1> USE DEF TruthInv
<1>t. /\ op \in Reconciles /\ op.status \in Status /\ task \in Status
  BY DEF TypeOK, Reconciles
<1>s. task.phase # "Completed" /\ cache.phase # "Completed" /\ op.status.phase # "Completed"
  BY DEF Steady
<1>i. Idle.status.phase # "Completed"
  BY UnsetIsNoName DEF Idle, NewTask
<1>1. task'.phase # "Completed"
  BY <1>s, StoresPrepared
<1>2. CASE Deliberation
  <2>1. op.pc \in Reading /\ cache' = cache
    BY <1>2, DeliberationReads DEF apiVars
  <2>2. ASSUME Derives(op.status, op'.pc, op'.status)
        PROVE  op'.status.phase # "Completed"
    <3>1. op.status.workerPod \in Attempts => Seen(op.status.workerPod) # "Succeeded"
      BY RetryCountFacts DEF Seen, Steady, Attempts
    <3>2. Seen(NoPod) # "Succeeded"
      BY DEF Seen
    <3>3. QED
      BY <1>s, <1>t, <2>2, <3>1, <3>2, UnsetIsNoName
      DEF Derives, FromReply, FromPRReply, FromPod, FromPhase, Learned, Closed, Retried,
          Status
  <2>3. QED
    BY <1>1, <1>2, <1>s, <1>i, <2>1, <2>2, DeliberationEffect DEF Trail
<1>3. CASE CreatePod
  BY <1>1, <1>3, <1>s, <1>t, CreatePodEffect DEF apiVars, Launched, Status, Reconciles
<1>4. CASE Update \/ CloseWithoutPR
  BY <1>1, <1>4, <1>s, <1>t, <1>i, UpdateEffect DEF Reconciles
<1>5. CASE ~Deliberation /\ ~CreatePod /\ ~Update /\ ~CloseWithoutPR
  <2>1. \/ op'.status \in {op.status, cache} \/ op' = Idle
    BY <1>5, <1>t, OtherEffect DEF Reconciles, Idle
  <2>2. cache' \in {cache, task}
    BY <1>5, OtherEffect
  <2>3. QED
    BY <1>1, <1>s, <1>i, <2>1, <2>2
<1>6. QED
  BY <1>2, <1>3, <1>4, <1>5

\* Without evictions a pod runs on until its attempt is over.
LEMMA SteadyInductive ==
    ASSUME "evict" \notin Faults, TruthInv, TypeOK', Quiet, Steady, [Next]_vars
    PROVE  Steady'
<1> USE DEF TruthInv
<1>t. /\ op \in Reconciles /\ op.status \in Status /\ task \in Status
      /\ op.status.retryCount \in Attempts /\ task.retryCount \in Attempts
  BY DEF TypeOK, Reconciles, Status, Attempts
<1>1. \A a \in Attempts : pod'[a] \in {"absent", "Pending", "Running"}
  BY PodsStay DEF Steady
<1>2. \A s \in {task', cache', op'.status} : s.phase # "Completed"
  BY NeverCompleted DEF Quiet
<1>3. \A a \in Attempts : ~PastIn(task', a) =>
         /\ work'[a] # "none" => pod'[a] = "Running"
         /\ a \in knowsPR' => pod'[a] # "absent"
  BY SteadyWorkers, PastStays
<1>4. \A s \in Status :
         /\ s.phase = "Running" /\ pod[s.retryCount] # "absent"
         /\ s.retryCount = task.retryCount /\ task.phase \in {"Pending", "Running"}
         => pod'[s.retryCount] # "absent"
  BY <1>t, PodsStay, AttemptsAreNumbers DEF PastIn
<1>5. task'.phase = "Running" => pod'[task'.retryCount] # "absent"
  <2>1. CASE task' = task
    BY <1>4, <1>t, <2>1 DEF Steady
  <2>2. CASE Prepares /\ task' = op.status /\ UNCHANGED podVars
    BY <2>2 DEF Steady, podVars
  <2>3. QED
    BY <2>1, <2>2, StoresPrepared
<1>6. ASSUME Prepares', op'.status.phase = "Running"
      PROVE  pod'[op'.status.retryCount] # "absent"
  <2>1. CASE Prepares /\ op' = [op EXCEPT !.pc = op'.pc]
    <3>1. op'.status = op.status
      BY <1>t, <2>1 DEF Reconciles
    <3>2. Moves(task, op.status)
      BY <2>1 DEF Coherent, Prepares, Writing
    <3>3. op.status.retryCount = task.retryCount /\ task.phase \in {"Pending", "Running"}
      BY <1>6, <3>1, <3>2, MoveCases
    <3>4. QED
      BY <1>4, <1>6, <1>t, <2>1, <3>1, <3>3 DEF Steady
  <2>2. CASE Deliberation /\ Derives(task, op'.pc, op'.status)
    <3>1. /\ op'.status.retryCount = task.retryCount
          /\ Answers(task.workerPod) /\ task.phase = "Running"
      BY <1>6, <1>t, <2>2, UnsetIsNoName
      DEF Derives, FromReply, FromPRReply, FromPod, FromPhase, Learned, Closed, Retried,
          Status
    <3>2. task.workerPod = task.retryCount
      BY <3>1, UnsetIsNoName DEF Trail, WellFormed
    <3>3. UNCHANGED podVars
      BY <2>2, DeliberationReads
    <3>4. QED
      BY <3>1, <3>2, <3>3 DEF Answers, podVars
  <2>3. CASE CreatePod /\ op.status = task
    <3>1. \/ op'.status = op.status
          \/ /\ op'.status = Launched(op.status)
             /\ pod'[op.status.retryCount] # "absent"
      BY <2>3, CreatePodEffect
    <3>2. op.status.phase = "Pending"
      BY <2>3 DEF CreatePod, Coherent
    <3>3. QED
      BY <1>6, <1>t, <3>1, <3>2 DEF Launched, Status
  <2>4. QED
    BY <1>6, <2>1, <2>2, <2>3, PreparesFrom
<1>7. QED
  BY <1>1, <1>2, <1>3, <1>5, <1>6 DEF Steady

\* What holds of the pods when nobody evicts one and the pod cache is current.
LEMMA AlwaysSteady ==
    ASSUME ~PodCacheLag, "evict" \notin Faults
    PROVE  Spec => []Steady
<1>1. Init => Steady
  BY UnsetIsNoName DEF Init, Steady, Idle, NewTask, Prepares
<1>2. TruthInv /\ TypeOK' /\ Quiet /\ Steady /\ [Next]_vars => Steady'
  BY SteadyInductive
<1>3. QED
  BY <1>1, <1>2, TypeCorrect, AlwaysTruthful, AlwaysQuiet, PTL DEF Spec
-----------------------------------------------------------------------------
(* The memory of a task that is over, if also no call to a worker fails *)

\* The memory is graduated before anything takes the worker away that could be
\* asked to do it.
Graduated ==
    /\ \/ task.phase # "WaitingForPR"
       \/ task.retryCount \notin deleting /\ pod[task.retryCount] = "Running"
       \/ memory = "graduated"
    /\ OverMeansGraduated
    /\ op.pc = "graduate" =>
          /\ task.phase \in {"WaitingForPR"} \cup TerminalPhases /\ task.hasPR
          /\ op.worker = task.retryCount /\ op.status.phase \in TerminalPhases
    /\ op.pc = "cleanup" =>
          \/ /\ task.phase \in {"WaitingForPR"} \cup TerminalPhases
             /\ memory = "graduated"
          \/ task.phase \in {"Failed", "Pending"} /\ op.status.phase \notin TerminalPhases
    /\ op.pc \notin {"closeNoPR", "cleanupLast"}
    /\ Prepares /\ op.pc = "update" /\ op.status.phase \in TerminalPhases
          /\ op.status.hasPR => memory = "graduated"

\* A reconcile changes the memory only by asking for the graduation, a worker
\* only as long as it runs.
LEMMA MemoryEffects ==
    ASSUME [Next]_vars
    PROVE  \/ memory' = memory
           \/ Graduate /\ memory' = "graduated"
           \/ \E a \in Attempts : pod[a] = "Running" /\ work[a] = "Running"
<1>1. CASE Worker
  BY <1>1
  DEF Worker, WorkerStarts, WorkerOpensPR, WorkerLosesPR, WorkerEnds, WorkerActs,
      Promise!Starts, Promise!OpensPR, Promise!LosesPR, Promise!Ends, Promise!CanOpenPR
<1>2. CASE Graduate
  BY <1>2 DEF Graduate, GraduateMemory
<1>3. CASE \/ CreatePod \/ Finalize \/ Update \/ CloseWithoutPR \/ Cleanup
           \/ CleanupLast \/ (\E a \in Attempts : PodEvent(a)) \/ Crash
           \/ Kubelet \/ Human
  BY <1>3
  DEF CreatePod, Finalize, Update, CloseWithoutPR, Cleanup, CleanupLast, PodEvent,
      Crash, Kubelet, KubeletStarts, KubeletRemoves, PodDies,
      Human, HumanActs, HumanMarksReady, HumanMerges, HumanCloses, HumanReopens, worldVars
<1>4. QED
  BY <1>1, <1>2, <1>3, StepEffects DEF worldVars

\* The memory of an attempt that is over stays where it was moved.
LEMMA GraduatedStays ==
    ASSUME TypeOK, Fates, [Next]_vars, memory = "graduated",
           NEW s \in Status, Over(s), s.retryCount = task.retryCount,
           s.phase \notin {Unset, "Pending", "Running"}
    PROVE  memory' = "graduated"
<1>1. \A a \in Attempts : ~(pod[a] = "Running" /\ work[a] = "Running")
  BY NobodyWorks DEF Live, Outcomes
<1>2. QED
  BY <1>1, MemoryEffects

\* A running pod stays, and a pod is deleted only by a clean-up that asks for it.
LEMMA RunningStays ==
    ASSUME "evict" \notin Faults, TypeOK, [Next]_vars, op.pc # "cleanupLast",
           NEW a \in Attempts, a \notin deleting, pod[a] = "Running"
    PROVE  /\ pod'[a] = "Running"
           /\ a \in deleting' => Cleanup /\ a = op.worker
<1>t. pod \in [Attempts -> PodPhases]
  BY DEF TypeOK
<1>1. CASE Kubelet
  BY <1>1, <1>t
  DEF Kubelet, KubeletStarts, KubeletRemoves, PodDies, PodsBecome, Fault
<1>2. CASE CreatePod
  BY <1>2, <1>t DEF CreatePod, PodCreated, PodAlreadyExists, PodsBecome, podVars
<1>3. CASE Cleanup \/ CleanupLast
  BY <1>3 DEF Cleanup, CleanupLast, DeletePod
<1>4. CASE ~Kubelet /\ ~CreatePod /\ ~Cleanup /\ ~CleanupLast
  BY <1>4, StepEffects
  DEF podVars, Finalize, Update, CloseWithoutPR, Graduate, PodEvent, Crash,
      Worker, WorkerStarts, WorkerOpensPR, WorkerLosesPR, WorkerEnds, WorkerActs,
      Human, HumanMarksReady, HumanMerges, HumanCloses, HumanReopens, HumanActs
<1>5. QED
  BY <1>1, <1>2, <1>3, <1>4

\* How a reconcile, however old what it read, comes to a call or a clean-up.
LEMMA ComesTo ==
    ASSUME TypeOK, Coherent, Trail, [Next]_vars,
           op'.pc \in {"graduate", "cleanup", "closeNoPR", "cleanupLast"}
    PROVE  /\ task' = task \/ op'.pc = "cleanupLast"
           /\ op'.worker = op.worker
           /\ \/ op'.pc = op.pc /\ op'.status = op.status
              \/ /\ op'.status = op.status
                 /\ Graduate /\ op.pc = "graduate" /\ op'.pc = "cleanup"
              \/ op.pc = "closeNoPR" /\ op'.pc = "cleanupLast"
              \/ /\ Deliberation /\ op.pc \in Reading
                 /\ Derives(op.status, op'.pc, op'.status)
<1>t. op \in Reconciles
  BY DEF TypeOK
<1>1. CASE Deliberation
  <2>1. /\ op.pc \in Reading /\ task' = task
        /\ WellFormed(op.status) /\ op.worker = op.status.workerPod
    BY <1>1, DeliberationReads DEF Trail, apiVars
  <2>2. QED
    BY <1>1, <2>1, DeliberationEffect DEF Idle, Reading
<1>2. CASE CreatePod
  BY <1>2, <1>t, CreatePodEffect DEF Reconciles
<1>3. CASE Update \/ CloseWithoutPR
  BY <1>3, <1>t, UpdateEffect DEF Idle, Reconciles, CloseWithoutPR
<1>4. CASE ~Deliberation /\ ~CreatePod /\ ~Update /\ ~CloseWithoutPR
  <2>1. op' # Idle /\ op' # [Idle EXCEPT !.pc = "dispatch", !.status = cache,
                                         !.worker = cache.workerPod, !.fresh = cacheFresh]
    <3>1. [Idle EXCEPT !.pc = "dispatch", !.status = cache,
                       !.worker = cache.workerPod, !.fresh = cacheFresh].pc = "dispatch"
      BY DEF Idle
    <3>2. Idle.pc = "idle"
      BY DEF Idle
    <3>3. QED
      BY <3>1, <3>2
  <2>2. CASE op.pc = "graduate" /\ op' = [op EXCEPT !.pc = "cleanup"]
    <3>1. Graduate
      BY <1>4, <2>2, <1>t, StepEffects
      DEF Deliberation, Reconciles, Dequeue, TaskEvent, DelayExpires, EditSpec, vars,
          Finalize, Cleanup, CleanupLast, Return, Idle, PodEvent, Crash,
          Kubelet, KubeletStarts, KubeletRemoves, PodDies,
          Worker, WorkerStarts, WorkerOpensPR, WorkerLosesPR, WorkerEnds, WorkerActs,
          Human, HumanMarksReady, HumanMerges, HumanCloses, HumanReopens, HumanActs
    <3>2. QED
      BY <1>4, <1>t, <2>2, <3>1, OtherEffect DEF Reconciles
  <2>3. QED
    BY <1>4, <1>t, <2>1, <2>2, OtherEffect DEF Reconciles
<1>5. QED
  BY <1>1, <1>2, <1>3, <1>4

\* While a task waits, its worker has succeeded and its memory is there, so a
\* running worker graduates it when it is asked.
LEMMA GraduateWorks ==
    ASSUME "http" \notin Faults, TruthInv, Graduated, Graduate
    PROVE  memory' = "graduated"
<1> USE DEF TruthInv
<1>1. /\ op.worker = task.retryCount /\ op.worker \in Attempts /\ op.worker # NoPod
      /\ task.phase \in {"WaitingForPR"} \cup TerminalPhases /\ task.hasPR
  BY RetryCountFacts DEF Graduated, Graduate, TypeOK, Status, Attempts
<1>2. GraduateMemory(op.worker)
  BY DEF Graduate, Fault
<1>3. CASE memory = "graduated"
  BY <1>2, <1>3 DEF GraduateMemory
<1>4. CASE task.phase = "WaitingForPR" /\ memory # "graduated"
  <2>1. pod[op.worker] = "Running" /\ work[op.worker] = "Succeeded"
    BY <1>1, <1>4 DEF Graduated, Truthful, SaysTruth
  <2>2. memory = "task"
    BY <1>1, <1>4, <2>1 DEF Answered, Outcomes, TypeOK
  <2>3. QED
    BY <1>1, <1>2, <2>1, <2>2 DEF GraduateMemory, Answers
<1>5. QED
  BY <1>1, <1>3, <1>4 DEF Graduated, OverMeansGraduated

\* What a handler derives from a status that may be out of date.
LEMMA DerivesDecision ==
    ASSUME NEW s \in Status, WellFormed(s), s.phase # "Completed", NEW pc, NEW t,
           Derives(s, pc, t)
    PROVE  /\ pc = "graduate" =>
                /\ s.phase = "WaitingForPR" /\ s.hasPR /\ s.workerPod = s.retryCount
                /\ t.phase \in TerminalPhases
           /\ pc = "cleanup" => s.phase = "Failed" /\ t.phase \notin TerminalPhases
           /\ pc \notin {"closeNoPR", "cleanupLast"}
           /\ pc = "update" /\ t.phase \in TerminalPhases =>
                /\ s.phase = "WaitingForPR" /\ s.hasPR /\ Seen(s.retryCount) # "Running"
                /\ s.workerPod = s.retryCount
<1>1. s.phase \in {"WaitingForPR", "Failed"} => s.workerPod = s.retryCount
  BY UnsetIsNoName DEF WellFormed
<1>2. s.phase = "WaitingForPR" => s.hasPR
  BY DEF WellFormed
<1>3. CASE FromReply(s, pc, t)
  BY <1>3 DEF FromReply, Learned, Status, TerminalPhases
<1>4. CASE FromPRReply(s, pc, t)
  BY <1>1, <1>4 DEF FromPRReply, Status, TerminalPhases
<1>5. CASE FromPod(s, pc, t)
  BY <1>1, <1>2, <1>5 DEF FromPod, Closed, Status, TerminalPhases
<1>6. CASE FromPhase(s, pc, t)
  BY <1>6 DEF FromPhase, Retried, Status, TerminalPhases
<1>7. QED
  BY <1>3, <1>4, <1>5, <1>6 DEF Derives

\* The worker of a waiting task is kept until its memory is graduated.
LEMMA WaitingKeepsWorker ==
    ASSUME "evict" \notin Faults, TruthInv, Quiet, Steady, Graduated, [Next]_vars,
           task'.phase = "WaitingForPR"
    PROVE  \/ task'.retryCount \notin deleting' /\ pod'[task'.retryCount] = "Running"
           \/ memory' = "graduated"
<1> USE DEF TruthInv
<1>t. /\ op \in Reconciles /\ op.status \in Status /\ task \in Status
      /\ op.status.retryCount \in Attempts /\ task.retryCount \in Attempts
      /\ task.retryCount \in Int
  BY AttemptsAreNumbers DEF TypeOK, Reconciles, Status, Attempts
<1>1. CASE task' = task
  <2>1. CASE memory = "graduated"
    BY <1>1, <1>t, <2>1, GraduatedStays, UnsetIsNoName DEF Quiet
  <2>2. CASE task.retryCount \notin deleting /\ pod[task.retryCount] = "Running"
                                             /\ memory # "graduated"
    <3>1. Cleanup => op.pc = "cleanup"
      BY DEF Cleanup
    <3>2. ~Cleanup
      BY <1>1, <2>2, <3>1 DEF Graduated
    <3>3. QED
      BY <1>1, <1>t, <2>2, <3>2, RunningStays DEF Graduated
  <2>3. QED
    BY <1>1, <2>1, <2>2 DEF Graduated
<1>2. CASE Prepares /\ task' = op.status /\ UNCHANGED <<podVars, worldVars>>
  <2>1. Moves(task, op.status)
    BY <1>2 DEF Coherent, Prepares, Writing
  <2>2. /\ op.status.retryCount = task.retryCount
        /\ task.phase \in {"Running", "WaitingForPR"}
    BY <1>2, <2>1, MoveCases DEF Steady
  <2>3. CASE task.phase = "WaitingForPR"
    BY <1>2, <2>2, <2>3 DEF Graduated, podVars, worldVars
  <2>4. CASE task.phase = "Running"
    <3>1. ~PastIn(task, task.retryCount)
      BY <1>t, <2>4 DEF PastIn
    <3>2. work[task.retryCount] = "Succeeded"
      BY <1>2, <2>2 DEF Truthful, SaysTruth
    <3>3. task.retryCount \notin deleting /\ pod[task.retryCount] = "Running"
      BY <1>t, <3>1, <3>2 DEF Fates, Steady
    <3>4. QED
      BY <1>2, <2>2, <3>3 DEF podVars
  <2>5. QED
    BY <2>2, <2>3, <2>4
<1>3. QED
  BY <1>1, <1>2, StoresPrepared

\* Every step keeps the memory of a task that is over graduated.
LEMMA GraduatedInductive ==
    ASSUME ~PodCacheLag, "evict" \notin Faults, "http" \notin Faults,
           TruthInv, Quiet, Steady, Graduated, [Next]_vars
    PROVE  Graduated'
<1> USE DEF TruthInv
<1>t. /\ op \in Reconciles /\ op.status \in Status /\ task \in Status
      /\ op.status.retryCount \in Attempts /\ task.retryCount \in Attempts
  BY DEF TypeOK, Reconciles, Status, Attempts
<1>g. memory = "graduated" /\ task.phase \in {"WaitingForPR"} \cup TerminalPhases
        => memory' = "graduated"
  BY <1>t, GraduatedStays, UnsetIsNoName DEF Quiet, TerminalPhases
<1>r. op.pc \in Reading =>
        /\ Moves(op.status, task) /\ WellFormed(op.status)
        /\ op.worker = op.status.workerPod /\ op.status.phase # "Completed"
  BY DEF Trail, Steady
<1>1. task'.phase \in TerminalPhases /\ task'.hasPR => memory' = "graduated"
  <2>1. CASE task' = task
    BY <1>g, <2>1 DEF Graduated, OverMeansGraduated
  <2>2. CASE Update /\ Prepares /\ task' = op.status /\ UNCHANGED worldVars
    BY <2>2 DEF Update, Graduated, worldVars
  <2>3. ~CloseWithoutPR
    BY DEF Graduated, CloseWithoutPR
  <2>4. QED
    BY <2>1, <2>2, <2>3, StoresPrepared
<1>2. op'.pc # "cleanupLast" /\ op'.pc # "closeNoPR"
  BY <1>r, <1>t, ComesTo, DerivesDecision DEF Graduated
<1>3. ASSUME op'.pc = "graduate"
      PROVE  /\ task'.phase \in {"WaitingForPR"} \cup TerminalPhases /\ task'.hasPR
             /\ op'.worker = task'.retryCount /\ op'.status.phase \in TerminalPhases
  <2>1. CASE op'.pc = op.pc /\ op'.status = op.status
    BY <1>3, <2>1, ComesTo DEF Graduated
  <2>2. CASE op.pc \in Reading /\ Derives(op.status, op'.pc, op'.status)
    <3>1. /\ op.status.phase = "WaitingForPR" /\ op.status.hasPR
          /\ op.worker = op.status.retryCount /\ op'.status.phase \in TerminalPhases
      BY <1>3, <1>r, <1>t, <2>2, DerivesDecision
    <3>2. /\ task.phase \in {"WaitingForPR"} \cup TerminalPhases
          /\ task.hasPR /\ task.retryCount = op.status.retryCount
      <4>1. Moves(op.status, task)
        BY <1>r, <2>2
      <4>2. QED
        BY <3>1, <4>1, MoveCases, UnsetIsNoName DEF TerminalPhases
    <3>3. QED
      BY <1>3, <3>1, <3>2, ComesTo
  <2>3. QED
    BY <1>3, <2>1, <2>2, ComesTo
<1>4. ASSUME op'.pc = "cleanup"
      PROVE  \/ /\ task'.phase \in {"WaitingForPR"} \cup TerminalPhases
                /\ memory' = "graduated"
             \/ /\ task'.phase \in {"Failed", "Pending"}
                /\ op'.status.phase \notin TerminalPhases
  <2>1. CASE op'.pc = op.pc /\ op'.status = op.status
    BY <1>4, <1>g, <2>1, ComesTo DEF Graduated
  <2>2. CASE Graduate /\ op.pc = "graduate"
    BY <1>4, <2>2, ComesTo, GraduateWorks DEF Graduated
  <2>3. CASE op.pc \in Reading /\ Derives(op.status, op'.pc, op'.status)
    <3>1. op.status.phase = "Failed" /\ op'.status.phase \notin TerminalPhases
      BY <1>4, <1>r, <1>t, <2>3, DerivesDecision
    <3>2. task.phase \in {"Failed", "Pending"}
      BY <1>r, <2>3, <3>1, MoveCases, UnsetIsNoName
    <3>3. QED
      BY <1>4, <3>1, <3>2, ComesTo
  <2>4. QED
    BY <1>4, <2>1, <2>2, <2>3, ComesTo
<1>5. ASSUME Prepares', op'.pc = "update", op'.status.phase \in TerminalPhases,
             op'.status.hasPR
      PROVE  memory' = "graduated"
  <2>1. CASE /\ Prepares /\ op' = [op EXCEPT !.pc = op'.pc]
             /\ op'.pc = op.pc \/ op.pc \in {"finalize", "graduate", "cleanup"}
             /\ ~Deliberation /\ ~CreatePod
    <3>1. op'.status = op.status
      BY <1>t, <2>1 DEF Reconciles
    <3>2. CASE op.pc = "update"
      <4>1. Moves(task, op.status)
        BY <2>1 DEF Coherent, Prepares, Writing
      <4>2. op.status.retryCount = task.retryCount
        BY <1>5, <3>1, <4>1, MoveCases DEF TerminalPhases
      <4>3. QED
        BY <1>5, <1>t, <2>1, <3>1, <3>2, <4>2, GraduatedStays, UnsetIsNoName
        DEF Graduated, Quiet, TerminalPhases
    <3>3. CASE op.pc = "cleanup"
      BY <1>5, <1>g, <3>1, <3>3 DEF Graduated
    <3>4. CASE op.pc = "finalize"
      BY <1>5, <3>1, <3>4 DEF Trail, TerminalPhases
    <3>5. CASE op.pc = "graduate"
      BY <1>5, <1>t, <2>1, <3>5, MovesOnItsOwn
      DEF Graduate, Finalize, Cleanup, Goto, Reconciles
    <3>6. QED
      BY <1>5, <2>1, <3>2, <3>3, <3>4, <3>5
  <2>2. CASE Deliberation /\ Derives(task, op'.pc, op'.status)
    <3>1. /\ task.phase = "WaitingForPR" /\ Seen(task.retryCount) # "Running"
      BY <1>5, <1>t, <2>2, DerivesDecision DEF Trail, Steady
    <3>2. pod[task.retryCount] # "Running"
      BY <1>t, <3>1, RetryCountFacts DEF Seen, Quiet, Attempts
    <3>3. QED
      BY <1>g, <3>1, <3>2 DEF Graduated
  <2>3. CASE CreatePod /\ op.status = task /\ op'.status \in {task, Launched(task)}
    <3>1. op.status.phase = "Pending"
      BY <2>3 DEF CreatePod, Coherent
    <3>2. op'.status.phase \in {"Pending", "Running"}
      BY <1>t, <2>3, <3>1 DEF Launched, Status
    <3>3. QED
      BY <1>5, <3>2 DEF TerminalPhases
  <2>4. QED
    BY <1>5, <2>1, <2>2, <2>3, PreparesFrom
<1>6. \/ task'.phase # "WaitingForPR"
      \/ task'.retryCount \notin deleting' /\ pod'[task'.retryCount] = "Running"
      \/ memory' = "graduated"
  BY WaitingKeepsWorker
<1>7. QED
  BY <1>1, <1>2, <1>3, <1>4, <1>5, <1>6 DEF Graduated, OverMeansGraduated

\* What holds of the memory when no pod is evicted, no call to a worker fails
\* and the pod cache is current.
LEMMA AlwaysGraduated ==
    ASSUME ~PodCacheLag, "evict" \notin Faults, "http" \notin Faults
    PROVE  Spec => []Graduated
<1>1. Init => Graduated
  BY UnsetIsNoName
  DEF Init, Graduated, OverMeansGraduated, Idle, NewTask, Prepares, TerminalPhases
<1>2. TruthInv /\ Quiet /\ Steady /\ Graduated /\ [Next]_vars => Graduated'
  BY GraduatedInductive
<1>3. QED
  BY <1>1, <1>2, AlwaysTruthful, AlwaysQuiet, AlwaysSteady, PTL DEF Spec

\* A task that is over and has a pull request leaves nothing behind in its own
\* memory, as long as no pod is evicted, no call to a worker fails and the pod
\* cache is current: the pod is torn down after the graduation, on every path.
THEOREM DecidedWorkIsGraduated ==
    ASSUME ~PodCacheLag, "evict" \notin Faults, "http" \notin Faults
    PROVE  Spec => []OverMeansGraduated
<1>1. Graduated => OverMeansGraduated
  BY DEF Graduated
<1>2. QED
  BY <1>1, AlwaysGraduated, PTL

-----------------------------------------------------------------------------
(* What waits for a review can be reviewed, if also GitHub does not fail *)

\* What is about to be stored as waiting for a review is ready for it.
Reviewable ==
    /\ WaitingMeansReady
    /\ Prepares /\ op.pc = "update" /\ op.status.phase = "WaitingForPR" => pr # "draft"

\* No draft appears for an attempt that is over.
LEMMA NoNewDraft ==
    ASSUME TypeOK, Fates, [Next]_vars, pr # "draft",
           NEW s \in Status, Over(s), s.retryCount = task.retryCount,
           s.phase \notin {Unset, "Pending", "Running"}
    PROVE  pr' # "draft"
<1>1. \A a \in Attempts : ~(pod[a] = "Running" /\ work[a] = "Running")
  BY NobodyWorks DEF Live, Outcomes
<1>2. QED
  BY <1>1, PREffects

\* The finalize call reaches the worker that has succeeded and marks its pull
\* request ready.
LEMMA FinalizeWorks ==
    ASSUME "evict" \notin Faults, "http" \notin Faults, "github" \notin Faults,
           TruthInv, Steady, WaitingMeansReady, Finalize, Prepares
    PROVE  pr' # "draft"
<1> USE DEF TruthInv
<1> DEFINE n == op.status.retryCount
<1>1. /\ op.status.phase = "WaitingForPR" /\ op.worker = n
      /\ n \in Attempts /\ n \in Int /\ n # NoPod /\ Moves(task, op.status)
  BY AttemptsAreNumbers, RetryCountFacts, UnsetIsNoName
  DEF Trail, WellFormed, Finalize, Prepares, Writing, Coherent, TypeOK, Reconciles,
      Status, Attempts
<1>2. n = task.retryCount /\ task.phase \in {"Running", "WaitingForPR"}
  BY <1>1, MoveCases DEF Steady
<1>3. MarkReady(n)
  BY <1>1 DEF Finalize, Fault
<1>4. CASE task.phase = "WaitingForPR"
  BY <1>3, <1>4 DEF MarkReady, WaitingMeansReady
<1>5. CASE task.phase = "Running"
  <2>1. work[n] = "Succeeded" /\ n \in knowsPR
    BY <1>1 DEF Truthful, SaysTruth, Answered
  <2>2. pod[n] = "Running"
    BY <1>1, <1>2, <1>5, <2>1 DEF Steady, PastIn
  <2>3. QED
    BY <1>1, <1>3, <2>1, <2>2 DEF MarkReady, Answers
<1>6. QED
  BY <1>2, <1>4, <1>5

\* Every step keeps the pull request of a waiting task out of draft.
LEMMA ReviewableInductive ==
    ASSUME ~PodCacheLag, "evict" \notin Faults, "http" \notin Faults,
           "github" \notin Faults,
           TruthInv, Quiet, Steady, Graduated, Reviewable, [Next]_vars
    PROVE  Reviewable'
<1> USE DEF TruthInv
<1>t. /\ op \in Reconciles /\ op.status \in Status /\ task \in Status
  BY DEF TypeOK, Reconciles
<1>d. task.phase = "WaitingForPR" => pr' # "draft"
  BY <1>t, NoNewDraft, UnsetIsNoName DEF Reviewable, WaitingMeansReady, Quiet
<1>1. task'.phase = "WaitingForPR" => pr' # "draft"
  <2>1. CASE task' = task
    BY <1>d, <2>1
  <2>2. CASE Update /\ Prepares /\ task' = op.status /\ UNCHANGED worldVars
    BY <2>2 DEF Update, Reviewable, worldVars
  <2>3. ~CloseWithoutPR
    BY DEF Graduated, CloseWithoutPR
  <2>4. QED
    BY <2>1, <2>2, <2>3, StoresPrepared
<1>2. ASSUME Prepares', op'.pc = "update", op'.status.phase = "WaitingForPR"
      PROVE  pr' # "draft"
  <2>1. CASE /\ Prepares /\ op' = [op EXCEPT !.pc = op'.pc]
             /\ op'.pc = op.pc \/ op.pc \in {"finalize", "graduate", "cleanup"}
             /\ ~Deliberation /\ ~CreatePod
    <3>1. op'.status = op.status
      BY <1>t, <2>1 DEF Reconciles
    <3>2. Moves(task, op.status)
      BY <2>1 DEF Coherent, Prepares, Writing
    <3>3. CASE op.pc = "update"
      <4>1. op.status.retryCount = task.retryCount
        BY <1>2, <3>1, <3>2, MoveCases
      <4>2. QED
        BY <1>2, <1>t, <2>1, <3>1, <3>3, <4>1, NoNewDraft, UnsetIsNoName
        DEF Reviewable, Quiet
    <3>4. CASE op.pc = "finalize"
      <4>1. Finalize
        BY <1>2, <2>1, <3>4, MovesOnItsOwn DEF Graduate, Cleanup
      <4>2. QED
        BY <2>1, <4>1, FinalizeWorks DEF Reviewable
    <3>5. CASE op.pc \in {"graduate", "cleanup"}
      <4>1. task.phase \in {"Running", "WaitingForPR"}
        BY <1>2, <3>1, <3>2, MoveCases DEF Steady
      <4>2. task.phase \notin {"Failed", "Pending"} \cup TerminalPhases
        BY <4>1 DEF TerminalPhases
      <4>3. QED
        BY <1>d, <3>5, <4>1, <4>2 DEF Graduated
    <3>6. QED
      BY <1>2, <2>1, <3>3, <3>4, <3>5
  <2>2. CASE Deliberation /\ Derives(task, op'.pc, op'.status)
    <3>1. task.phase = "WaitingForPR"
      BY <1>2, <1>t, <2>2
      DEF Derives, FromReply, FromPRReply, FromPod, FromPhase, Learned, Closed, Retried,
          Status, Steady
    <3>2. QED
      BY <1>d, <3>1
  <2>3. CASE CreatePod /\ op.status = task /\ op'.status \in {task, Launched(task)}
    <3>1. op.status.phase = "Pending"
      BY <2>3 DEF CreatePod, Coherent
    <3>2. op'.status.phase \in {"Pending", "Running"}
      BY <1>t, <2>3, <3>1 DEF Launched, Status
    <3>3. QED
      BY <1>2, <3>2
  <2>4. QED
    BY <1>2, <2>1, <2>2, <2>3, PreparesFrom
<1>3. QED
  BY <1>1, <1>2 DEF Reviewable, WaitingMeansReady

\* A task that waits for a review has a pull request that can be reviewed, as
\* long as no pod is evicted, no call to a worker and none to GitHub fails, and
\* the pod cache is current: the phase is stored after the finalize call.
THEOREM ReviewsAreReady ==
    ASSUME ~PodCacheLag, "evict" \notin Faults, "http" \notin Faults,
           "github" \notin Faults
    PROVE  Spec => []WaitingMeansReady
<1>1. Init => Reviewable
  BY UnsetIsNoName DEF Init, Reviewable, WaitingMeansReady
<1>2. TruthInv /\ Quiet /\ Steady /\ Graduated /\ Reviewable /\ [Next]_vars => Reviewable'
  BY ReviewableInductive
<1>3. Reviewable => WaitingMeansReady
  BY DEF Reviewable
<1>4. QED
  BY <1>1, <1>2, <1>3, AlwaysTruthful, AlwaysQuiet, AlwaysSteady, AlwaysGraduated, PTL
  DEF Spec

-----------------------------------------------------------------------------
(* A retry goes on with its predecessor's pull request *)

\* By status s, the branch's pull request, open or not, for a closed one may be
\* opened again, is named by the status, or is known to the worker of an attempt
\* that is not over.
Known(s) ==
    pr # "none" /\ ~s.hasPR =>
        s.retryCount \in knowsPR /\ s.phase \in {Unset, "Pending", "Running"}

Remembered == Known(task) /\ (Prepares => Known(op.status))

\* A worker forgets its pull request only if its pod is made, and without
\* failures of GitHub the one who opens a pull request knows it.
LEMMA KnownStays ==
    ASSUME "evict" \notin Faults, "github" \notin Faults,
           TruthInv, Steady, [Next]_vars,
           NEW s \in Status, Known(s), Over(s),
           s.retryCount \in {task.retryCount, task.retryCount + 1},
           CreatePod => s.retryCount = task.retryCount
    PROVE  pr' # "none" /\ ~s.hasPR =>
              s.retryCount \in knowsPR' /\ s.phase \in {Unset, "Pending", "Running"}
<1> USE DEF TruthInv
<1> SUFFICES ASSUME pr' # "none", ~s.hasPR
             PROVE  s.retryCount \in knowsPR' /\ s.phase \in {Unset, "Pending", "Running"}
  OBVIOUS
<1> DEFINE n == s.retryCount
<1>t. /\ n \in Attempts /\ n \in Int /\ task.retryCount \in Int
      /\ task \in Status /\ op.status.retryCount \in Attempts
      /\ pr \in PRStates
  BY AttemptsAreNumbers DEF TypeOK, Reconciles, Status, Attempts
<1>1. CASE pr # "none"
  <2>1. n \in knowsPR /\ s.phase \in {Unset, "Pending", "Running"}
    BY <1>1 DEF Known
  <2>2. CASE CreatePod /\ PodCreated(op.status.retryCount)
    <3>1. op.status.retryCount = task.retryCount
          /\ task.phase \in {"Pending", "Running"}
      BY <2>2, CreatesForCurrent
    <3>2. pod[n] # "absent"
      BY <1>t, <2>1, <2>2, <3>1 DEF Steady, PastIn
    <3>3. QED
      BY <2>2, <3>1, <3>2 DEF PodCreated
  <2>3. CASE \E b \in Attempts : \/ WorkerStarts(b) \/ WorkerOpensPR(b)
                                 \/ WorkerLosesPR(b) \/ WorkerEnds(b)
    BY <2>1, <2>3
    DEF WorkerStarts, WorkerOpensPR, WorkerLosesPR, WorkerEnds,
        Promise!Starts, Promise!OpensPR, Promise!LosesPR, Promise!Ends
  <2>4. QED
    BY <2>1, <2>2, <2>3, PodEffects
<1>2. CASE pr = "none"
  <2>1. PICK a \in Attempts : /\ WorkerOpensPR(a) \/ WorkerLosesPR(a)
                              /\ pod[a] = "Running" /\ work[a] = "Running"
    BY <1>2, PREffects
  <2>2. a \in knowsPR'
    BY <2>1 DEF WorkerOpensPR, WorkerLosesPR, Promise!OpensPR, Fault
  <2>3. ~PastIn(s, a)
    BY <2>1 DEF Over, Live, Outcomes
  <2>4. a \in Int /\ a <= task.retryCount
    BY <1>t, <2>1, AttemptsAreNumbers DEF Fates
  <2>5. QED
    BY <1>t, <2>2, <2>3, <2>4 DEF PastIn
<1>3. QED
  BY <1>1, <1>2

\* What a handler derives from the stored status does not forget it.
LEMMA DerivesKnown ==
    ASSUME TruthInv, Quiet, Steady, Known(task), NEW pc, NEW t, Derives(task, pc, t)
    PROVE  Known(t)
<1> USE DEF TruthInv
<1> SUFFICES ASSUME pr # "none", ~t.hasPR
             PROVE  t.retryCount \in knowsPR /\ t.phase \in {Unset, "Pending", "Running"}
  BY DEF Known
<1> DEFINE n == task.retryCount
<1>t. /\ task \in Status /\ n \in Attempts /\ n \in Int /\ n # NoPod
      /\ work \in [Attempts -> WorkStates]
  BY AttemptsAreNumbers, RetryCountFacts DEF TypeOK, Status, Attempts
<1>1. ~task.hasPR
  BY <1>t
  DEF Derives, FromReply, FromPRReply, FromPod, FromPhase, Learned, Closed, Retried, Status
<1>2. n \in knowsPR /\ task.phase \in {Unset, "Pending", "Running"}
  BY <1>1 DEF Known
<1>3. task.phase = "Running" => task.workerPod = n
  BY UnsetIsNoName DEF Trail, WellFormed
<1>4. CASE FromReply(task, pc, t)
  <2>1. t.hasPR \/ work[n] \notin Outcomes
    BY <1>2, <1>3, <1>4, <1>t DEF FromReply, Learned, Status
  <2>2. t = Learned(task, n)
    BY <1>3, <1>4, <2>1 DEF FromReply, Outcomes
  <2>3. QED
    BY <1>2, <1>t, <2>2 DEF Learned, Status
<1>5. CASE FromPRReply(task, pc, t)
  BY <1>1, <1>5 DEF FromPRReply
<1>6. CASE FromPod(task, pc, t)
  <2>1. task.phase = "Running" /\ seen[n] \in {"absent", "Failed", "Succeeded"}
    BY <1>2, <1>3, <1>6, <1>t, UnsetIsNoName DEF FromPod, Seen
  <2>2. pod[n] \notin {"absent", "Failed", "Succeeded"}
    BY <1>2, <1>t, <2>1 DEF Steady, PastIn
  <2>3. QED
    BY <2>1, <2>2 DEF Quiet
<1>7. CASE FromPhase(task, pc, t)
  BY <1>2, <1>7, <1>t, UnsetIsNoName DEF FromPhase, Status
<1>8. QED
  BY <1>4, <1>5, <1>6, <1>7 DEF Derives

\* Every step keeps the pull request known to whoever works next.
LEMMA RememberedInductive ==
    ASSUME ~PodCacheLag, "evict" \notin Faults, "github" \notin Faults,
           TruthInv, Quiet, Steady, Remembered, [Next]_vars
    PROVE  Remembered'
<1> USE DEF TruthInv
<1>t. /\ op \in Reconciles /\ op.status \in Status /\ task \in Status
  BY DEF TypeOK, Reconciles
<1>0. pr' # "none" /\ ~task.hasPR =>
         task.retryCount \in knowsPR' /\ task.phase \in {Unset, "Pending", "Running"}
  BY <1>t, KnownStays DEF Remembered, Quiet
<1>1. Known(task)'
  <2>1. CASE task' = task
    BY <1>0, <2>1 DEF Known
  <2>2. CASE Prepares /\ task' = op.status /\ UNCHANGED <<workerVars, worldVars>>
    BY <2>2 DEF Remembered, Known, workerVars, worldVars
  <2>3. QED
    BY <2>1, <2>2, StoresPrepared
<1>2. ASSUME Prepares' PROVE Known(op.status)'
  <2>1. CASE Prepares /\ op' = [op EXCEPT !.pc = op'.pc] /\ ~CreatePod
    <3>1. op'.status = op.status
      BY <1>t, <2>1 DEF Reconciles
    <3>2. Moves(task, op.status)
      BY <2>1 DEF Coherent, Prepares, Writing
    <3>3. op.status.retryCount \in {task.retryCount, task.retryCount + 1}
      BY <3>2, MoveCases
    <3>4. pr' # "none" /\ ~op.status.hasPR =>
            /\ op.status.retryCount \in knowsPR'
            /\ op.status.phase \in {Unset, "Pending", "Running"}
      BY <1>t, <2>1, <3>3, KnownStays DEF Remembered, Quiet
    <3>5. QED
      BY <3>1, <3>4 DEF Known
  <2>2. CASE Deliberation /\ Derives(task, op'.pc, op'.status)
    <3>1. Known(op'.status)
      BY <2>2, DerivesKnown DEF Remembered
    <3>2. UNCHANGED <<workerVars, worldVars>>
      BY <2>2, DeliberationReads
    <3>3. QED
      BY <3>1, <3>2 DEF Known, workerVars, worldVars
  <2>3. CASE CreatePod /\ op.status = task /\ op'.status \in {task, Launched(task)}
    <3>1. op.status.phase = "Pending"
      BY <2>3 DEF CreatePod, Coherent
    <3>2. /\ op'.status.retryCount = task.retryCount /\ op'.status.hasPR = task.hasPR
          /\ op'.status.phase \in {"Pending", "Running"}
      BY <1>t, <2>3, <3>1 DEF Launched, Status
    <3>3. QED
      BY <1>0, <3>2 DEF Known
  <2>4. QED
    BY <1>2, <2>1, <2>2, <2>3, PreparesFrom
<1>3. QED
  BY <1>1, <1>2 DEF Remembered

\* The retry of a task whose branch has an open pull request works on that one,
\* as long as no pod is evicted, GitHub does not fail and the pod cache is
\* current: the URL reaches the status before the attempt that opened the pull
\* request is given up, and the next worker's pod is made with it.
THEOREM RetriesHoldOpenPR ==
    ASSUME ~PodCacheLag, "evict" \notin Faults, "github" \notin Faults
    PROVE  Spec => []RetryHoldsOpenPR
<1>1. Init => Remembered
  BY UnsetIsNoName DEF Init, Remembered, Known, Idle, Prepares
<1>2. TruthInv /\ Quiet /\ Steady /\ Remembered /\ [Next]_vars => Remembered'
  BY RememberedInductive
<1>3. TruthInv /\ Remembered => RetryHoldsOpenPR
  BY DEF TruthInv, Truthful, SaysTruth, Remembered, Known, RetryHoldsOpenPR
<1>4. QED
  BY <1>1, <1>2, <1>3, AlwaysTruthful, AlwaysQuiet, AlwaysSteady, PTL DEF Spec
=============================================================================
