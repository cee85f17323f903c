---------------------- MODULE AgentTaskContractsProofs ----------------------
(***************************************************************************)
(* What the models of a worker's run and of a task's memory take for       *)
(* granted of the operator is what AgentTaskController does, for every     *)
(* retry budget and any number of failures of every kind.                  *)
(***************************************************************************)
EXTENDS AgentTaskFaultsProofs

-----------------------------------------------------------------------------
(* The contract with the workers *)

\* Before anything happened, nobody answers.
LEMMA PromiseStarts ==
    ASSUME Init
    PROVE  Promise!PromiseInit
BY DEF Init, Promise!PromiseInit

\* A pod that is made replaces the worker of its attempt.
LEMMA CreationReplaces ==
    ASSUME TypeOK, CreatePod
    PROVE  (\E a \in Attempts : Promise!Replaced(a)) \/ UNCHANGED Promise!promiseVars
<1>1. op.status.retryCount \in Attempts
  BY DEF TypeOK, Reconciles, Status, Attempts
<1>2. pr' = pr
  BY DEF CreatePod, worldVars
<1>3. PodCreated(op.status.retryCount) \/ UNCHANGED workerVars
  BY DEF CreatePod, PodAlreadyExists
<1>4. PodCreated(op.status.retryCount) => Promise!Replaced(op.status.retryCount)
  BY <1>2 DEF PodCreated, PayloadPR, Promise!Replaced, Promise!Answers
<1>5. QED
  BY <1>1, <1>2, <1>3, <1>4 DEF Promise!promiseVars, workerVars

\* A finalize that marks the pull request ready is one of a succeeded worker.
LEMMA FinalizeKeepsPromise ==
    ASSUME TypeOK, Finalize
    PROVE  (\E a \in Attempts : Promise!Finalized(a)) \/ UNCHANGED Promise!promiseVars
<1>1. workerVars' = workerVars
  BY DEF Finalize
<1>2. CASE pr' = pr
  BY <1>1, <1>2 DEF Promise!promiseVars, workerVars
<1>3. CASE pr' # pr
  <2>1. /\ op.worker # NoPod /\ work[op.worker] = "Succeeded" /\ op.worker \in knowsPR
        /\ pr = "draft" /\ pr' = "ready"
    BY <1>3 DEF Finalize, MarkReady, Answers
  <2>2. op.worker \in Attempts
    BY <2>1 DEF TypeOK
  <2>3. QED
    BY <1>1, <2>1, <2>2 DEF Promise!Finalized, workerVars
<1>4. QED
  BY <1>2, <1>3

\* Every step keeps the contract.
LEMMA StepKeepsPromise ==
    ASSUME TypeOK, [Next]_vars
    PROVE  [Promise!PromiseNext \/ HumanMarksReady]_(Promise!promiseVars)
<1> USE DEF Promise!promiseVars
<1>1. CASE CreatePod
  BY <1>1, CreationReplaces DEF Promise!PromiseNext
<1>2. CASE Finalize
  BY <1>2, FinalizeKeepsPromise DEF Promise!PromiseNext
<1>3. CASE Worker
  BY <1>3
  DEF Worker, WorkerStarts, WorkerOpensPR, WorkerLosesPR, WorkerEnds, Promise!PromiseNext
<1>4. CASE Human
  BY <1>4
  DEF Human, HumanMerges, HumanCloses, HumanReopens, HumanActs, workerVars,
      Promise!PromiseNext, Promise!Decided, Promise!Reopened
<1>5. CASE \/ Update \/ CloseWithoutPR \/ Cleanup \/ CleanupLast \/ Graduate
           \/ (\E a \in Attempts : PodEvent(a)) \/ Crash \/ Kubelet
  BY <1>5
  DEF Update, CloseWithoutPR, Cleanup, CleanupLast, Graduate, PodEvent, Crash,
      Kubelet, KubeletStarts, KubeletRemoves, PodDies, workerVars, worldVars
<1>6. QED
  BY <1>1, <1>2, <1>3, <1>4, <1>5, StepEffects DEF workerVars, worldVars

\* Whatever fails, operator, kubelet and humans do to the workers and their pull
\* request only what WorkerPromise allows them, so the contract that WorkerRun
\* keeps on the workers' side is kept on theirs too.  (handlePending,
\* finalizeWorker)
THEOREM OperatorKeepsPromise == Spec => KeepsPromise
<1>1. Init => Promise!PromiseInit
  BY PromiseStarts
<1>2. TypeOK /\ [Next]_vars => [Promise!PromiseNext \/ HumanMarksReady]_(Promise!promiseVars)
  BY StepKeepsPromise
<1>3. QED
  BY <1>1, <1>2, TypeCorrect, PTL DEF Spec, KeepsPromise

-----------------------------------------------------------------------------
(* The contract with the task's memory *)

\* What status s says of the worker whose pull request is asked about.
SaysReviewed(s) ==
    /\ s.phase = "WaitingForPR" => work[s.workerPod] = "Succeeded"
    /\ s.phase = "Completed" => ~Live(s.workerPod)

\* The pull request, in this state, is decided as status s will say: a merge is
\* for good, one that was closed may have been opened again.
Due(s, state) == IF s.phase = "Merged" THEN state = "merged"
                 ELSE state \in {"merged", "closed", "reopened"}

\* However old the status is that a reconcile has read, what it says of its
\* worker is true, and a graduation under way is due.
Reviewed ==
    /\ SaysReviewed(cache)
    /\ op.pc \in Reading => SaysReviewed(op.status)
    /\ task.phase = Unset => \A a \in Attempts : ~Live(a)
    /\ op.pc = "graduate" =>
          /\ op.worker \in Attempts
          /\ task.phase \in {"WaitingForPR", "Merged", "Closed"}
          /\ work[op.worker] = "Succeeded"
          /\ Due(op.status, pr)

\* The stored status tells the truth.
LEMMA TaskIsReviewed ==
    ASSUME TruthInv
    PROVE  SaysReviewed(task)
<1>1. task.phase \in {"WaitingForPR", "Completed"} => task.workerPod = task.retryCount
  BY UnsetIsNoName DEF TruthInv, Trail, WellFormed
<1>2. QED
  BY <1>1 DEF TruthInv, Truthful, SaysTruth, SaysReviewed

\* The truth about a status that the task has moved on from at most once stays
\* true: its attempt's pod is not made again.
LEMMA ReviewStays ==
    ASSUME TruthInv, [Next]_vars, NEW s \in Status, WellFormed(s), Moves(s, task),
           SaysReviewed(s)
    PROVE  /\ s.phase = "WaitingForPR" => work'[s.workerPod] = "Succeeded"
           /\ s.phase = "Completed" => pod'[s.workerPod] \notin {"Pending", "Running"}
<1> SUFFICES ASSUME s.phase \in {"WaitingForPR", "Completed"}
             PROVE  /\ s.phase = "WaitingForPR" => work'[s.workerPod] = "Succeeded"
                    /\ s.phase = "Completed" => pod'[s.workerPod] \notin {"Pending", "Running"}
  OBVIOUS
<1>1. s.workerPod \in Attempts
  BY UnsetIsNoName DEF WellFormed, Status, Attempts
<1>2. task.phase \in {"WaitingForPR", "Completed", "Merged", "Closed"}
  BY MoveCases, UnsetIsNoName
<1>3. ~CreatePod
  BY <1>2, CreatesForCurrent DEF TruthInv
<1>4. /\ pod'[s.workerPod] \in {"Pending", "Running"} => Live(s.workerPod)
      /\ work[s.workerPod] \in Outcomes => work'[s.workerPod] = work[s.workerPod]
  BY <1>1, <1>3, PodsAndRunsEnd DEF TruthInv
<1>5. QED
  BY <1>4 DEF SaysReviewed, Outcomes

\* A status that is read comes from the cache, or was read before.
LEMMA ReadingFrom ==
    ASSUME TruthInv, [Next]_vars, op'.pc \in Reading
    PROVE  \/ op.pc \in Reading /\ op'.status = op.status
           \/ op'.status = cache
<1>t. op \in Reconciles /\ op.pc \in PCs
  BY DEF TruthInv, TypeOK, Reconciles
<1>i. op' # Idle
  <2>1. Idle.pc \notin Reading
    BY DEF Idle, Reading
  <2>2. QED
    BY <2>1
<1>1. CASE Deliberation
  <2>1. op.pc \in Reading
    BY <1>1, DeliberationReads
  <2>2. WellFormed(op.status) /\ op.worker = op.status.workerPod
    BY <2>1 DEF TruthInv, Trail
  <2>3. op'.pc \in Writing \/ op'.status = op.status
    BY <1>1, <1>i, <2>2, DeliberationEffect DEF TruthInv
  <2>4. QED
    BY <2>1, <2>3 DEF Reading, Writing
<1>2. CASE CreatePod
  <2>1. op'.pc = "update"
    BY <1>2, <1>t DEF CreatePod, Save, Reconciles
  <2>2. QED
    BY <2>1 DEF Reading
<1>3. CASE Update \/ CloseWithoutPR
  <2>1. op' = [op EXCEPT !.pc = "cleanupLast"]
    BY <1>3, <1>i, UpdateEffect DEF TruthInv
  <2>2. op'.pc = "cleanupLast"
    BY <1>t, <2>1 DEF Reconciles
  <2>3. QED
    BY <2>2 DEF Reading
<1>4. CASE ~Deliberation /\ ~CreatePod /\ ~Update /\ ~CloseWithoutPR
  <2>1. CASE op' = op \/ op' = [op EXCEPT !.fresh = FALSE]
    BY <1>t, <2>1 DEF Reconciles
  <2>2. CASE op' = [Idle EXCEPT !.pc = "dispatch", !.status = cache,
                                !.worker = cache.workerPod, !.fresh = cacheFresh]
    <3>1. Idle \in Reconciles
      BY InitialTypes
    <3>2. QED
      BY <2>2, <3>1 DEF Reconciles
  <2>3. CASE op' = [op EXCEPT !.pc = "update"] \/ op' = [op EXCEPT !.pc = "cleanup"]
    <3>1. op'.pc \in {"update", "cleanup"}
      BY <1>t, <2>3 DEF Reconciles
    <3>2. QED
      BY <3>1 DEF Reading
  <2>4. QED
    BY <1>4, <1>i, <2>1, <2>2, <2>3, OtherEffect DEF TruthInv
<1>5. QED
  BY <1>1, <1>2, <1>3, <1>4

\* The cache holds what it held, or what is stored.
LEMMA CacheFrom ==
    ASSUME TypeOK, [Next]_vars
    PROVE  cache' = cache \/ (task' = task /\ cache' = task)
<1>1. CASE Deliberation
  BY <1>1, DeliberationReads DEF apiVars
<1>2. CASE CreatePod
  BY <1>2 DEF CreatePod, apiVars
<1>3. CASE Update \/ CloseWithoutPR
  BY <1>3, UpdateEffect
<1>4. CASE ~Deliberation /\ ~CreatePod /\ ~Update /\ ~CloseWithoutPR
  BY <1>4, OtherEffect
<1>5. QED
  BY <1>1, <1>2, <1>3, <1>4

\* A graduation under way was begun for the pull request as it is reported, or
\* was under way before.
LEMMA GraduationFrom ==
    ASSUME TruthInv, [Next]_vars, op'.pc = "graduate"
    PROVE  /\ task' = task /\ op'.worker = op.worker
           /\ \/ op.pc = "graduate" /\ ~CreatePod /\ op'.status = op.status
              \/ /\ Deliberation /\ op.pc \in Reading
                 /\ op.worker = op.status.workerPod
                 /\ op.status.phase \in {"Completed", "WaitingForPR"}
                 /\ op.status.hasPR /\ Answers(op.worker)
                 /\ Due(op'.status, pr)
<1>t. op \in Reconciles /\ op.pc \in PCs
  BY DEF TruthInv, TypeOK, Reconciles
<1>i. op' # Idle
  <2>1. Idle.pc # "graduate"
    BY DEF Idle
  <2>2. QED
    BY <2>1
<1>1. CASE Deliberation
  <2>1. op.pc \in Reading /\ task' = task
    BY <1>1, DeliberationReads DEF apiVars
  <2>2. WellFormed(op.status) /\ op.worker = op.status.workerPod
    BY <2>1 DEF TruthInv, Trail
  <2>3. op'.worker = op.worker /\ (op'.pc \in Reading \/ Derives(op.status, op'.pc, op'.status))
    BY <1>1, <1>i, <2>2, DeliberationEffect DEF TruthInv
  <2>4. Derives(op.status, "graduate", op'.status)
    BY <2>3 DEF Reading
  <2>5. FromPRReply(op.status, "graduate", op'.status)
    BY <2>4 DEF Derives, FromReply, FromPod, FromPhase
  <2>6. /\ op.status.phase \in {"Completed", "WaitingForPR"}
        /\ op.status.hasPR /\ Answers(op.status.workerPod)
        /\ \/ pr = "merged"
           \/ pr = "closed" /\ op'.status.phase = "Closed"
    BY <2>5, <1>t DEF FromPRReply, Reconciles, Status
  <2>7. QED
    BY <1>1, <2>1, <2>2, <2>3, <2>6 DEF Due
<1>2. CASE CreatePod
  <2>1. op'.pc = "update"
    BY <1>2, <1>t DEF CreatePod, Save, Reconciles
  <2>2. QED
    BY <2>1
<1>3. CASE Update \/ CloseWithoutPR
  <2>1. op' = [op EXCEPT !.pc = "cleanupLast"]
    BY <1>3, <1>i, UpdateEffect DEF TruthInv
  <2>2. op'.pc = "cleanupLast"
    BY <1>t, <2>1 DEF Reconciles
  <2>3. QED
    BY <2>2
<1>4. CASE ~Deliberation /\ ~CreatePod /\ ~Update /\ ~CloseWithoutPR
  <2>1. CASE op' = op \/ op' = [op EXCEPT !.fresh = FALSE]
    <3>1. op'.pc = op.pc /\ op'.worker = op.worker /\ op'.status = op.status
      BY <1>t, <2>1 DEF Reconciles
    <3>2. QED
      BY <1>4, <3>1, OtherEffect DEF TruthInv
  <2>2. CASE op' = [Idle EXCEPT !.pc = "dispatch", !.status = cache,
                                !.worker = cache.workerPod, !.fresh = cacheFresh]
    <3>1. Idle \in Reconciles
      BY InitialTypes
    <3>2. op'.pc = "dispatch"
      BY <2>2, <3>1 DEF Reconciles
    <3>3. QED
      BY <3>2
  <2>3. CASE op' = [op EXCEPT !.pc = "update"] \/ op' = [op EXCEPT !.pc = "cleanup"]
    <3>1. op'.pc \in {"update", "cleanup"}
      BY <1>t, <2>3 DEF Reconciles
    <3>2. QED
      BY <3>1
  <2>4. QED
    BY <1>4, <1>i, <2>1, <2>2, <2>3, OtherEffect DEF TruthInv
<1>5. QED
  BY <1>1, <1>2, <1>3, <1>4

\* Once no run goes on, nobody opens another pull request: a merge stays, and a
\* decision is only followed by another, or taken back.
LEMMA DecidedStays ==
    ASSUME TruthInv, Quiet, [Next]_vars, NEW s, Due(s, pr),
           task.phase \notin {Unset, "Pending", "Running"}
    PROVE  Due(s, pr')
<1>1. \A a \in Attempts : Live(a) => work[a] \in Outcomes
  BY NobodyWorks DEF TruthInv, TypeOK, Quiet
<1>2. \A a \in Attempts : ~(pod[a] = "Running" /\ work[a] = "Running")
  BY <1>1 DEF Live, Outcomes
<1>3. QED
  BY <1>2, PREffects DEF Due

\* Every step keeps what a status says true and a graduation due.
LEMMA ReviewedInductive ==
    ASSUME TruthInv, TruthInv', Quiet, Reviewed, [Next]_vars
    PROVE  Reviewed'
<1>t. /\ cache \in Status /\ op.status \in Status /\ task \in Status
      /\ op \in Reconciles
  BY DEF TruthInv, TypeOK, Reconciles
<1>c. /\ cache.phase = "WaitingForPR" => work'[cache.workerPod] = "Succeeded"
      /\ cache.phase = "Completed" => pod'[cache.workerPod] \notin {"Pending", "Running"}
  BY <1>t, ReviewStays DEF TruthInv, Trail, Reviewed
<1>1. SaysReviewed(cache)'
  <2>1. CASE cache' = cache
    BY <1>c, <2>1 DEF SaysReviewed, Live
  <2>2. CASE task' = task /\ cache' = task
    <3>1. SaysReviewed(task)'
      BY TaskIsReviewed, PTL
    <3>2. QED
      BY <2>2, <3>1 DEF SaysReviewed, Live
  <2>3. QED
    BY <2>1, <2>2, CacheFrom DEF TruthInv
<1>2. (op.pc \in Reading => SaysReviewed(op.status))'
  <2> SUFFICES ASSUME op'.pc \in Reading
               PROVE  /\ op'.status.phase = "WaitingForPR" =>
                            work'[op'.status.workerPod] = "Succeeded"
                      /\ op'.status.phase = "Completed" =>
                            pod'[op'.status.workerPod] \notin {"Pending", "Running"}
    BY DEF SaysReviewed, Live
  <2>1. CASE op.pc \in Reading /\ op'.status = op.status
    BY <1>t, <2>1, ReviewStays DEF TruthInv, Trail, Reviewed
  <2>2. CASE op'.status = cache
    BY <1>c, <2>2
  <2>3. QED
    BY <2>1, <2>2, ReadingFrom
<1>3. (task.phase = Unset => \A a \in Attempts : ~Live(a))'
  <2> SUFFICES ASSUME task'.phase = Unset, NEW a \in Attempts
               PROVE  pod'[a] \notin {"Pending", "Running"}
    BY DEF Live
  <2>1. task.phase = Unset
    BY StepMoves, MoveCases, UnsetIsNoName DEF TruthInv
  <2>2. ~CreatePod
    BY <2>1, CreatesForCurrent, UnsetIsNoName DEF TruthInv
  <2>3. QED
    BY <2>1, <2>2, PodsAndRunsEnd DEF TruthInv, Reviewed
<1>4. (op.pc = "graduate" =>
          /\ op.worker \in Attempts
          /\ task.phase \in {"WaitingForPR", "Merged", "Closed"}
          /\ work[op.worker] = "Succeeded"
          /\ Due(op.status, pr))'
  <2> SUFFICES ASSUME op'.pc = "graduate"
               PROVE  /\ op'.worker \in Attempts
                      /\ task'.phase \in {"WaitingForPR", "Merged", "Closed"}
                      /\ work'[op'.worker] = "Succeeded"
                      /\ Due(op'.status, pr')
    OBVIOUS
  <2>1. task' = task /\ op'.worker = op.worker
    BY GraduationFrom
  <2>2. CASE op.pc = "graduate" /\ ~CreatePod /\ op'.status = op.status
    <3>1. /\ op.worker \in Attempts /\ work[op.worker] = "Succeeded"
          /\ task.phase \in {"WaitingForPR", "Merged", "Closed"}
          /\ Due(op.status, pr)
      BY <2>2 DEF Reviewed
    <3>2. work'[op.worker] = work[op.worker]
      BY <2>2, <3>1, PodsAndRunsEnd DEF TruthInv, Outcomes
    <3>3. Due(op.status, pr')
      BY <3>1, DecidedStays, UnsetIsNoName
    <3>4. QED
      BY <2>1, <2>2, <3>1, <3>2, <3>3
  <2>3. CASE /\ Deliberation /\ op.pc \in Reading
             /\ op.worker = op.status.workerPod
             /\ op.status.phase \in {"Completed", "WaitingForPR"}
             /\ op.status.hasPR /\ Answers(op.worker)
             /\ Due(op'.status, pr)
    <3>1. op.worker \in Attempts /\ Live(op.worker)
      BY <1>t, <2>3 DEF Answers, Live, Reconciles
    <3>2. op.status.phase = "WaitingForPR" /\ work[op.worker] = "Succeeded"
      BY <2>3, <3>1 DEF Reviewed, SaysReviewed
    <3>3. task.phase \in {"WaitingForPR", "Merged", "Closed"}
      BY <2>3, <3>2, MoveCases, UnsetIsNoName DEF TruthInv, Trail
    <3>4. UNCHANGED <<work, pr>>
      BY <2>3, DeliberationReads DEF workerVars, worldVars
    <3>5. QED
      BY <2>1, <2>3, <3>1, <3>2, <3>3, <3>4
  <2>4. QED
    BY <2>2, <2>3, GraduationFrom
<1>5. QED
  BY <1>1, <1>2, <1>3, <1>4 DEF Reviewed

\* Whatever fails, as long as the pod cache is current the runs of a task follow
\* one another and none goes on beside a review; a graduation is asked of a worker
\* that has succeeded, once its pull request was decided, and what is reported as
\* merged still is, whatever the humans do in between.  (handleRunning,
\* handleWaitingForPR, graduateWorker)
THEOREM GraduationIsLast ==
    ASSUME ~PodCacheLag
    PROVE  Spec => []GraduationComesLast
<1>1. Init => Reviewed
  BY UnsetIsNoName
  DEF Init, Reviewed, SaysReviewed, Reading, Idle, NewTask, Live
<1>2. TruthInv /\ TruthInv' /\ Quiet /\ Reviewed /\ [Next]_vars => Reviewed'
  BY ReviewedInductive
<1>3. TruthInv /\ Quiet /\ Reviewed => GraduationComesLast
  <2> SUFFICES ASSUME TruthInv, Quiet, Reviewed
               PROVE  GraduationComesLast
    OBVIOUS
  <2>1. ASSUME NEW a \in Attempts, Live(a), work[a] \notin Outcomes
        PROVE  a = task.retryCount /\ task.phase \in {"Pending", "Running"}
    <3>1. a \in Int /\ task.retryCount \in Int
      BY AttemptsAreNumbers DEF TruthInv, TypeOK, Status, Attempts
    <3>2. ~PastIn(task, a)
      BY <2>1 DEF Quiet, Over
    <3>3. a <= task.retryCount
      BY <2>1, <3>1 DEF TruthInv, Fates, Live
    <3>4. a = task.retryCount /\ task.phase \in {Unset, "Pending", "Running"}
      BY <3>1, <3>2, <3>3 DEF PastIn
    <3>5. QED
      BY <2>1, <3>4 DEF Reviewed
  <2>2. QED
    BY <2>1 DEF Reviewed, Due, GraduationComesLast
<1>4. QED
  BY <1>1, <1>2, <1>3, AlwaysTruthful, AlwaysQuiet, PTL DEF Spec

=============================================================================
