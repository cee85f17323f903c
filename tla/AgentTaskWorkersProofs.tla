----------------------- MODULE AgentTaskWorkersProofs -----------------------
(***************************************************************************)
(* For every retry budget, every set of failures and with or without lag   *)
(* of the pod cache: what the stored status says of the current attempt's  *)
(* worker is true.                                                         *)
(***************************************************************************)
EXTENDS AgentTaskControllerProofs

-----------------------------------------------------------------------------
(* What a step touches *)

\* The steps of the handlers that call nobody.
Deliberation ==
    \/ Initialize \/ ReconcileTerminal \/ PendingNoAgent \/ PendingLaunch
    \/ RunningPodLost \/ RunningPodSucceeded \/ RunningPodNotReady
    \/ RunningPodReady \/ QueryFails \/ QueryAnswered
    \/ FailedRetry \/ FailedForGood \/ WaitingWithoutPR
    \/ WaitingPodLost \/ WaitingPodReady \/ PRQueryFails \/ PRQueryAnswered

\* A step either leaves what the API server, the pods, the workers and GitHub
\* hold, or is one of the calls and events listed here.
LEMMA StepEffects ==
    ASSUME [Next]_vars
    PROVE  \/ /\ Deliberation \/ Dequeue \/ TaskEvent \/ DelayExpires \/ EditSpec
                 \/ UNCHANGED vars
              /\ UNCHANGED <<task, podVars, workerVars, worldVars>>
           \/ CreatePod \/ Finalize \/ Update \/ CloseWithoutPR
           \/ Cleanup \/ CleanupLast \/ Graduate
           \/ (\E a \in Attempts : PodEvent(a)) \/ Crash
           \/ Kubelet \/ Worker \/ Human
<1>1. CASE Deliberation
  BY <1>1
  DEF Deliberation, Initialize, ReconcileTerminal, PendingNoAgent, PendingLaunch,
      RunningPodLost, RunningPodSucceeded, RunningPodNotReady,
      RunningPodReady, QueryFails, QueryAnswered, FailedRetry,
      FailedForGood, WaitingWithoutPR, WaitingPodLost,
      WaitingPodReady, PRQueryFails, PRQueryAnswered, Local, apiVars
<1>2. CASE Dequeue \/ TaskEvent \/ DelayExpires \/ EditSpec \/ UNCHANGED vars
  BY <1>2 DEF Dequeue, TaskEvent, DelayExpires, EditSpec, vars, apiVars
<1>3. QED
  BY <1>1, <1>2 DEF Deliberation, Next, Step, Events

\* A pod is only made for the attempt of the status in hand, by CreatePod; the
\* kubelet changes the phase of one pod, a worker its own answer.
LEMMA PodEffects ==
    ASSUME TypeOK, [Next]_vars
    PROVE  \/ UNCHANGED <<pod, work, knowsPR>>
           \/ CreatePod /\ PodCreated(op.status.retryCount)
           \/ /\ UNCHANGED <<work, knowsPR, task, op>>
              /\ \E a \in Attempts : \/ KubeletStarts(a) \/ KubeletRemoves(a)
                                     \/ PodDies(a)
           \/ /\ UNCHANGED <<podVars, task, op>>
              /\ \E a \in Attempts : \/ WorkerStarts(a) \/ WorkerOpensPR(a)
                                     \/ WorkerLosesPR(a) \/ WorkerEnds(a)
<1> USE DEF podVars, workerVars, apiVars
<1>1. CASE CreatePod
  BY <1>1 DEF CreatePod, PodAlreadyExists
<1>2. CASE Kubelet
  BY <1>2 DEF Kubelet, KubeletStarts, KubeletRemoves, PodDies
<1>3. CASE Worker
  BY <1>3 DEF Worker, WorkerStarts, WorkerOpensPR, WorkerLosesPR, WorkerEnds, WorkerActs
<1>4. CASE \/ Finalize \/ Update \/ CloseWithoutPR \/ Cleanup \/ CleanupLast
           \/ Graduate \/ (\E a \in Attempts : PodEvent(a)) \/ Crash \/ Human
  BY <1>4
  DEF Finalize, Update, CloseWithoutPR, Cleanup, CleanupLast, Graduate, PodEvent,
      Crash, Human, HumanActs, HumanMarksReady, HumanMerges, HumanCloses, HumanReopens
<1>5. QED
  BY <1>1, <1>2, <1>3, <1>4, StepEffects

-----------------------------------------------------------------------------
(* What the workers answer *)

\* A worker answers only once its pod has run, ends without an error only with
\* the URL of a pull request, and writes the task's memory before it ends.
Answered ==
    /\ \A a \in Attempts : work[a] # "none" => pod[a] # "Pending"
    /\ \A a \in Attempts : work[a] \in {"Succeeded", "Incomplete"} => a \in knowsPR
    /\ (\E a \in Attempts : work[a] \in Outcomes) => memory # "empty"

\* No step takes the memory away.
LEMMA MemoryStays ==
    ASSUME [Next]_vars, memory # "empty"
    PROVE  memory' # "empty"
<1>1. CASE Worker
  BY <1>1
  DEF Worker, WorkerStarts, WorkerOpensPR, WorkerLosesPR, WorkerEnds
<1>2. CASE \/ CreatePod \/ Finalize \/ Update \/ CloseWithoutPR \/ Cleanup
           \/ CleanupLast \/ (\E a \in Attempts : PodEvent(a)) \/ Crash
           \/ Kubelet \/ Human
  BY <1>2
  DEF CreatePod, Finalize, Update, CloseWithoutPR, Cleanup, CleanupLast, PodEvent,
      Crash, Kubelet, KubeletStarts, KubeletRemoves, PodDies,
      Human, HumanActs, HumanMarksReady, HumanMerges, HumanCloses, HumanReopens, worldVars
<1>3. CASE Graduate
  BY <1>3 DEF Graduate, GraduateMemory
<1>4. QED
  BY <1>1, <1>2, <1>3, StepEffects DEF worldVars

\* A step keeps what the answers of the workers say.
LEMMA AnsweredInductive ==
    ASSUME TypeOK, Answered, [Next]_vars
    PROVE  Answered'
<1> USE DEF Answered
<1>t. /\ pod \in [Attempts -> PodPhases] /\ work \in [Attempts -> WorkStates]
      /\ op.status.retryCount \in Attempts
  BY DEF TypeOK, Reconciles, Status, Attempts
<1>1. CASE UNCHANGED <<pod, work, knowsPR>>
  BY <1>1, MemoryStays
<1>2. CASE CreatePod /\ PodCreated(op.status.retryCount)
  BY <1>2, <1>t, MemoryStays DEF PodCreated, PodsBecome, PayloadPR, Outcomes
<1>3. ASSUME NEW a \in Attempts, UNCHANGED <<work, knowsPR>>,
             KubeletStarts(a) \/ KubeletRemoves(a) \/ PodDies(a)
      PROVE  Answered'
  <2>1. PICK phase \in PodPhases \ {"Pending"} : pod' = [pod EXCEPT ![a] = phase]
    BY <1>3 DEF KubeletStarts, KubeletRemoves, PodDies, PodsBecome, PodPhases
  <2>2. QED
    BY <1>3, <1>t, <2>1, MemoryStays
<1>4. ASSUME NEW a \in Attempts, UNCHANGED podVars,
             \/ WorkerStarts(a) \/ WorkerOpensPR(a)
             \/ WorkerLosesPR(a) \/ WorkerEnds(a)
      PROVE  Answered'
  BY <1>4, <1>t, MemoryStays
  DEF podVars, WorkerStarts, WorkerOpensPR, WorkerLosesPR, WorkerEnds, WorkerActs,
      Promise!Starts, Promise!OpensPR, Promise!LosesPR, Promise!Ends,
      Promise!Answers, Promise!Outcomes, Outcomes
<1>5. QED
  BY <1>1, <1>2, <1>3, <1>4, PodEffects

-----------------------------------------------------------------------------
(* What a reconcile holds against what is stored *)

\* The steps of a handler that hold the status as it was read, and those that
\* hold the status to be written.
Reading == {"dispatch", "create", "query", "prquery"}
Writing == {"finalize", "update", "closeNoPR", "graduate", "cleanup"}

\* The status in hand will be written if nothing intervenes.
Prepares == op.fresh /\ op.pc \in Writing

\* A handler's steps that call nobody hold the status as it was read.
LEMMA DeliberationReads ==
    ASSUME Deliberation
    PROVE  op.pc \in Reading /\ UNCHANGED <<apiVars, podVars, workerVars, worldVars>>
BY DEF Deliberation, Initialize, ReconcileTerminal, PendingNoAgent, PendingLaunch,
       RunningPodLost, RunningPodSucceeded, RunningPodNotReady, RunningPod,
       RunningPodReady, QueryFails, QueryAnswered, FailedRetry, FailedForGood,
       WaitingWithoutPR, WaitingPodLost, WaitingPodReady, Waiting, PRQueryFails,
       PRQueryAnswered, Handling, Local, Reading

\* A status names the pod of its own attempt from the launch on, and a task
\* that waits or was merged has a pull request.
WellFormed(s) ==
    /\ s.workerPod = IF s.phase \in {Unset, "Pending"} THEN NoPod ELSE s.retryCount
    /\ s.phase \in {"WaitingForPR", "Merged"} => s.hasPR

\* By this status, attempt a is over.
PastIn(s, a) ==
    \/ a < s.retryCount
    \/ a = s.retryCount /\ s.phase \notin {Unset, "Pending", "Running"}

\* Whatever a reconcile read, the stored status has made one move since at
\* most, and an attempt that it thought over is over.
Trail ==
    /\ WellFormed(task) /\ WellFormed(cache) /\ WellFormed(op.status)
    /\ Moves(cache, task)
    /\ op.pc \in Reading =>
          Moves(op.status, task) /\ op.worker = op.status.workerPod
    /\ op.fresh /\ op.pc \notin {"idle", "cleanupLast"} => cache = task
    /\ op.pc = "finalize" =>
          op.status.phase = "WaitingForPR" /\ op.worker = op.status.workerPod
    /\ op.pc \in {"closeNoPR", "cleanupLast", "graduate", "cleanup"} =>
          op.worker \in Attempts /\ PastIn(task, op.worker)

\* The moves of the life cycle, one by one.
LEMMA MoveCases ==
    ASSUME NEW s, NEW t, Moves(s, t)
    PROVE  \/ /\ t.retryCount = s.retryCount /\ t.hasPR = s.hasPR
              /\ \/ t.phase = s.phase
                 \/ s.phase = Unset /\ t.phase = "Pending"
                 \/ s.phase = "Pending" /\ t.phase = "Running"
                 \/ s.phase = "Running" /\ t.phase \in {"Failed", "Completed"}
                 \/ s.phase \in {"Completed", "WaitingForPR"} /\ t.phase = "Closed"
                 \/ /\ s.phase \in {"Completed", "WaitingForPR"} /\ s.hasPR
                    /\ t.phase \in {"WaitingForPR", "Merged"}
           \/ /\ s.phase = "Running" /\ t.phase \in {"Running", "Failed", "WaitingForPR"}
              /\ t.retryCount = s.retryCount /\ (s.hasPR => t.hasPR)
           \/ /\ s.phase = "Failed" /\ t.phase = "Pending" /\ CanRetry(s.retryCount)
              /\ t.retryCount = s.retryCount + 1 /\ t.hasPR = s.hasPR
<1>1. ASSUME NEW from, NEW to, s.phase = from, t.phase = to,
             <<from, to>> \in
               {<<Unset, "Pending">>, <<"Pending", "Running">>,
                <<"Running", "Failed">>, <<"Running", "Completed">>,
                <<"Completed", "Closed">>, <<"WaitingForPR", "Closed">>}
      PROVE  \/ s.phase = Unset /\ t.phase = "Pending"
             \/ s.phase = "Pending" /\ t.phase = "Running"
             \/ s.phase = "Running" /\ t.phase \in {"Failed", "Completed"}
             \/ s.phase \in {"Completed", "WaitingForPR"} /\ t.phase = "Closed"
  BY <1>1
<1>2. QED
  BY <1>1, Zenon DEF Moves

\* A move of the life cycle revives no attempt, and a status that is one move
\* behind speaks of the past truly.
LEMMA MovesKeepPast ==
    ASSUME NEW s \in Status, NEW t \in Status, Moves(s, t), NEW a \in Attempts,
           PastIn(s, a)
    PROVE  PastIn(t, a)
<1>1. s.retryCount \in Int /\ t.retryCount \in Int /\ a \in Int
  BY DEF Status, Attempts, RetryCounts
<1>2. CASE a < s.retryCount
  <2>1. t.retryCount \in {s.retryCount, s.retryCount + 1}
    BY MoveCases
  <2>2. QED
    BY <1>1, <1>2, <2>1 DEF PastIn
<1>3. CASE a = s.retryCount /\ s.phase \notin {Unset, "Pending", "Running"}
  <2>1. \/ t.retryCount = s.retryCount /\ t.phase \notin {Unset, "Pending", "Running"}
        \/ t.retryCount = s.retryCount + 1
    BY <1>3, MoveCases, UnsetIsNoName
  <2>2. QED
    BY <1>1, <1>3, <2>1 DEF PastIn
<1>4. QED
  BY <1>2, <1>3 DEF PastIn

\* What an update stores, if it stores anything, is what was prepared.
LEMMA UpdateEffect ==
    ASSUME TypeOK, Update \/ CloseWithoutPR
    PROVE  /\ \/ task' = task
              \/ Prepares /\ task' = op.status
           /\ cache' = cache
           /\ UNCHANGED <<podVars, workerVars, worldVars>>
           /\ Update => op' = Idle
           /\ CloseWithoutPR => op' = [op EXCEPT !.pc = "cleanupLast"]
<1>1. \/ op.fresh /\ task' = op.status
      \/ task' = task
  BY DEF Update, CloseWithoutPR, StatusStored, StatusConflict, StatusCallFails,
         WriteStatus, apiVars
<1>2. cache' = cache
  BY DEF Update, CloseWithoutPR, StatusStored, StatusConflict, StatusCallFails,
         WriteStatus, apiVars
<1>3. /\ op.pc \in Writing
      /\ UNCHANGED <<podVars, workerVars, worldVars>>
  BY DEF Update, CloseWithoutPR, Writing
<1>4. Update => op' = Idle
  BY DEF Update, Return
<1>5. CloseWithoutPR => op' = [op EXCEPT !.pc = "cleanupLast"]
  BY DEF CloseWithoutPR, Goto, TypeOK, Reconciles
<1>6. QED
  BY <1>1, <1>2, <1>3, <1>4, <1>5 DEF Prepares

\* Every stored status is one move from the one before.
LEMMA StepMoves ==
    ASSUME TypeOK, Coherent, [Next]_vars
    PROVE  Moves(task, task')
<1>1. CASE task' = task
  BY <1>1 DEF Moves
<1>2. QED
  BY <1>1, OnlyUpdatesStore, UpdatesMove

\* An attempt that is over stays over.
LEMMA PastStays ==
    ASSUME TypeOK, TypeOK', Coherent, [Next]_vars, NEW a \in Attempts, PastIn(task, a)
    PROVE  PastIn(task', a)
<1>1. task \in Status /\ task' \in Status
  BY DEF TypeOK
<1>2. QED
  BY <1>1, StepMoves, MovesKeepPast

-----------------------------------------------------------------------------
(* What the handlers derive from the status they read *)

\* From status s, by what a poll of the worker answers, status t and the step
\* at which it is held.
FromReply(s, pc, t) ==
    LET p == s.workerPod IN
    /\ s.phase = "Running" /\ Answers(p)
    /\ \/ pc = "update" /\ work[p] = "Running" /\ t = Learned(s, p)
       \/ /\ pc = "finalize" /\ work[p] = "Succeeded"
          /\ t = [Learned(s, p) EXCEPT !.phase = "WaitingForPR", !.prState = "open"]
       \/ /\ pc = "update" /\ work[p] \in {"Incomplete", "Failed"}
          /\ t = [Learned(s, p) EXCEPT !.phase = "Failed"]

\* By what GET /pr-status answers.
FromPRReply(s, pc, t) ==
    /\ s.phase \in {"Completed", "WaitingForPR"} /\ s.hasPR /\ Answers(s.workerPod)
    /\ \E state \in {Unset, "open", "merged", "closed", "error"} :
       \/ /\ pc = "graduate" /\ pr = "merged"
          /\ t = [s EXCEPT !.prState = state, !.phase = "Merged"]
       \/ /\ pc = "graduate" /\ pr = "closed"
          /\ t = [s EXCEPT !.prState = state, !.phase = "Closed"]
       \/ pc = "update" /\ t = [s EXCEPT !.prState = state, !.phase = "WaitingForPR"]

\* By what the pod cache holds.
FromPod(s, pc, t) ==
    \/ /\ pc = "update" /\ s.phase = "Running"
       /\ \/ /\ Seen(s.workerPod) \in {"absent", "Failed"}
             /\ t = [s EXCEPT !.phase = "Failed"]
          \/ /\ Seen(s.workerPod) = "Succeeded"
             /\ t = [s EXCEPT !.phase = "Completed"]
    \/ /\ s.phase \in {"Completed", "WaitingForPR"}
       /\ t = Closed(s)
       /\ \/ pc = "closeNoPR" /\ ~s.hasPR
          \/ pc = "update" /\ s.hasPR /\ Seen(s.workerPod) # "Running"

\* By the status alone.
FromPhase(s, pc, t) ==
    \/ pc = "update" /\ s.phase = Unset /\ t = [s EXCEPT !.phase = "Pending"]
    \/ pc = "update" /\ s.phase = "Pending" /\ t = s
    \/ pc = "cleanup" /\ s.phase = "Failed" /\ ~CanRetry(s.retryCount) /\ t = s
    \/ pc = "cleanup" /\ s.phase = "Failed" /\ CanRetry(s.retryCount) /\ t = Retried(s)

Derives(s, pc, t) ==
    FromReply(s, pc, t) \/ FromPRReply(s, pc, t) \/ FromPod(s, pc, t) \/ FromPhase(s, pc, t)

\* A handler ends the reconcile, goes on to its next call with what it read, or
\* holds what it derived from that.
LEMMA DeliberationEffect ==
    ASSUME TypeOK, Coherent, Deliberation,
           WellFormed(op.status), op.worker = op.status.workerPod
    PROVE  \/ op' = Idle
           \/ /\ op'.fresh = op.fresh /\ op'.worker = op.worker
              /\ \/ op'.pc \in Reading /\ op'.status = op.status
                 \/ op'.pc \in Writing /\ Derives(op.status, op'.pc, op'.status)
<1> USE DEF Handling, Save, Goto, Reconciles, Reading, Writing, Local, apiVars
<1>t. /\ op \in Reconciles /\ op.status \in Status
      /\ op.worker \in Attempts \cup {NoPod} /\ pr \in PRStates
      /\ work \in [Attempts -> WorkStates]
  BY DEF TypeOK
<1>w. op.status.phase \notin {Unset, "Pending"} => op.worker # NoPod
  BY <1>t, RetryCountFacts DEF WellFormed, Status
<1>1. CASE ReconcileTerminal \/ RunningPodNotReady \/ QueryFails \/ PRQueryFails
  BY <1>1
  DEF ReconcileTerminal, RunningPodNotReady, RunningPod, QueryFails, PRQueryFails, Return
<1>2. CASE Initialize
  BY <1>2, <1>t DEF Initialize, Derives, FromPhase
<1>3. CASE PendingNoAgent
  BY <1>3, <1>t DEF PendingNoAgent, Derives, FromPhase
<1>4. CASE PendingLaunch \/ RunningPodReady \/ WaitingPodReady
  BY <1>4, <1>t DEF PendingLaunch, RunningPodReady, RunningPod, WaitingPodReady, Waiting
<1>5. CASE RunningPodLost
  BY <1>5, <1>t DEF RunningPodLost, RunningPod, Derives, FromPod
<1>6. CASE RunningPodSucceeded
  BY <1>6, <1>t DEF RunningPodSucceeded, RunningPod, Derives, FromPod
<1>7. CASE QueryAnswered
  <2>1. op.status.phase = "Running"
    BY <1>7 DEF QueryAnswered, Coherent
  <2>2. /\ op'.fresh = op.fresh /\ op'.worker = op.worker
        /\ op'.pc \in {"update", "finalize"}
        /\ FromReply(op.status, op'.pc, op'.status)
    <3> DEFINE p == op.status.workerPod
               learned == Learned(op.status, p)
    <3>1. op.worker = p /\ Answers(p)
      BY <1>7 DEF QueryAnswered
    <3>2. \/ /\ work[p] = "Running"
             /\ Save("update", learned, "poll", "requeue")
          \/ /\ work[p] \in SuccessReplies
             /\ Save("finalize", [learned EXCEPT !.phase = "WaitingForPR",
                                                 !.prState = "open"],
                     "done", "requeue")
          \/ /\ work[p] \in Outcomes \ SuccessReplies
             /\ Save("update", [learned EXCEPT !.phase = "Failed"],
                     "requeue", "requeue")
      BY <1>7, <3>1, Zenon DEF QueryAnswered
    <3> HIDE DEF p, learned
    <3>3. CASE /\ work[p] = "Running"
               /\ Save("update", learned, "poll", "requeue")
      <4>1. /\ op'.fresh = op.fresh /\ op'.worker = op.worker
            /\ op'.pc = "update" /\ op'.status = learned
        BY <1>t, <3>3
      <4>2. QED
        BY <2>1, <3>1, <3>3, <4>1 DEF FromReply, p, learned
    <3>4. CASE /\ work[p] \in SuccessReplies
               /\ Save("finalize", [learned EXCEPT !.phase = "WaitingForPR",
                                                   !.prState = "open"],
                       "done", "requeue")
      <4>1. /\ op'.fresh = op.fresh /\ op'.worker = op.worker
            /\ op'.pc = "finalize"
            /\ op'.status = [learned EXCEPT !.phase = "WaitingForPR", !.prState = "open"]
        BY <1>t, <3>4
      <4>2. QED
        BY <2>1, <3>1, <3>4, <4>1 DEF FromReply, p, learned, SuccessReplies
    <3>5. CASE /\ work[p] \in Outcomes \ SuccessReplies
               /\ Save("update", [learned EXCEPT !.phase = "Failed"],
                       "requeue", "requeue")
      <4>1. /\ op'.fresh = op.fresh /\ op'.worker = op.worker
            /\ op'.pc = "update" /\ op'.status = [learned EXCEPT !.phase = "Failed"]
        BY <1>t, <3>5
      <4>2. work[p] \in {"Incomplete", "Failed"}
        BY <3>5 DEF SuccessReplies, Outcomes
      <4>3. QED
        BY <2>1, <3>1, <4>1, <4>2 DEF FromReply, p, learned
    <3>6. QED
      BY <3>2, <3>3, <3>4, <3>5
  <2>3. QED
    BY <1>7, <2>2 DEF QueryAnswered, Derives
<1>8. CASE FailedRetry
  BY <1>8, <1>t, <1>w, UnsetIsNoName DEF FailedRetry, CleanupFirst, Derives, FromPhase
<1>9. CASE FailedForGood
  BY <1>9, <1>t, <1>w, UnsetIsNoName DEF FailedForGood, CleanupFirst, Derives, FromPhase
<1>10. CASE WaitingWithoutPR
  BY <1>10, <1>t DEF WaitingWithoutPR, Waiting, Derives, FromPod
<1>11. CASE WaitingPodLost
  BY <1>11, <1>t DEF WaitingPodLost, Waiting, Derives, FromPod
<1>12. CASE PRQueryAnswered
  <2>1. op.status.phase \in {"Completed", "WaitingForPR"} /\ op.status.hasPR
    BY <1>12 DEF PRQueryAnswered, Coherent
  <2>2. PICK state \in {ReportedPRState, "error"} :
          LET status == [op.status EXCEPT !.prState = state] IN
          CASE state = "merged" ->
                 Save("graduate", [status EXCEPT !.phase = "Merged"],
                      "done", "requeue")
            [] state = "closed" ->
                 Save("graduate", Closed(status), "done", "requeue")
            [] OTHER ->
                 Save("update", [status EXCEPT !.phase = "WaitingForPR"],
                      "poll", "requeue")
    BY <1>12 DEF PRQueryAnswered
  <2>3. /\ state \in {Unset, "open", "merged", "closed", "error"}
        /\ state \in {"merged", "closed"} => pr = state
    BY <1>t, UnsetIsNoName DEF ReportedPRState, OpenStates, PRStates
  <2>4. /\ op'.fresh = op.fresh /\ op'.worker = op.worker
        /\ \/ /\ state = "merged" /\ op'.pc = "graduate"
              /\ op'.status = [op.status EXCEPT !.prState = state, !.phase = "Merged"]
           \/ /\ state = "closed" /\ op'.pc = "graduate"
              /\ op'.status = [op.status EXCEPT !.prState = state, !.phase = "Closed"]
           \/ /\ op'.pc = "update"
              /\ op'.status = [op.status EXCEPT !.prState = state,
                                                !.phase = "WaitingForPR"]
    BY <2>2, <1>t DEF Closed
  <2>5. /\ FromPRReply(op.status, op'.pc, op'.status)
        /\ op'.pc \in {"graduate", "update"}
    BY <1>12, <2>1, <2>3, <2>4 DEF PRQueryAnswered, FromPRReply
  <2>6. QED
    BY <1>12, <2>4, <2>5 DEF PRQueryAnswered, Derives
<1>13. QED
  BY <1>1, <1>2, <1>3, <1>4, <1>5, <1>6, <1>7, <1>8, <1>9, <1>10, <1>11, <1>12
  DEF Deliberation

\* What is derived from a well-formed status is well formed: a worker that
\* succeeded has named a pull request.
LEMMA DerivesWellFormed ==
    ASSUME TypeOK, Answered, NEW s \in Status, WellFormed(s), NEW pc, NEW t,
           Derives(s, pc, t)
    PROVE  WellFormed(t)
<1> DEFINE p == s.workerPod
           learned == Learned(s, p)
<1>1. CASE FromReply(s, pc, t)
  <2>1. s.phase = "Running" /\ p \in Attempts
    BY <1>1 DEF FromReply, Status, Answers
  <2>2. /\ learned \in Status
        /\ learned.phase = "Running" /\ learned.workerPod = learned.retryCount
    BY <2>1, StatusTypes, UnsetIsNoName DEF Learned, Status, WellFormed
  <2>3. work[p] = "Succeeded" => learned.hasPR
    BY <2>1 DEF Answered, Learned, Outcomes, Status, TypeOK
  <2>4. /\ t.workerPod = t.retryCount
        /\ t.phase \in {"Running", "Failed", "WaitingForPR"}
        /\ t.phase = "WaitingForPR" => t.hasPR
    BY <1>1, <2>2, <2>3 DEF FromReply, Status
  <2>5. QED
    BY <2>4, UnsetIsNoName DEF WellFormed
<1>2. CASE FromPRReply(s, pc, t)
  BY <1>2, UnsetIsNoName DEF FromPRReply, WellFormed, Status
<1>3. CASE FromPod(s, pc, t)
  BY <1>3, UnsetIsNoName DEF FromPod, WellFormed, Status, Closed
<1>4. CASE FromPhase(s, pc, t)
  BY <1>4, UnsetIsNoName DEF FromPhase, WellFormed, Status, Retried
<1>5. QED
  BY <1>1, <1>2, <1>3, <1>4 DEF Derives

\* CreatePod derives a launch from a pod that is there, or gives up.
LEMMA CreatePodEffect ==
    ASSUME TypeOK, CreatePod
    PROVE  /\ op.pc = "create"
           /\ op' = [op EXCEPT !.pc = "update", !.status = op'.status,
                               !.result = op'.result, !.onError = op'.onError]
           /\ \/ op'.status = op.status
              \/ /\ op'.status = Launched(op.status)
                 /\ pod'[op.status.retryCount] # "absent"
           /\ \/ PodCreated(op.status.retryCount)
              \/ UNCHANGED <<podVars, workerVars>>
           /\ UNCHANGED <<apiVars, worldVars>>
<1>t. /\ op \in Reconciles /\ op.status.retryCount \in Attempts
      /\ pod \in [Attempts -> PodPhases]
  BY DEF TypeOK, Reconciles, Status, Attempts
<1>1. /\ op.pc = "create" /\ UNCHANGED <<apiVars, worldVars>>
      /\ \/ PodCreated(op.status.retryCount)
         \/ UNCHANGED <<podVars, workerVars>>
  BY DEF CreatePod, PodAlreadyExists
<1>2. op' = [op EXCEPT !.pc = "update", !.status = op'.status,
                       !.result = op'.result, !.onError = op'.onError]
  BY <1>t DEF CreatePod, Save, Reconciles
<1>3. ASSUME PodCreated(op.status.retryCount)
      PROVE  pod'[op.status.retryCount] # "absent"
  BY <1>3, <1>t DEF PodCreated, PodsBecome
<1>4. ASSUME PodAlreadyExists(op.status.retryCount)
      PROVE  pod'[op.status.retryCount] # "absent"
  BY <1>4, <1>t DEF PodAlreadyExists, podVars
<1>5. \/ op'.status = op.status
      \/ /\ op'.status = Launched(op.status)
         /\ pod'[op.status.retryCount] # "absent"
  BY <1>t, <1>3, <1>4 DEF CreatePod, Save, Reconciles
<1>6. QED
  BY <1>1, <1>2, <1>5

\* What else happens moves a reconcile on with what it holds, forgets its
\* resourceVersion, ends it, or starts the next one from the cache.
LEMMA OtherEffect ==
    ASSUME TypeOK, [Next]_vars, ~Deliberation, ~CreatePod, ~Update, ~CloseWithoutPR
    PROVE  /\ task' = task /\ cache' \in {cache, task}
           /\ \/ op' = op
              \/ op' = Idle
              \/ /\ Dequeue /\ op.pc = "idle" /\ cache' = cache
                 /\ op' = [Idle EXCEPT !.pc = "dispatch", !.status = cache,
                                       !.worker = cache.workerPod, !.fresh = cacheFresh]
              \/ op' = [op EXCEPT !.fresh = FALSE] /\ cache' = cache /\ ~cacheFresh'
              \/ /\ cache' = cache
                 /\ \/ op.pc = "finalize" /\ op' = [op EXCEPT !.pc = "update"]
                    \/ op.pc = "graduate" /\ op' = [op EXCEPT !.pc = "cleanup"]
                    \/ op.pc = "cleanup" /\ op' = [op EXCEPT !.pc = "update"]
<1> USE DEF apiVars
<1>t. op \in Reconciles
  BY DEF TypeOK
<1>1. CASE Dequeue
  BY <1>1 DEF Dequeue
<1>2. CASE EditSpec
  BY <1>2 DEF EditSpec
<1>3. CASE Finalize \/ Graduate \/ Cleanup
  <2>1. /\ task' = task /\ cache' = cache
        /\ \/ op.pc = "finalize" /\ Goto("update", op.status)
           \/ op.pc = "graduate" /\ Goto("cleanup", op.status)
           \/ op.pc = "cleanup" /\ Goto("update", op.status)
    BY <1>3 DEF Finalize, Graduate, Cleanup
  <2>2. \A pc : Goto(pc, op.status) => op' = [op EXCEPT !.pc = pc]
    BY <1>t DEF Goto, Reconciles
  <2>3. QED
    BY <2>1, <2>2
<1>4. CASE CleanupLast \/ Crash
  BY <1>4 DEF CleanupLast, Return, Crash
<1>5. CASE TaskEvent \/ DelayExpires \/ (\E a \in Attempts : PodEvent(a)) \/ UNCHANGED vars
  BY <1>5 DEF TaskEvent, DelayExpires, PodEvent, vars
<1>6. CASE Kubelet \/ Worker \/ Human
  BY <1>6
  DEF Kubelet, KubeletStarts, KubeletRemoves, PodDies,
      Worker, WorkerStarts, WorkerOpensPR, WorkerLosesPR, WorkerEnds, WorkerActs,
      Human, HumanMarksReady, HumanMerges, HumanCloses, HumanReopens, HumanActs
<1>7. QED
  BY <1>1, <1>2, <1>3, <1>4, <1>5, <1>6 DEF Next, Step, Events, Deliberation

-----------------------------------------------------------------------------
(* The trail is kept *)

\* A new status is well formed and one move from itself.
LEMMA NewTaskWellFormed == WellFormed(NewTask) /\ \A s : Moves(s, s)
BY UnsetIsNoName DEF WellFormed, NewTask, Moves

\* What a handler derives without a write keeps the trail.
LEMMA DeliberationKeepsTrail ==
    ASSUME TypeOK, TypeOK', Coherent, Answered, Trail, Deliberation, task' = task
    PROVE  Trail'
<1>t. /\ op \in Reconciles /\ op.status \in Status /\ task \in Status
      /\ op.status.retryCount \in Attempts
  BY DEF TypeOK, Reconciles, Status, Attempts
<1>0. op.pc \in Reading /\ UNCHANGED cache
  BY DeliberationReads DEF apiVars
<1>1. CASE op' = Idle
  BY <1>0, <1>1, NewTaskWellFormed DEF Trail, Idle, Reading
<1>2. CASE /\ op'.fresh = op.fresh /\ op'.worker = op.worker
           /\ op'.pc \in Reading /\ op'.status = op.status
  BY <1>0, <1>2 DEF Trail, Reading
<1>3. CASE /\ op'.fresh = op.fresh /\ op'.worker = op.worker
           /\ op'.pc \in Writing /\ Derives(op.status, op'.pc, op'.status)
  <2>1. WellFormed(op'.status)
    BY <1>3, <1>t, DerivesWellFormed DEF Trail
  <2>2. op'.pc = "finalize" =>
          /\ op'.status.phase = "WaitingForPR"
          /\ op'.status.workerPod = op.status.workerPod
    BY <1>3, <1>t
    DEF Derives, FromReply, FromPRReply, FromPod, FromPhase, Learned, Status
  <2>3. op'.pc \in {"closeNoPR", "graduate", "cleanup"} =>
          op.status.phase \in {"Completed", "WaitingForPR", "Failed"}
    BY <1>3 DEF Derives, FromReply, FromPRReply, FromPod, FromPhase
  <2>4. op'.pc \in {"closeNoPR", "graduate", "cleanup"} =>
          op.worker \in Attempts /\ PastIn(op.status, op.worker)
    BY <1>0, <1>t, <2>3, UnsetIsNoName DEF Trail, WellFormed, PastIn
  <2>5. op'.pc \in {"closeNoPR", "graduate", "cleanup"} => PastIn(task, op.worker)
    BY <1>0, <1>t, <2>4, MovesKeepPast DEF Trail
  <2>6. PastIn(task, op.worker) => PastIn(task', op'.worker)
    BY <1>3
  <2>7. QED
    BY <1>0, <1>3, <2>1, <2>2, <2>4, <2>5, <2>6
    DEF Trail, Reading, Writing
<1>4. QED
  BY <1>0, <1>1, <1>2, <1>3, DeliberationEffect DEF Trail

\* Every step leaves the reconcile on the trail of the stored status.
LEMMA TrailInductive ==
    ASSUME TypeOK, TypeOK', Coherent, Answered, Trail, [Next]_vars
    PROVE  Trail'
<1>t. /\ op \in Reconciles /\ op.status \in Status /\ task \in Status
      /\ op.worker \in Attempts \cup {NoPod}
  BY DEF TypeOK, Reconciles
<1>1. CASE Deliberation
  <2>1. task' = task
    BY <1>1, DeliberationReads DEF apiVars
  <2>2. QED
    BY <1>1, <2>1, DeliberationKeepsTrail
<1>2. CASE CreatePod
  <2>1. WellFormed(Launched(op.status))
    BY <1>2, <1>t, UnsetIsNoName DEF Trail, WellFormed, Launched, Status, Coherent, CreatePod
  <2>2. /\ UNCHANGED <<task, cache>> /\ op'.pc = "update" /\ op'.fresh = op.fresh
        /\ op'.status \in {op.status, Launched(op.status)} /\ op.pc = "create"
    BY <1>2, <1>t, CreatePodEffect DEF Reconciles, apiVars
  <2>3. QED
    BY <2>1, <2>2 DEF Trail, Reading
<1>3. CASE Update \/ CloseWithoutPR
  <2>1. WellFormed(task') /\ Moves(cache', task') /\ WellFormed(cache')
    BY <1>3, UpdateEffect, StepMoves DEF Trail, Prepares, Writing
  <2>2. CASE Update
    BY <2>1, <2>2, UpdateEffect, NewTaskWellFormed DEF Trail, Idle, Reading
  <2>3. CASE CloseWithoutPR
    <3>1. /\ op'.pc = "cleanupLast" /\ op'.worker = op.worker
          /\ op'.status = op.status /\ op.pc = "closeNoPR"
      BY <2>3, <1>t, UpdateEffect DEF Reconciles, CloseWithoutPR
    <3>2. op.worker \in Attempts /\ PastIn(task, op.worker)
      BY <3>1 DEF Trail
    <3>3. PastIn(task', op.worker)
      BY <3>2, <1>3, PastStays
    <3>4. PastIn(task', op'.worker)
      BY <3>1, <3>3
    <3>5. QED
      BY <2>1, <3>1, <3>2, <3>4 DEF Trail, Reading
  <2>4. QED
    BY <1>3, <2>2, <2>3
<1>4. CASE ~Deliberation /\ ~CreatePod /\ ~Update /\ ~CloseWithoutPR
  <2>1. /\ task' = task /\ cache' \in {cache, task}
        /\ Moves(cache', task') /\ WellFormed(task') /\ WellFormed(cache')
    BY <1>4, OtherEffect, NewTaskWellFormed DEF Trail
  <2>2. CASE op' = op
    <3>1. PastIn(task, op.worker) => PastIn(task', op'.worker)
      BY <2>1, <2>2
    <3>2. QED
      BY <2>1, <2>2, <3>1 DEF Trail
  <2>3. CASE op' = Idle
    BY <2>1, <2>3, NewTaskWellFormed DEF Trail, Idle, Reading
  <2>4. CASE /\ op.pc = "idle" /\ cache' = cache
             /\ op' = [Idle EXCEPT !.pc = "dispatch", !.status = cache,
                                   !.worker = cache.workerPod, !.fresh = cacheFresh]
    BY <2>1, <2>4 DEF Trail, Idle, Reading, Coherent
  <2>5. CASE op' = [op EXCEPT !.fresh = FALSE] /\ cache' = cache
    <3>1. /\ op'.pc = op.pc /\ op'.status = op.status /\ op'.worker = op.worker
          /\ ~op'.fresh
      BY <2>5, <1>t DEF Reconciles
    <3>2. PastIn(task, op.worker) => PastIn(task', op'.worker)
      BY <2>1, <3>1
    <3>3. QED
      BY <2>1, <3>1, <3>2 DEF Trail
  <2>6. CASE /\ cache' = cache
             /\ \/ op.pc = "finalize" /\ op' = [op EXCEPT !.pc = "update"]
                \/ op.pc = "graduate" /\ op' = [op EXCEPT !.pc = "cleanup"]
                \/ op.pc = "cleanup" /\ op' = [op EXCEPT !.pc = "update"]
    <3>1. /\ op'.status = op.status /\ op'.worker = op.worker /\ op'.fresh = op.fresh
          /\ \/ op'.pc = "update"
             \/ op.pc = "graduate" /\ op'.pc = "cleanup"
          /\ op.pc \notin {"idle", "cleanupLast"}
      BY <2>6, <1>t DEF Reconciles
    <3>2. PastIn(task, op.worker) => PastIn(task', op'.worker)
      BY <2>1, <3>1
    <3>3. QED
      BY <2>1, <2>6, <3>1, <3>2 DEF Trail, Reading
  <2>7. QED
    BY <1>4, <2>2, <2>3, <2>4, <2>5, <2>6, OtherEffect
<1>5. QED
  BY <1>1, <1>2, <1>3, <1>4

\* A reconcile that is about to store a status holds it already, derived it
\* from the stored one, or derived it from the stored one by making a pod.
LEMMA PreparesFrom ==
    ASSUME TypeOK, Coherent, Trail, [Next]_vars, Prepares'
    PROVE  /\ task' = task
           /\ \/ /\ Prepares /\ op' = [op EXCEPT !.pc = op'.pc]
                 /\ op'.pc = op.pc \/ op.pc \in {"finalize", "graduate", "cleanup"}
                 /\ ~Deliberation /\ ~CreatePod
              \/ /\ Deliberation /\ op.status = task
                 /\ op'.worker = task.workerPod
                 /\ Derives(task, op'.pc, op'.status)
              \/ /\ CreatePod /\ op.status = task
                 /\ op'.pc = "update"
                 /\ op'.status \in {task, Launched(task)}
<1>t. op \in Reconciles
  BY DEF TypeOK
<1>w. op'.fresh /\ op'.pc \in Writing
  BY DEF Prepares
<1>1. CASE Deliberation
  <2>1. op.pc \in Reading /\ task' = task
    BY <1>1, DeliberationReads DEF apiVars
  <2>2. WellFormed(op.status) /\ op.worker = op.status.workerPod
    BY <2>1 DEF Trail
  <2>3. \/ op' = Idle
        \/ /\ op'.fresh = op.fresh /\ op'.worker = op.worker
           /\ \/ op'.pc \in Reading /\ op'.status = op.status
              \/ op'.pc \in Writing /\ Derives(op.status, op'.pc, op'.status)
    BY <1>1, <2>2, DeliberationEffect
  <2>4. op' # Idle /\ op'.pc \notin Reading
    BY <1>w DEF Idle, Reading, Writing
  <2>5. op.status = task
    BY <1>w, <2>1, <2>3, <2>4 DEF Coherent, Reading
  <2>6. QED
    BY <1>1, <2>1, <2>2, <2>3, <2>4, <2>5
<1>2. CASE CreatePod
  <2>1. /\ task' = task /\ op'.pc = "update" /\ op'.fresh = op.fresh
        /\ op.pc = "create" /\ op'.status \in {op.status, Launched(op.status)}
    BY <1>2, <1>t, CreatePodEffect DEF apiVars, Reconciles
  <2>2. op.status = task
    BY <1>w, <2>1 DEF Coherent
  <2>3. QED
    BY <1>2, <2>1, <2>2
<1>3. CASE Update \/ CloseWithoutPR
  <2>1. op'.pc \in {"idle", "cleanupLast"}
    BY <1>3, <1>t, UpdateEffect DEF Idle, Reconciles
  <2>2. QED
    BY <1>w, <2>1 DEF Writing
<1>4. CASE ~Deliberation /\ ~CreatePod /\ ~Update /\ ~CloseWithoutPR
  <2>1. task' = task /\ op' # Idle
    BY <1>4, <1>w, OtherEffect DEF Idle
  <2>2. CASE op' = op
    BY <1>4, <1>t, <1>w, <2>1, <2>2 DEF Prepares, Reconciles
  <2>3. CASE \/ op.pc = "finalize" /\ op' = [op EXCEPT !.pc = "update"]
             \/ op.pc = "graduate" /\ op' = [op EXCEPT !.pc = "cleanup"]
             \/ op.pc = "cleanup" /\ op' = [op EXCEPT !.pc = "update"]
    BY <1>4, <1>t, <1>w, <2>1, <2>3 DEF Prepares, Writing, Reconciles
  <2>4. op' # [op EXCEPT !.fresh = FALSE]
    BY <1>t, <1>w DEF Reconciles
  <2>5. op' # [Idle EXCEPT !.pc = "dispatch", !.status = cache,
                           !.worker = cache.workerPod, !.fresh = cacheFresh]
    <3>1. [Idle EXCEPT !.pc = "dispatch", !.status = cache,
                       !.worker = cache.workerPod, !.fresh = cacheFresh].pc = "dispatch"
      BY DEF Idle
    <3>2. QED
      BY <1>w, <3>1 DEF Writing
  <2>6. QED
    BY <1>4, <2>1, <2>2, <2>3, <2>4, <2>5, OtherEffect
<1>5. QED
  BY <1>1, <1>2, <1>3, <1>4

\* What is stored stays or becomes what was prepared.
LEMMA StoresPrepared ==
    ASSUME TypeOK, [Next]_vars
    PROVE  \/ task' = task
           \/ /\ Prepares /\ task' = op.status /\ ~Prepares'
              /\ Update \/ CloseWithoutPR
              /\ UNCHANGED <<podVars, workerVars, worldVars>>
<1>1. CASE Update \/ CloseWithoutPR
  <2>1. op'.pc \in {"idle", "cleanupLast"}
    BY <1>1, UpdateEffect DEF Idle, TypeOK, Reconciles
  <2>2. QED
    BY <1>1, <2>1, UpdateEffect DEF Prepares, Writing
<1>2. QED
  BY <1>1, OnlyUpdatesStore

-----------------------------------------------------------------------------
(* The pods of the attempts *)

\* An attempt that is yet to come has no pod and nothing to tell; only pods of
\* attempts that are over are deleted; and a pod of the current attempt that is
\* seen to have succeeded has.
Fates ==
    /\ \A a \in Attempts : a > task.retryCount =>
          pod[a] = "absent" /\ work[a] = "none" /\ a \notin knowsPR
    /\ \A a \in deleting : PastIn(task, a)
    /\ \A a \in Attempts : seen[a] = "Succeeded" =>
          pod[a] = "Succeeded" \/ PastIn(task, a)

\* Retry counts are numbers.
LEMMA AttemptsAreNumbers == \A a \in Attempts : a \in Int
BY DEF Attempts, RetryCounts

\* A reconcile that creates a pod, however old what it read, creates it for the
\* current attempt, which has not ended.
LEMMA CreatesForCurrent ==
    ASSUME Coherent, Trail, CreatePod
    PROVE  /\ op.status.retryCount = task.retryCount
           /\ op.status.hasPR = task.hasPR
           /\ task.phase \in {"Pending", "Running"}
<1>1. op.pc = "create" /\ op.status.phase = "Pending" /\ Moves(op.status, task)
  BY DEF CreatePod, Coherent, Trail, Reading
<1>2. QED
  BY <1>1, MoveCases, UnsetIsNoName

\* No retry is uncounted.
LEMMA RetryCountGrows ==
    ASSUME TypeOK, TypeOK', Coherent, [Next]_vars
    PROVE  task.retryCount \in Int /\ task'.retryCount \in Int
           /\ task.retryCount <= task'.retryCount
<1>1. task.retryCount \in Int /\ task'.retryCount \in Int
  BY AttemptsAreNumbers DEF TypeOK, Status, Attempts
<1>2. task'.retryCount \in {task.retryCount, task.retryCount + 1}
  BY StepMoves, MoveCases
<1>3. QED
  BY <1>1, <1>2

\* The pod cache stands still, follows at once, or takes in one pod.
LEMMA PodCacheEffects ==
    ASSUME [Next]_vars
    PROVE  \/ seen' = seen
           \/ seen' = pod'
           \/ /\ pod' = pod
              /\ \E a \in Attempts : seen' = [seen EXCEPT ![a] = pod[a]]
<1> USE DEF podVars
<1>1. CASE CreatePod \/ Kubelet
  BY <1>1
  DEF CreatePod, PodCreated, PodAlreadyExists, PodsBecome,
      Kubelet, KubeletStarts, KubeletRemoves, PodDies
<1>2. CASE (\E a \in Attempts : PodEvent(a)) \/ Crash
  BY <1>2 DEF PodEvent, Crash
<1>3. CASE \/ Finalize \/ Update \/ CloseWithoutPR \/ Cleanup \/ CleanupLast
           \/ Graduate \/ Worker \/ Human
  BY <1>3
  DEF Finalize, Update, CloseWithoutPR, Cleanup, CleanupLast, Graduate,
      Worker, WorkerStarts, WorkerOpensPR, WorkerLosesPR, WorkerEnds, WorkerActs,
      Human, HumanMarksReady, HumanMerges, HumanCloses, HumanReopens, HumanActs
<1>4. QED
  BY <1>1, <1>2, <1>3, StepEffects

\* Every step keeps what is known of the fates of the attempts.
LEMMA FatesInductive ==
    ASSUME TypeOK, TypeOK', Coherent, Trail, Fates, [Next]_vars
    PROVE  Fates'
<1>t. /\ pod \in [Attempts -> PodPhases] /\ seen \in [Attempts -> PodPhases]
      /\ work \in [Attempts -> WorkStates] /\ deleting \subseteq Attempts
      /\ op.status.retryCount \in Attempts
  BY DEF TypeOK, Reconciles, Status, Attempts
<1>n. /\ task.retryCount \in Int /\ task'.retryCount \in Int
      /\ task.retryCount <= task'.retryCount
  BY RetryCountGrows
<1>p. \A a \in Attempts : PastIn(task, a) => PastIn(task', a)
  BY PastStays
<1>1. \A a \in Attempts : a > task'.retryCount =>
         pod'[a] = "absent" /\ work'[a] = "none" /\ a \notin knowsPR'
  <2> SUFFICES ASSUME NEW a \in Attempts, a > task'.retryCount
               PROVE  pod'[a] = "absent" /\ work'[a] = "none" /\ a \notin knowsPR'
    OBVIOUS
  <2>1. pod[a] = "absent" /\ work[a] = "none" /\ a \notin knowsPR
    BY <1>n, AttemptsAreNumbers DEF Fates
  <2>2. CASE CreatePod /\ PodCreated(op.status.retryCount)
    <3>1. a # op.status.retryCount
      BY <2>2, <1>n, AttemptsAreNumbers, CreatesForCurrent
    <3>2. QED
      BY <3>1, <2>1, <2>2, <1>t DEF PodCreated, PodsBecome, PayloadPR
  <2>3. ASSUME NEW b \in Attempts, UNCHANGED <<work, knowsPR>>,
               KubeletStarts(b) \/ KubeletRemoves(b) \/ PodDies(b)
        PROVE  pod'[a] = "absent" /\ work'[a] = "none" /\ a \notin knowsPR'
    BY <2>1, <2>3, <1>t
    DEF KubeletStarts, KubeletRemoves, PodDies, PodsBecome, Live
  <2>4. ASSUME NEW b \in Attempts, UNCHANGED podVars,
               \/ WorkerStarts(b) \/ WorkerOpensPR(b)
               \/ WorkerLosesPR(b) \/ WorkerEnds(b)
        PROVE  pod'[a] = "absent" /\ work'[a] = "none" /\ a \notin knowsPR'
    BY <2>1, <2>4, <1>t
    DEF podVars, WorkerStarts, WorkerOpensPR, WorkerLosesPR, WorkerEnds, WorkerActs,
        Promise!Starts, Promise!OpensPR, Promise!LosesPR, Promise!Ends,
        Promise!Answers
  <2>5. QED
    BY <2>1, <2>2, <2>3, <2>4, PodEffects
<1>2. \A a \in deleting' : PastIn(task', a)
  <2>1. CASE Cleanup \/ CleanupLast
    <3>1. op.worker # NoPod => PastIn(task, op.worker)
      BY <2>1 DEF Trail, Cleanup, CleanupLast
    <3>2. deleting' \subseteq deleting \cup {op.worker}
      BY <2>1 DEF Cleanup, CleanupLast, DeletePod
    <3>3. op.worker = NoPod => deleting' = deleting
      BY <2>1 DEF Cleanup, CleanupLast, DeletePod, Seen
    <3>4. \A a \in deleting' : a \in Attempts /\ PastIn(task, a)
      BY <3>1, <3>2, <3>3, TypeOK' DEF Fates, TypeOK
    <3>5. QED
      BY <3>4, <1>p
  <2>2. CASE ~Cleanup /\ ~CleanupLast
    <3>1. deleting' \subseteq deleting
      BY <2>2, StepEffects
      DEF podVars, CreatePod, PodCreated, PodAlreadyExists, Finalize, Update,
          CloseWithoutPR, Graduate, PodEvent, Crash,
          Kubelet, KubeletStarts, KubeletRemoves, PodDies,
          Worker, WorkerStarts, WorkerOpensPR, WorkerLosesPR, WorkerEnds, WorkerActs,
          Human, HumanMarksReady, HumanMerges, HumanCloses, HumanReopens, HumanActs
    <3>2. QED
      BY <3>1, <1>p, <1>t DEF Fates
  <2>3. QED
    BY <2>1, <2>2
<1>3. \A a \in Attempts : seen'[a] = "Succeeded" =>
         pod'[a] = "Succeeded" \/ PastIn(task', a)
  <2> SUFFICES ASSUME NEW a \in Attempts, seen'[a] = "Succeeded",
                      ~PastIn(task', a)
               PROVE  pod'[a] = "Succeeded"
    OBVIOUS
  <2>1. a \notin deleting /\ (seen[a] = "Succeeded" => pod[a] = "Succeeded")
    BY <1>p DEF Fates
  <2>2. CASE seen' = pod'
    BY <2>2
  <2>3. CASE /\ pod' = pod
             /\ \E b \in Attempts : seen' = [seen EXCEPT ![b] = pod[b]]
    BY <2>1, <2>3, <1>t
  <2>4. CASE seen' = seen
    <3>1. CASE CreatePod /\ PodCreated(op.status.retryCount)
      BY <2>1, <2>4, <3>1, <1>t DEF PodCreated, PodsBecome
    <3>2. ASSUME NEW b \in Attempts, KubeletStarts(b) \/ KubeletRemoves(b) \/ PodDies(b)
          PROVE  pod'[a] = "Succeeded"
      BY <2>1, <2>4, <3>2, <1>t
      DEF KubeletStarts, KubeletRemoves, PodDies, PodsBecome, Live
    <3>3. QED
      BY <2>1, <2>4, <3>1, <3>2, PodEffects DEF podVars
  <2>5. QED
    BY <2>2, <2>3, <2>4, PodCacheEffects
<1>4. QED
  BY <1>1, <1>2, <1>3 DEF Fates

-----------------------------------------------------------------------------
(* What a status says of its worker *)

\* A completed attempt's pod has ended, a waiting task's worker has succeeded,
\* and a worker that still runs for a task with a pull request holds its URL.
SaysTruth(s) ==
    /\ s.phase = "Completed" => ~Live(s.retryCount)
    /\ s.phase = "WaitingForPR" => work[s.retryCount] = "Succeeded"
    /\ s.hasPR /\ Live(s.retryCount) => s.retryCount \in knowsPR

Truthful == SaysTruth(task) /\ (Prepares => SaysTruth(op.status))

\* The truth about an attempt stays true, unless its pod is made.
LEMMA TruthStays ==
    ASSUME TypeOK, [Next]_vars, NEW s \in Status, SaysTruth(s),
           ~(CreatePod /\ op.status.retryCount = s.retryCount)
    PROVE  /\ s.phase = "Completed" => ~(pod'[s.retryCount] \in {"Pending", "Running"})
           /\ s.phase = "WaitingForPR" => work'[s.retryCount] = "Succeeded"
           /\ s.hasPR /\ pod'[s.retryCount] \in {"Pending", "Running"}
                => s.retryCount \in knowsPR'
<1> DEFINE n == s.retryCount
<1>t. /\ pod \in [Attempts -> PodPhases] /\ work \in [Attempts -> WorkStates]
      /\ n \in Attempts
  BY DEF TypeOK, Status, Attempts
<1>1. pod'[n] \in {"Pending", "Running"} => Live(n)
  <2>1. CASE CreatePod /\ PodCreated(op.status.retryCount)
    BY <2>1, <1>t DEF PodCreated, PodsBecome, Live
  <2>2. ASSUME NEW b \in Attempts, KubeletStarts(b) \/ KubeletRemoves(b) \/ PodDies(b)
        PROVE  pod'[n] \in {"Pending", "Running"} => Live(n)
    BY <2>2, <1>t DEF KubeletStarts, KubeletRemoves, PodDies, PodsBecome, Live
  <2>3. QED
    BY <2>1, <2>2, PodEffects DEF podVars, Live
<1>2. /\ work[n] = "Succeeded" => work'[n] = "Succeeded"
      /\ n \in knowsPR => n \in knowsPR'
  <2>1. CASE CreatePod /\ PodCreated(op.status.retryCount)
    BY <2>1, <1>t DEF PodCreated, PayloadPR
  <2>2. ASSUME NEW b \in Attempts,
               \/ WorkerStarts(b) \/ WorkerOpensPR(b)
               \/ WorkerLosesPR(b) \/ WorkerEnds(b)
        PROVE  /\ work[n] = "Succeeded" => work'[n] = "Succeeded"
               /\ n \in knowsPR => n \in knowsPR'
    BY <2>2, <1>t
    DEF WorkerStarts, WorkerOpensPR, WorkerLosesPR, WorkerEnds,
        Promise!Starts, Promise!OpensPR, Promise!LosesPR, Promise!Ends,
        Promise!CanOpenPR, Promise!Answers
  <2>3. QED
    BY <2>1, <2>2, PodEffects
<1>3. QED
  BY <1>1, <1>2 DEF SaysTruth

\* What a handler derives from the stored status is true if that is.
LEMMA DerivesTruth ==
    ASSUME TypeOK, Answered, Trail, Fates, SaysTruth(task), NEW pc, NEW t,
           Derives(task, pc, t)
    PROVE  SaysTruth(t)
<1> DEFINE n == task.retryCount
<1>t. /\ task \in Status /\ n \in Attempts /\ n \in Int
      /\ work \in [Attempts -> WorkStates]
  BY AttemptsAreNumbers DEF TypeOK, Status, Attempts
<1>w. task.phase \in {"Running", "Completed", "WaitingForPR"} => task.workerPod = n
  BY UnsetIsNoName DEF Trail, WellFormed
<1>1. CASE FromReply(task, pc, t)
  <2>1. /\ t.retryCount = n
        /\ t.hasPR => task.hasPR \/ n \in knowsPR
        /\ t.phase \in {"Running", "Failed", "WaitingForPR"}
        /\ t.phase = "WaitingForPR" => work[n] = "Succeeded"
    BY <1>1, <1>t, <1>w DEF FromReply, Learned, Status
  <2>2. QED
    BY <2>1 DEF SaysTruth
<1>2. CASE FromPRReply(task, pc, t)
  <2>1. /\ t.retryCount = n /\ t.hasPR = task.hasPR
        /\ t.phase \in {"Merged", "Closed", "WaitingForPR"}
        /\ task.phase \in {"Completed", "WaitingForPR"} /\ Live(n)
    BY <1>2, <1>t, <1>w DEF FromPRReply, Status, Answers, Live
  <2>2. QED
    BY <2>1 DEF SaysTruth
<1>3. CASE FromPod(task, pc, t)
  <2>1. /\ t.retryCount = n /\ t.hasPR = task.hasPR
        /\ t.phase \in {"Failed", "Completed", "Closed"}
        /\ t.phase = "Completed" => task.phase = "Running" /\ seen[n] = "Succeeded"
    BY <1>3, <1>t, <1>w, RetryCountFacts DEF FromPod, Status, Closed, Seen, Attempts
  <2>2. t.phase = "Completed" => ~Live(n)
    BY <2>1, <1>t DEF Fates, PastIn, Live
  <2>3. QED
    BY <2>1, <2>2 DEF SaysTruth
<1>4. CASE FromPhase(task, pc, t)
  <2>1. CASE t = Retried(task) /\ CanRetry(n)
    <3>1. t.retryCount = n + 1 /\ t.phase = "Pending" /\ n + 1 \in Attempts
      BY <2>1, <1>t, RetryCountFacts DEF Retried, Status, Attempts
    <3>2. ~Live(n + 1)
      BY <3>1, <1>t DEF Fates, Live
    <3>3. QED
      BY <3>1, <3>2 DEF SaysTruth
  <2>2. CASE t.retryCount = n /\ t.hasPR = task.hasPR /\ t.phase \in {"Pending", "Failed"}
    BY <2>2 DEF SaysTruth
  <2>3. QED
    BY <1>4, <1>t, <2>1, <2>2 DEF FromPhase, Status
<1>5. QED
  BY <1>1, <1>2, <1>3, <1>4 DEF Derives

\* The truth about the current attempt outlives the making of its pod, which
\* hands the pull request on to the worker.
LEMMA CreatePodKeepsTruth ==
    ASSUME TypeOK, Coherent, Trail, SaysTruth(task), CreatePod, [Next]_vars
    PROVE  SaysTruth(task)' /\ task' = task
<1> DEFINE n == op.status.retryCount
<1>t. /\ task \in Status /\ n \in Attempts /\ n \in Int /\ task.retryCount \in Int
      /\ pod \in [Attempts -> PodPhases]
  BY AttemptsAreNumbers DEF TypeOK, Reconciles, Status, Attempts
<1>1. task' = task
  BY CreatePodEffect DEF apiVars
<1>2. CASE n # task.retryCount
  BY <1>1, <1>t, <1>2, TruthStays DEF SaysTruth, Live
<1>3. CASE n = task.retryCount
  <2>1. task.phase \in {"Pending", "Running"} /\ op.status.hasPR = task.hasPR
    BY <1>t, <1>3, CreatesForCurrent
  <2>2. CASE PodCreated(n)
    BY <1>1, <1>t, <1>3, <2>1, <2>2 DEF SaysTruth, PodCreated, PayloadPR
  <2>3. CASE UNCHANGED <<podVars, workerVars>>
    BY <1>1, <2>3 DEF SaysTruth, podVars, workerVars, Live
  <2>4. QED
    BY <2>2, <2>3, CreatePodEffect
<1>4. QED
  BY <1>1, <1>2, <1>3

\* No step makes what is stored, or about to be, untrue.
LEMMA TruthfulInductive ==
    ASSUME TypeOK, Coherent, Answered, Trail, Fates, Truthful, [Next]_vars
    PROVE  Truthful'
<1>t. op.status \in Status /\ task \in Status
  BY DEF TypeOK, Reconciles
<1>1. SaysTruth(task)'
  <2>1. CASE task' = task /\ CreatePod
    BY <2>1, CreatePodKeepsTruth DEF Truthful
  <2>2. CASE task' = task /\ ~CreatePod
    BY <1>t, <2>2, TruthStays DEF Truthful, SaysTruth, Live
  <2>3. CASE task' = op.status /\ Prepares /\ UNCHANGED <<podVars, workerVars>>
    BY <2>3 DEF Truthful, SaysTruth, Live, podVars, workerVars
  <2>4. QED
    BY <2>1, <2>2, <2>3, StoresPrepared
<1>2. ASSUME Prepares' PROVE SaysTruth(op.status)'
  <2>1. CASE Prepares /\ op' = [op EXCEPT !.pc = op'.pc] /\ ~CreatePod
    <3>1. op'.status = op.status
      BY <2>1 DEF TypeOK, Reconciles
    <3>2. QED
      BY <1>t, <2>1, <3>1, TruthStays DEF Truthful, SaysTruth, Live
  <2>2. CASE Deliberation /\ Derives(task, op'.pc, op'.status)
    <3>1. SaysTruth(op'.status)
      BY <2>2, DerivesTruth DEF Truthful
    <3>2. UNCHANGED <<podVars, workerVars>>
      BY <2>2, DeliberationReads
    <3>3. QED
      BY <3>1, <3>2 DEF SaysTruth, Live, podVars, workerVars
  <2>3. CASE CreatePod /\ op.status = task /\ op'.status \in {task, Launched(task)}
    <3>1. task.phase = "Pending"
      BY <2>3 DEF CreatePod, Coherent
    <3>2. /\ op'.status.retryCount = task.retryCount
          /\ op'.status.hasPR = task.hasPR
          /\ op'.status.phase \in {"Pending", "Running"}
      BY <1>t, <2>3, <3>1 DEF Launched, Status
    <3>3. SaysTruth(task)' /\ task' = task
      BY <2>3, CreatePodKeepsTruth DEF Truthful
    <3>4. QED
      BY <3>2, <3>3 DEF SaysTruth, Live
  <2>4. QED
    BY <1>2, <2>1, <2>2, <2>3, PreparesFrom
<1>3. QED
  BY <1>1, <1>2 DEF Truthful

-----------------------------------------------------------------------------
(* The theorems *)

\* Together with the types and the coherence of the reconcile, what the steps
\* preserve.
TruthInv == TypeOK /\ Coherent /\ Answered /\ Trail /\ Fates /\ Truthful

\* Initially there is one new task, no pod and an idle operator.
LEMMA TruthInvInit == Init => TruthInv
<1> SUFFICES ASSUME Init PROVE Answered /\ Trail /\ Fates /\ Truthful /\ TypeOK /\ Coherent
  BY DEF TruthInv
<1>1. /\ task = NewTask /\ cache = NewTask /\ op = Idle
      /\ op.pc = "idle" /\ op.status = NewTask /\ ~op.fresh
      /\ pod = [a \in Attempts |-> "absent"] /\ seen = pod
      /\ work = [a \in Attempts |-> "none"] /\ deleting = {} /\ knowsPR = {}
  BY DEF Init, Idle
<1>2. NewTask.phase = Unset /\ NewTask.retryCount = 0 /\ ~NewTask.hasPR
  BY DEF NewTask
<1>3. Answered /\ Fates
  BY <1>1 DEF Answered, Fates, Outcomes
<1>4. Trail
  BY <1>1, NewTaskWellFormed DEF Trail, Reading
<1>5. Truthful
  BY <1>1, <1>2, UnsetIsNoName DEF Truthful, SaysTruth, Prepares
<1>6. TypeOK
  BY InitialTypes, RetryCountFacts, MaxFaultsIsNat
  DEF Init, TypeOK, Attempts, PodPhases, PRStates, WorkStates
<1>7. Coherent
  BY DEF Init, Coherent, Idle
<1>8. QED
  BY <1>3, <1>4, <1>5, <1>6, <1>7

\* What a status says of its worker is true in every reachable state.
THEOREM AlwaysTruthful == Spec => []TruthInv
<1>1. TruthInv /\ TypeOK' /\ [Next]_vars => TruthInv'
  BY CoherentInductive, AnsweredInductive, TrailInductive, FatesInductive,
     TruthfulInductive
  DEF TruthInv
<1>2. QED
  BY <1>1, TruthInvInit, TypeCorrect, PTL DEF Spec

\* A task waits for a review only if the worker it names has succeeded; the
\* phase is never revived from an attempt that failed or vanished, whatever is
\* lost, late or answered twice.
THEOREM WaitingWorkerHasSucceeded == Spec => []WaitingWorkerSucceeded
<1>1. TruthInv => WaitingWorkerSucceeded
  <2> SUFFICES ASSUME TruthInv, task.phase = "WaitingForPR"
               PROVE  task.workerPod # NoPod /\ work[task.workerPod] = "Succeeded"
    BY DEF WaitingWorkerSucceeded
  <2>1. task.workerPod = task.retryCount /\ task.retryCount # NoPod
    BY UnsetIsNoName, RetryCountFacts DEF TruthInv, Trail, WellFormed, TypeOK, Status
  <2>2. QED
    BY <2>1 DEF TruthInv, Truthful, SaysTruth
<1>2. QED
  BY <1>1, AlwaysTruthful, PTL

\* The worker of the current attempt holds the pull request its task names, so
\* a retry pushes to that one and does not try to open another.
THEOREM CurrentWorkerHoldsPR == Spec => []WorkerHoldsPR
<1>1. TruthInv => WorkerHoldsPR
  BY DEF TruthInv, Truthful, SaysTruth, WorkerHoldsPR
<1>2. QED
  BY <1>1, AlwaysTruthful, PTL

=============================================================================
