-------------------------- MODULE MemoryStoreProofs --------------------------
(***************************************************************************)
(* For any number of runs, checkpoints, requests and faults: what is       *)
(* graduated was earned, and no stored result of a succeeded run is lost   *)
(* unless a search failed or saw an old index.                             *)
(***************************************************************************)
EXTENDS MemoryStore, TLAPS

\* What a search for a result finds was stored by a succeeded run, and so was
\* what a request is about to share.
Earned ==
    /\ taskMemory["Succeeded"] > 0 => recorded
    /\ call.pc = "store" => recorded
    /\ OnlySuccessGraduates

EarnedInv == TypeOK /\ Earned

\* The requests of one worker begin after its run has ended.
RequestsAfterRun == call.pc # "idle" => run = "Succeeded"

NoReadFault == Only(FaultKinds \ {"read", "lag"})

\* A request deletes the task's memory only when nothing is lost by it.
Kept ==
    /\ RequestsAfterRun
    /\ call.pc = "delete" => Graduations > 0
    /\ NoReadFault =>
          /\ call.pc = "discard" => (recorded => Graduations > 0)
          /\ ResultKept

KeptInv == TypeOK /\ Kept

\* The bounds on runs, checkpoints, requests and faults are natural numbers.
LEMMA BoundTypes == /\ MaxRuns \in Nat /\ MaxCheckpoints \in Nat
                    /\ MaxCalls \in Nat /\ MaxFaults \in Nat
BY MemoryBoundsAreNat

\* A fault is counted within the bound and remembered.
LEMMA FaultType ==
    ASSUME TypeOK, (\E kind \in FaultKinds : Fault(kind)) \/ UNCHANGED failures
    PROVE  /\ faults' \in 0..MaxFaults
           /\ happened' \in SUBSET FaultKinds
           /\ happened \subseteq happened'
BY BoundTypes DEF TypeOK, Fault, failures

\* A bulk write adds documents of the kinds it is given, and loses none.
LEMMA BulkWrites ==
    ASSUME TypeOK, NEW docs \in SUBSET Docs, BulkWrite(docs)
    PROVE  /\ buffer' \in [Docs -> Nat]
           /\ taskMemory' \in [TaskDocs -> Nat]
           /\ shared' \in [SharedDocs -> Nat]
           /\ recorded' \in BOOLEAN
           /\ faults' \in 0..MaxFaults
           /\ happened' \in SUBSET FaultKinds
           /\ happened \subseteq happened'
           /\ Graduations' = Graduations
           /\ recorded => recorded'
           /\ taskMemory'["Succeeded"] >= taskMemory["Succeeded"]
           /\ ~recorded' => taskMemory'["Succeeded"] = taskMemory["Succeeded"]
           /\ recorded' /\ ~recorded => taskMemory'["Succeeded"] > 0
<1> DEFINE more == Add(docs)
<1>1. more \in [Docs -> Nat] /\ buffer' = more
  BY DEF TypeOK, Add, BulkWrite
<1>2. PICK stored \in SUBSET {d \in Docs : more[d] > 0} :
        /\ UNCHANGED failures \/ Fault("bulk")
        /\ taskMemory' = [d \in TaskDocs |-> IF d \in stored THEN taskMemory[d] + more[d]
                                             ELSE taskMemory[d]]
        /\ shared' = IF "Result" \in stored
                     THEN [shared EXCEPT !["Result"] = @ + more["Result"]] ELSE shared
        /\ recorded' = (recorded \/ "Succeeded" \in stored)
  BY DEF BulkWrite
<1>3. "Succeeded" \in TaskDocs /\ "Succeeded" \in Docs /\ "Result" \in Docs
      /\ TaskDocs \subseteq Docs
  BY DEF TaskDocs, Docs
<1> HIDE DEF more
<1>4. taskMemory \in [TaskDocs -> Nat] /\ recorded \in BOOLEAN
  BY DEF TypeOK
<1>5. /\ taskMemory' \in [TaskDocs -> Nat]
      /\ taskMemory'["Succeeded"] >= taskMemory["Succeeded"]
      /\ "Succeeded" \notin stored => taskMemory'["Succeeded"] = taskMemory["Succeeded"]
      /\ "Succeeded" \in stored => taskMemory'["Succeeded"] > 0
  BY <1>1, <1>2, <1>3, <1>4
<1>6. recorded' \in BOOLEAN /\ (recorded => recorded')
  BY <1>2, <1>4
<1>7. shared' \in [SharedDocs -> Nat] /\ Graduations' = Graduations
  BY <1>1, <1>2, <1>3 DEF TypeOK, SharedDocs, Graduations
<1>8. /\ faults' \in 0..MaxFaults
      /\ happened' \in SUBSET FaultKinds /\ happened \subseteq happened'
  BY <1>2, FaultType DEF FaultKinds
<1>9. QED
  BY <1>1, <1>2, <1>5, <1>6, <1>7, <1>8

\* What both invariants promise of a step.
Preserved ==
    /\ TypeOK'
    /\ Earned => Earned'
    /\ Kept => Kept'

\* No task starts with memory or with a request.
LEMMA MemoryInitially == Init => EarnedInv /\ KeptInv
<1> SUFFICES ASSUME Init PROVE EarnedInv /\ KeptInv
  OBVIOUS
<1>1. EmptyBuffer \in [Docs -> Nat] /\ NoTaskDocs \in [TaskDocs -> Nat]
  BY DEF EmptyBuffer, NoTaskDocs
<1>2. shared \in [SharedDocs -> Nat] /\ Graduations = 0
  BY DEF Init, SharedDocs, Graduations
<1>3. NoCall \in Calls /\ NoCall.pc = "idle"
  BY DEF NoCall, Calls
<1>4. TypeOK
  <2>1. /\ runs \in 0..MaxRuns /\ checkpoints \in 0..MaxCheckpoints
        /\ calls \in 0..MaxCalls /\ faults \in 0..MaxFaults
    BY BoundTypes DEF Init
  <2>2. /\ buffer \in [Docs -> Nat] /\ taskMemory \in [TaskDocs -> Nat]
        /\ call \in Calls
    BY <1>1, <1>3 DEF Init
  <2>3. /\ run \in Runs /\ pr \in {"open", "merged", "closed"}
        /\ happened \in SUBSET FaultKinds
        /\ saidDeleted \in BOOLEAN /\ recorded \in BOOLEAN
    BY DEF Init, Runs
  <2>4. QED
    BY <1>2, <2>1, <2>2, <2>3 DEF TypeOK
<1>5. taskMemory["Succeeded"] = 0
  BY DEF Init, NoTaskDocs, TaskDocs
<1>6. Earned
  BY <1>2, <1>3, <1>5 DEF Earned, OnlySuccessGraduates, Init
<1>7. Kept
  BY <1>3 DEF Kept, RequestsAfterRun, ResultKept, Init
<1>8. QED
  BY <1>4, <1>6, <1>7 DEF EarnedInv, KeptInv

\* A run that ends or makes a checkpoint.
LEMMA FlushSteps ==
    ASSUME TypeOK, IntermediateFlush \/ RunSucceeds \/ RunIncomplete \/ RunFails
    PROVE  Preserved
<1>1. PICK docs \in SUBSET Docs : BulkWrite(docs)
  BY DEF IntermediateFlush, RunSucceeds, RunIncomplete, RunFails, SharedIfSkillful,
         Docs, TaskDocs
<1>2. /\ run = "running" /\ run' \in Runs
      /\ runs' = runs /\ checkpoints' \in 0..MaxCheckpoints
      /\ UNCHANGED <<pr, call, calls, saidDeleted>>
  BY BoundTypes
  DEF TypeOK, IntermediateFlush, RunSucceeds, RunIncomplete, RunFails, Runs, request
<1>3. TypeOK'
  BY <1>1, <1>2, BulkWrites DEF TypeOK
<1>4. ASSUME Earned PROVE Earned'
  BY <1>1, <1>2, <1>4, BulkWrites DEF Earned, OnlySuccessGraduates
<1>5. ASSUME Kept PROVE Kept'
  <2>1. call.pc = "idle" /\ call'.pc = "idle"
    BY <1>2, <1>5 DEF Kept, RequestsAfterRun
  <2>2. ASSUME NoReadFault' PROVE ResultKept'
    <3>1. taskMemory["Succeeded"] \in Nat /\ taskMemory'["Succeeded"] \in Nat
      BY <1>3 DEF TypeOK, TaskDocs
    <3>2. NoReadFault
      BY <1>1, <2>2, BulkWrites DEF NoReadFault, Only
    <3>3. CASE recorded
      BY <1>1, <1>5, <3>1, <3>2, <3>3, BulkWrites DEF Kept, ResultKept
    <3>4. CASE ~recorded
      BY <1>1, <3>4, BulkWrites DEF ResultKept
    <3>5. QED
      BY <3>3, <3>4
  <2>3. QED
    BY <2>1, <2>2 DEF Kept, RequestsAfterRun
<1>6. QED
  BY <1>3, <1>4, <1>5 DEF Preserved

\* Runs begin, pods go and reviewers decide without touching the index.
LEMMA OtherSteps ==
    ASSUME TypeOK, RunTask \/ WorkerGone \/ HumanDecides
    PROVE  Preserved
<1>1. UNCHANGED <<taskMemory, shared, recorded>>
  BY DEF RunTask, WorkerGone, HumanDecides, index
<1>2. call' = NoCall \/ call' = call
  BY DEF RunTask, WorkerGone, HumanDecides, request
<1>3. NoCall \in Calls /\ NoCall.pc = "idle"
  BY DEF NoCall, Calls
<1>4. /\ faults' \in 0..MaxFaults
      /\ happened' \in SUBSET FaultKinds /\ happened \subseteq happened'
  BY FaultType DEF RunTask, WorkerGone, HumanDecides, FaultKinds
<1>5. EmptyBuffer \in [Docs -> Nat]
  BY DEF EmptyBuffer
<1>6. TypeOK'
  <2>1. CASE RunTask
    BY <1>1, <1>4, <1>5, <2>1, BoundTypes
    DEF RunTask, CreateBuffer, TypeOK, Runs, index, request
  <2>2. CASE WorkerGone
    BY <1>1, <1>3, <1>4, <1>5, <2>2 DEF WorkerGone, TypeOK, Runs, index
  <2>3. CASE HumanDecides
    BY <1>1, <1>4, <2>3 DEF HumanDecides, TypeOK, worker
  <2>4. QED
    BY <2>1, <2>2, <2>3
<1>7. taskMemory' = taskMemory /\ Graduations' = Graduations
  BY <1>1 DEF Graduations
<1>8. Earned => Earned'
  BY <1>1, <1>2, <1>3, <1>7 DEF Earned, OnlySuccessGraduates
<1>9. Kept => Kept'
  <2>1. ASSUME RequestsAfterRun PROVE RequestsAfterRun'
    BY <1>3, <2>1 DEF RunTask, WorkerGone, HumanDecides, RequestsAfterRun, request, worker
  <2>2. QED
    BY <1>1, <1>2, <1>3, <1>4, <1>7, <2>1 DEF Kept, NoReadFault, Only, ResultKept
<1>10. QED
  BY <1>6, <1>8, <1>9 DEF Preserved

\* A request until it shares or deletes anything.
LEMMA AskingSteps ==
    ASSUME TypeOK, GraduateTask \/ GetPRStatus \/ GetTaskResult
    PROVE  Preserved
<1>1. UNCHANGED <<run, runs, checkpoints, buffer, taskMemory, shared, pr,
                  saidDeleted, recorded>>
  BY DEF GraduateTask, GetPRStatus, GetTaskResult, index, worker
<1>2. /\ faults' \in 0..MaxFaults
      /\ happened' \in SUBSET FaultKinds /\ happened \subseteq happened'
  BY FaultType DEF GraduateTask, GetPRStatus, GetTaskResult, FaultKinds
<1>3. call' \in Calls /\ calls' \in 0..MaxCalls
  <2>1. CASE GraduateTask
    <3>1. calls' \in 0..MaxCalls
      BY <2>1, BoundTypes DEF GraduateTask, TypeOK
    <3>2. pr \in {"merged", "closed"}
      BY <2>1 DEF GraduateTask, TypeOK
    <3>3. QED
      BY <2>1, <3>1, <3>2 DEF GraduateTask, Calls
  <2>2. CASE GetPRStatus
    BY <2>2 DEF GetPRStatus, TypeOK, Calls
  <2>3. CASE GetTaskResult
    BY <2>3 DEF GetTaskResult, TypeOK, Calls
  <2>4. QED
    BY <2>1, <2>2, <2>3
<1>4. TypeOK'
  BY <1>1, <1>2, <1>3 DEF TypeOK
<1>5. taskMemory' = taskMemory /\ Graduations' = Graduations
  BY <1>1 DEF Graduations
<1>6. taskMemory["Succeeded"] \in Nat /\ Graduations \in Nat
  BY DEF TypeOK, TaskDocs, SharedDocs, Graduations
<1>7. /\ call'.pc \in {"status", "read", "store", "discard"}
      /\ call'.pc = "store" => HasResult \/ recorded
      /\ call'.pc = "discard" /\ NoReadFault' => ~HasResult
      /\ run = "Succeeded" \/ call.pc # "idle"
  <2>1. CASE GraduateTask
    BY <2>1 DEF GraduateTask
  <2>2. CASE GetPRStatus
    BY <2>2 DEF GetPRStatus, TypeOK, Calls
  <2>3. CASE GetTaskResult
    <3>1. call \in Calls /\ call.pc = "read"
      BY <2>3 DEF GetTaskResult, TypeOK
    <3>2. CASE call' = [call EXCEPT !.pc = "store"] /\ (HasResult \/ recorded)
      BY <3>1, <3>2 DEF Calls
    <3>3. CASE call' = [call EXCEPT !.pc = "discard"] /\ ~HasResult
      BY <3>1, <3>3 DEF Calls
    <3>4. CASE call' = [call EXCEPT !.pc = "discard"] /\ ~NoReadFault'
      BY <3>1, <3>4 DEF Calls
    <3>5. QED
      BY <2>3, <3>2, <3>3, <3>4 DEF GetTaskResult, Fault, NoReadFault, Only
  <2>4. QED
    BY <2>1, <2>2, <2>3
<1>8. ASSUME Earned PROVE Earned'
  <2>1. HasResult => recorded
    BY <1>6, <1>8 DEF HasResult, Earned
  <2>2. QED
    BY <1>1, <1>5, <1>7, <1>8, <2>1 DEF Earned, OnlySuccessGraduates
<1>9. ASSUME Kept PROVE Kept'
  <2>1. RequestsAfterRun'
    BY <1>1, <1>7, <1>9 DEF Kept, RequestsAfterRun
  <2>2. ASSUME NoReadFault'
        PROVE  ResultKept' /\ (call'.pc = "discard" => (recorded' => Graduations' > 0))
    <3>1. ResultKept
      BY <1>2, <1>9, <2>2 DEF Kept, NoReadFault, Only
    <3>2. ~HasResult => (recorded => Graduations > 0)
      BY <1>6, <3>1 DEF HasResult, ResultKept
    <3>3. QED
      BY <1>1, <1>5, <1>7, <2>2, <3>1, <3>2 DEF ResultKept
  <2>3. QED
    BY <1>7, <2>1, <2>2 DEF Kept
<1>10. QED
  BY <1>4, <1>8, <1>9 DEF Preserved

\* The result is shared, or the attempt to share it ends the request.
LEMMA ShareStep ==
    ASSUME TypeOK, StoreSharedKnowledge
    PROVE  Preserved
<1>1. /\ UNCHANGED <<run, runs, checkpoints, buffer, taskMemory, pr, calls,
                     saidDeleted, recorded>>
      /\ call.pc = "store"
  BY DEF StoreSharedKnowledge, worker
<1>2. /\ faults' \in 0..MaxFaults
      /\ happened' \in SUBSET FaultKinds /\ happened \subseteq happened'
  BY FaultType DEF StoreSharedKnowledge, FaultKinds
<1>3. NoCall \in Calls /\ NoCall.pc = "idle"
  BY DEF NoCall, Calls
<1>4. /\ call' \in Calls
      /\ call'.pc \in {"delete", "idle"}
      /\ call'.pc = "delete" => ShareResult
      /\ ShareResult \/ UNCHANGED shared
  BY <1>3 DEF StoreSharedKnowledge, TypeOK, Calls
<1>5. Graduated \in {"GraduatedMerged", "GraduatedClosed"}
  BY DEF Graduated
<1>6. Graduations \in Nat
  BY DEF TypeOK, SharedDocs, Graduations
<1>7. CASE ShareResult
  <2>1. shared' \in [SharedDocs -> Nat] /\ Graduations' = Graduations + 1
    BY <1>5, <1>7 DEF ShareResult, TypeOK, SharedDocs, Graduations
  <2>2. TypeOK'
    BY <1>1, <1>2, <1>4, <2>1 DEF TypeOK
  <2>3. taskMemory'["Succeeded"] = taskMemory["Succeeded"]
    BY <1>1
  <2>4. Earned => Earned'
    BY <1>1, <1>4, <2>3 DEF Earned, OnlySuccessGraduates
  <2>5. Kept => Kept'
    BY <1>1, <1>4, <1>6, <2>1 DEF Kept, RequestsAfterRun, ResultKept
  <2>6. QED
    BY <2>2, <2>4, <2>5 DEF Preserved
<1>8. CASE UNCHANGED shared /\ ~ShareResult
  <2>1. TypeOK'
    BY <1>1, <1>2, <1>4, <1>8 DEF TypeOK
  <2>2. taskMemory'["Succeeded"] = taskMemory["Succeeded"] /\ Graduations' = Graduations
    BY <1>1, <1>8 DEF Graduations
  <2>3. Earned => Earned'
    BY <1>1, <1>4, <2>2 DEF Earned, OnlySuccessGraduates
  <2>4. Kept => Kept'
    BY <1>1, <1>2, <1>4, <1>8, <2>2 DEF Kept, RequestsAfterRun, NoReadFault, Only, ResultKept
  <2>5. QED
    BY <2>1, <2>3, <2>4 DEF Preserved
<1>9. QED
  BY <1>4, <1>7, <1>8

\* The task's memory is deleted, or that fails.
LEMMA DeleteStep ==
    ASSUME TypeOK, DeleteTaskMemory
    PROVE  Preserved
<1>1. /\ UNCHANGED <<run, runs, checkpoints, buffer, shared, pr, calls, recorded>>
      /\ call.pc \in {"delete", "discard"}
      /\ call' = NoCall /\ saidDeleted' \in BOOLEAN
      /\ DeleteFound \/ DeleteSome
  BY DEF DeleteTaskMemory, worker, TypeOK
<1>2. /\ faults' \in 0..MaxFaults
      /\ happened' \in SUBSET FaultKinds /\ happened \subseteq happened'
  BY FaultType DEF DeleteTaskMemory, FaultKinds
<1>3. NoCall \in Calls /\ NoCall.pc = "idle"
  BY DEF NoCall, Calls
<1>4. /\ taskMemory' \in [TaskDocs -> Nat]
      /\ taskMemory'["Succeeded"] \in {0, taskMemory["Succeeded"]}
  <2>1. "Succeeded" \in TaskDocs
    BY DEF TaskDocs
  <2>2. CASE DeleteFound
    BY <2>1, <2>2 DEF DeleteFound, NoTaskDocs, TypeOK
  <2>3. CASE DeleteSome
    BY <2>1, <2>3 DEF DeleteSome, TypeOK
  <2>4. QED
    BY <1>1, <2>2, <2>3
<1>5. TypeOK'
  BY <1>1, <1>2, <1>3, <1>4 DEF TypeOK
<1>6. taskMemory["Succeeded"] \in Nat /\ Graduations' = Graduations
  BY <1>1 DEF TypeOK, TaskDocs, Graduations
<1>7. Earned => Earned'
  BY <1>1, <1>3, <1>4, <1>6 DEF Earned, OnlySuccessGraduates
<1>8. ASSUME Kept PROVE Kept'
  <2>1. ASSUME NoReadFault' PROVE ResultKept'
    BY <1>1, <1>2, <1>6, <1>8, <2>1 DEF Kept, NoReadFault, Only, ResultKept
  <2>2. QED
    BY <1>1, <1>3, <2>1 DEF Kept, RequestsAfterRun
<1>9. QED
  BY <1>5, <1>7, <1>8 DEF Preserved

\* Every step preserves both invariants.
LEMMA EveryStep == TypeOK /\ [Next]_vars => Preserved
<1> SUFFICES ASSUME TypeOK, [Next]_vars PROVE Preserved
  OBVIOUS
<1>1. CASE UNCHANGED vars
  BY <1>1
  DEF vars, worker, index, request, failures, Preserved, TypeOK, Earned, Kept, Graduations,
      OnlySuccessGraduates, RequestsAfterRun, NoReadFault, Only, ResultKept
<1>2. CASE Next
  BY <1>2, FlushSteps, OtherSteps, AskingSteps, ShareStep, DeleteStep DEF Next
<1>3. QED
  BY <1>1, <1>2

\* Only the result of a succeeded run is ever graduated, whatever fails and
\* however far searches lag behind.
THEOREM GraduatesOnlySuccess == Spec => [](TypeOK /\ OnlySuccessGraduates)
<1>1. EarnedInv /\ [Next]_vars => EarnedInv'
  BY EveryStep DEF EarnedInv, Preserved
<1>2. Init => EarnedInv
  BY MemoryInitially
<1>3. EarnedInv => TypeOK /\ OnlySuccessGraduates
  BY DEF EarnedInv, Earned
<1>4. QED
  BY <1>1, <1>2, <1>3, PTL DEF Spec

\* The stored result of a succeeded run is not lost, whatever else fails, as
\* long as the search for it neither fails nor sees an old index.
THEOREM NothingIsLost == Spec => []NothingLost
<1>1. KeptInv /\ [Next]_vars => KeptInv'
  BY EveryStep DEF KeptInv, Preserved
<1>2. Init => KeptInv
  BY MemoryInitially
<1>3. KeptInv => NothingLost
  BY DEF KeptInv, Kept, NothingLost, NoReadFault
<1>4. QED
  BY <1>1, <1>2, <1>3, PTL DEF Spec

-----------------------------------------------------------------------------
(* The order of runs and requests, and what it is good for *)

\* No run begins or flushes once a graduation was asked for.
Orderly ==
    /\ RequestsAfterRun
    /\ run = "running" => calls = 0
    /\ calls = 0 => Graduations = 0 /\ ~saidDeleted /\ call.pc = "idle"

\* The result is in the task's memory only until it was graduated, but for the
\* time between the two calls, which the death of the worker makes endless.
Once ==
    Only({"bulk", "github", "read", "kill"}) =>
        /\ GraduatedOnce
        /\ call.pc = "store" => Graduations = 0
        /\ Graduations > 0 =>
              taskMemory["Succeeded"] = 0 \/ call.pc = "delete" \/ run = "dead"

\* A request knows the state of a merged pull request, which is final, or could
\* not ask for it.
Told ==
    call.asked = "merged" =>
        /\ pr = "merged"
        /\ call.pc # "status" => call.outcome = "merged" \/ "github" \in happened

\* A run flushes; a checkpoint or its end does not touch requests.
LEMMA Flushing ==
    ASSUME TypeOK, IntermediateFlush \/ RunSucceeds \/ RunIncomplete \/ RunFails
    PROVE  /\ run = "running"
           /\ UNCHANGED <<pr, call, calls, saidDeleted>>
           /\ Graduations' = Graduations
           /\ shared'["GraduatedClosed"] = shared["GraduatedClosed"]
           /\ happened \subseteq happened'
<1>1. PICK docs \in SUBSET Docs : BulkWrite(docs)
  BY DEF IntermediateFlush, RunSucceeds, RunIncomplete, RunFails, SharedIfSkillful,
         Docs, TaskDocs
<1>2. shared'["GraduatedClosed"] = shared["GraduatedClosed"]
  BY <1>1 DEF BulkWrite, TypeOK, SharedDocs
<1>3. run = "running" /\ UNCHANGED <<pr, call, calls, saidDeleted>>
  BY DEF IntermediateFlush, RunSucceeds, RunIncomplete, RunFails, request
<1>4. QED
  BY <1>1, <1>2, <1>3, BulkWrites

\* What sharing a result does: the request goes on to the deletion, or a fault
\* of the store ends it.
LEMMA Sharing ==
    ASSUME TypeOK, StoreSharedKnowledge
    PROVE  /\ call.pc = "store"
           /\ UNCHANGED <<run, calls, pr, saidDeleted, taskMemory>>
           /\ happened \subseteq happened'
           /\ \/ call' = [call EXCEPT !.pc = "delete"] /\ ShareResult
              \/ /\ call' = NoCall /\ "store" \in happened'
                 /\ ShareResult \/ UNCHANGED shared
           /\ ShareResult => Graduations' = Graduations + 1
BY DEF StoreSharedKnowledge, worker, Fault, ShareResult, Graduated, Graduations, TypeOK,
       SharedDocs, failures

\* What a deletion does.
LEMMA Deleting ==
    ASSUME TypeOK, DeleteTaskMemory
    PROVE  /\ call.pc \in {"delete", "discard"} /\ call' = NoCall
           /\ UNCHANGED <<run, calls, pr, shared>>
           /\ happened \subseteq happened'
           /\ taskMemory' = NoTaskDocs \/ "delete" \in happened'
BY DEF DeleteTaskMemory, worker, Fault, DeleteFound, failures

\* What a request does until it shares or deletes anything.
LEMMA Asking ==
    ASSUME TypeOK, GraduateTask \/ GetPRStatus \/ GetTaskResult
    PROVE  /\ UNCHANGED <<run, taskMemory, shared, pr, saidDeleted>>
           /\ happened \subseteq happened'
           /\ run = "Succeeded" \/ call.pc # "idle"
           /\ call.pc # "delete" /\ call'.pc # "idle"
           /\ call'.pc = "store" => HasResult \/ "lag" \in happened'
           /\ calls' # 0 \/ (call.pc # "idle" /\ calls' = calls)
<1>1. /\ UNCHANGED <<run, taskMemory, shared, pr, saidDeleted>>
      /\ happened \subseteq happened'
  BY DEF GraduateTask, GetPRStatus, GetTaskResult, index, worker, failures, Fault
<1>2. CASE GraduateTask
  BY <1>1, <1>2 DEF GraduateTask, TypeOK
<1>3. CASE GetPRStatus
  BY <1>1, <1>3 DEF GetPRStatus, TypeOK, Calls
<1>4. CASE GetTaskResult
  <2>1. call \in Calls /\ call.pc = "read" /\ calls' = calls
    BY <1>4 DEF GetTaskResult, TypeOK
  <2>2. \/ call' = [call EXCEPT !.pc = "store"] /\ (HasResult \/ "lag" \in happened')
        \/ call' = [call EXCEPT !.pc = "discard"]
    BY <1>4 DEF GetTaskResult, Fault
  <2>3. call'.pc \in {"store", "discard"}
        /\ (call'.pc = "store" => HasResult \/ "lag" \in happened')
    BY <2>1, <2>2 DEF Calls
  <2>4. QED
    BY <1>1, <2>1, <2>3
<1>5. QED
  BY <1>2, <1>3, <1>4

\* The steps that leave what was stored and said.
LEMMA Moving ==
    ASSUME RunTask \/ WorkerGone \/ HumanDecides \/ UNCHANGED vars
    PROVE  /\ UNCHANGED <<taskMemory, shared, calls, saidDeleted>>
           /\ happened \subseteq happened'
           /\ call' \in {call, NoCall}
           /\ \/ run' = "dead" /\ call' = NoCall
              \/ run' = run
              \/ RunTask
           /\ pr = "merged" => pr' = "merged"
BY DEF RunTask, WorkerGone, HumanDecides, vars, index, worker, request, failures, Fault

\* Idle is where every request ends.
LEMMA NoCallIsIdle == NoCall.pc = "idle" /\ NoCall.asked # "merged"
BY DEF NoCall

\* No step begins a run or flushes one after a request.
LEMMA OrderlyInductive ==
    ASSUME TypeOK, Orderly, [Next]_vars
    PROVE  Orderly'
<1> USE DEF Orderly, RequestsAfterRun
<1>1. CASE IntermediateFlush \/ RunSucceeds \/ RunIncomplete \/ RunFails
  BY <1>1, Flushing
<1>2. CASE GraduateTask \/ GetPRStatus \/ GetTaskResult
  BY <1>2, Asking DEF Graduations
<1>3. CASE StoreSharedKnowledge
  BY <1>3, Sharing, NoCallIsIdle
<1>4. CASE DeleteTaskMemory
  BY <1>4, Deleting, NoCallIsIdle DEF Graduations
<1>5. CASE RunTask \/ WorkerGone \/ HumanDecides \/ UNCHANGED vars
  BY <1>5, Moving, NoCallIsIdle DEF Graduations, RunTask, request
<1>6. QED
  BY <1>1, <1>2, <1>3, <1>4, <1>5 DEF Next

\* Every step shares the result at most once, unless a fault excluded by the
\* property happened.
LEMMA OnceInductive ==
    ASSUME TypeOK, Orderly, Once, [Next]_vars
    PROVE  Once'
<1> SUFFICES ASSUME Only({"bulk", "github", "read", "kill"})'
             PROVE  /\ Graduations' <= 1
                    /\ call'.pc = "store" => Graduations' = 0
                    /\ Graduations' > 0 => \/ taskMemory'["Succeeded"] = 0
                                           \/ call'.pc = "delete" \/ run' = "dead"
  BY DEF Once, GraduatedOnce
<1>t. Graduations \in Nat /\ taskMemory["Succeeded"] \in Nat
  BY DEF Graduations, TypeOK, SharedDocs, TaskDocs
<1>o. "store" \notin happened' /\ "delete" \notin happened' /\ "lag" \notin happened'
  BY DEF Only
<1>h. happened \subseteq happened' =>
        /\ Graduations <= 1
        /\ call.pc = "store" => Graduations = 0
        /\ Graduations > 0 =>
              taskMemory["Succeeded"] = 0 \/ call.pc = "delete" \/ run = "dead"
  BY DEF Once, Only, GraduatedOnce
<1>1. CASE IntermediateFlush \/ RunSucceeds \/ RunIncomplete \/ RunFails
  BY <1>1, Flushing DEF Orderly
<1>2. CASE GraduateTask \/ GetPRStatus \/ GetTaskResult
  BY <1>2, <1>h, <1>o, <1>t, Asking DEF Orderly, RequestsAfterRun, HasResult, Graduations
<1>3. CASE StoreSharedKnowledge
  <2>1. Graduations' = 1 /\ call' = [call EXCEPT !.pc = "delete"]
    BY <1>3, <1>h, <1>o, Sharing
  <2>2. call'.pc = "delete"
    BY <2>1 DEF TypeOK, Calls
  <2>3. QED
    BY <2>1, <2>2
<1>4. CASE DeleteTaskMemory
  <2>1. taskMemory'["Succeeded"] = 0
    BY <1>4, <1>o, Deleting DEF NoTaskDocs, TaskDocs
  <2>2. QED
    BY <1>4, <1>h, <2>1, Deleting, NoCallIsIdle DEF Graduations
<1>5. CASE RunTask \/ WorkerGone \/ HumanDecides \/ UNCHANGED vars
  <2>1. RunTask => Graduations = 0
    BY DEF RunTask, Orderly
  <2>2. QED
    BY <1>5, <1>h, <2>1, Moving, NoCallIsIdle
    DEF Graduations, RunTask, WorkerGone, HumanDecides, vars, request, worker
<1>6. QED
  BY <1>1, <1>2, <1>3, <1>4, <1>5 DEF Next

\* Every step keeps deleted memory deleted, unless a delete failed.
LEMMA DeletedInductive ==
    ASSUME TypeOK, Orderly, DeletedMeansDeleted, [Next]_vars
    PROVE  DeletedMeansDeleted'
<1> USE DEF DeletedMeansDeleted
<1>1. CASE IntermediateFlush \/ RunSucceeds \/ RunIncomplete \/ RunFails
  BY <1>1, Flushing DEF Orderly
<1>2. CASE GraduateTask \/ GetPRStatus \/ GetTaskResult
  BY <1>2, Asking DEF NoTaskDocs
<1>3. CASE StoreSharedKnowledge
  BY <1>3, Sharing DEF NoTaskDocs
<1>4. CASE DeleteTaskMemory
  BY <1>4, Deleting DEF NoTaskDocs
<1>5. CASE RunTask \/ WorkerGone \/ HumanDecides \/ UNCHANGED vars
  BY <1>5, Moving DEF NoTaskDocs
<1>6. QED
  BY <1>1, <1>2, <1>3, <1>4, <1>5 DEF Next

\* Every step keeps what a request was told in line with the pull request.
LEMMA ToldInductive ==
    ASSUME TypeOK, Told, [Next]_vars
    PROVE  Told'
<1> USE DEF Told
<1>t. call \in Calls
  BY DEF TypeOK
<1>1. CASE IntermediateFlush \/ RunSucceeds \/ RunIncomplete \/ RunFails
  BY <1>1, Flushing
<1>2. CASE GraduateTask
  BY <1>2 DEF GraduateTask, worker
<1>3. CASE GetPRStatus
  BY <1>3, <1>t DEF GetPRStatus, Calls, Fault, failures
<1>4. CASE GetTaskResult
  <2>1. call.pc = "read" /\ pr' = pr /\ happened \subseteq happened'
    BY <1>4 DEF GetTaskResult, Fault, failures
  <2>2. call'.asked = call.asked /\ call'.outcome = call.outcome
    BY <1>4, <1>t DEF GetTaskResult, Calls
  <2>3. QED
    BY <2>1, <2>2
<1>5. CASE StoreSharedKnowledge
  BY <1>5, <1>t, Sharing, NoCallIsIdle DEF Calls
<1>6. CASE DeleteTaskMemory
  BY <1>6, Deleting, NoCallIsIdle
<1>7. CASE RunTask \/ WorkerGone \/ HumanDecides \/ UNCHANGED vars
  BY <1>7, Moving, NoCallIsIdle
<1>8. QED
  BY <1>1, <1>2, <1>3, <1>4, <1>5, <1>6, <1>7 DEF Next

\* Everything these invariants start from holds of a task nobody has run.
LEMMA OrderlyInitially ==
    Init => TypeOK /\ Orderly /\ Once /\ DeletedMeansDeleted /\ Told
<1> SUFFICES ASSUME Init PROVE Orderly /\ Once /\ DeletedMeansDeleted /\ Told
  BY MemoryInitially DEF KeptInv
<1>1. /\ Graduations = 0 /\ call = NoCall /\ ~saidDeleted
      /\ run = "none"
  BY DEF Init, Graduations, SharedDocs
<1>2. QED
  BY <1>1, NoCallIsIdle
  DEF Orderly, RequestsAfterRun, Once, GraduatedOnce, DeletedMeansDeleted, Told

\* Types and order, on which the next theorems rest.
LEMMA AlwaysOrderly == Spec => [](TypeOK /\ Orderly)
<1>1. TypeOK /\ Orderly /\ [Next]_vars => TypeOK' /\ Orderly'
  BY EveryStep, OrderlyInductive DEF Preserved
<1>2. QED
  BY <1>1, OrderlyInitially, PTL DEF Spec

\* However often the operator asks, whenever the worker is killed in between,
\* a task is graduated once, unless a store or a delete went wrong or a search
\* saw an old index.
THEOREM TaskIsGraduatedOnce == Spec => []GraduatedOnce
<1>1. TypeOK /\ Orderly /\ Once /\ [Next]_vars => Once'
  BY OnceInductive
<1>2. Once => GraduatedOnce
  BY DEF Once, GraduatedOnce
<1>3. QED
  BY <1>1, <1>2, OrderlyInitially, AlwaysOrderly, PTL DEF Spec

\* An answer that says the task's memory was deleted stays true, unless the
\* delete failed: no run, flush or other failure brings any of it back.
THEOREM DeletedIsDeleted == Spec => []DeletedMeansDeleted
<1>1. TypeOK /\ Orderly /\ DeletedMeansDeleted /\ [Next]_vars => DeletedMeansDeleted'
  BY DeletedInductive
<1>2. QED
  BY <1>1, OrderlyInitially, AlwaysOrderly, PTL DEF Spec

\* A task whose pull request was merged when the operator asked is never shared
\* as closed without merge, unless GitHub could not be asked again.
THEOREM MergeIsTold == Spec => MergedIsTold
<1>1. TypeOK /\ Told /\ [Next]_vars => Told'
  BY ToldInductive
<1>2. TypeOK /\ Told /\ [Next]_vars =>
        [shared'["GraduatedClosed"] # shared["GraduatedClosed"] =>
            call.asked # "merged" \/ "github" \in happened]_vars
  <2> SUFFICES ASSUME TypeOK, Told, [Next]_vars,
                      shared'["GraduatedClosed"] # shared["GraduatedClosed"]
               PROVE  call.asked # "merged" \/ "github" \in happened
    OBVIOUS
  <2>1. StoreSharedKnowledge
    BY Flushing, Asking, Deleting, Moving DEF Next
  <2>2. ShareResult /\ call.pc = "store"
    BY <2>1, Sharing
  <2>3. Graduated = "GraduatedClosed"
    BY <2>2 DEF ShareResult, Graduated, TypeOK, SharedDocs
  <2>4. call.outcome # "merged"
    BY <2>3 DEF Graduated
  <2>5. QED
    BY <2>2, <2>4 DEF Told
<1>3. QED
  BY <1>1, <1>2, OrderlyInitially, AlwaysOrderly, PTL DEF Spec, MergedIsTold
=============================================================================
