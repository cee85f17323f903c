----------------------------- MODULE MemoryStore -----------------------------
(***************************************************************************)
(* The memory of one AgentTask in Elasticsearch: what the worker's runs    *)
(* buffer and flush to task_memory and shared_memory, and what graduate    *)
(* makes of it when the task's pull request is merged or closed.           *)
(*                                                                         *)
(* A document is its kind: for task_memory its phase, for shared_memory    *)
(* where it comes from.  The runs of a task follow one another.            *)
(***************************************************************************)
EXTENDS Naturals

CONSTANTS
    MaxRuns,          \* attempts of the task
    MaxCheckpoints,   \* intermediate flushes, all runs together
    MaxCalls,         \* how often the operator asks for the graduation
    MemoryFaults,     \* which kinds of faults may happen
    MaxFaults         \* how many

FaultKinds == {
    "bulk",     \* some documents of a bulk write are not stored
    "github",   \* the pull request cannot be read
    "read",     \* the search for the task's result fails
    "lag",      \* or sees the index as it was: it was not refreshed since
    "store",    \* the write to shared_memory fails, or its answer is lost
    "delete",   \* the delete by query leaves documents, or its answer is lost
    "kill"}     \* the worker's pod dies

ASSUME MemoryBoundsAreNat == {MaxRuns, MaxCheckpoints, MaxCalls, MaxFaults} \subseteq Nat
ASSUME MemoryFaultsAreKinds == MemoryFaults \subseteq FaultKinds

VARIABLES
    run,           \* what the worker's GET /status says of the latest run
    runs,          \* how many were started
    checkpoints,   \* how many intermediate documents they made
    buffer,        \* the run's MemoryWriteBuffer
    taskMemory,    \* the task's documents in task_memory
    shared,        \* the task's documents in shared_memory
    pr,            \* the task's pull request on GitHub
    call,          \* the graduate request in progress
    calls,         \* how many there were
    saidDeleted,   \* one was answered with task_memory_deleted
    recorded,      \* a succeeded run's result was stored in task_memory
    happened,      \* the kinds of faults so far
    faults         \* and how many

index == <<taskMemory, shared>>
worker == <<run, runs, checkpoints, buffer>>
request == <<pr, call, calls, saidDeleted>>
failures == <<happened, faults>>
vars == <<worker, index, request, recorded, failures>>

TaskDocs == {"Running", "Succeeded", "Incomplete", "Failed"}
Docs == TaskDocs \cup {"Result"}
SharedDocs == {"Result", "GraduatedMerged", "GraduatedClosed"}

Runs == {"none", "running", "Succeeded", "Incomplete", "Failed", "dead"}

Calls == [pc : {"idle", "status", "read", "store", "delete", "discard"},
          asked : {"merged", "closed"},     \* the state the operator was told
          outcome : {"merged", "closed"}]   \* and the one to be shared

NoCall == [pc |-> "idle", asked |-> "closed", outcome |-> "closed"]

TypeOK ==
    /\ run \in Runs
    /\ runs \in 0..MaxRuns
    /\ checkpoints \in 0..MaxCheckpoints
    /\ buffer \in [Docs -> Nat]
    /\ taskMemory \in [TaskDocs -> Nat]
    /\ shared \in [SharedDocs -> Nat]
    /\ pr \in {"open", "merged", "closed"}
    /\ call \in Calls
    /\ calls \in 0..MaxCalls
    /\ saidDeleted \in BOOLEAN
    /\ recorded \in BOOLEAN
    /\ happened \in SUBSET FaultKinds
    /\ faults \in 0..MaxFaults

Fault(kind) ==
    /\ kind \in MemoryFaults
    /\ faults < MaxFaults
    /\ faults' = faults + 1
    /\ happened' = happened \cup {kind}

NoTaskDocs == [d \in TaskDocs |-> 0]
EmptyBuffer == [d \in Docs |-> 0]

\* A task that no worker has run yet.
Init ==
    /\ run = "none" /\ runs = 0 /\ checkpoints = 0 /\ buffer = EmptyBuffer
    /\ taskMemory = NoTaskDocs /\ shared = [d \in SharedDocs |-> 0]
    /\ pr = "open" /\ call = NoCall /\ calls = 0 /\ saidDeleted = FALSE
    /\ recorded = FALSE /\ happened = {} /\ faults = 0

-----------------------------------------------------------------------------
(* A run of the worker *)

CreateBuffer == buffer' = EmptyBuffer

RunTask ==
    /\ run \in {"none", "Incomplete", "Failed", "dead"}
    /\ calls = 0
    /\ runs < MaxRuns
    /\ runs' = runs + 1
    /\ run' = "running"
    /\ CreateBuffer
    /\ UNCHANGED <<checkpoints, index, request, recorded, failures>>

Add(docs) == [d \in Docs |-> IF d \in docs THEN buffer[d] + 1 ELSE buffer[d]]

\* The documents of the buffer are stored, those of some kinds perhaps not;
\* they stay in the buffer, and no error leaves bulk_write.
BulkWrite(docs) ==
    /\ buffer' = Add(docs)
    /\ \E stored \in SUBSET {d \in Docs : Add(docs)[d] > 0} :
          /\ \/ /\ \A d \in Docs : Add(docs)[d] > 0 => d \in stored
                /\ UNCHANGED failures
             \/ Fault("bulk")
          /\ taskMemory' = [d \in TaskDocs |-> IF d \in stored
                                             THEN taskMemory[d] + Add(docs)[d]
                                             ELSE taskMemory[d]]
          /\ shared' = IF "Result" \in stored
                       THEN [shared EXCEPT !["Result"] = @ + Add(docs)["Result"]]
                       ELSE shared
          /\ recorded' = (recorded \/ "Succeeded" \in stored)

\* From its fifth minute on a run does this at every tool call.
IntermediateFlush ==
    /\ run = "running"
    /\ checkpoints < MaxCheckpoints
    /\ checkpoints' = checkpoints + 1
    /\ BulkWrite({"Running"})
    /\ UNCHANGED <<run, runs, request>>

\* should_write_to_shared_memory depends on the tools the run called.
SharedIfSkillful == {{"Result"}, {}}

RunSucceeds ==
    /\ run = "running"
    /\ run' = "Succeeded"
    /\ \E result \in SharedIfSkillful : BulkWrite({"Succeeded"} \cup result)
    /\ UNCHANGED <<runs, checkpoints, request>>

RunIncomplete ==
    /\ run = "running"
    /\ run' = "Incomplete"
    /\ BulkWrite({"Incomplete"})
    /\ UNCHANGED <<runs, checkpoints, request>>

RunFails ==
    /\ run = "running"
    /\ run' = "Failed"
    /\ BulkWrite({"Failed"})
    /\ UNCHANGED <<runs, checkpoints, request>>

\* The pod dies, or the operator deletes it once graduate has returned.
WorkerGone ==
    /\ run \notin {"none", "dead"}
    /\ Fault("kill") \/ (calls > 0 /\ call.pc = "idle" /\ UNCHANGED failures)
    /\ run' = "dead"
    /\ buffer' = EmptyBuffer
    /\ call' = NoCall
    /\ UNCHANGED <<runs, checkpoints, index, pr, calls, saidDeleted, recorded>>

-----------------------------------------------------------------------------
(* The graduate request *)

\* The operator asks a worker that has succeeded, when it was told that the
\* pull request is merged or closed; it may ask again.  The step stands for the
\* poll and the request: what humans do between the two may as well come after.
GraduateTask ==
    /\ run = "Succeeded"
    /\ call.pc = "idle"
    /\ pr # "open"
    /\ calls < MaxCalls
    /\ calls' = calls + 1
    /\ call' = [pc |-> "status", asked |-> pr, outcome |-> "closed"]
    /\ UNCHANGED <<worker, index, pr, saidDeleted, recorded, failures>>

\* Any state but "merged" becomes "closed without merge".
GetPRStatus ==
    /\ call.pc = "status"
    /\ \/ /\ call' = [call EXCEPT !.pc = "read",
                                  !.outcome = IF pr = "merged" THEN "merged" ELSE "closed"]
          /\ UNCHANGED failures
       \/ /\ call' = [call EXCEPT !.pc = "read"]
          /\ Fault("github")
    /\ UNCHANGED <<worker, index, pr, calls, saidDeleted, recorded>>

\* Mutant: the search does not ask for the phase.
AnyResult == \E d \in TaskDocs : taskMemory[d] > 0

HasResult == taskMemory["Succeeded"] > 0

\* A search that fails is taken for one that finds nothing.
GetTaskResult ==
    /\ call.pc = "read"
    /\ \/ /\ call' = [call EXCEPT !.pc = IF HasResult THEN "store" ELSE "discard"]
          /\ UNCHANGED failures
       \/ /\ call' = [call EXCEPT !.pc = "discard"]
          /\ Fault("read") \/ Fault("lag")
       \/ /\ recorded
          /\ call' = [call EXCEPT !.pc = "store"]
          /\ Fault("lag")
    /\ UNCHANGED <<worker, index, pr, calls, saidDeleted, recorded>>

\* Mutant: the outcome does not look at the state of the pull request.
GraduatedAsClosed == "GraduatedClosed"

Graduated == IF call.outcome = "merged" THEN "GraduatedMerged" ELSE "GraduatedClosed"

ShareResult == shared' = [shared EXCEPT ![Graduated] = @ + 1]

\* Mutant: an error of the store is caught, and the memory deleted.
StoreErrorCaught ==
    /\ call.pc = "store"
    /\ call' = [call EXCEPT !.pc = "delete"]
    /\ \/ ShareResult /\ UNCHANGED failures
       \/ UNCHANGED shared /\ Fault("store")
    /\ UNCHANGED <<worker, taskMemory, pr, calls, saidDeleted, recorded>>

\* An error of the store leaves the handler: the task's memory is kept.
StoreSharedKnowledge ==
    /\ call.pc = "store"
    /\ \/ /\ ShareResult
          /\ call' = [call EXCEPT !.pc = "delete"]
          /\ UNCHANGED failures
       \/ /\ ShareResult \/ UNCHANGED shared
          /\ call' = NoCall
          /\ Fault("store")
    /\ UNCHANGED <<worker, taskMemory, pr, calls, saidDeleted, recorded>>

\* Mutant: the query deletes the result and leaves the other documents.
DeleteResult == taskMemory' = [taskMemory EXCEPT !["Succeeded"] = 0]

\* Mutant: the query matches nothing.
DeleteNothing == UNCHANGED taskMemory

DeleteFound == taskMemory' = NoTaskDocs

\* It fails, perhaps halfway, or does not see what was stored a moment ago.
DeleteSome ==
    \E left \in SUBSET TaskDocs :
        taskMemory' = [d \in TaskDocs |-> IF d \in left THEN taskMemory[d] ELSE 0]

\* An error is logged and forgotten; the answer only says which way
\* graduate_to_shared took.
DeleteTaskMemory ==
    /\ call.pc \in {"delete", "discard"}
    /\ \/ DeleteFound /\ UNCHANGED failures
       \/ DeleteSome /\ Fault("delete")
    /\ saidDeleted' = (saidDeleted \/ call.pc = "delete")
    /\ call' = NoCall
    /\ UNCHANGED <<worker, shared, pr, calls, recorded>>

-----------------------------------------------------------------------------
(* The reviewers *)

\* A closed pull request may be opened again.
HumanDecides ==
    /\ pr # "merged"
    /\ pr' \in {"open", "merged", "closed"} \ {pr}
    /\ UNCHANGED <<worker, index, call, calls, saidDeleted, recorded, failures>>

Next ==
    \/ RunTask \/ IntermediateFlush \/ RunSucceeds \/ RunIncomplete \/ RunFails
    \/ WorkerGone
    \/ GraduateTask \/ GetPRStatus \/ GetTaskResult \/ StoreSharedKnowledge
    \/ DeleteTaskMemory
    \/ HumanDecides

Spec == Init /\ [][Next]_vars

\* The worker goes on with a request it has begun.
FairSpec ==
    Spec /\ WF_vars(GetPRStatus \/ GetTaskResult \/ StoreSharedKnowledge \/ DeleteTaskMemory)

-----------------------------------------------------------------------------
(* Properties *)

Graduations == shared["GraduatedMerged"] + shared["GraduatedClosed"]

Only(kinds) == happened \subseteq kinds

\* The result of a succeeded run, once stored, is in the task's memory until
\* it is in the shared one (a statement of the docs; it does not hold).
ResultKept == recorded => taskMemory["Succeeded"] > 0 \/ Graduations > 0

\* Nothing but the search for the result makes graduation lose it: whatever
\* happens to writes, deletes, GitHub and pods.
NothingLost == Only(FaultKinds \ {"read", "lag"}) => ResultKept

\* However often the operator asks, whenever the worker is killed in between,
\* a task is graduated once, unless a store or a delete went wrong.
GraduatedOnce == Only({"bulk", "github", "read", "kill"}) => Graduations <= 1

\* Only a succeeded run's result is graduated, never an incomplete or failed
\* run's document or a checkpoint.
OnlySuccessGraduates == Graduations > 0 => recorded

\* A task whose pull request was merged when the operator asked is not shared
\* as closed without merge, unless GitHub could not be asked again.
MergedIsTold ==
    [][shared'["GraduatedClosed"] # shared["GraduatedClosed"] =>
          call.asked # "merged" \/ "github" \in happened]_vars

\* An answer that says the task's memory was deleted is true, unless the delete
\* failed: no run, flush or other failure brings any of it back.
DeletedMeansDeleted ==
    saidDeleted /\ "delete" \notin happened => taskMemory = NoTaskDocs

\* Asked for the graduation, the worker leaves no memory of the task behind,
\* unless it is killed or a store or delete goes wrong.
EventuallyForgotten ==
    calls > 0 ~> taskMemory = NoTaskDocs \/ ~Only({"bulk", "github", "read", "lag"})
=============================================================================
