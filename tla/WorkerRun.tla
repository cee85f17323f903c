------------------------------ MODULE WorkerRun ------------------------------
(***************************************************************************)
(* The workers of one AgentTask: how each is started from its pod's        *)
(* payload, and its run_task, from the clone through the agent's loop, the *)
(* commit and the push to the pull request and the final status; with the  *)
(* branch and its pull requests on GitHub, which the workers of a task     *)
(* share, and the operator as far as it launches, replaces and finalizes.  *)
(*                                                                         *)
(* A branch is the set of commits that can be reached from it.  A worker's *)
(* workspace is its pod's own, so the agent's loop is cut at its turns,    *)
(* the rest of the run at its calls to git and GitHub.  A worker that is   *)
(* launched again has a number of its own.                                 *)
(***************************************************************************)
EXTENDS Naturals, Sequences

CONSTANTS
    MaxWorkers,     \* pods the operator creates
    SkillSets,      \* the skills of agent and task together; {} arrives as null
    MaxSteps,       \* rounds of tools the recursion limit of the agent's loop allows
    WorkerFaults,   \* the kinds of faults in this instance
    MaxFaults       \* and how many

FaultKinds == {
    "git",      \* a git command fails
    "fetch",    \* the fetch of a branch that exists fails
    "github",   \* a call to GitHub fails
    "url",      \* the pull request is created, but its label or the answer fails
    "kill",     \* a pod is lost
    "stray",    \* the operator replaces a worker that still runs
    "branch"}   \* a human deletes the branch after its pull request

ASSUME WorkerBoundsAreNat == {MaxWorkers, MaxSteps, MaxFaults} \subseteq Nat
ASSUME WorkerFaultsAreKinds == WorkerFaults \subseteq FaultKinds

VARIABLES
    skills,      \* the payload's skills
    worker,      \* the workers' processes, see Worker
    launched,    \* how many pods the operator created
    current,     \* the worker it asks, 0 for none
    isRetry,     \* whether the next one is a retry
    told,        \* the pull request it knows of, 0 for none
    remote,      \* the task's branch on GitHub, {} for none
    main,        \* the commits of the branch that are in the default branch
    prs,         \* the pull requests of the branch and their states
    happened,    \* the kinds of faults so far
    faults       \* and how many

operator == <<launched, current, isRetry, told>>
github == <<remote, main, prs>>
failures == <<happened, faults>>
vars == <<skills, worker, operator, github, failures>>

Workers == 1..MaxWorkers
Commits == Workers \X {"code", "analysis"}
Outcomes == {"Succeeded", "Incomplete", "Failed"}
\* reopened is open again, as a draft or not.
PRStates == {"draft", "ready", "merged", "closed", "reopened"}
OpenStates == {"draft", "ready", "reopened"}

-----------------------------------------------------------------------------
(* The tools of the agent *)

\* What a call of a tool may leave of the workspace: changed or not against HEAD.
CodeEdit(dirty) == BOOLEAN
TestGenerator(dirty) == {dirty}
GraphqlDebug(dirty) == {dirty}
DocUpdate(dirty) == BOOLEAN
CoreTool(dirty) == {dirty}

SkillRegistry == [
    code_edit |-> {"code-edit"},
    test_generator |-> {"testing", "test-generator"},
    graphql_debug |-> {"graphql", "graphql-debug"},
    doc_update |-> {"documentation", "doc-update"}]

\* Unknown skills load nothing; the core tools are always there.
WorkspaceTools ==
    {"core"} \cup {tool \in DOMAIN SkillRegistry : SkillRegistry[tool] \cap skills # {}}

Call(tool, dirty) ==
    CASE tool = "code_edit" -> CodeEdit(dirty)
      [] tool = "test_generator" -> TestGenerator(dirty)
      [] tool = "graphql_debug" -> GraphqlDebug(dirty)
      [] tool = "doc_update" -> DocUpdate(dirty)
      [] tool = "core" -> CoreTool(dirty)

MeaningfulTools == {"code_edit", "test_generator", "doc_update"}

\* The last message: a tool call that was not made, a text, or the step limit's.
Messages == DOMAIN SkillRegistry \cup {"core", "says", "admits", "limit", "none"}

-----------------------------------------------------------------------------
Stages == {"off", "boot", "deaf", "clone", "context", "agent", "evaluate",
           "commit", "analysis", "push", "pr", "over"}

Worker == [
    pc : Stages,
    isRetry : BOOLEAN,
    url : Nat,                            \* pr_url, first the payload's, 0 for none
    phase : Outcomes \cup {"none", "Running"},     \* of its TaskStatus
    incomplete : BOOLEAN,                 \* whether the run is, once evaluated
    local : SUBSET Commits,               \* its clone of the branch
    dirty : BOOLEAN,                      \* changed against HEAD
    tries : 0..2, steps : 0..MaxSteps,    \* in the agent's loop
    last : Messages]                      \* its last message

NoWorker == [
    pc |-> "off", isRetry |-> FALSE, url |-> 0, phase |-> "none", incomplete |-> FALSE,
    local |-> {}, dirty |-> FALSE, tries |-> 0, steps |-> 0, last |-> "none"]

\* The types of all variables; a pull request that is named exists.
TypeOK ==
    /\ skills \in SkillSets
    /\ worker \in [Workers -> Worker]
    /\ \A w \in Workers : worker[w].url \in 0..Len(prs)
    /\ launched \in 0..MaxWorkers
    /\ current \in 0..MaxWorkers
    /\ isRetry \in BOOLEAN
    /\ told \in 0..Len(prs)
    /\ remote \subseteq Commits
    /\ main \subseteq Commits
    /\ prs \in Seq(PRStates)
    /\ happened \subseteq FaultKinds
    /\ faults \in 0..MaxFaults

Fault(kind) ==
    /\ kind \in WorkerFaults
    /\ faults < MaxFaults
    /\ faults' = faults + 1
    /\ happened' = happened \cup {kind}

NoFault == UNCHANGED failures

Init ==
    /\ skills \in SkillSets
    /\ worker = [w \in Workers |-> NoWorker]
    /\ launched = 0 /\ current = 0 /\ isRetry = FALSE /\ told = 0
    /\ remote = {} /\ main = {} /\ prs = <<>>
    /\ happened = {} /\ faults = 0

OpenPR == \E i \in DOMAIN prs : prs[i] \in OpenStates

-----------------------------------------------------------------------------
(* A run: every step is one of worker w at its stage pc *)

At(w, pc) == worker[w].pc = pc /\ UNCHANGED <<skills, operator>>

Becomes(w, state) == worker' = [worker EXCEPT ![w] = state]

GoesTo(w, pc) == Becomes(w, [worker[w] EXCEPT !.pc = pc])

\* The status that takes the place of the running one; all else is forgotten.
Answer(w, phase) == Becomes(w, [NoWorker EXCEPT
    !.pc = "over", !.isRetry = worker[w].isRetry, !.url = worker[w].url, !.phase = phase])

\* Mutant: an exception makes the run incomplete.
FailsAsIncomplete(w) == Answer(w, "Incomplete")

\* Whatever is raised ends the run; the status names the payload's URL.
Fails(w) == Answer(w, "Failed")

\* Go's nil slice arrives as null, which TaskRequest does not accept for a list.
PayloadParses == skills # {}

Lifespan(w) ==
    /\ At(w, "boot")
    /\ IF PayloadParses
       THEN Becomes(w, [worker[w] EXCEPT !.pc = "clone", !.phase = "Running"])
       ELSE GoesTo(w, "deaf")
    /\ UNCHANGED github /\ NoFault

\* A retry continues the branch if it can fetch it, and begins anew otherwise.
Clone(w) ==
    /\ At(w, "clone")
    /\ \E branch \in {remote, main} :
          /\ Becomes(w, [worker[w] EXCEPT !.pc = "context", !.local = branch])
          /\ CASE worker[w].isRetry /\ remote # {} ->
                     IF branch = remote THEN NoFault ELSE Fault("fetch")
               [] OTHER -> branch = main /\ NoFault
    /\ UNCHANGED github

\* Neither the task's history nor unified_search raises.
GatherContext(w) ==
    /\ At(w, "context")
    /\ GoesTo(w, "agent")
    /\ UNCHANGED github /\ NoFault

InLoop(w) == At(w, "agent") /\ UNCHANGED github /\ NoFault

AgentCallsTool(w) ==
    /\ InLoop(w)
    /\ worker[w].steps < MaxSteps
    /\ \E tool \in WorkspaceTools : \E dirty \in Call(tool, worker[w].dirty) :
          Becomes(w, [worker[w] EXCEPT !.dirty = dirty, !.steps = @ + 1])

\* The loop is left with the last message of the model, or the step limit's.
AgentStops(w) ==
    /\ InLoop(w)
    /\ \E message \in {"says", "admits"} \cup
                      (IF worker[w].steps = MaxSteps THEN {"limit"} \cup WorkspaceTools ELSE {}) :
          Becomes(w, [worker[w] EXCEPT !.pc = "evaluate", !.last = message,
                                       !.tries = 0, !.steps = 0])

MaxLLMRetries == 3

\* Mutant: the attempts are not counted.
RateLimitedForever(w) ==
    /\ InLoop(w)
    /\ Becomes(w, [worker[w] EXCEPT !.steps = 0])

\* Mutant: one attempt too many.
RateLimitedOnceMore(w) ==
    /\ InLoop(w)
    /\ IF worker[w].tries < MaxLLMRetries
       THEN Becomes(w, [worker[w] EXCEPT !.tries = @ + 1, !.steps = 0])
       ELSE Fails(w)

\* The agent waits and starts over on the workspace as it is, at most twice.
RateLimited(w) ==
    /\ InLoop(w)
    /\ IF worker[w].tries < MaxLLMRetries - 1
       THEN Becomes(w, [worker[w] EXCEPT !.tries = @ + 1, !.steps = 0])
       ELSE Fails(w)

AgentRaises(w) == InLoop(w) /\ Fails(w)

\* Only what the last message asked for counts as a tool that was called.
TaskIncomplete(w) ==
    /\ ~worker[w].dirty
    /\ worker[w].last = "admits" \/ worker[w].last \notin MeaningfulTools

Evaluate(w) ==
    /\ At(w, "evaluate")
    /\ Becomes(w, [worker[w] EXCEPT
          !.pc = IF TaskIncomplete(w) THEN "analysis" ELSE "commit",
          !.incomplete = TaskIncomplete(w), !.last = "none"])
    /\ UNCHANGED github /\ NoFault

Committed(w, kind) == [worker[w] EXCEPT
    !.pc = "push", !.dirty = FALSE, !.local = @ \cup {<<w, kind>>}]

\* git commit fails when there is nothing to commit.
Commit(w) ==
    /\ At(w, "commit")
    /\ IF worker[w].dirty THEN Becomes(w, Committed(w, "code")) ELSE Fails(w)
    /\ UNCHANGED github /\ NoFault

\* The same text as an earlier run's leaves nothing to commit either.
CommitAnalysis(w) ==
    /\ At(w, "analysis")
    /\ \/ Becomes(w, Committed(w, "analysis"))
       \/ (\E c \in worker[w].local : c[2] = "analysis") /\ Fails(w)
    /\ UNCHANGED github /\ NoFault

\* Mutant: the push is forced.
CanPushAnything(w) == TRUE

\* The remote takes no push that would lose one of its commits.
CanPush(w) == remote \subseteq worker[w].local

Push(w) ==
    /\ At(w, "push")
    /\ IF CanPush(w)
       THEN remote' = worker[w].local /\ GoesTo(w, "pr")
       ELSE UNCHANGED remote /\ Fails(w)
    /\ UNCHANGED <<main, prs>> /\ NoFault

Outcome(w) == IF worker[w].incomplete THEN "Incomplete" ELSE "Succeeded"

\* GitHub refuses a second open pull request of the branch, and one without commits.
PRRefused == OpenPR \/ remote \subseteq main

CreateDraftPR(w) ==
    /\ At(w, "pr") /\ worker[w].url = 0
    /\ UNCHANGED <<remote, main>>
    /\ \/ PRRefused /\ Fails(w) /\ UNCHANGED prs /\ NoFault
       \/ /\ ~PRRefused
          /\ prs' = Append(prs, "draft")
          /\ \/ Becomes(w, [worker[w] EXCEPT !.url = Len(prs')]) /\ NoFault
             \/ Fails(w) /\ Fault("url")

\* Mutant: an incomplete run does not report the pull request it opened.
FinishSilently(w) ==
    /\ At(w, "pr") /\ worker[w].url # 0
    /\ IF worker[w].incomplete
       THEN Becomes(w, [NoWorker EXCEPT !.pc = "over", !.phase = "Incomplete",
                                        !.isRetry = worker[w].isRetry])
       ELSE Answer(w, Outcome(w))
    /\ UNCHANGED github /\ NoFault

\* With the URL, the payload's or the new one, the run only comments, whatever
\* became of the pull request; neither comments nor memory writes raise.
Finish(w) ==
    /\ At(w, "pr") /\ worker[w].url # 0
    /\ Answer(w, Outcome(w))
    /\ UNCHANGED github /\ NoFault

GitFails(w) ==
    /\ \/ \E pc \in {"clone", "evaluate", "commit", "analysis"} : At(w, pc) /\ UNCHANGED remote
       \/ At(w, "push") /\ CanPush(w) /\ remote' \in {remote, worker[w].local}
    /\ Fails(w)
    /\ UNCHANGED <<main, prs>> /\ Fault("git")

\* get_repo_info raises, or create_pull before it takes effect.
GitHubFails(w) ==
    /\ At(w, "context") \/ (At(w, "pr") /\ worker[w].url = 0)
    /\ Fails(w)
    /\ UNCHANGED github /\ Fault("github")

RunTask(w) ==
    \/ Clone(w) \/ GatherContext(w)
    \/ AgentCallsTool(w) \/ AgentStops(w) \/ RateLimited(w) \/ AgentRaises(w)
    \/ Evaluate(w) \/ Commit(w) \/ CommitAnalysis(w) \/ Push(w)
    \/ CreateDraftPR(w) \/ Finish(w)
    \/ GitFails(w) \/ GitHubFails(w)

-----------------------------------------------------------------------------
(* The requests of the operator *)

\* Mutant: finalize does not look at the phase.
Finalizable(w) == worker[w].phase \in Outcomes

FinalizesPhase(w) == worker[w].phase = "Succeeded"

\* finalize: an error of mark_pr_ready, as for a pull request that is not a
\* draft any more, is dropped.
Finalize(w) ==
    /\ FinalizesPhase(w) /\ worker[w].url # 0
    /\ prs[worker[w].url] = "draft"
    /\ prs' = [prs EXCEPT ![worker[w].url] = "ready"]
    /\ UNCHANGED <<skills, worker, operator, remote, main>> /\ NoFault

\* handlePending creates the pod with the URL of the task's status.
Launch ==
    /\ current = 0 /\ launched < MaxWorkers
    /\ launched' = launched + 1 /\ current' = launched'
    /\ Becomes(launched', [NoWorker EXCEPT !.pc = "boot", !.isRetry = isRetry, !.url = told])
    /\ UNCHANGED <<skills, isRetry, told, github>> /\ NoFault

\* handleRunning reads that the run failed, handleFailed deletes the pod.
Retry ==
    /\ current # 0 /\ worker[current].phase \in {"Incomplete", "Failed"}
    /\ told' = IF worker[current].url = 0 THEN told ELSE worker[current].url
    /\ isRetry' = TRUE /\ current' = 0
    /\ Becomes(current, NoWorker)
    /\ UNCHANGED <<skills, launched, github>> /\ NoFault

\* The pod is lost, also one whose success nobody has read; before its launch was
\* saved, the same attempt comes again.
PodLost ==
    /\ current # 0
    /\ Becomes(current, NoWorker)
    /\ current' = 0 /\ isRetry' \in {isRetry, TRUE}
    /\ UNCHANGED <<skills, launched, told, github>> /\ Fault("kill")

\* A pod that the operator's cache does not show is taken for lost.
PodForgotten ==
    /\ current # 0
    /\ current' = 0 /\ isRetry' = TRUE
    /\ UNCHANGED <<skills, worker, launched, told, github>> /\ Fault("stray")

-----------------------------------------------------------------------------
(* The humans, who mark a draft ready as they merge it *)

HumanActs == UNCHANGED <<skills, worker, operator>> /\ NoFault

\* A squash puts none of the branch's commits into the default branch.
HumanMerges(i) ==
    /\ prs[i] \in OpenStates /\ prs' = [prs EXCEPT ![i] = "merged"]
    /\ main' \in {main, main \cup remote}
    /\ UNCHANGED remote /\ HumanActs

HumanCloses(i) ==
    /\ prs[i] \in OpenStates /\ prs' = [prs EXCEPT ![i] = "closed"]
    /\ UNCHANGED <<remote, main>> /\ HumanActs

\* GitHub opens none again without its branch or beside another that is open.
HumanReopens(i) ==
    /\ prs[i] = "closed" /\ ~OpenPR /\ remote # {}
    /\ prs' = [prs EXCEPT ![i] = "reopened"]
    /\ UNCHANGED <<remote, main>> /\ HumanActs

BranchDeleted ==
    /\ remote # {} /\ prs # <<>> /\ ~OpenPR
    /\ remote' = {}
    /\ UNCHANGED <<skills, worker, operator, main, prs>> /\ Fault("branch")

-----------------------------------------------------------------------------
Next ==
    \/ \E w \in Workers : Lifespan(w) \/ RunTask(w) \/ Finalize(w)
    \/ Launch \/ Retry \/ PodLost \/ PodForgotten
    \/ \E i \in DOMAIN prs : HumanMerges(i) \/ HumanCloses(i) \/ HumanReopens(i)
    \/ BranchDeleted

Spec == Init /\ [][Next]_vars

\* A pod's process starts, and its run goes on: git and GitHub answer, and the
\* model ends its turns.
FairSpec == Spec /\ \A w \in Workers : WF_vars(Lifespan(w)) /\ WF_vars(RunTask(w))

-----------------------------------------------------------------------------
(* Properties *)

\* No worker that was taken for lost met a branch that was deleted.
BranchKept == ~({"stray", "branch"} \subseteq happened)

\* The code of a run that reports success is on the branch of the open pull
\* request it names: no later push, of a retry or of a worker that was taken
\* for lost, removes it.  The branch's deletion does, for a pull request that is
\* opened again; for others only together with such a worker.  (run_task: the
\* push without --force)
OpenPRHoldsSuccess ==
    \A w \in Workers :
        /\ worker[w].phase = "Succeeded"
        /\ \/ prs[worker[w].url] \in {"draft", "ready"} /\ BranchKept
           \/ prs[worker[w].url] = "reopened" /\ "branch" \notin happened
        => <<w, "code">> \in remote

\* A pull request that a worker marked ready holds code of some run, not only
\* the analysis of an incomplete one, with the same exception.  (finalize_task,
\* run_task)
ReadyHoldsCode ==
    BranchKept /\ (\E i \in DOMAIN prs : prs[i] = "ready") => \E c \in remote : c[2] = "code"

\* As long as no pod was lost and no URL (by a refused label or a lost answer of
\* create_pull), every run that starts knows of the pull request open on its
\* branch, also of one that was closed for a while, so a retry pushes to it and
\* does not fail for want of a second one.  (_handle_incomplete, handleRunning)
RetryKnowsOpenPR ==
    happened \cap {"kill", "url", "stray"} = {} =>
        \A w \in Workers : \A i \in DOMAIN prs :
            worker[w].pc \notin {"off", "over"} /\ prs[i] \in OpenStates => worker[w].url = i

\* A pod that the operator has created answers with an outcome in the end, or is
\* gone, so the operator does not poll it for ever: the attempts at the agent's
\* loop and its steps are bounded, and whatever is raised is an answer.  Only
\* if neither agent nor task names a skill it never starts.  (lifespan, run_task)
EveryLaunchIsAnswered ==
    \A w \in Workers :
        skills # {} /\ worker[w].pc = "boot" ~> worker[w].pc \in {"over", "off"}

\* The workers keep the promise that AgentTaskController builds on.
Promise == INSTANCE WorkerPromise WITH
    work <- [w \in Workers |-> worker[w].phase],
    knowsPR <- {w \in Workers : worker[w].url # 0},
    pr <- IF prs = <<>> THEN "none" ELSE prs[Len(prs)]

ImplementsPromise == Promise!PromiseSpec
=============================================================================
