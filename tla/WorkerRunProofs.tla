--------------------------- MODULE WorkerRunProofs ---------------------------
(***************************************************************************)
(* For any number of workers, steps and faults of any kind: the workers of *)
(* a task keep the promise of module WorkerPromise, and what a run reports *)
(* as a success stays on the branch of its open pull request.              *)
(***************************************************************************)
EXTENDS WorkerRun, TLAPS

-----------------------------------------------------------------------------
(* The inductive invariant *)

RunningStages ==
    {"clone", "context", "agent", "evaluate", "commit", "analysis", "push", "pr"}

\* What a worker w answers and holds, state, goes with its stage.
Consistent(w, state) ==
    /\ state.pc \in {"off", "boot", "deaf"} => state.phase = "none"
    /\ state.pc \in RunningStages => state.phase = "Running"
    /\ state.pc = "over" => state.phase \in Outcomes
    /\ state.phase \in {"Succeeded", "Incomplete"} => state.url # 0
    /\ state.pc = "analysis" => state.incomplete
    /\ state.pc \in {"push", "pr"} => state.incomplete \/ <<w, "code">> \in state.local

\* Numbers that were not given to a pod yet are free.
Numbered ==
    /\ current <= launched
    /\ \A w \in Workers : w > launched => worker[w].pc = "off"

FreshStates == {"draft", "ready"}

\* One pull request may be open; an older one than the newest only again.
OneIsOpen ==
    /\ \A i \in DOMAIN prs : prs[i] \in FreshStates => i = Len(prs)
    /\ \A i, j \in DOMAIN prs : prs[i] \in OpenStates /\ prs[j] \in OpenStates => i = j

Sane ==
    /\ TypeOK
    /\ \A w \in Workers : Consistent(w, worker[w])
    /\ Numbered
    /\ OneIsOpen

Active(w) == worker[w].pc \notin {"off", "over"}

\* As long as none was taken for lost, only the current worker runs.
Alone == "stray" \notin happened => \A w \in Workers : Active(w) => w = current

\* What a worker has pushed stays on the branch, until the branch is deleted:
\* then the pull request it may name is decided.
PushedStays ==
    BranchKept =>
        \A w \in Workers : worker[w].pc = "pr" =>
            \/ worker[w].local \subseteq remote
            \/ /\ "branch" \in happened /\ remote = {}
               /\ worker[w].url # 0 => prs[worker[w].url] \notin OpenStates

\* As long as the branch is never deleted, a success stays on it, whatever
\* becomes of its pull request.
SuccessStays ==
    "branch" \notin happened =>
        \A w \in Workers : worker[w].phase = "Succeeded" => <<w, "code">> \in remote

\* Otherwise it stays as long as its pull request is open for the first time.
FreshHoldsSuccess ==
    BranchKept =>
        \A w \in Workers :
            worker[w].phase = "Succeeded" /\ prs[worker[w].url] \in FreshStates
                => <<w, "code">> \in remote

\* Every pull request, open or not, is known to the current worker, or to the
\* operator while there is none.
AllAreKnown ==
    happened \cap {"kill", "url", "stray"} = {} =>
        \A i \in DOMAIN prs :
            IF current = 0 THEN told = i ELSE worker[current].url = i

Inductive ==
    /\ Sane /\ Alone /\ PushedStays /\ SuccessStays /\ FreshHoldsSuccess
    /\ ReadyHoldsCode /\ AllAreKnown

-----------------------------------------------------------------------------
(* What the steps do to a worker and to GitHub *)

\* Worker w, so far active, becomes x; nothing of the operator changes.
RunStep(w, x) ==
    /\ Becomes(w, x) /\ Consistent(w, x)
    /\ Active(w)
    /\ UNCHANGED <<skills, operator, main>>

\* It goes on, before its push, or starts.
Proceeds(w, x) ==
    /\ x.pc \notin {"off", "over", "pr"}
    /\ x.url = worker[w].url
    /\ x.phase = worker[w].phase \/ (worker[w].phase = "none" /\ x.phase = "Running")
    /\ UNCHANGED github

\* It ends as failed, perhaps after a push or with a pull request it cannot name.
EndsFailed(w, x) ==
    /\ worker[w].phase = "Running"
    /\ x.pc = "over" /\ x.phase = "Failed" /\ x.url = worker[w].url
    /\ remote' \subseteq Commits /\ remote \subseteq remote'
    /\ \/ prs' = prs
       \/ prs' = Append(prs, "draft") /\ ~OpenPR /\ worker[w].url = 0 /\ "url" \in happened'

\* It has pushed its branch.
Pushed(w, x) ==
    /\ worker[w].phase = "Running"
    /\ x.pc = "pr" /\ x.url = worker[w].url /\ x.phase = "Running"
    /\ remote \subseteq remote' /\ remote' = x.local
    /\ prs' = prs

\* It has opened a pull request for its branch.
Opened(w, x) ==
    /\ worker[w].pc = "pr" /\ worker[w].phase = "Running" /\ worker[w].url = 0
    /\ x.pc = "pr" /\ x.phase = "Running" /\ x.local = worker[w].local
    /\ remote # {} /\ UNCHANGED remote
    /\ ~OpenPR /\ prs' = Append(prs, "draft") /\ x.url = Len(prs) + 1

\* It ends with the URL of a pull request.
Finished(w, x) ==
    /\ worker[w].pc = "pr" /\ worker[w].phase = "Running" /\ worker[w].url # 0
    /\ x.pc = "over" /\ x.phase \in {"Succeeded", "Incomplete"} /\ x.url = worker[w].url
    /\ x.phase = "Succeeded" => <<w, "code">> \in worker[w].local
    /\ UNCHANGED github

RunEffect(w, x) ==
    \/ Proceeds(w, x) \/ EndsFailed(w, x) \/ Pushed(w, x)
    \/ Opened(w, x) \/ Finished(w, x)

\* Faults are only added, and within their kinds and number.
Grows ==
    /\ happened \subseteq happened' /\ happened' \subseteq FaultKinds
    /\ faults' \in 0..MaxFaults

\* Whether a step has a fault or not, faults are only added.
LEMMA FaultsGrow ==
    ASSUME TypeOK, NoFault \/ \E kind \in FaultKinds : Fault(kind)
    PROVE  Grows
BY WorkerBoundsAreNat, WorkerFaultsAreKinds
DEF TypeOK, NoFault, Fault, Grows, failures

\* A worker that is not there is a worker.
LEMMA NoWorkerType == NoWorker \in Worker
BY WorkerBoundsAreNat DEF NoWorker, Worker, Stages, Outcomes, Messages, SkillRegistry

\* Before it has an answer, an active worker has none of a run that has ended.
LEMMA RunningFacts ==
    ASSUME Sane, NEW w \in Workers, worker[w].pc \in RunningStages
    PROVE  /\ worker[w] \in Worker /\ worker[w].url \in Nat
           /\ worker[w].phase = "Running" /\ Active(w)
BY DEF Sane, TypeOK, Consistent, Active, RunningStages, Worker

\* An answer ends the run, keeps its URL and is consistent with its stage.
LEMMA AnswerEnds ==
    ASSUME Sane, NEW w \in Workers, worker[w].pc \in RunningStages,
           NEW phase \in Outcomes, Answer(w, phase),
           phase \in {"Succeeded", "Incomplete"} => worker[w].url # 0
    PROVE  \E x \in Worker :
              /\ Becomes(w, x) /\ Consistent(w, x)
              /\ x.pc = "over" /\ x.phase = phase /\ x.url = worker[w].url
<1> DEFINE x == [NoWorker EXCEPT !.pc = "over", !.isRetry = worker[w].isRetry,
                                 !.url = worker[w].url, !.phase = phase]
<1>1. worker[w].isRetry \in BOOLEAN /\ worker[w].url \in Nat
  BY RunningFacts DEF Worker
<1>2. x \in Worker /\ x.pc = "over" /\ x.phase = phase /\ x.url = worker[w].url
  BY <1>1, NoWorkerType DEF NoWorker, Worker, Stages
<1>3. Becomes(w, x)
  BY DEF Answer
<1>4. Consistent(w, x)
  BY <1>2 DEF Consistent, RunningStages
<1>5. QED
  BY <1>2, <1>3, <1>4

Effect(w) == Grows /\ \E x \in Worker : RunStep(w, x) /\ RunEffect(w, x)

\* An exception ends the run as failed, whatever was pushed before.
LEMMA FailsEffect ==
    ASSUME Sane, NEW w \in Workers, worker[w].pc \in RunningStages, Fails(w), Grows,
           UNCHANGED <<skills, operator, main>>,
           remote' \subseteq Commits, remote \subseteq remote',
           \/ prs' = prs
           \/ prs' = Append(prs, "draft") /\ ~OpenPR /\ worker[w].url = 0
                /\ "url" \in happened'
    PROVE  Effect(w)
<1>1. PICK x \in Worker :
          /\ Becomes(w, x) /\ Consistent(w, x)
          /\ x.pc = "over" /\ x.phase = "Failed" /\ x.url = worker[w].url
  BY AnswerEnds DEF Fails, Outcomes
<1>2. RunStep(w, x)
  BY <1>1, RunningFacts DEF RunStep
<1>3. EndsFailed(w, x)
  BY <1>1, RunningFacts DEF EndsFailed
<1>4. QED
  BY <1>2, <1>3 DEF Effect, RunEffect

\* A step that only changes the worker's own state, short of its end, proceeds.
LEMMA ProceedsEffect ==
    ASSUME Sane, NEW w \in Workers, Active(w), NEW x \in Worker, Becomes(w, x), Grows,
           UNCHANGED <<skills, operator, github>>,
           x.pc \notin {"off", "over", "pr"}, x.url = worker[w].url,
           x.phase = worker[w].phase \/ (worker[w].phase = "none" /\ x.phase = "Running"),
           Consistent(w, x)
    PROVE  Effect(w)
BY DEF Effect, RunEffect, RunStep, Proceeds, github

\* The worker starts, or never will.
LEMMA LifespanEffect ==
    ASSUME Sane, NEW w \in Workers, Lifespan(w)
    PROVE  Effect(w)
<1>1. /\ worker[w] \in Worker /\ worker[w].pc = "boot" /\ worker[w].phase = "none" /\ Active(w)
      /\ UNCHANGED <<skills, operator, github>>
  BY DEF Lifespan, At, Sane, TypeOK, Consistent, Active
<1>2. Grows
  BY FaultsGrow DEF Lifespan, Sane
<1>3. CASE PayloadParses
  <2> DEFINE x == [worker[w] EXCEPT !.pc = "clone", !.phase = "Running"]
  <2>1. x \in Worker /\ x.pc = "clone" /\ x.phase = "Running" /\ x.url = worker[w].url
    BY <1>1 DEF Worker, Stages
  <2>2. Becomes(w, x)
    BY <1>3 DEF Lifespan
  <2>3. Consistent(w, x)
    BY <2>1 DEF Consistent
  <2>4. QED
    BY <1>1, <1>2, <2>1, <2>2, <2>3, ProceedsEffect
<1>4. CASE ~PayloadParses
  <2> DEFINE x == [worker[w] EXCEPT !.pc = "deaf"]
  <2>1. x \in Worker /\ x.pc = "deaf" /\ x.phase = "none" /\ x.url = worker[w].url
    BY <1>1 DEF Worker, Stages
  <2>2. Becomes(w, x)
    BY <1>4 DEF Lifespan, GoesTo
  <2>3. Consistent(w, x)
    BY <2>1 DEF Consistent, RunningStages
  <2>4. QED
    BY <1>1, <1>2, <2>1, <2>2, <2>3, ProceedsEffect
<1>5. QED
  BY <1>3, <1>4

\* What the loop of the agent does is one of three things, none of which shows
\* outside the worker.
LEMMA PreparationEffect ==
    ASSUME Sane, NEW w \in Workers, Clone(w) \/ GatherContext(w) \/ Evaluate(w)
    PROVE  Effect(w)
<1> USE DEF At
<1>w. worker[w] \in Worker
  BY DEF Sane, TypeOK
<1>1. CASE Clone(w)
  <2>1. PICK branch \in {remote, main} :
            /\ Becomes(w, [worker[w] EXCEPT !.pc = "context", !.local = branch])
            /\ NoFault \/ Fault("fetch")
    BY <1>1 DEF Clone
  <2> DEFINE x == [worker[w] EXCEPT !.pc = "context", !.local = branch]
  <2>2. worker[w].pc = "clone" /\ UNCHANGED <<skills, operator, github>>
    BY <1>1 DEF Clone
  <2>3. worker[w].phase = "Running" /\ Active(w)
    BY <2>2, RunningFacts DEF RunningStages
  <2>4. branch \subseteq Commits
    BY <2>1 DEF Sane, TypeOK
  <2>5. x \in Worker /\ x.pc = "context" /\ x.phase = "Running" /\ x.url = worker[w].url
    BY <1>w, <2>3, <2>4 DEF Worker, Stages
  <2>6. Consistent(w, x)
    BY <2>5 DEF Consistent
  <2>7. Grows
    BY <2>1, FaultsGrow DEF Sane, FaultKinds
  <2>8. QED
    BY <2>1, <2>2, <2>3, <2>5, <2>6, <2>7, ProceedsEffect
<1>2. CASE GatherContext(w)
  <2> DEFINE x == [worker[w] EXCEPT !.pc = "agent"]
  <2>1. Becomes(w, x) /\ worker[w].pc = "context" /\ UNCHANGED <<skills, operator, github>>
    BY <1>2 DEF GatherContext, GoesTo
  <2>2. worker[w].phase = "Running" /\ Active(w)
    BY <2>1, RunningFacts DEF RunningStages
  <2>3. x \in Worker /\ x.pc = "agent" /\ x.phase = "Running" /\ x.url = worker[w].url
    BY <1>w, <2>2 DEF Worker, Stages
  <2>4. Consistent(w, x)
    BY <2>3 DEF Consistent
  <2>5. Grows
    BY <1>2, FaultsGrow DEF GatherContext, Sane
  <2>6. QED
    BY <2>1, <2>2, <2>3, <2>4, <2>5, ProceedsEffect
<1>3. CASE Evaluate(w)
  <2> DEFINE stage == IF TaskIncomplete(w) THEN "analysis" ELSE "commit"
             x == [worker[w] EXCEPT !.pc = stage, !.incomplete = TaskIncomplete(w),
                                    !.last = "none"]
  <2>1. Becomes(w, x) /\ worker[w].pc = "evaluate" /\ UNCHANGED <<skills, operator, github>>
    BY <1>3 DEF Evaluate
  <2>2. worker[w].phase = "Running" /\ Active(w)
    BY <2>1, RunningFacts DEF RunningStages
  <2>3. TaskIncomplete(w) \in BOOLEAN /\ stage \in {"analysis", "commit"}
    BY DEF TaskIncomplete
  <2>4. x \in Worker /\ x.phase = "Running" /\ x.url = worker[w].url
        /\ x.pc = stage /\ x.incomplete = TaskIncomplete(w)
    BY <1>w, <2>2, <2>3 DEF Worker, Stages, Messages
  <2>5. Consistent(w, x)
    BY <2>3, <2>4 DEF Consistent
  <2>6. Grows
    BY <1>3, FaultsGrow DEF Evaluate, Sane
  <2>7. QED
    BY <2>1, <2>2, <2>3, <2>4, <2>5, <2>6, ProceedsEffect
<1>4. QED
  BY <1>1, <1>2, <1>3

\* The agent's loop shows outside the worker only if it ends the run.
LEMMA LoopEffect ==
    ASSUME Sane, NEW w \in Workers,
           AgentCallsTool(w) \/ AgentStops(w) \/ RateLimited(w) \/ AgentRaises(w)
    PROVE  Effect(w)
<1>1. /\ worker[w].pc = "agent" /\ UNCHANGED <<skills, operator, github>> /\ NoFault
  BY DEF AgentCallsTool, AgentStops, RateLimited, AgentRaises, InLoop, At
<1>2. worker[w] \in Worker /\ worker[w].phase = "Running" /\ Active(w)
      /\ worker[w].pc \in RunningStages
  BY <1>1, RunningFacts DEF RunningStages
<1>3. Grows
  BY <1>1, FaultsGrow DEF Sane
<1>n. MaxSteps \in Nat /\ 0 \in 0..MaxSteps /\ 0 \in 0..2
  BY WorkerBoundsAreNat
<1>4. ASSUME NEW x \in Worker, Becomes(w, x), x.pc \in {"agent", "evaluate"},
             x.phase = "Running", x.url = worker[w].url
      PROVE  Effect(w)
  <2>1. Consistent(w, x)
    BY <1>4 DEF Consistent
  <2>2. QED
    BY <1>1, <1>2, <1>3, <1>4, <2>1, ProceedsEffect
<1>5. CASE AgentCallsTool(w)
  <2>1. PICK tool \in WorkspaceTools : \E dirty \in Call(tool, worker[w].dirty) :
            Becomes(w, [worker[w] EXCEPT !.dirty = dirty, !.steps = @ + 1])
    BY <1>5 DEF AgentCallsTool
  <2>2. PICK dirty \in Call(tool, worker[w].dirty) :
            Becomes(w, [worker[w] EXCEPT !.dirty = dirty, !.steps = @ + 1])
    BY <2>1
  <2>3. worker[w].dirty \in BOOLEAN /\ worker[w].steps \in 0..MaxSteps
    BY <1>2 DEF Worker
  <2>4. tool \in {"core", "code_edit", "test_generator", "graphql_debug", "doc_update"}
    BY <2>1 DEF WorkspaceTools, SkillRegistry
  <2>5. dirty \in BOOLEAN
    BY <2>2, <2>3, <2>4 DEF Call, CodeEdit, TestGenerator, GraphqlDebug, DocUpdate, CoreTool
  <2>s. worker[w].steps < MaxSteps
    BY <1>5 DEF AgentCallsTool
  <2>6. worker[w].steps + 1 \in 0..MaxSteps
    BY <2>s, <2>3, <1>n
  <2> DEFINE x == [worker[w] EXCEPT !.dirty = dirty, !.steps = @ + 1]
  <2>7. x \in Worker /\ x.pc = "agent" /\ x.phase = "Running" /\ x.url = worker[w].url
    BY <1>1, <1>2, <2>5, <2>6 DEF Worker
  <2>8. QED
    BY <1>4, <2>2, <2>7
<1>6. CASE AgentStops(w)
  <2>1. PICK message \in {"says", "admits", "limit"} \cup WorkspaceTools :
            Becomes(w, [worker[w] EXCEPT !.pc = "evaluate", !.last = message,
                                         !.tries = 0, !.steps = 0])
    BY <1>6 DEF AgentStops
  <2>2. message \in Messages
    BY <2>1 DEF Messages, WorkspaceTools
  <2> DEFINE x == [worker[w] EXCEPT !.pc = "evaluate", !.last = message,
                                    !.tries = 0, !.steps = 0]
  <2>3. x \in Worker /\ x.pc = "evaluate" /\ x.phase = "Running" /\ x.url = worker[w].url
    BY <1>2, <2>2, <1>n DEF Worker, Stages
  <2>4. QED
    BY <1>4, <2>1, <2>3
<1>7. CASE Fails(w)
  BY <1>1, <1>2, <1>3, <1>7, FailsEffect DEF Sane, TypeOK, github
<1>8. CASE RateLimited(w) /\ worker[w].tries < MaxLLMRetries - 1
  <2> DEFINE x == [worker[w] EXCEPT !.tries = @ + 1, !.steps = 0]
  <2>1. worker[w].tries \in 0..2
    BY <1>2 DEF Worker
  <2>2. worker[w].tries + 1 \in 0..2
    BY <1>8, <2>1 DEF MaxLLMRetries
  <2>3. x \in Worker /\ x.pc = "agent" /\ x.phase = "Running" /\ x.url = worker[w].url
    BY <1>1, <1>2, <2>2, <1>n DEF Worker
  <2>4. Becomes(w, x)
    BY <1>8 DEF RateLimited
  <2>5. QED
    BY <1>4, <2>3, <2>4
<1>9. QED
  BY <1>5, <1>6, <1>7, <1>8 DEF RateLimited, AgentRaises

\* A commit adds a commit of the worker's own to its clone, or ends the run.
LEMMA CommitEffect ==
    ASSUME Sane, NEW w \in Workers, Commit(w) \/ CommitAnalysis(w)
    PROVE  Effect(w)
<1>1. /\ worker[w].pc \in {"commit", "analysis"} /\ UNCHANGED <<skills, operator, github>>
      /\ NoFault
  BY DEF Commit, CommitAnalysis, At
<1>2. worker[w] \in Worker /\ worker[w].phase = "Running" /\ Active(w)
      /\ worker[w].pc \in RunningStages
  BY <1>1, RunningFacts DEF RunningStages
<1>3. Grows
  BY <1>1, FaultsGrow DEF Sane
<1>4. CASE Fails(w)
  BY <1>1, <1>2, <1>3, <1>4, FailsEffect DEF Sane, TypeOK, github
<1>5. ASSUME NEW kind \in {"code", "analysis"}, Becomes(w, Committed(w, kind)),
             kind = "code" \/ worker[w].incomplete
      PROVE  Effect(w)
  <2> DEFINE x == Committed(w, kind)
  <2>1. worker[w].local \cup {<<w, kind>>} \subseteq Commits
    BY <1>2 DEF Worker, Commits
  <2>2. /\ x \in Worker /\ x.pc = "push" /\ x.phase = "Running" /\ x.url = worker[w].url
        /\ x.incomplete = worker[w].incomplete /\ <<w, kind>> \in x.local
    BY <1>2, <2>1 DEF Committed, Worker, Stages
  <2>3. Consistent(w, x)
    BY <1>5, <2>2 DEF Consistent
  <2>4. QED
    BY <1>1, <1>2, <1>3, <1>5, <2>2, <2>3, ProceedsEffect
<1>6. CASE Commit(w)
  BY <1>4, <1>5, <1>6 DEF Commit
<1>7. CASE CommitAnalysis(w)
  <2>1. worker[w].incomplete
    BY <1>7 DEF CommitAnalysis, At, Sane, Consistent
  <2>2. QED
    BY <1>4, <1>5, <1>7, <2>1 DEF CommitAnalysis
<1>8. QED
  BY <1>6, <1>7

\* A push makes the remote branch the worker's own, and loses nothing.
LEMMA PushEffect ==
    ASSUME Sane, NEW w \in Workers, Push(w)
    PROVE  Effect(w)
<1>1. /\ worker[w].pc = "push" /\ UNCHANGED <<skills, operator, main, prs>> /\ NoFault
  BY DEF Push, At
<1>2. worker[w] \in Worker /\ worker[w].phase = "Running" /\ Active(w)
      /\ worker[w].pc \in RunningStages
  BY <1>1, RunningFacts DEF RunningStages
<1>3. Grows
  BY <1>1, FaultsGrow DEF Sane
<1>4. CASE CanPush(w)
  <2> DEFINE x == [worker[w] EXCEPT !.pc = "pr"]
  <2>1. /\ x \in Worker /\ x.pc = "pr" /\ x.phase = "Running" /\ x.url = worker[w].url
        /\ x.local = worker[w].local /\ x.incomplete = worker[w].incomplete
    BY <1>2 DEF Worker, Stages
  <2>2. Becomes(w, x) /\ remote' = x.local
    BY <1>4, <2>1 DEF Push, GoesTo
  <2>3. Consistent(w, x)
    BY <1>1, <2>1 DEF Sane, Consistent
  <2>4. RunStep(w, x) /\ Pushed(w, x)
    BY <1>1, <1>2, <1>4, <2>1, <2>2, <2>3 DEF RunStep, Pushed, CanPush
  <2>5. QED
    BY <1>3, <2>1, <2>4 DEF Effect, RunEffect
<1>5. CASE ~CanPush(w)
  BY <1>1, <1>2, <1>3, <1>5, FailsEffect DEF Push, Sane, TypeOK
<1>6. QED
  BY <1>4, <1>5

\* A pull request is opened only beside no other open one, and for commits.
LEMMA CreateDraftPREffect ==
    ASSUME Sane, NEW w \in Workers, CreateDraftPR(w)
    PROVE  Effect(w)
<1>1. /\ worker[w].pc = "pr" /\ worker[w].url = 0
      /\ UNCHANGED <<skills, operator, remote, main>>
  BY DEF CreateDraftPR, At
<1>2. worker[w] \in Worker /\ worker[w].phase = "Running" /\ Active(w)
      /\ worker[w].pc \in RunningStages
  BY <1>1, RunningFacts DEF RunningStages
<1>t. prs \in Seq(PRStates) /\ remote \subseteq Commits
  BY DEF Sane, TypeOK
<1>3. CASE Fails(w) /\ UNCHANGED prs /\ NoFault
  <2>1. Grows
    BY <1>3, FaultsGrow DEF Sane
  <2>2. QED
    BY <1>1, <1>2, <1>3, <1>t, <2>1, FailsEffect
<1>4. CASE ~PRRefused /\ prs' = Append(prs, "draft") /\ Fails(w) /\ Fault("url")
  <2>1. Grows /\ "url" \in happened'
    BY <1>4, FaultsGrow DEF Sane, FaultKinds, Fault
  <2>2. ~OpenPR
    BY <1>4 DEF PRRefused
  <2>3. QED
    BY <1>1, <1>2, <1>4, <1>t, <2>1, <2>2, FailsEffect
<1>5. CASE /\ ~PRRefused /\ prs' = Append(prs, "draft") /\ NoFault
           /\ Becomes(w, [worker[w] EXCEPT !.url = Len(prs')])
  <2> DEFINE x == [worker[w] EXCEPT !.url = Len(prs')]
  <2>1. Len(prs') = Len(prs) + 1 /\ Len(prs) \in Nat
    BY <1>5, <1>t
  <2>2. /\ x \in Worker /\ x.pc = "pr" /\ x.phase = "Running" /\ x.url = Len(prs) + 1
        /\ x.local = worker[w].local /\ x.incomplete = worker[w].incomplete
    BY <1>1, <1>2, <2>1 DEF Worker
  <2>3. Consistent(w, x)
    BY <1>1, <2>2 DEF Sane, Consistent
  <2>4. remote # {} /\ ~OpenPR
    BY <1>5 DEF PRRefused
  <2>5. Grows
    BY <1>5, FaultsGrow DEF Sane
  <2>6. RunStep(w, x)
    BY <1>1, <1>2, <1>5, <2>3 DEF RunStep
  <2>7. Opened(w, x)
    BY <1>1, <1>2, <1>5, <2>2, <2>4 DEF Opened
  <2>8. QED
    BY <2>2, <2>5, <2>6, <2>7 DEF Effect, RunEffect
<1>6. QED
  BY <1>3, <1>4, <1>5 DEF CreateDraftPR

\* A run ends well only with the URL of a pull request, and as a success only
\* with a commit of code.
LEMMA FinishEffect ==
    ASSUME Sane, NEW w \in Workers, Finish(w)
    PROVE  Effect(w)
<1>1. /\ worker[w].pc = "pr" /\ worker[w].url # 0
      /\ UNCHANGED <<skills, operator, github>> /\ NoFault /\ Answer(w, Outcome(w))
  BY DEF Finish, At
<1>2. worker[w] \in Worker /\ worker[w].phase = "Running" /\ Active(w)
      /\ worker[w].pc \in RunningStages
  BY <1>1, RunningFacts DEF RunningStages
<1>3. Grows
  BY <1>1, FaultsGrow DEF Sane
<1>4. Outcome(w) \in {"Succeeded", "Incomplete"}
      /\ (Outcome(w) = "Succeeded" => <<w, "code">> \in worker[w].local)
  BY <1>1 DEF Outcome, Sane, Consistent
<1>5. PICK x \in Worker :
          /\ Becomes(w, x) /\ Consistent(w, x)
          /\ x.pc = "over" /\ x.phase = Outcome(w) /\ x.url = worker[w].url
  BY <1>1, <1>2, <1>4, AnswerEnds DEF Outcomes
<1>6. RunStep(w, x)
  BY <1>1, <1>2, <1>5 DEF RunStep, github
<1>7. Finished(w, x)
  BY <1>1, <1>2, <1>4, <1>5 DEF Finished
<1>8. QED
  BY <1>3, <1>6, <1>7 DEF Effect, RunEffect

\* A call to git or GitHub that fails ends the run.
LEMMA CallFailsEffect ==
    ASSUME Sane, NEW w \in Workers, GitFails(w) \/ GitHubFails(w)
    PROVE  Effect(w)
<1>1. /\ worker[w].pc \in {"clone", "context", "evaluate", "commit", "analysis", "push", "pr"}
      /\ UNCHANGED <<skills, operator, main, prs>> /\ Fails(w)
      /\ Fault("git") \/ Fault("github")
  BY DEF GitFails, GitHubFails, At, github
<1>2. worker[w] \in Worker /\ worker[w].pc \in RunningStages
  BY <1>1, RunningFacts DEF RunningStages
<1>3. worker[w].local \subseteq Commits /\ remote \subseteq Commits
  BY <1>2 DEF Worker, Sane, TypeOK
<1>4. remote' \subseteq Commits /\ remote \subseteq remote'
  BY <1>3 DEF GitFails, GitHubFails, CanPush, github
<1>5. Grows
  BY <1>1, FaultsGrow DEF Sane, FaultKinds
<1>6. QED
  BY <1>1, <1>2, <1>4, <1>5, FailsEffect

\* A step of a run changes one worker, in one of the five ways.
LEMMA RunSteps ==
    ASSUME Sane, NEW w \in Workers, Lifespan(w) \/ RunTask(w)
    PROVE  Effect(w)
BY LifespanEffect, PreparationEffect, LoopEffect, CommitEffect, PushEffect,
   CreateDraftPREffect, FinishEffect, CallFailsEffect
DEF RunTask

-----------------------------------------------------------------------------
(* What the other steps do *)

\* Pull requests are numbered from 1, by the order in which they were opened.
LEMMA PRFacts ==
    ASSUME Sane
    PROVE  /\ prs \in Seq(PRStates) /\ Len(prs) \in Nat /\ DOMAIN prs = 1..Len(prs)
           /\ \A w \in Workers : worker[w].url \in 0..Len(prs)
BY DEF Sane, TypeOK

\* A run's step leaves the pull requests there were as they are.
LEMMA RunKeepsPRs ==
    ASSUME Sane, NEW w \in Workers, NEW x \in Worker, RunStep(w, x), RunEffect(w, x)
    PROVE  /\ prs' \in Seq(PRStates) /\ Len(prs') \in Nat /\ DOMAIN prs' = 1..Len(prs')
           /\ Len(prs) <= Len(prs') /\ x.url \in 0..Len(prs')
           /\ \A i \in DOMAIN prs : i \in DOMAIN prs' /\ prs'[i] = prs[i]
           /\ \A i \in DOMAIN prs' : i \notin DOMAIN prs => prs'[i] = "draft" /\ i = Len(prs')
           /\ OneIsOpen'
           /\ remote \subseteq remote' /\ remote' \subseteq Commits
<1>1. /\ worker[w].url \in 0..Len(prs) /\ prs \in Seq(PRStates) /\ Len(prs) \in Nat
      /\ DOMAIN prs = 1..Len(prs) /\ remote \subseteq Commits
  BY PRFacts DEF Sane, TypeOK
<1>2. x.local \subseteq Commits
  BY DEF Worker
<1>3. CASE prs' = prs
  <2>1. x.url = worker[w].url /\ remote \subseteq remote' /\ remote' \subseteq Commits
    <3>1. CASE Opened(w, x)
      <4>1. Len(prs') = Len(prs) + 1
        BY <3>1, <1>1 DEF Opened, PRStates
      <4>2. QED
        BY <1>1, <1>3, <4>1
    <3>2. CASE ~Opened(w, x)
      BY <1>1, <1>2, <3>2 DEF RunEffect, Proceeds, EndsFailed, Pushed, Finished, github
    <3>3. QED
      BY <3>1, <3>2
  <2>2. OneIsOpen'
    BY <1>3 DEF Sane, OneIsOpen
  <2>3. QED
    BY <1>1, <1>3, <2>1, <2>2
<1>4. CASE prs' = Append(prs, "draft") /\ ~OpenPR
  <2>1. /\ prs' \in Seq(PRStates) /\ Len(prs') = Len(prs) + 1
        /\ \A i \in 1..Len(prs) : prs'[i] = prs[i]
        /\ prs'[Len(prs) + 1] = "draft"
    BY <1>1, <1>4 DEF PRStates
  <2>2. x.url \in {worker[w].url, Len(prs) + 1} /\ remote \subseteq remote' /\ remote' \subseteq Commits
    BY <1>1, <1>2 DEF RunEffect, Proceeds, EndsFailed, Pushed, Opened, Finished, github
  <2>3. \A i \in DOMAIN prs : prs[i] \notin OpenStates
    BY <1>4 DEF OpenPR
  <2>4. x.url \in 0..Len(prs')
    BY <1>1, <2>1, <2>2
  <2>5. DOMAIN prs' = 1..Len(prs')
    BY <2>1
  <2>6. \A i \in DOMAIN prs' : prs'[i] \in OpenStates => i = Len(prs')
    BY <1>1, <2>1, <2>3, <2>5
  <2>7. OneIsOpen'
    BY <2>6 DEF OneIsOpen, FreshStates, OpenStates
  <2>8. QED
    BY <1>1, <2>1, <2>2, <2>4, <2>5, <2>7
<1>5. QED
  BY <1>3, <1>4 DEF RunEffect, Proceeds, EndsFailed, Pushed, Opened, Finished, github

\* A pull request that is open gets another state, and nothing else.
Decides(i, state) ==
    /\ i \in DOMAIN prs /\ prs[i] \in OpenStates
    /\ state \in PRStates /\ prs' = [prs EXCEPT ![i] = state]
    /\ state \in OpenStates => \E w \in Workers :
          state = "ready" /\ prs[i] = "draft" /\ worker[w].phase = "Succeeded" /\ worker[w].url = i
    /\ UNCHANGED <<skills, worker, operator, remote, failures>>
    /\ main' \in {main, main \cup remote}

\* What a human decides or a worker finalizes is such a change.
LEMMA Decisions ==
    ASSUME Sane,
           \/ \E w \in Workers : Finalize(w)
           \/ \E i \in DOMAIN prs : HumanMerges(i) \/ HumanCloses(i)
    PROVE  \E i \in DOMAIN prs, state \in PRStates : Decides(i, state)
<1>1. CASE \E w \in Workers : Finalize(w)
  <2>1. PICK w \in Workers : Finalize(w)
    BY <1>1
  <2>2. worker[w].url \in DOMAIN prs
    BY <2>1, PRFacts DEF Finalize
  <2>3. worker[w].phase = "Succeeded"
    BY <2>1 DEF Finalize, FinalizesPhase
  <2>4. Decides(worker[w].url, "ready")
    BY <2>1, <2>2, <2>3 DEF Finalize, Decides, OpenStates, PRStates, NoFault
  <2>5. QED
    BY <2>2, <2>4 DEF PRStates
<1>2. CASE \E i \in DOMAIN prs : HumanMerges(i) \/ HumanCloses(i)
  <2>1. PICK i \in DOMAIN prs : HumanMerges(i) \/ HumanCloses(i)
    BY <1>2
  <2>2. Decides(i, "merged") \/ Decides(i, "closed")
    BY <2>1 DEF HumanMerges, HumanCloses, HumanActs, Decides, OpenStates, PRStates, NoFault
  <2>3. QED
    BY <2>2 DEF PRStates
<1>3. QED
  BY <1>1, <1>2

\* No pull request is opened by a decision.
LEMMA DecisionFacts ==
    ASSUME Sane, NEW i \in DOMAIN prs, NEW state \in PRStates, Decides(i, state)
    PROVE  /\ prs' \in Seq(PRStates) /\ Len(prs') = Len(prs) /\ DOMAIN prs' = DOMAIN prs
           /\ \A j \in DOMAIN prs : prs'[j] = IF j = i THEN state ELSE prs[j]
           /\ \A j \in DOMAIN prs : prs'[j] \in OpenStates => prs[j] \in OpenStates
           /\ \A j \in DOMAIN prs : prs'[j] \in FreshStates => prs[j] \in FreshStates
           /\ OneIsOpen'
<1>1. /\ prs' = [prs EXCEPT ![i] = state] /\ prs[i] \in OpenStates
      /\ state \in OpenStates => state = "ready" /\ prs[i] = "draft"
  BY DEF Decides
<1>2. /\ prs' \in Seq(PRStates) /\ Len(prs') = Len(prs) /\ DOMAIN prs' = DOMAIN prs
      /\ \A j \in DOMAIN prs : prs'[j] = IF j = i THEN state ELSE prs[j]
  BY <1>1, PRFacts
<1>3. /\ \A j \in DOMAIN prs : prs'[j] \in OpenStates => prs[j] \in OpenStates
      /\ \A j \in DOMAIN prs : prs'[j] \in FreshStates => prs[j] \in FreshStates
  BY <1>1, <1>2 DEF FreshStates, OpenStates
<1>4. OneIsOpen'
  BY <1>2, <1>3 DEF Sane, OneIsOpen
<1>5. QED
  BY <1>2, <1>3, <1>4

\* Nor by one that is taken back: beside no other open one, a pull request is
\* open again.
LEMMA ReopeningFacts ==
    ASSUME Sane, NEW i \in DOMAIN prs, HumanReopens(i)
    PROVE  /\ prs' \in Seq(PRStates) /\ Len(prs') = Len(prs) /\ DOMAIN prs' = DOMAIN prs
           /\ \A j \in DOMAIN prs : prs'[j] = IF j = i THEN "reopened" ELSE prs[j]
           /\ OneIsOpen'
           /\ remote # {}
           /\ UNCHANGED <<skills, worker, operator, remote, main, failures>>
<1>1. /\ prs' = [prs EXCEPT ![i] = "reopened"] /\ ~OpenPR /\ remote # {}
      /\ UNCHANGED <<skills, worker, operator, remote, main, failures>>
  BY DEF HumanReopens, HumanActs, NoFault
<1>2. /\ prs' \in Seq(PRStates) /\ Len(prs') = Len(prs) /\ DOMAIN prs' = DOMAIN prs
      /\ \A j \in DOMAIN prs : prs'[j] = IF j = i THEN "reopened" ELSE prs[j]
  BY <1>1, PRFacts DEF PRStates
<1>3. \A j \in DOMAIN prs : prs[j] \notin OpenStates
  BY <1>1 DEF OpenPR
<1>4. OneIsOpen'
  BY <1>2, <1>3 DEF OneIsOpen, FreshStates, OpenStates
<1>5. QED
  BY <1>1, <1>2, <1>4

\* The operator gives the next number to a new pod.
LEMMA LaunchFacts ==
    ASSUME Sane, Launch
    PROVE  /\ current = 0 /\ launched' = launched + 1 /\ current' = launched'
           /\ launched \in Nat /\ launched' \in Workers /\ worker[launched'].pc = "off"
           /\ UNCHANGED <<skills, isRetry, told, github, failures>>
           /\ \E x \in Worker : /\ Becomes(launched', x) /\ Consistent(launched', x)
                                /\ x.pc = "boot" /\ x.phase = "none" /\ x.url = told
<1>1. launched \in 0..MaxWorkers /\ MaxWorkers \in Nat /\ isRetry \in BOOLEAN /\ told \in Nat
  BY WorkerBoundsAreNat, PRFacts DEF Sane, TypeOK
<1>2. /\ current = 0 /\ launched' = launched + 1 /\ current' = launched' /\ launched < MaxWorkers
      /\ UNCHANGED <<skills, isRetry, told, github, failures>>
  BY DEF Launch, NoFault
<1>3. launched' \in Workers /\ launched' > launched
  BY <1>1, <1>2 DEF Workers
<1>4. worker[launched'].pc = "off"
  BY <1>3 DEF Sane, Numbered
<1> DEFINE x == [NoWorker EXCEPT !.pc = "boot", !.isRetry = isRetry, !.url = told]
<1>5. x \in Worker /\ x.pc = "boot" /\ x.phase = "none" /\ x.url = told
  BY <1>1, NoWorkerType DEF NoWorker, Worker, Stages
<1>6. Becomes(launched', x)
  BY DEF Launch
<1>7. Consistent(launched', x)
  BY <1>5 DEF Consistent, RunningStages
<1>8. \E y \in Worker : /\ Becomes(launched', y) /\ Consistent(launched', y)
                        /\ y.pc = "boot" /\ y.phase = "none" /\ y.url = told
  BY <1>5, <1>6, <1>7
<1>9. launched \in Nat
  BY <1>1
<1>10. QED
  BY <1>2, <1>3, <1>4, <1>8, <1>9

\* A pod that is replaced or lost leaves no worker.
LEMMA StopFacts ==
    ASSUME Sane, Retry \/ PodLost
    PROVE  /\ current \in Workers /\ current' = 0 /\ isRetry' \in BOOLEAN
           /\ Becomes(current, NoWorker) /\ NoWorker \in Worker
           /\ \A w \in Workers : Consistent(w, NoWorker)
           /\ told' \in 0..Len(prs)
           /\ Retry => told' = (IF worker[current].url = 0 THEN told ELSE worker[current].url)
           /\ PodLost => told' = told /\ "kill" \in happened'
           /\ UNCHANGED <<skills, launched, github>> /\ Grows
<1>1. current \in Workers
  <2>1. MaxWorkers \in Nat
    BY WorkerBoundsAreNat
  <2>2. current \in 0..MaxWorkers /\ current # 0
    BY DEF Retry, PodLost, Sane, TypeOK
  <2>3. QED
    BY <2>1, <2>2 DEF Workers
<1>2. Grows
  BY FaultsGrow DEF Retry, PodLost, Sane, FaultKinds
<1>3. /\ current' = 0 /\ Becomes(current, NoWorker)
      /\ UNCHANGED <<skills, launched, github>>
  BY DEF Retry, PodLost
<1>4. isRetry' \in BOOLEAN
  BY DEF Retry, PodLost, Sane, TypeOK
<1>5. /\ told' \in 0..Len(prs)
      /\ Retry => told' = (IF worker[current].url = 0 THEN told ELSE worker[current].url)
      /\ PodLost => told' = told /\ "kill" \in happened'
  BY <1>1, PRFacts DEF Retry, PodLost, Fault, Sane, TypeOK
<1>6. \A w \in Workers : Consistent(w, NoWorker)
  BY DEF Consistent, NoWorker, RunningStages
<1>7. QED
  BY <1>1, <1>2, <1>3, <1>4, <1>5, <1>6, NoWorkerType

\* Every step is one of these.
LEMMA Steps ==
    ASSUME Sane, [Next]_vars
    PROVE  \/ \E w \in Workers : Effect(w)
           \/ \E i \in DOMAIN prs, state \in PRStates : Decides(i, state)
           \/ \E i \in DOMAIN prs : HumanReopens(i)
           \/ Launch \/ Retry \/ PodLost \/ PodForgotten \/ BranchDeleted
           \/ UNCHANGED vars
BY RunSteps, Decisions DEF Next

-----------------------------------------------------------------------------
(* The invariant is inductive *)

\* When worker w becomes x, the others stay as they are.
LEMMA Others ==
    ASSUME Sane, NEW w \in Workers, NEW x, Becomes(w, x)
    PROVE  /\ worker' = [worker EXCEPT ![w] = x] /\ worker'[w] = x
           /\ \A v \in Workers : v # w => worker'[v] = worker[v]
           /\ x \in Worker => worker' \in [Workers -> Worker]
BY DEF Becomes, Sane, TypeOK

\* A change of one worker, with typed and well-numbered pull requests, keeps
\* the workers sane.
LEMMA WorkersSane ==
    ASSUME Sane, NEW w \in Workers, NEW x \in Worker, Becomes(w, x), Consistent(w, x),
           prs' \in Seq(PRStates), Len(prs') \in Nat, Len(prs) <= Len(prs'),
           x.url \in 0..Len(prs')
    PROVE  /\ worker' \in [Workers -> Worker]
           /\ \A v \in Workers : worker'[v].url \in 0..Len(prs')
           /\ \A v \in Workers : Consistent(v, worker'[v])
<1>1. \A v \in Workers : worker[v].url \in 0..Len(prs') /\ Consistent(v, worker[v])
  BY PRFacts DEF Sane
<1>2. QED
  BY <1>1, Others

\* Types, stages, numbers and that one pull request may be open are preserved.
LEMMA SaneInductive ==
    ASSUME Sane, [Next]_vars
    PROVE  Sane'
<1> USE DEF Numbered
<1>t. /\ skills \in SkillSets /\ launched \in 0..MaxWorkers /\ current \in 0..MaxWorkers
      /\ isRetry \in BOOLEAN /\ told \in 0..Len(prs) /\ remote \subseteq Commits
      /\ main \subseteq Commits /\ happened \subseteq FaultKinds /\ faults \in 0..MaxFaults
      /\ current <= launched /\ MaxWorkers \in Nat
  BY WorkerBoundsAreNat DEF Sane, TypeOK
<1>1. CASE \E w \in Workers : Effect(w)
  <2>1. PICK w \in Workers : Effect(w)
    BY <1>1
  <2>2. PICK x \in Worker : RunStep(w, x) /\ RunEffect(w, x)
    BY <2>1 DEF Effect
  <2>3. /\ worker' \in [Workers -> Worker]
        /\ \A v \in Workers : worker'[v].url \in 0..Len(prs')
        /\ \A v \in Workers : Consistent(v, worker'[v])
    BY <2>2, RunKeepsPRs, WorkersSane, PRFacts DEF RunStep
  <2>4. told \in 0..Len(prs')
    BY <1>t, <2>2, RunKeepsPRs, PRFacts
  <2>5. TypeOK'
    BY <1>t, <2>1, <2>2, <2>3, <2>4, RunKeepsPRs DEF TypeOK, RunStep, operator, Effect, Grows
  <2>6. Numbered'
    BY <2>2, Others DEF RunStep, operator, Active, Sane
  <2>7. OneIsOpen'
    BY <2>2, RunKeepsPRs
  <2>8. QED
    BY <2>3, <2>5, <2>6, <2>7 DEF Sane
<1>2. CASE \E i \in DOMAIN prs, state \in PRStates : Decides(i, state)
  <2>1. PICK i \in DOMAIN prs, state \in PRStates : Decides(i, state)
    BY <1>2
  <2>2. /\ UNCHANGED <<skills, worker, launched, current, isRetry, told, remote, happened, faults>>
        /\ main' \subseteq Commits
    BY <1>t, <2>1 DEF Decides, operator, failures
  <2>3. TypeOK'
    BY <1>t, <2>1, <2>2, DecisionFacts DEF TypeOK, Sane
  <2>4. OneIsOpen'
    BY <2>1, DecisionFacts
  <2>5. QED
    BY <2>2, <2>3, <2>4 DEF Sane, Consistent
<1>3. CASE Launch
  <2>1. PICK x \in Worker : /\ Becomes(launched', x) /\ Consistent(launched', x)
                            /\ x.pc = "boot" /\ x.phase = "none" /\ x.url = told
    BY <1>3, LaunchFacts
  <2>2. /\ launched' = launched + 1 /\ current' = launched' /\ launched' \in Workers
        /\ UNCHANGED <<skills, isRetry, told, remote, main, prs, happened, faults>>
    BY <1>3, LaunchFacts DEF github, failures
  <2>3. /\ worker' \in [Workers -> Worker]
        /\ \A v \in Workers : worker'[v].url \in 0..Len(prs')
        /\ \A v \in Workers : Consistent(v, worker'[v])
    BY <1>t, <2>1, <2>2, PRFacts, WorkersSane
  <2>4. launched' \in 0..MaxWorkers
    BY <1>t, <2>2 DEF Workers
  <2>5. TypeOK'
    BY <1>t, <2>2, <2>3, <2>4, PRFacts DEF TypeOK
  <2>6. Numbered'
    <3>1. \A v \in Workers : v > launched' => v > launched /\ v # launched'
      BY <1>t, <2>2 DEF Workers
    <3>2. QED
      BY <2>1, <2>2, <2>4, <3>1, Others DEF Sane
  <2>7. OneIsOpen'
    BY <2>2 DEF Sane, OneIsOpen
  <2>8. QED
    BY <2>3, <2>5, <2>6, <2>7 DEF Sane
<1>4. CASE Retry \/ PodLost
  <2>1. /\ current \in Workers /\ current' = 0 /\ isRetry' \in BOOLEAN
        /\ Becomes(current, NoWorker) /\ NoWorker \in Worker /\ Consistent(current, NoWorker)
        /\ told' \in 0..Len(prs) /\ Grows
        /\ UNCHANGED <<skills, launched, remote, main, prs>>
    BY <1>4, StopFacts DEF github
  <2>2. NoWorker.url = 0 /\ NoWorker.pc = "off"
    BY DEF NoWorker
  <2>3. /\ worker' \in [Workers -> Worker]
        /\ \A v \in Workers : worker'[v].url \in 0..Len(prs')
        /\ \A v \in Workers : Consistent(v, worker'[v])
    BY <2>1, <2>2, PRFacts, WorkersSane
  <2>4. TypeOK'
    BY <1>t, <2>1, <2>3, PRFacts DEF TypeOK, Grows
  <2>5. Numbered'
    BY <1>t, <2>1, <2>2, Others DEF Sane
  <2>6. QED
    BY <2>1, <2>3, <2>4, <2>5 DEF Sane, OneIsOpen
<1>5. CASE PodForgotten
  <2>1. /\ current' = 0 /\ isRetry' = TRUE
        /\ UNCHANGED <<skills, worker, launched, told, remote, main, prs>>
    BY <1>5 DEF PodForgotten, github
  <2>2. Grows
    BY <1>5, FaultsGrow DEF PodForgotten, Sane, FaultKinds
  <2>3. TypeOK'
    BY <1>t, <2>1, <2>2, PRFacts DEF Sane, TypeOK, Grows
  <2>4. QED
    BY <1>t, <2>1, <2>3 DEF Sane, OneIsOpen, Consistent
<1>6. CASE BranchDeleted
  <2>1. remote' = {} /\ UNCHANGED <<skills, worker, launched, current, isRetry, told, main, prs>>
    BY <1>6 DEF BranchDeleted, operator
  <2>2. Grows
    BY <1>6, FaultsGrow DEF BranchDeleted, Sane, FaultKinds
  <2>3. TypeOK'
    BY <1>t, <2>1, <2>2, PRFacts DEF Sane, TypeOK, Grows
  <2>4. QED
    BY <2>1, <2>3 DEF Sane, OneIsOpen, Consistent
<1>r. CASE \E i \in DOMAIN prs : HumanReopens(i)
  <2>1. PICK i \in DOMAIN prs : HumanReopens(i)
    BY <1>r
  <2>2. UNCHANGED <<skills, worker, launched, current, isRetry, told, remote, main, happened, faults>>
    BY <2>1, ReopeningFacts DEF operator, failures
  <2>3. TypeOK'
    BY <1>t, <2>1, <2>2, ReopeningFacts DEF TypeOK, Sane
  <2>4. QED
    BY <2>1, <2>2, <2>3, ReopeningFacts DEF Sane, Consistent
<1>7. CASE UNCHANGED vars
  BY <1>7 DEF vars, operator, github, failures, Sane, TypeOK, OneIsOpen, Consistent
<1>8. QED
  BY <1>1, <1>2, <1>3, <1>4, <1>5, <1>6, <1>7, <1>r, Steps

\* A second worker is active only if the first was taken for lost.
LEMMA AloneInductive ==
    ASSUME Sane, Alone, [Next]_vars
    PROVE  Alone'
<1>1. CASE \E w \in Workers : Effect(w)
  BY <1>1, Others DEF Effect, RunStep, Grows, Alone, Active, operator
<1>2. CASE \E i \in DOMAIN prs, state \in PRStates : Decides(i, state)
  BY <1>2 DEF Decides, Alone, Active, operator, failures
<1>3. CASE Launch
  <2>1. "stray" \notin happened => \A v \in Workers : ~Active(v)
    BY <1>3, LaunchFacts DEF Alone, Workers
  <2>2. QED
    BY <1>3, <2>1, LaunchFacts, Others DEF Alone, Active, failures
<1>4. CASE Retry \/ PodLost
  <2>1. NoWorker.pc = "off"
    BY DEF NoWorker
  <2>2. QED
    BY <1>4, <2>1, StopFacts, Others DEF Alone, Active, Grows
<1>5. CASE PodForgotten
  BY <1>5 DEF PodForgotten, Fault, Alone
<1>6. CASE BranchDeleted
  BY <1>6 DEF BranchDeleted, Fault, Alone, Active, operator
<1>r. CASE \E i \in DOMAIN prs : HumanReopens(i)
  BY <1>r, ReopeningFacts DEF Alone, Active, operator, failures
<1>7. CASE UNCHANGED vars
  BY <1>7 DEF vars, operator, failures, Alone, Active
<1>8. QED
  BY <1>1, <1>2, <1>3, <1>4, <1>5, <1>6, <1>7, <1>r, Steps

\* As long as the branch is kept now, it was before.
LEMMA BranchWasKept ==
    ASSUME happened \subseteq happened'
    PROVE  BranchKept' => BranchKept
BY DEF BranchKept

\* Only a worker that runs beside another one pushes what that one lacks, and
\* only once there is no branch for it to miss.
LEMMA PushedStaysInductive ==
    ASSUME Sane, Alone, PushedStays, [Next]_vars
    PROVE  PushedStays'
<1>1. CASE \E w \in Workers : Effect(w)
  <2>1. PICK w \in Workers, x \in Worker : RunStep(w, x) /\ RunEffect(w, x) /\ Grows
    BY <1>1 DEF Effect
  <2>2. /\ worker'[w] = x /\ \A v \in Workers : v # w => worker'[v] = worker[v]
        /\ Active(w)
    BY <2>1, Others DEF RunStep
  <2>3. remote \subseteq remote' /\ \A i \in DOMAIN prs : prs'[i] = prs[i]
    BY <2>1, RunKeepsPRs
  <2>4. SUFFICES ASSUME BranchKept', NEW v \in Workers, worker'[v].pc = "pr"
                 PROVE  \/ worker'[v].local \subseteq remote'
                        \/ /\ "branch" \in happened' /\ remote' = {}
                           /\ worker'[v].url # 0 => prs'[worker'[v].url] \notin OpenStates
    BY DEF PushedStays
  <2>5. BranchKept
    BY <2>1, <2>4, BranchWasKept DEF Grows
  <2>6. CASE v = w /\ Pushed(w, x)
    BY <2>2, <2>6 DEF Pushed
  <2>7. CASE v = w /\ Opened(w, x)
    BY <2>2, <2>5, <2>7 DEF Opened, PushedStays
  <2>8. CASE v # w
    <3>1. worker'[v] = worker[v] /\ worker[v].pc = "pr" /\ Active(v)
      BY <2>2, <2>4, <2>8 DEF Active
    <3>2. "stray" \in happened
      BY <2>2, <2>8, <3>1 DEF Alone
    <3>3. "branch" \notin happened
      BY <2>5, <3>2 DEF BranchKept
    <3>4. worker[v].local \subseteq remote
      BY <2>5, <3>1, <3>3 DEF PushedStays
    <3>5. QED
      BY <2>3, <3>1, <3>4
  <2>9. QED
    BY <2>1, <2>2, <2>4, <2>6, <2>7, <2>8
    DEF RunEffect, Proceeds, EndsFailed, Finished
<1>2. CASE \E i \in DOMAIN prs, state \in PRStates : Decides(i, state)
  <2>1. PICK i \in DOMAIN prs, state \in PRStates : Decides(i, state)
    BY <1>2
  <2>2. UNCHANGED <<worker, remote, happened>>
    BY <2>1 DEF Decides, failures
  <2>3. \A w \in Workers : worker[w].url # 0 => worker[w].url \in DOMAIN prs
    BY PRFacts
  <2>4. \A j \in DOMAIN prs : prs[j] \notin OpenStates => prs'[j] \notin OpenStates
    BY <2>1, DecisionFacts
  <2>5. QED
    BY <2>2, <2>3, <2>4 DEF PushedStays, BranchKept
<1>3. CASE Launch
  BY <1>3, LaunchFacts, Others DEF PushedStays, BranchKept, github, failures
<1>4. CASE Retry \/ PodLost
  <2>1. NoWorker.pc = "off"
    BY DEF NoWorker
  <2>2. /\ current \in Workers /\ Becomes(current, NoWorker) /\ happened \subseteq happened'
        /\ UNCHANGED <<remote, prs>>
    BY <1>4, StopFacts DEF Grows, github
  <2>3. BranchKept' => BranchKept
    BY <2>2, BranchWasKept
  <2>4. \A v \in Workers : worker'[v].pc = "pr" => worker'[v] = worker[v]
    BY <2>1, <2>2, Others
  <2>5. QED
    BY <2>2, <2>3, <2>4 DEF PushedStays
<1>5. CASE PodForgotten
  <2>1. UNCHANGED <<worker, remote, prs>> /\ happened' = happened \cup {"stray"}
    BY <1>5 DEF PodForgotten, github, Fault
  <2>2. QED
    BY <2>1 DEF PushedStays, BranchKept
<1>6. CASE BranchDeleted
  <2>1. /\ UNCHANGED <<worker, prs>> /\ remote' = {} /\ "branch" \in happened'
        /\ \A i \in DOMAIN prs : prs[i] \notin OpenStates
    BY <1>6 DEF BranchDeleted, Fault, OpenPR
  <2>2. \A w \in Workers : worker[w].url # 0 => worker[w].url \in DOMAIN prs
    BY PRFacts
  <2>3. QED
    BY <2>1, <2>2 DEF PushedStays
<1>r. CASE \E i \in DOMAIN prs : HumanReopens(i)
  <2>1. UNCHANGED <<worker, remote, happened>> /\ remote # {}
    BY <1>r, ReopeningFacts DEF failures
  <2>2. QED
    BY <2>1 DEF PushedStays, BranchKept
<1>7. CASE UNCHANGED vars
  BY <1>7 DEF vars, github, failures, PushedStays, BranchKept
<1>8. QED
  BY <1>1, <1>2, <1>3, <1>4, <1>5, <1>6, <1>7, <1>r, Steps

\* Nobody takes a commit from the branch but who deletes it.
LEMMA SuccessStaysInductive ==
    ASSUME Sane, PushedStays, SuccessStays, [Next]_vars
    PROVE  SuccessStays'
<1>1. CASE \E w \in Workers : Effect(w)
  <2>1. PICK w \in Workers, x \in Worker : RunStep(w, x) /\ RunEffect(w, x) /\ Grows
    BY <1>1 DEF Effect
  <2>2. worker'[w] = x /\ \A v \in Workers : v # w => worker'[v] = worker[v]
    BY <2>1, Others DEF RunStep
  <2>3. remote \subseteq remote'
    BY <2>1, RunKeepsPRs
  <2>4. SUFFICES ASSUME "branch" \notin happened', NEW v \in Workers,
                        worker'[v].phase = "Succeeded"
                 PROVE  <<v, "code">> \in remote'
    BY DEF SuccessStays
  <2>5. "branch" \notin happened
    BY <2>1, <2>4 DEF Grows
  <2>6. CASE worker[v].phase = "Succeeded"
    BY <2>3, <2>5, <2>6 DEF SuccessStays
  <2>7. CASE v = w /\ Finished(w, x)
    <3>1. worker[w].pc = "pr" /\ UNCHANGED remote /\ <<w, "code">> \in worker[w].local
      BY <2>2, <2>4, <2>7 DEF Finished, github
    <3>2. worker[w].local \subseteq remote
      BY <2>5, <3>1 DEF PushedStays, BranchKept
    <3>3. QED
      BY <2>7, <3>1, <3>2
  <2>8. CASE v = w /\ ~Finished(w, x)
    BY <2>1, <2>2, <2>4, <2>6, <2>8
    DEF RunEffect, Proceeds, EndsFailed, Pushed, Opened
  <2>9. QED
    BY <2>2, <2>4, <2>6, <2>7, <2>8
<1>2. CASE \E i \in DOMAIN prs, state \in PRStates : Decides(i, state)
  BY <1>2 DEF Decides, SuccessStays, failures
<1>3. CASE Launch
  BY <1>3, LaunchFacts, Others DEF SuccessStays, github, failures
<1>4. CASE Retry \/ PodLost
  <2>1. NoWorker.phase = "none"
    BY DEF NoWorker
  <2>2. /\ current \in Workers /\ Becomes(current, NoWorker) /\ happened \subseteq happened'
        /\ UNCHANGED remote
    BY <1>4, StopFacts DEF Grows, github
  <2>3. \A v \in Workers : worker'[v].phase = "Succeeded" => worker'[v] = worker[v]
    BY <2>1, <2>2, Others
  <2>4. QED
    BY <2>2, <2>3 DEF SuccessStays
<1>5. CASE PodForgotten
  BY <1>5 DEF PodForgotten, Fault, SuccessStays, github
<1>6. CASE BranchDeleted
  BY <1>6 DEF BranchDeleted, Fault, SuccessStays
<1>r. CASE \E i \in DOMAIN prs : HumanReopens(i)
  BY <1>r, ReopeningFacts DEF SuccessStays, failures
<1>7. CASE UNCHANGED vars
  BY <1>7 DEF vars, github, failures, SuccessStays
<1>8. QED
  BY <1>1, <1>2, <1>3, <1>4, <1>5, <1>6, <1>7, <1>r, Steps

\* A success is on the branch when it is reported, and no push takes it away.
LEMMA FreshHoldsInductive ==
    ASSUME Sane, Alone, PushedStays, FreshHoldsSuccess, [Next]_vars
    PROVE  FreshHoldsSuccess'
<1>u. \A w \in Workers : worker[w].phase = "Succeeded" => worker[w].url \in DOMAIN prs
  <2>1. \A w \in Workers : worker[w].phase = "Succeeded" => worker[w].url # 0
    BY DEF Sane, Consistent
  <2>2. QED
    BY <2>1, PRFacts
<1>1. CASE \E w \in Workers : Effect(w)
  <2>1. PICK w \in Workers, x \in Worker : RunStep(w, x) /\ RunEffect(w, x) /\ Grows
    BY <1>1 DEF Effect
  <2>2. worker'[w] = x /\ \A v \in Workers : v # w => worker'[v] = worker[v]
    BY <2>1, Others DEF RunStep
  <2>3. remote \subseteq remote' /\ \A i \in DOMAIN prs : prs'[i] = prs[i]
    BY <2>1, RunKeepsPRs
  <2>4. SUFFICES ASSUME BranchKept', NEW v \in Workers, worker'[v].phase = "Succeeded",
                        prs'[worker'[v].url] \in FreshStates
                 PROVE  <<v, "code">> \in remote'
    BY DEF FreshHoldsSuccess
  <2>5. BranchKept
    BY <2>1, <2>4, BranchWasKept DEF Grows
  <2>6. CASE worker[v].phase = "Succeeded" /\ worker'[v].url = worker[v].url
    BY <1>u, <2>3, <2>4, <2>5, <2>6 DEF FreshHoldsSuccess
  <2>7. CASE v = w /\ Finished(w, x)
    <3>1. /\ worker[w].pc = "pr" /\ worker[w].url # 0 /\ x.url = worker[w].url
          /\ UNCHANGED <<remote, prs>> /\ <<w, "code">> \in worker[w].local
      BY <2>2, <2>4, <2>7 DEF Finished, github
    <3>2. worker[w].local \subseteq remote
      BY <2>2, <2>4, <2>5, <2>7, <3>1 DEF PushedStays, FreshStates, OpenStates
    <3>3. QED
      BY <2>7, <3>1, <3>2
  <2>8. CASE v = w /\ ~Finished(w, x)
    BY <2>1, <2>2, <2>4, <2>6, <2>8
    DEF RunEffect, Proceeds, EndsFailed, Pushed, Opened
  <2>9. QED
    BY <2>2, <2>4, <2>6, <2>7, <2>8
<1>2. CASE \E i \in DOMAIN prs, state \in PRStates : Decides(i, state)
  <2>1. PICK i \in DOMAIN prs, state \in PRStates : Decides(i, state)
    BY <1>2
  <2>2. UNCHANGED <<worker, remote, happened>>
    BY <2>1 DEF Decides, failures
  <2>3. \A j \in DOMAIN prs : prs'[j] \in FreshStates => prs[j] \in FreshStates
    BY <2>1, DecisionFacts
  <2>4. QED
    BY <1>u, <2>2, <2>3 DEF FreshHoldsSuccess, BranchKept
<1>3. CASE Launch
  BY <1>3, LaunchFacts, Others DEF FreshHoldsSuccess, BranchKept, github, failures
<1>4. CASE Retry \/ PodLost
  <2>1. NoWorker.phase = "none"
    BY DEF NoWorker
  <2>2. /\ current \in Workers /\ Becomes(current, NoWorker) /\ happened \subseteq happened'
        /\ UNCHANGED <<remote, prs>>
    BY <1>4, StopFacts DEF Grows, github
  <2>3. BranchKept' => BranchKept
    BY <2>2, BranchWasKept
  <2>4. \A v \in Workers : worker'[v].phase = "Succeeded" => worker'[v] = worker[v]
    BY <2>1, <2>2, Others
  <2>5. QED
    BY <2>2, <2>3, <2>4 DEF FreshHoldsSuccess
<1>5. CASE PodForgotten
  <2>1. UNCHANGED <<worker, remote, prs>> /\ happened' = happened \cup {"stray"}
    BY <1>5 DEF PodForgotten, github, Fault
  <2>2. QED
    BY <2>1 DEF FreshHoldsSuccess, BranchKept
<1>6. CASE BranchDeleted
  <2>1. /\ UNCHANGED <<worker, prs>> /\ \A i \in DOMAIN prs : prs[i] \notin FreshStates
    BY <1>6 DEF BranchDeleted, OpenPR, OpenStates, FreshStates
  <2>2. QED
    BY <1>u, <2>1 DEF FreshHoldsSuccess
<1>r. CASE \E i \in DOMAIN prs : HumanReopens(i)
  <2>1. PICK i \in DOMAIN prs : HumanReopens(i)
    BY <1>r
  <2>2. /\ UNCHANGED <<worker, remote, happened>>
        /\ \A j \in DOMAIN prs : prs'[j] \in FreshStates => prs[j] \in FreshStates
    BY <2>1, ReopeningFacts DEF failures, FreshStates
  <2>3. QED
    BY <1>u, <2>2 DEF FreshHoldsSuccess, BranchKept
<1>7. CASE UNCHANGED vars
  BY <1>7 DEF vars, github, failures, FreshHoldsSuccess, BranchKept
<1>8. QED
  BY <1>1, <1>2, <1>3, <1>4, <1>5, <1>6, <1>7, <1>r, Steps

\* A pull request becomes ready while the success that it names is on its branch,
\* and as long as it is open nothing is taken from the branch.
LEMMA ReadyStaysInductive ==
    ASSUME Sane, FreshHoldsSuccess, ReadyHoldsCode, [Next]_vars
    PROVE  ReadyHoldsCode'
<1>1. ASSUME remote \subseteq remote', happened \subseteq happened',
             \A i \in DOMAIN prs' : prs'[i] = "ready" => i \in DOMAIN prs /\ prs[i] = "ready"
      PROVE  ReadyHoldsCode'
  BY <1>1, BranchWasKept DEF ReadyHoldsCode
<1>2. CASE \E w \in Workers : Effect(w)
  <2>1. PICK w \in Workers, x \in Worker : RunStep(w, x) /\ RunEffect(w, x) /\ Grows
    BY <1>2 DEF Effect
  <2>2. \A i \in DOMAIN prs' : prs'[i] = "ready" => i \in DOMAIN prs /\ prs[i] = "ready"
    BY <2>1, RunKeepsPRs
  <2>3. remote \subseteq remote' /\ happened \subseteq happened'
    BY <2>1, RunKeepsPRs DEF Grows
  <2>4. QED
    BY <1>1, <2>2, <2>3
<1>3. CASE \E i \in DOMAIN prs, state \in PRStates : Decides(i, state)
  <2>1. PICK i \in DOMAIN prs, state \in PRStates : Decides(i, state)
    BY <1>3
  <2>2. /\ DOMAIN prs' = DOMAIN prs /\ UNCHANGED <<remote, happened>>
        /\ \A j \in DOMAIN prs : prs'[j] = IF j = i THEN state ELSE prs[j]
    BY <2>1, DecisionFacts DEF Decides, failures
  <2>3. CASE state = "ready"
    <3>1. PICK w \in Workers : worker[w].phase = "Succeeded" /\ worker[w].url = i
      BY <2>1, <2>3 DEF Decides, OpenStates
    <3>2. BranchKept => <<w, "code">> \in remote
      BY <2>1, <2>3, <3>1 DEF Decides, FreshHoldsSuccess, FreshStates, OpenStates
    <3>3. <<w, "code">>[2] = "code"
      OBVIOUS
    <3>4. QED
      BY <2>2, <3>2, <3>3 DEF ReadyHoldsCode, BranchKept
  <2>4. CASE state # "ready"
    BY <1>1, <2>2, <2>4
  <2>5. QED
    BY <2>3, <2>4
<1>4. CASE Launch \/ Retry \/ PodLost \/ PodForgotten
  <2>1. UNCHANGED <<remote, prs>> /\ happened \subseteq happened'
    BY <1>4 DEF Launch, Retry, PodLost, PodForgotten, NoFault, Fault, failures, github
  <2>2. QED
    BY <1>1, <2>1
<1>5. CASE BranchDeleted
  BY <1>5 DEF BranchDeleted, OpenPR, OpenStates, ReadyHoldsCode
<1>r. CASE \E i \in DOMAIN prs : HumanReopens(i)
  <2>1. PICK i \in DOMAIN prs : HumanReopens(i)
    BY <1>r
  <2>2. /\ UNCHANGED <<remote, happened>> /\ DOMAIN prs' = DOMAIN prs
        /\ \A j \in DOMAIN prs' : prs'[j] = "ready" => prs[j] = "ready"
    BY <2>1, ReopeningFacts DEF failures
  <2>3. QED
    BY <1>1, <2>2
<1>6. CASE UNCHANGED vars
  BY <1>1, <1>6 DEF vars, github, failures
<1>7. QED
  BY <1>2, <1>3, <1>4, <1>5, <1>6, <1>r, Steps

\* The URL of the pull request is passed on from worker to worker, so none opens a
\* second one.
LEMMA AllAreKnownInductive ==
    ASSUME Sane, Alone, AllAreKnown, [Next]_vars
    PROVE  AllAreKnown'
<1>1. CASE \E w \in Workers : Effect(w)
  <2>1. PICK w \in Workers, x \in Worker : RunStep(w, x) /\ RunEffect(w, x) /\ Grows
    BY <1>1 DEF Effect
  <2>2. /\ worker'[w] = x /\ \A v \in Workers : v # w => worker'[v] = worker[v]
        /\ Active(w) /\ UNCHANGED <<current, told>>
    BY <2>1, Others DEF RunStep, operator
  <2>3. SUFFICES ASSUME happened' \cap {"kill", "url", "stray"} = {},
                        NEW i \in DOMAIN prs'
                 PROVE  IF current' = 0 THEN told' = i ELSE worker'[current'].url = i
    BY DEF AllAreKnown
  <2>4. w = current /\ w # 0
    BY <2>1, <2>2, <2>3 DEF Alone, Grows, Workers
  <2>5. CASE prs' = prs /\ ~Opened(w, x)
    <3>1. worker[w].url = i
      BY <2>1, <2>3, <2>4, <2>5 DEF AllAreKnown, Grows
    <3>2. x.url = worker[w].url
      BY <2>1, <2>5 DEF RunEffect, Proceeds, EndsFailed, Pushed, Finished
    <3>3. QED
      BY <2>2, <2>4, <3>1, <3>2
  <2>6. CASE Opened(w, x)
    <3>1. i = Len(prs') /\ prs' = Append(prs, "draft") /\ x.url = Len(prs) + 1
      <4>1. i \notin DOMAIN prs
        BY <2>1, <2>3, <2>4, <2>6, PRFacts DEF Opened, AllAreKnown, Grows
      <4>2. QED
        BY <2>1, <2>6, <4>1, RunKeepsPRs DEF Opened
    <3>2. i = Len(prs) + 1
      BY <3>1, PRFacts
    <3>3. QED
      BY <2>2, <2>4, <3>1, <3>2
  <2>7. CASE prs' = Append(prs, "draft") /\ "url" \in happened'
    BY <2>3, <2>7
  <2>8. QED
    BY <2>1, <2>5, <2>6, <2>7 DEF RunEffect, Proceeds, EndsFailed, Pushed, Finished, github
<1>2. CASE \E i \in DOMAIN prs, state \in PRStates : Decides(i, state)
  BY <1>2, DecisionFacts DEF Decides, AllAreKnown, operator, failures
<1>3. CASE Launch
  <2>1. launched' # 0
    BY <1>3, LaunchFacts
  <2>2. QED
    BY <1>3, <2>1, LaunchFacts, Others DEF AllAreKnown, github, failures
<1>4. CASE Retry
  <2>1. /\ current # 0 /\ current \in Workers /\ current' = 0 /\ UNCHANGED prs
        /\ happened \subseteq happened'
        /\ told' = (IF worker[current].url = 0 THEN told ELSE worker[current].url)
    BY <1>4, StopFacts DEF Grows, github, Workers
  <2>2. \A i \in DOMAIN prs : i # 0
    BY PRFacts
  <2>3. QED
    BY <2>1, <2>2 DEF AllAreKnown
<1>5. CASE PodLost \/ PodForgotten
  BY <1>5, StopFacts DEF PodForgotten, Fault, AllAreKnown
<1>6. CASE BranchDeleted
  BY <1>6 DEF BranchDeleted, Fault, operator, AllAreKnown
<1>r. CASE \E i \in DOMAIN prs : HumanReopens(i)
  BY <1>r, ReopeningFacts DEF AllAreKnown, operator, failures
<1>7. CASE UNCHANGED vars
  BY <1>7 DEF vars, operator, github, failures, AllAreKnown
<1>8. QED
  BY <1>1, <1>2, <1>3, <1>4, <1>5, <1>6, <1>7, <1>r, Steps

\* At first there is nothing to keep.
LEMMA InitInductive == Init => Inductive
<1> SUFFICES ASSUME Init PROVE Inductive
  OBVIOUS
<1>1. /\ skills \in SkillSets /\ worker = [w \in Workers |-> NoWorker] /\ NoWorker \in Worker
      /\ launched = 0 /\ current = 0 /\ isRetry = FALSE /\ told = 0
      /\ remote = {} /\ main = {} /\ prs = <<>> /\ happened = {} /\ faults = 0
  BY NoWorkerType DEF Init
<1>2. NoWorker.pc = "off" /\ NoWorker.phase = "none" /\ NoWorker.url = 0
  BY DEF NoWorker
<1>3. DOMAIN prs = {} /\ prs \in Seq(PRStates) /\ Len(prs) = 0
  BY <1>1
<1>4. TypeOK
  <2>1. MaxWorkers \in Nat /\ MaxFaults \in Nat
    BY WorkerBoundsAreNat
  <2>2. launched \in 0..MaxWorkers /\ current \in 0..MaxWorkers /\ faults \in 0..MaxFaults
        /\ told \in 0..Len(prs)
    BY <1>1, <1>3, <2>1
  <2>3. worker \in [Workers -> Worker] /\ \A w \in Workers : worker[w].url \in 0..Len(prs)
    BY <1>1, <1>2, <1>3
  <2>4. QED
    BY <1>1, <1>3, <2>2, <2>3 DEF TypeOK
<1>5. Numbered /\ OneIsOpen
  BY <1>1, <1>2, <1>3 DEF Numbered, OneIsOpen
<1>6. \A w \in Workers : Consistent(w, worker[w])
  BY <1>1, <1>2 DEF Consistent, RunningStages
<1>7. /\ Alone /\ PushedStays /\ SuccessStays /\ FreshHoldsSuccess
      /\ ReadyHoldsCode /\ AllAreKnown
  BY <1>1, <1>2, <1>3
  DEF Alone, Active, PushedStays, SuccessStays, FreshHoldsSuccess, ReadyHoldsCode,
      AllAreKnown
<1>8. QED
  BY <1>4, <1>5, <1>6, <1>7 DEF Inductive, Sane

\* The invariant holds in every state that is reached.
LEMMA InductiveHolds == Spec => []Inductive
<1>1. ASSUME Inductive, [Next]_vars
      PROVE  Inductive'
  BY <1>1, SaneInductive, AloneInductive, PushedStaysInductive, SuccessStaysInductive,
     FreshHoldsInductive, ReadyStaysInductive, AllAreKnownInductive
  DEF Inductive
<1>2. QED
  BY <1>1, InitInductive, PTL DEF Spec

-----------------------------------------------------------------------------
(* The properties *)

\* Every variable keeps its type, and a pull request that a worker or the
\* operator names exists.
THEOREM WorkersTyped == Spec => []TypeOK
<1>1. Inductive => TypeOK
  BY DEF Inductive, Sane
<1>2. QED
  BY <1>1, InductiveHolds, PTL

\* Whatever the order of pushes, failures and replacements of any number of
\* workers, the code of a reported success stays on the branch of the open pull
\* request it names, also while that is closed for a time, unless the branch is
\* deleted then.  (run_task: the push without --force)
THEOREM SuccessIsKept == Spec => []OpenPRHoldsSuccess
<1>1. Inductive => OpenPRHoldsSuccess
  BY DEF Inductive, SuccessStays, FreshHoldsSuccess, FreshStates, OpenPRHoldsSuccess
<1>2. QED
  BY <1>1, InductiveHolds, PTL

\* A pull request that a worker marked ready holds the code of some run.
\* (finalize_task, run_task)
THEOREM OnlyCodeIsReady == Spec => []ReadyHoldsCode
<1>1. Inductive => ReadyHoldsCode
  BY DEF Inductive
<1>2. QED
  BY <1>1, InductiveHolds, PTL

\* As long as no pod was lost and no URL, by a refused label or a lost answer of
\* create_pull, a run knows of the pull request that is open on its branch.  (_handle_incomplete, handleRunning)
THEOREM RetriesKnow == Spec => []RetryKnowsOpenPR
<1>1. ASSUME Inductive, happened \cap {"kill", "url", "stray"} = {},
             NEW w \in Workers, worker[w].pc \notin {"off", "over"},
             NEW i \in DOMAIN prs, prs[i] \in OpenStates
      PROVE  worker[w].url = i
  <2>1. w = current
    BY <1>1 DEF Inductive, Alone, Active
  <2>2. current # 0
    BY <2>1 DEF Workers
  <2>3. QED
    BY <1>1, <2>1, <2>2 DEF Inductive, AllAreKnown
<1>2. Inductive => RetryKnowsOpenPR
  BY <1>1 DEF RetryKnowsOpenPR
<1>3. QED
  BY <1>2, InductiveHolds, PTL

-----------------------------------------------------------------------------
(* The refinement *)

Work == [w \in Workers |-> worker[w].phase]
KnowsPR == {w \in Workers : worker[w].url # 0}
NewestPR == IF prs = <<>> THEN "none" ELSE prs[Len(prs)]

\* How a change of one worker shows.
LEMMA WorkerShows ==
    ASSUME Sane, NEW w \in Workers, NEW x \in Worker, Becomes(w, x)
    PROVE  /\ Work' = [Work EXCEPT ![w] = x.phase]
           /\ KnowsPR' = IF x.url = 0 THEN KnowsPR \ {w} ELSE KnowsPR \cup {w}
<1>1. worker'[w] = x /\ \A v \in Workers : v # w => worker'[v] = worker[v]
  BY Others
<1>2. Work' = [Work EXCEPT ![w] = x.phase]
  BY <1>1 DEF Work
<1>3. \A v \in Workers : v \in KnowsPR' <=> IF v = w THEN x.url # 0 ELSE v \in KnowsPR
  BY <1>1 DEF KnowsPR
<1>4. KnowsPR \subseteq Workers /\ KnowsPR' \subseteq Workers
  BY DEF KnowsPR
<1>5. QED
  BY <1>2, <1>3, <1>4

\* If none is open, the newest pull request, if any, is decided.
LEMMA NewestDecided ==
    ASSUME Sane, ~OpenPR
    PROVE  NewestPR \in {"none", "merged", "closed"}
<1>1. CASE prs = <<>>
  BY <1>1 DEF NewestPR
<1>2. CASE prs # <<>>
  <2>1. Len(prs) \in DOMAIN prs /\ prs[Len(prs)] \in PRStates
    BY <1>2, PRFacts
  <2>2. QED
    BY <1>2, <2>1 DEF NewestPR, OpenPR, OpenStates, PRStates
<1>3. QED
  BY <1>1, <1>2

\* A new pull request is the newest.
LEMMA AppendShows ==
    ASSUME Sane, prs' = Append(prs, "draft")
    PROVE  NewestPR' = "draft"
BY PRFacts DEF NewestPR, PRStates

\* What a run does is a step of the promise, or does not show.
LEMMA RunKeepsPromise ==
    ASSUME Sane, NEW w \in Workers, Effect(w)
    PROVE  [Promise!PromiseNext]_(Promise!promiseVars)
<1> USE DEF Work, KnowsPR, NewestPR
<1>1. PICK x \in Worker : RunStep(w, x) /\ RunEffect(w, x)
  BY DEF Effect
<1>2. /\ Work' = [Work EXCEPT ![w] = x.phase]
      /\ KnowsPR' = IF x.url = 0 THEN KnowsPR \ {w} ELSE KnowsPR \cup {w}
  BY <1>1, WorkerShows DEF RunStep
<1>3. /\ Work[w] = worker[w].phase /\ Work = [Work EXCEPT ![w] = worker[w].phase]
      /\ KnowsPR = IF worker[w].url = 0 THEN KnowsPR \ {w} ELSE KnowsPR \cup {w}
  OBVIOUS
<1>4. x.url = worker[w].url => KnowsPR' = KnowsPR
  BY <1>2, <1>3
<1>5. CASE Proceeds(w, x)
  <2>1. KnowsPR' = KnowsPR /\ NewestPR' = NewestPR
    BY <1>4, <1>5 DEF Proceeds, github
  <2>2. CASE x.phase = worker[w].phase
    BY <1>2, <1>3, <2>1, <2>2 DEF Promise!promiseVars
  <2>3. CASE worker[w].phase = "none" /\ x.phase = "Running"
    <3>1. Promise!Starts(w)
      BY <1>2, <1>3, <2>1, <2>3 DEF Promise!Starts, Promise!Answers
    <3>2. QED
      BY <3>1 DEF Promise!PromiseNext
  <2>4. QED
    BY <1>5, <2>2, <2>3 DEF Proceeds
<1>6. CASE EndsFailed(w, x) /\ prs' = prs
  <2>1. Promise!Ends(w)
    BY <1>2, <1>3, <1>4, <1>6
    DEF EndsFailed, Promise!Ends, Promise!Answers, Promise!Outcomes
  <2>2. QED
    BY <2>1 DEF Promise!PromiseNext
<1>7. CASE EndsFailed(w, x) /\ prs' # prs
  <2>1. Promise!LosesPR(w)
    BY <1>2, <1>3, <1>4, <1>7, NewestDecided, AppendShows
    DEF EndsFailed, Promise!LosesPR, Promise!CanOpenPR, Promise!Answers
  <2>2. QED
    BY <2>1 DEF Promise!PromiseNext
<1>8. CASE Pushed(w, x)
  BY <1>2, <1>3, <1>4, <1>8 DEF Pushed, Promise!promiseVars
<1>9. CASE Opened(w, x)
  <2>1. x.url # 0
    BY <1>9, PRFacts DEF Opened
  <2>2. Promise!OpensPR(w)
    BY <1>2, <1>3, <1>9, <2>1, NewestDecided, AppendShows
    DEF Opened, Promise!OpensPR, Promise!CanOpenPR
  <2>3. QED
    BY <2>2 DEF Promise!PromiseNext
<1>10. CASE Finished(w, x)
  <2>1. Promise!Ends(w)
    BY <1>2, <1>3, <1>4, <1>10
    DEF Finished, github, Promise!Ends, Promise!Answers, Promise!Outcomes
  <2>2. QED
    BY <2>1 DEF Promise!PromiseNext
<1>11. QED
  BY <1>1, <1>5, <1>6, <1>7, <1>8, <1>9, <1>10 DEF RunEffect

\* A pull request that is not the newest does not show.
LEMMA OlderHidden ==
    ASSUME Sane, NEW i \in DOMAIN prs, i # Len(prs), UNCHANGED worker,
           DOMAIN prs' = DOMAIN prs, Len(prs') = Len(prs),
           \A j \in DOMAIN prs : j # i => prs'[j] = prs[j]
    PROVE  UNCHANGED <<Work, KnowsPR, NewestPR>>
<1>1. Len(prs) \in DOMAIN prs /\ prs # <<>> /\ prs' # <<>>
  BY PRFacts
<1>2. NewestPR' = NewestPR
  BY <1>1 DEF NewestPR
<1>3. QED
  BY <1>2 DEF Work, KnowsPR

\* The newest one does.
LEMMA NewestShows ==
    ASSUME Sane, NEW i \in DOMAIN prs, i = Len(prs), UNCHANGED worker,
           DOMAIN prs' = DOMAIN prs, Len(prs') = Len(prs)
    PROVE  NewestPR = prs[i] /\ NewestPR' = prs'[i] /\ UNCHANGED <<Work, KnowsPR>>
<1>1. prs # <<>> /\ prs' # <<>>
  BY PRFacts
<1>2. QED
  BY <1>1 DEF NewestPR, Work, KnowsPR

\* What becomes of a pull request is a step of the promise, or does not show.
LEMMA DecisionKeepsPromise ==
    ASSUME Sane, NEW i \in DOMAIN prs, NEW state \in PRStates, Decides(i, state)
    PROVE  [Promise!PromiseNext]_(Promise!promiseVars)
<1>1. /\ prs[i] \in OpenStates /\ UNCHANGED worker
      /\ DOMAIN prs' = DOMAIN prs /\ Len(prs') = Len(prs)
      /\ \A j \in DOMAIN prs : prs'[j] = IF j = i THEN state ELSE prs[j]
  <2>1. prs[i] \in OpenStates /\ UNCHANGED worker
    BY DEF Decides
  <2>2. QED
    BY <2>1, DecisionFacts
<1>2. CASE i # Len(prs)
  <2>1. UNCHANGED <<Work, KnowsPR, NewestPR>>
    BY <1>1, <1>2, OlderHidden
  <2>2. QED
    BY <2>1 DEF Promise!promiseVars, Work, KnowsPR, NewestPR
<1>3. CASE i = Len(prs) /\ state \in OpenStates
  <2>1. PICK w \in Workers : /\ state = "ready" /\ prs[i] = "draft"
                             /\ worker[w].phase = "Succeeded" /\ worker[w].url = i
    BY <1>3 DEF Decides
  <2>2. worker[w].url # 0
    BY <2>1, PRFacts
  <2>3. NewestPR = "draft" /\ NewestPR' = "ready" /\ UNCHANGED <<Work, KnowsPR>>
    BY <1>1, <1>3, <2>1, NewestShows
  <2>4. Promise!Finalized(w)
    BY <2>1, <2>2, <2>3 DEF Promise!Finalized, Work, KnowsPR, NewestPR
  <2>5. QED
    BY <2>4 DEF Promise!PromiseNext
<1>4. CASE i = Len(prs) /\ state \notin OpenStates
  <2>1. /\ NewestPR \in {"draft", "ready", "reopened"} /\ NewestPR' \in {"merged", "closed"}
        /\ UNCHANGED <<Work, KnowsPR>>
    BY <1>1, <1>4, NewestShows DEF OpenStates, PRStates
  <2>2. Promise!Decided
    BY <2>1 DEF Promise!Decided, Work, KnowsPR, NewestPR
  <2>3. QED
    BY <2>2 DEF Promise!PromiseNext
<1>5. QED
  BY <1>2, <1>3, <1>4

\* So is one that is opened again.
LEMMA ReopeningKeepsPromise ==
    ASSUME Sane, NEW i \in DOMAIN prs, HumanReopens(i)
    PROVE  [Promise!PromiseNext]_(Promise!promiseVars)
<1>1. /\ prs[i] = "closed" /\ UNCHANGED worker
      /\ DOMAIN prs' = DOMAIN prs /\ Len(prs') = Len(prs)
      /\ \A j \in DOMAIN prs : prs'[j] = IF j = i THEN "reopened" ELSE prs[j]
  <2>1. prs[i] = "closed"
    BY DEF HumanReopens
  <2>2. QED
    BY <2>1, ReopeningFacts
<1>2. CASE i # Len(prs)
  <2>1. UNCHANGED <<Work, KnowsPR, NewestPR>>
    BY <1>1, <1>2, OlderHidden
  <2>2. QED
    BY <2>1 DEF Promise!promiseVars, Work, KnowsPR, NewestPR
<1>3. CASE i = Len(prs)
  <2>1. NewestPR = "closed" /\ NewestPR' = "reopened" /\ UNCHANGED <<Work, KnowsPR>>
    BY <1>1, <1>3, NewestShows
  <2>2. Promise!Reopened
    BY <2>1 DEF Promise!Reopened, Work, KnowsPR, NewestPR
  <2>3. QED
    BY <2>2 DEF Promise!PromiseNext
<1>4. QED
  BY <1>2, <1>3

\* A pod that is created or lost replaces a worker.
LEMMA PodKeepsPromise ==
    ASSUME Sane, Launch \/ Retry \/ PodLost
    PROVE  Promise!PromiseNext
<1> USE DEF Work, KnowsPR, NewestPR
<1>1. ASSUME NEW w \in Workers, NEW x \in Worker, Becomes(w, x), x.phase = "none", UNCHANGED prs
      PROVE  Promise!PromiseNext
  <2>1. Promise!Replaced(w)
    BY <1>1, WorkerShows DEF Promise!Replaced, Promise!Answers
  <2>2. QED
    BY <2>1 DEF Promise!PromiseNext
<1>2. CASE Launch
  BY <1>1, <1>2, LaunchFacts DEF github
<1>3. CASE Retry \/ PodLost
  <2>1. NoWorker.phase = "none"
    BY DEF NoWorker
  <2>2. QED
    BY <1>1, <1>3, <2>1, StopFacts DEF github
<1>4. QED
  BY <1>2, <1>3

\* The detailed run, with the branch and its pull requests, keeps the promise
\* that the operator's model takes its workers from: among others, that only
\* what a succeeded worker made is offered for review, that no run ends well
\* without a pull request, and that a branch has one open pull request at most.
THEOREM WorkersKeepPromise == Spec => ImplementsPromise
<1>1. Init => Promise!PromiseInit
  <2>1. NoWorker.phase = "none" /\ NoWorker.url = 0
    BY DEF NoWorker
  <2>2. QED
    BY <2>1 DEF Init, Promise!PromiseInit
<1>2. ASSUME Inductive, [Next]_vars
      PROVE  [Promise!PromiseNext]_(Promise!promiseVars)
  <2>1. Sane
    BY <1>2 DEF Inductive
  <2>2. CASE \E w \in Workers : Effect(w)
    BY <2>1, <2>2, RunKeepsPromise
  <2>3. CASE \E i \in DOMAIN prs, state \in PRStates : Decides(i, state)
    BY <2>1, <2>3, DecisionKeepsPromise
  <2>r. CASE \E i \in DOMAIN prs : HumanReopens(i)
    BY <2>1, <2>r, ReopeningKeepsPromise
  <2>4. CASE Launch \/ Retry \/ PodLost
    BY <2>1, <2>4, PodKeepsPromise
  <2>5. CASE PodForgotten \/ BranchDeleted \/ UNCHANGED vars
    <3>1. UNCHANGED <<worker, prs>>
      BY <2>5 DEF PodForgotten, BranchDeleted, vars, github
    <3>2. QED
      BY <3>1 DEF Promise!promiseVars
  <2>6. QED
    BY <1>2, <2>1, <2>2, <2>3, <2>r, <2>4, <2>5, Steps
<1>3. QED
  BY <1>1, <1>2, InductiveHolds, PTL DEF Spec, ImplementsPromise, Promise!PromiseSpec
=============================================================================
