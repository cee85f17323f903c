# BulletFarm in TLA+

A verification project for BulletFarm (`src/`): a Kubernetes operator that runs
coding agents. A user creates an *AgentTask*; the operator spawns a worker pod
for it, polls the worker over HTTP, waits for a human to merge or close the
pull request the worker opened, then moves the task's memory into the shared
index and tears the pod down. Failed attempts are retried on the same branch
and pull request.

Paths are relative to `src/`; `controller` is
`operator/internal/controller/agenttask_controller.go`.

## 1. The system

| Part | State it keeps | Operations |
|---|---|---|
| **AgentTask controller** (`controller`) | none of its own: `AgentTask.status` in the API server, pods, the manager's informer caches and work queue | `Reconcile` and its handlers `handlePending`, `handleRunning`, `handleFailed`, `handleWaitingForPR`; `cleanupWorkerPod`, `updateAgentStatus`, HTTP calls to the worker |
| **Agent controller** (`operator/internal/controller/agent_controller.go`) | `Agent.status` (ready, activeTasks, runningTasks) | `Reconcile`: lists the tasks, writes the status |
| **Worker HTTP service** (`worker/src/main.py`) | `_task_statuses`, in memory, lost with the pod | auto-start from `TASK_PAYLOAD`; `/status`, `/finalize`, `/pr-status`, `/graduate`, `POST /tasks` |
| **Worker run** (`worker/src/agent.py`) | workspace clone, branch, the write buffer | `run_task`: clone, gather context, run the LLM agent, evaluate, commit and push, open or update the pull request, write memory; `_handle_incomplete` |
| **GitHub tools** (`worker/src/github_tools.py`) | none: the repository, its branches and pull requests on GitHub | `create_draft_pr`, `mark_pr_ready`, `get_pr_status`, `comment_on_pr` |
| **Memory store** (`worker/src/memory.py`) | `task_memory` and `shared_memory` in Elasticsearch; `MemoryWriteBuffer` | buffered bulk writes, `graduate_to_shared`, `delete_task_memory`, `unified_search` with its fallback ladder |
| Operator start-up (`operator/cmd/main.go`), API types, manifests | configuration | wiring only |

How they interact. The operator and the workers share nothing but HTTP: the
operator polls, the worker never calls back. The two controllers share the API
server and one informer cache. A worker names its pull request to the operator
only in its final answer; the operator hands it to the next attempt in the
pod's `TASK_PAYLOAD`. Humans act on GitHub, unseen until the next poll.

What is hard:

- a reconcile reads from caches, then acts on pods, workers and GitHub, and
  only then does a status update check its `resourceVersion`;
- every action of a reconcile may be its last: crash, failed call, lost answer;
- several updates drop their error and return without asking to be called again;
- pods die while their worker's answer has not been read;
- memory is written, graduated and deleted in steps that fail one by one.

The hazards are listed one by one, with their lines, in `PROJECT.json`.

What makes each part correct:

- *AgentTask controller*: the status moves along the life cycle drawn above
  `Reconcile`; retries stay within the budget; one worker at a time on the
  branch; nothing is forgotten; a terminal phase tells the truth about the pull
  request; memory is graduated before the pod goes; every task comes to rest.
- *Agent controller*: `runningTasks` converges to the tasks that run and never
  goes back to an older view.
- *Worker*: a success names a pull request that holds its commits; one pull
  request per branch; an incomplete run is never reported as a success.
- *Memory store*: task memory is deleted only after what is worth keeping has
  been shared; nothing is shared twice; failed work is not shared.
- *Retrieval*: each level of the ladder is tried in order and at most once; the
  agent's run never fails because of retrieval.

## 2. Modules

| Module | What it is |
|---|---|
| `TaskTypes` | phases (`Unset` is the empty string, of a task not looked at yet), the retry budget (`CanRetry`, `MaxRetries`, `RetryCounts`) |
| `TaskLifecycle` | the abstract specification: what the operator promises of one task |
| `AgentTaskController` | the detailed specification: the controller of one task with the pods, workers, pull request, memory, caches, queue and humans it works with |
| `MCAgentTaskController` | the sets of failures the runs choose from |
| `WorkerPromise` | the abstract specification of a task's workers and pull request: what the operator may expect of them |
| `WorkerRun` | the detailed specification: how each worker starts, clones, runs the agent, commits, pushes, opens the pull request and answers |
| `MCWorkerRun` | the skills a task may come with |
| `WorkerRunProofs` | theorems about `WorkerRun` for all constants, its refinement of `WorkerPromise` among them |
| `AgentTaskControllerProofs` | theorems about `AgentTaskController` for all constants: types, coherence, the refinement of `TaskLifecycle` |
| `AgentTaskWorkersProofs` | what a status says of its worker is true, whatever fails |
| `AgentTaskFaultsProofs` | what else holds as long as certain things do not fail |
| `AgentTaskContractsProofs` | what the models of a run and of the memory take for granted of the controller |
| `AgentStatus` | the status of one Agent and the two controllers that write it |
| `MCAgentStatus`, `AgentStatusProofs` | its instance for TLC and its theorems |
| `MemoryStore` | the documents of one task in Elasticsearch, from a run's buffer to graduation |
| `MCMemoryStore`, `MemoryStoreProofs` | its sets of faults and its theorems |
| `Retrieval`, `MCRetrieval` | one `unified_search` and its ladder; its instance for TLC |
| `RetrievalProofs` | theorems about the ladder and the merge for all constants |

How they are composed. `WorkerPromise` is the contract between operator and
worker, and both sides are held to it. `AgentTaskController` does not model a
run: it takes its workers' steps from `WorkerPromise` (`Promise!Starts`,
`Promise!OpensPR`, `Promise!LosesPR`, `Promise!Ends`), so whatever it shows holds for
any worker that keeps the promise. `WorkerRun` models the run and keeps the
promise (`ImplementsPromise`), with the operator reduced to what it does to a
worker: launch, replace, finalize. That the real one does no more is `KeepsPromise` of
`AgentTaskController`: all it does to a worker's answer, its URL and its pull
request is `Replaced` and `Finalized`; humans decide on the pull request and open a closed
one again (`Decided`, `Reopened`).

`MemoryStore` and `Retrieval` stand beside them. `AgentTaskController` has graduation
as one step; `MemoryStore` takes it apart, and takes from the controller that runs follow
one another, that only a worker that has succeeded is asked to graduate, once its pull
request was merged or closed, and that no run starts after that. This premise is the
controller's `GraduationComesLast`, which holds as long as the pod cache keeps up. In both
modules humans may open a closed pull request again, also between the poll and the request
it leads to: `GraduateTask` stands for both, and what humans do after the poll follows it. A
run that composes the two is left in the plan. `WorkerRun` takes from `Retrieval` that a search
returns and never raises, which `CompleteAnswer` and `AlwaysReturns` show.

### TaskLifecycle

Three variables: `phase`, `retryCount`, `hasPR` (the status names a pull
request). Its actions are the arrows of the diagram in `Reconcile`'s comment
and nothing else. Two of its guards carry the promises: `Retry` needs budget
left and keeps the pull request, `Await` (waiting for, or having seen, a merge)
needs a named pull request.

### AgentTaskController

*One task, all its attempts.* `handlePending` names a pod by the retry count, so
`Attempts` are the retry counts and `pod`, `work`, `knowsPR` are indexed by
them.

*State.* `task` is `AgentTask.status`; `cache` is the informer's copy and `cacheFresh`
says whether that copy has the current `resourceVersion` (it is the only thing an update
asks of it). `pod` and `deleting` are the pods in the API server, `seen` the informer's
copy. `work` is what `GET /status` answers, `knowsPR` the attempts whose worker holds the
pull request's URL (from its payload or because it opened it), `deaf` the attempts whose
worker was given no skill and refuses its payload (section 3): each time a pod is created
`PayloadSkills` leaves open whether the Agent and the task name one. `pr` is the branch's
pull request; `reopened` is one that a human closed and opened again, as a draft or not.
`queued` and `delay` are the work queue and the delaying queue for the task's key. `op` is
the reconcile in progress.

*Atomicity.* A handler is cut at each call out of the process: reading the task
(`Dequeue`), creating the pod (`CreatePod`), asking the worker (`QueryAnswered`,
`PRQueryAnswered` or their failures), `Finalize`, `Graduate`, deleting the pod
(`Cleanup`, `CleanupLast`) and the status update (`Update`, `CloseWithoutPR`).
What the handler computes in between goes with the step before. Everything else
interleaves at those points. Controller-runtime never runs two reconciles of one
key at once, so there is one `op`.

| Code (`controller`) | Actions |
|---|---|
| `Reconcile` 103-122, 133-135 | `Dequeue`, `Initialize`, `ReconcileTerminal` |
| `handlePending` 145-215 | `PendingNoAgent`, `PendingLaunch`, `CreatePod`, `Update` |
| `handleRunning` 217-339 | `RunningPodLost`, `RunningPodSucceeded`, `RunningPodNotReady`, `RunningPodReady`, `QueryFails`, `QueryAnswered`, `Finalize`, `Update` |
| `handleFailed` 491-552 | `FailedRetry`, `FailedForGood`, `Cleanup`, `Update` |
| `handleWaitingForPR` 357-442 | `WaitingWithoutPR`, `CloseWithoutPR`, `CleanupLast`, `WaitingPodLost`, `WaitingPodReady`, `PRQueryFails`, `PRQueryAnswered`, `Graduate`, `Cleanup`, `Update` |
| `cleanupWorkerPod` 555-570 | `DeletePod`, used by `Cleanup` and `CleanupLast` |
| controller-runtime, informers | `Return`, `TaskEvent`, `PodEvent`, `DelayExpires`, `Crash` |
| Kubernetes | `WriteStatus`, `StatusStored`, `StatusConflict`, `StatusCallFails`, `KubeletStarts`, `KubeletRemoves`, `PodDies`, `EditSpec` |
| worker | `WorkerStarts`, `WorkerOpensPR`, `WorkerLosesPR`, `WorkerEnds`, `MarkReady`, `ReportedPRState`, `GraduateMemory` |
| reviewers | `HumanMarksReady`, `HumanMerges`, `HumanCloses`, `HumanReopens` |

*Dropped errors.* `Save(pc, status, result, onError)` records how the reconcile
returns when its update succeeds and when it does not; where the code writes
`_ = r.Status().Update(...)` the two are the same.

*Events.* A write of the task and any change of a pod it owns put the key back
in the queue. So does a pod's deletion timestamp, as an event of its own or
merged with the removal. Of two delayed adds of one key the queue keeps the
earlier one; as time is not modelled, either may survive.

*Failures* are counted in `faults` and chosen by the constant `Faults`; the kinds
are named in the module. A fault can hit before or after the effect of a call.

*Left out*: messages, progress, timestamps, failure reasons; the contents of the
pod; the reset of an unknown phase; deletion of
the AgentTask; cache reads that fail with anything but NotFound; the informers'
resync every few hours, which would hide that nothing else wakes a task up.

### AgentStatus

Two writers, `AgentReconciler.Reconcile` and `updateAgentStatus` of the AgentTask
controller, do the same three things: read the Agent (`Get`), list the tasks
(`List`), write the status (`Update`). Both read the caches of one process.

*State.* `history` is the sequence of sets of active (Pending or Running) tasks
the API server has held and `seen` how much of it the task cache holds; a list
made from the cache carries that number as `asOf`, which is how the
specification knows which of two lists is older. `cached` says whether the
operator's copy of the Agent is absent, stale or current, `writer[w].fresh`
whether the copy a writer took still is. `due` is the Agent's key in the work
queue. `owed` is the task the AgentTask controller has answered for but not
saved: at line 324 of `controller` it updates the Agent before the task.

| Code | Actions |
|---|---|
| `agent_controller.go` 44-81 | `Reconcile`, `Get`, `GetNotFound`, `List`, `Update` with `ComeBack` |
| `controller` 573-608 | `UpdateAgentStatus`, `Get`, `GetNotFound`, `List`, `Update` |
| its callers | `TaskSaved` (task first), `TaskAnswered` then `TaskSavedAfter` (Agent first), `TaskAdmitted` (no update at all) |
| API server, informers | `StatusStored`, `StatusConflict`, `StatusCallFails`, `AgentEvent`, `TaskEvent`, `Crash` |

The Agent controller watches Agents only (line 86), so `TaskEvent` wakes nothing
up; `ComeBack` is its `RequeueAfter`.

### MemoryStore

*State.* A document is its kind: `Running` (a checkpoint), `Succeeded`,
`Incomplete`, `Failed` in `task_memory`, `Result` (written by the run),
`GraduatedMerged` and `GraduatedClosed` in `shared_memory`. `taskMemory` and
`shared` count them, `buffer` is the run's `MemoryWriteBuffer`, `call` the
graduate request in progress with the state of the pull request the operator had
seen and the outcome that will be shared. Searches see the index as of its last
refresh, up to a second old; a search that does is a fault of kind `lag`, which
finds no result, or finds one that was stored once. `happened` (the kinds of
faults so far) and `recorded` (a succeeded run's result was stored) are auxiliary:
the properties name the faults each of them survives.

| Code | Actions |
|---|---|
| `agent.py` 302-317, 507-527, 746-853, 950-982 | `RunTask`, `IntermediateFlush`, `RunSucceeds`, `RunIncomplete`, `RunFails` |
| `memory.py` 114-175, 645-727 | `Add`, `BulkWrite` |
| `main.py` 194-219, `memory.py` 565-638 | `GraduateTask`, `GetPRStatus`, `GetTaskResult`, `StoreSharedKnowledge`, `DeleteTaskMemory` |
| pod, reviewers | `WorkerGone`, `HumanDecides` |

`BulkWrite` never fails: it stores all documents or, with a fault, those of some
kinds, and leaves the buffer as it was, because nothing calls `clear`. A request
is cut at its calls to GitHub and Elasticsearch, and the pod may die at each cut
(the operator deletes it when its own call times out after 30 s). A delete by query
may fail halfway, or leave documents the index has not been refreshed for.

*Left out*: the contents of documents; index creation and mappings; the client's
own retries of a bulk write; the memory of a task that fails for good, which
nothing ever deletes.

### WorkerPromise and WorkerRun

*Promise.* A worker answers `none` (404), `Running` or one of the three outcomes.
It succeeds, or ends incomplete, only with the URL of a pull request; it opens one
only if the branch has none open; only a succeeded worker's draft becomes
ready. A worker's pod may come and go at any time (`Replaced`), and a human may open a
closed pull request again (`Reopened`).

*State of `WorkerRun`.* `worker[w]` is the process of the `w`-th pod of the task: its
stage `pc`, what its payload said (`isRetry`, `url`), the answer of `/status`
(`phase`), its clone (`local`, the commits reachable from its branch), whether the
workspace differs from HEAD (`dirty`), the attempt and step of the agent's loop and
the loop's last message, from which alone `run_task` reads which tools were called.
The branch on GitHub is the set of commits reachable from it (`remote`), `main` those
of them that a merge put into the default branch, `prs` the branch's pull requests in
the order they were opened. `current`, `isRetry` and `told` are what the operator
keeps between two pods. Whether it has read an answer is left open: `PodLost` and
`PodForgotten` may befall a worker at any stage, also one whose success nobody has read
(`handleRunning` asks for the pod before it asks the worker).

| Code | Actions |
|---|---|
| `main.py` 65-98, `controller` 782-798 | `Lifespan`, with `PayloadParses` |
| `agent.py` 318-396, 397-448 | `Clone`, `GatherContext` |
| `agent.py` 479-591, tools 54-255 | `AgentCallsTool`, `AgentStops`, `RateLimited`, `AgentRaises` |
| `agent.py` 604-671 | `Evaluate`, with `TaskIncomplete` |
| `agent.py` 673-696, 879-919 | `Commit`, `CommitAnalysis`, `Push` |
| `agent.py` 698-744, 920-982, `github_tools.py` 57-101, 208-227 | `CreateDraftPR`, `Finish` |
| `agent.py` 815-853 | `Fails`: whatever was raised (`GitFails`, `GitHubFails`, and every refusal) |
| `main.py` 141-168, `github_tools.py` 133-171 | `Finalize` |
| `controller` 158-187, 222-244, 491-532 | `Launch`, `Retry`, `PodLost`, `PodForgotten` |
| reviewers | `HumanMerges`, `HumanCloses`, `HumanReopens`, `BranchDeleted` |

Git is modelled by what the run relies on: `commit` fails with nothing to commit, a
push that is not a fast-forward is refused, a failed push may have arrived. GitHub
refuses a second open pull request of a branch and one without commits of its own, and
opens none again beside another or without its branch. Fault `url` is a pull request that
exists while its URL is lost: its label is refused (`github_tools.py:98`), as every label of
more than 50 characters is, or the answer of `create_pull` does not arrive.
A rate limit starts the loop over on the workspace as it is. The only URL a worker
learns is that of its payload or of the pull request it opened itself.

*Left out*: contents (two different edits are both "dirty"; a code edit may also undo
one); memory writes, which never raise (`MemoryStore`); `POST /tasks`, which nothing
calls; progress.

### Retrieval

`level` is the rung of the ladder, `done` the indices it has searched, `found` their
hits, `asked` every search made. What Elasticsearch answers is any list of at most
`size` hits in descending order of score. An error is retryable or permanent
(`is_retryable_error`); only the first level looks at which it is. In version 8 of
the client an HTTP status such as 429 or 503 is an `ApiError`, not a
`TransportError`, and so permanent. The search's own `timeout=250ms` makes no error:
Elasticsearch then answers with what it has.

| Code (`memory.py`) | Definitions |
|---|---|
| 193-217 | `MergeAndRank`, against `BestHits` as its reference |
| 340-363, 375-377 | `Enabled`, `DisabledSearch` |
| 379-417 | `GivesUp`, `NextLevel`, `ReturnNothing`, `SearchFails` |
| 419-501, 503-563 | `Due`, `Asks`, `Searched` |

*Left out*: the queries themselves and the words they match; the check that the
indices exist, which swallows its errors (`_ensure_index`, 260-266) and so never ends a level.

## 3. Runs

`CHECK_DEADLOCK FALSE` in all runs but one: a settled task, a finished run and a
search that has returned are really at rest. An Agent never is, and its run checks
deadlock.

| Run | Instance | Shows |
|---|---|---|
| `world` | 1 retry, 2 failures of anything outside API calls | `TypeOK`, `Coherent`, `NoStrayWorker`, `WaitingWorkerSucceeded`, `MergedMeansMerged`, `WorkerHoldsPR`, `NotParked`, `GraduationComesLast`, `ImplementsLifecycle`, `KeepsPromise` |
| `controlplane` | `maxRetries: 0` (two retries), 2 failures of API calls, restarts, edits, missing agents | `OverMeansGraduated`, `WaitingMeansReady`, `RetryHoldsOpenPR`, `ImplementsLifecycle` |
| `lag` | 1 retry, no failure, pod cache lags | `NotParked`, `WaitingWorkerSucceeded` |
| `liveness` | 1 retry, 1 failure outside API calls, fairness | `ComesToRest`, `DecisionEndsTask`, `FailedIsRetried`, `PodsReleased` |
| `agent_writers` | 2 tasks, 3 changes of the active ones, 1 failure, fairness | `ListsKeepUp`, `NoRegression`, `Converges` |
| `memory_graduation` | 2 runs, 2 checkpoints, 2 requests, 2 faults of any kind, fairness | `NothingLost`, `GraduatedOnce`, `OnlySuccessGraduates`, `DeletedMeansDeleted`, `MergedIsTold`, `EventuallyForgotten` |
| `worker` | 3 workers, 1 fault of any kind, 1 round of tools per attempt, no skill, one that reads, one that edits; fairness | `TypeOK`, `OpenPRHoldsSuccess`, `ReadyHoldsCode`, `RetryKnowsOpenPR`, `EveryLaunchIsAnswered`, `ImplementsPromise` |
| `retrieval` | 4 and 2 hits, 3 scores; fairness | `BestHits`, `CompleteAnswer`, `LadderClimbed`, `NeverAsksTwice`, `AlwaysReturns` |

The first four rows are runs of `MCAgentTaskController`.

Bounds. One retry is enough for two attempts to overlap, to hand the pull request over and
to exhaust the budget; `controlplane` adds a third attempt. Two failures allow a failure
during the recovery from another one. There is no bound on time, on the number of
reconciles, or on what humans do: in every model a closed pull request may be opened
again. `MaxChanges = 3` lets a task become active between the two reads of either writer
and end again before the write, with the other writer in between. In `MemoryStore` two
runs let a failed run's documents lie beside a succeeded one's, two checkpoints let one be
stored twice, two requests are a graduation and its repetition. In `WorkerRun` three
workers are a run whose success is on the branch, one that was taken for lost and a third
on the same branch; one round of tools per attempt reaches the step limit and, with three
attempts, edits before and after a rate limit (the bound of 50 in the code only adds
rounds). In `Retrieval` the limits are smaller than the hits of both indices together, and
three scores allow ties within and across the indices.

Each passing property has a mutant in the modules (marked `Mutant`), a plausible
bug in the code it watches, that breaks it.

### Where the code does not do what is written

Four runs show a statement of the docs or comments violated; `PROJECT.json`
quotes them under `findings`.

| Run | What happens |
|---|---|
| `closed` | No failure needed: merged pull request, memory graduated, pod deleted; the status update conflicts because the task was read from a cache behind the operator's own write; the next reconcile finds no pod and saves `Closed`. |
| `stray` | The pod just created is not in the pod cache yet: the task fails with `pod_disappeared`, cleanup reads the same cache and deletes nothing, the retry starts a second worker on the branch. |
| `lostpr` | The pod dies after the pull request is opened and before the next poll: the retry does not know of it. |
| `memory_unread` | The search for the result fails once: `None` is taken for no result, the memory is deleted and nothing is shared. |

Met while modelling, each a matter of one step that needs no run to show:

- `worker/README.md:235` says the worker "automatically parses this and starts the task on
  boot". If neither the agent nor the task names a skill, `mergeSkills` leaves its slice
  nil, Go marshals `"skills": null`, `payload.get("skills", [])` passes the null on and
  `TaskRequest` refuses it (`main.py:85`): the task is never started and `/status`
  answers 404 to a poll that never gives up (268-271 of `controller`). Both modules have
  it: `ComesToRest` names it as a place where a task may come to rest (`PollsDeafWorker`,
  without which TLC finds the task that is polled for ever), and `EveryLaunchIsAnswered` is
  about tasks with skills.
- `controller` line 534 says "Backoff before retry: 30s * retryCount", but the event of
  the controller's own status update enqueues the task at once, so the retry is
  launched without a wait.
- The intermediate flush (`agent.py:507-527`) neither clears the buffer nor moves
  `last_flush_time`: from the fifth minute on every tool call stores all earlier
  checkpoints again, and so does the final flush. `worker/README.md:41-42` promises one
  bulk operation and an optional checkpoint.
- `worker/README.md:239` says a run without real changes is marked `Incomplete`. If the
  model's last message asked for an edit (`MeaningfulTools`) and the workspace is
  unchanged, `git commit` fails and the run ends `Failed`; so does an incomplete retry
  whose analysis is the same text as the one on the branch.
- The comment on an incomplete pull request recommends "Close this PR or retry"
  (`agent.py:949`); after closing it, the retry still pushes to its branch, comments
  on it and reports success for it (`agent.py:717-724`).
- No event tells of a pull request. One that is closed and opened again between two polls
  does not end its task, and one that is opened again between the poll and the graduation
  is still graduated as closed and its pod deleted (388-431). `DecisionEndsTask` and
  `GraduationComesLast` allow for it.
- `memory.py` and the READMEs speak of a query that times out and is retried after
  250 ms; a search that takes longer answers with part of the hits and is not retried.

### What the passing properties exclude

Some properties hold only in instances without one cause, which the code does not
handle; the passing runs show, and for the first seven the theorems prove, that nothing *else*
breaks them.

| Property | Excluded cause |
|---|---|
| `NoStrayWorker` | a pod cache that lags (`stray`); a `Delete` of a pod that fails, which line 565 of `controller` logs and forgets |
| `NotParked` | an update whose call fails where the error is dropped and `Result{}` returned (253, 366, 380, 549): nothing enqueues the task before the resync of hours |
| `MergedMeansMerged` | a pod cache that lags: a worker it left behind (`stray`) opens another pull request once the task's own is merged |
| `OverMeansGraduated` | a `/graduate` call that fails: `graduateWorker` drops the error and the pod is deleted next (404-431); a pod that is evicted: there is nobody left to graduate; a pod cache that lags: the stray worker writes to the memory after the graduation |
| `WaitingMeansReady` | a `/finalize` call or its GitHub call that fails: the task waits for the review of a draft (291); a pod that is evicted before that call; a pod cache that lags: the stray worker opens a draft after the merge |
| `RetryHoldsOpenPR` | a pod or GitHub call that fails (`lostpr`); a pod cache that lags: the stray worker opens the pull request, and the retry does not know |
| `GraduationComesLast` | a pod cache that lags: the stray worker's run goes on beside the retry's and beside the review |
| `ComesToRest`, `DecisionEndsTask`, `FailedIsRetried`, `PodsReleased` | failing API calls, as for `NotParked` |
| `ComesToRest` | a worker without skills, which is polled for ever (`PollsDeafWorker`); an Agent that stays away: a missing Agent is a fault and faults are bounded, while `handlePending` would ask for it for ever (151-156) |
| `DecisionEndsTask` | a human who opens the pull request again before the next poll |
| `GraduationComesLast`, `WaitingMeansReady` | a human who opens a closed pull request again: a graduation may be asked for one that is open by now, and it may come back as a draft |

For the first seven TLC finds a counterexample as soon as one of these causes is let in,
with one retry and one fault of that kind (or none, with only the lag): the theorems of
section 4 cannot do without their hypotheses.

The properties of `WorkerRun` name what they exclude, too: `OpenPRHoldsSuccess` and
`ReadyHoldsCode` a worker that was taken for lost and still runs together with a branch
that was deleted (`BranchKept`: the stray worker then recreates the branch from a clone
that lacks the success), `RetryKnowsOpenPR` a pod that is lost, a URL that is lost (fault
`url`) or a stray worker, the cases of `lostpr`. A pull request that was closed and is
opened again is open like any other to them, but its branch may have been deleted and
pushed anew meanwhile: `OpenPRHoldsSuccess` excludes a deleted branch for it, and
`ReadyHoldsCode` speaks of those that nobody has closed. The exception `BranchKept`
needs two faults and lies outside the bound of the run; it is stated so that the
properties are true of the code and not only of the instance, and the proofs, which have
no bound, need it.

The properties of `MemoryStore` name what they exclude: `NothingLost` a search that
fails (`memory_unread`) or sees an old index (`memory.py:584`; a retry that
succeeds on a pull request merged meanwhile is graduated within that second),
`MergedIsTold` a pull request that cannot be read again (any state but merged
becomes "closed without merge", `memory.py:618`), `DeletedMeansDeleted` a failed
delete (the answer of `main.py:216` only says whether the result was shared), and
`GraduatedOnce` a failed store or delete, or an old index that still shows the deleted
result, after which the next request shares again.

### Fairness

`FairSpec` asks weak fairness of: the operator's loop (`Dequeue`, `Step`), the informers
(`TaskEvent`, `PodEvent`), the delaying queue (`DelayExpires`), the kubelet
(`KubeletStarts`, `KubeletRemoves`) and the worker (`WorkerStarts`, `WorkerEnds`; one
without skills cannot start, and nothing is asked of it). The operator's are goroutines of
the manager that run as long as the process does, and a crash restarts it. `WorkerEnds`
holds because the run is bounded by `max_agent_steps` and `max_llm_retries`
(`worker/src/agent.py:479-480`), leaving aside a git or LLM call that never returns.
Nothing is asked of humans, and no worker is assumed to succeed. `QueryFails` is possible
while the run blocks the worker's event loop; once the run has ended only a failure makes
a poll fail, so weak fairness of the operator suffices.

`AgentStatus!FairSpec` asks weak fairness of the Agent controller's steps and of
the two informers, and of nothing in the AgentTask controller: `Converges` holds
even if it never saves another task. `MemoryStore!FairSpec` asks that a worker
goes on with a request it has begun, which a pod that is not killed does;
`EventuallyForgotten` excludes the pods that are. `WorkerRun!FairSpec` asks that a run
goes on: git and GitHub answer in the end (their calls have no timeout of their own) and
the model ends each of its turns; `EveryLaunchIsAnswered` then rests on the step limit and the
three attempts. It asks that the process of a pod starts, not that a pod is launched.
`Retrieval!FairSpec` asks that the client's requests end, which its own timeout sees to.

## 4. Proofs

`AgentTaskControllerProofs` proves, for every integer `SpecMaxRetries`, every set
of failures, every `MaxFaults` and either value of `PodCacheLag`:

- `TypeCorrect`: `Spec => []TypeOK`. `TypeOK` is inductive by itself. Its heart is
  that a retry count stays in `RetryCounts`: `FailedRetry` counts only under
  `CanRetry`.
- `AlwaysCoherent`: `Spec => []Coherent`. Coherence says that while the
  resourceVersion a reconcile has read is current, the status it holds is the
  stored one until it starts preparing an update, and afterwards is one `Moves`
  step from it. It is inductive given `TypeOK`: the only steps that change the
  stored status also make the cache stale and end the reconcile or, in
  `CloseWithoutPR`, leave it with no update to come.
- `ControllerImplementsLifecycle`: `Spec => ImplementsLifecycle`. An update is
  accepted only with a current resourceVersion, where `Coherent` makes it a
  `Moves` step, and `MovesIsLifecycleStep` turns that into an action of
  `TaskLifecycle` or a stutter. The implementation needs no assumption on pods,
  workers, caches or failures: `resourceVersion` alone carries it.

`AgentTaskWorkersProofs` proves, for the same constants:

- `WaitingWorkerHasSucceeded`: `Spec => []WaitingWorkerSucceeded`.
- `CurrentWorkerHoldsPR`: `Spec => []WorkerHoldsPR`.
- `AlwaysTruthful`: `Spec => []TruthInv`, the inductive invariant both follow from. It
  adds four parts to `TypeOK` and `Coherent`, which speak only of statuses. `Trail`: the
  stored status is at most one `Moves` step ahead of what the cache holds or a reconcile
  has read, so an attempt thought over is over. `Fates`: attempts to come have no pod and
  no worker, and only pods of attempts that are over are deleted. `Answered`: what a
  worker's answer implies (a pod that has run, a URL with every success, memory with every
  end). `Truthful`: a stored status, or one that a reconcile will store if its
  resourceVersion is still current, tells the truth about its worker. The point is the
  stale reconcile: it may make a pod or delete one, but `Trail` shows that it makes the
  current attempt's and deletes a past one's, so no claim of a current status becomes
  false by it.

`AgentTaskFaultsProofs` proves what holds only as long as certain failures do not occur, for
every integer `SpecMaxRetries`, every `MaxFaults` and every set `Faults` without them:

| Theorem | Property | Hypotheses | Added to `TruthInv` |
|---|---|---|---|
| `NeverParked` | `NotParked` | no `api` | `Woken` |
| `MergedByHuman` | `MergedMeansMerged` | no lag | `Quiet` |
| `OneWorker` | `NoStrayWorker` | no lag, no `api` | `Quiet`, `TidiedUp` |
| `DecidedWorkIsGraduated` | `OverMeansGraduated` | no lag, `evict`, `http` | `Quiet`, `Steady`, `Graduated` |
| `ReviewsAreReady` | `WaitingMeansReady` | no lag, `evict`, `http`, `github` | `Quiet`, `Steady`, `Reviewable` |
| `RetriesHoldOpenPR` | `RetryHoldsOpenPR` | no lag, `evict`, `github` | `Quiet`, `Steady`, `Remembered` |

- `Woken` goes through every way a reconcile can end without asking for another: its update
  changed the task, and the event wakes it up, or the task is at rest, or its
  resourceVersion was old, and whatever made it so has enqueued the task.
- `Quiet`: a pod that lives on after its attempt belongs to a worker whose run has ended,
  because without lag an attempt is given up only when its pod or its run has ended. So nobody
  opens a pull request behind a merge.
- `TidiedUp`: a status that is stored with a current resourceVersion leaves no pod
  behind that is not being deleted. It needs the order of `handleFailed` and
  `handleWaitingForPR`: clean up first, save after.
- `Steady`: without evictions a pod runs until the operator deletes it, so no task is ever
  `Completed` and a waiting task's worker is there to be asked.
- `Graduated`: from the graduate call on, every step on the way to a terminal phase has the
  memory graduated; a conflict or a crash on the way repeats the call or finds it
  done.
- `Reviewable`: the phase `WaitingForPR` is stored after the finalize call, and after that
  call no draft appears.
- `Remembered`: the branch's pull request is named by the status, or known to the worker of
  an attempt that is not over; what a poll learns is stored together with the end of
  the attempt. It is said of a closed one too, which may be opened again.

`AgentTaskContractsProofs` proves, for the same constants, the two contracts of section 2:

- `OperatorKeepsPromise`: `Spec => KeepsPromise`, with every failure and the lag. Each
  step of operator, kubelet and humans is a step of `WorkerPromise`, a human who marks the
  pull request ready, or does not show. Together with `WorkersKeepPromise` both sides of the
  contract are proved.
- `GraduationIsLast`: `Spec => []GraduationComesLast` without lag. `Reviewed` is added to
  `TruthInv` and `Quiet`: what the cache or a reconcile under way says of the worker
  stays true however old it is. Its attempt's pod is not made again once the task has
  moved on (`ReviewStays`). When no run goes on nobody opens another pull request, so a
  merge stays and a closed one is at most opened again or merged (`DecidedStays`, whose
  steps include the humans who do so). So a graduation begun for an old status is due all
  the same.

Section 3 says why each hypothesis is needed. With all seven kinds of faults and the lag, what
is left is `TypeCorrect`, `AlwaysCoherent`, the refinement, `OperatorKeepsPromise` and the two
theorems of `AgentTaskWorkersProofs`.

`AgentStatusProofs` proves, for any set of tasks, any number of changes and faults:

- `ListsAlwaysKeepUp`: `Spec => [](TypeOK /\ ListsKeepUp)`. The two together are
  inductive. The point is the order of the reads: the Agent before the list. A
  writer that lists the tasks while its copy of the Agent is current gets a list
  at least as recent as any stored one, because a status is only ever computed
  from what the cache had seen; a write makes all other copies out of date.
- `StatusNeverRegresses`: `Spec => NoRegression`, from the same invariant.

`MemoryStoreProofs` proves, for any number of runs, checkpoints, requests, faults:

- `GraduatesOnlySuccess`: `Spec => [](TypeOK /\ OnlySuccessGraduates)`, with every
  kind of fault. Strengthened (`Earned`) by: a stored result was recorded, and a
  request about to share one has found one.
- `NothingIsLost`: `Spec => []NothingLost`. Strengthened (`Kept`), as long as no
  search failed or saw an old index, by: requests begin after the run has ended,
  so no result appears between the search and the delete; a request in `delete`
  has shared; one in `discard` had nothing to share or something shared before.

- `TaskIsGraduatedOnce`: `Spec => []GraduatedOnce`. Strengthened (`Once`) by: a request in
  `store` is the first to share, and after a result was shared it is out of the task's
  memory, unless a request is between its two calls or the worker died there, after which nobody
  asks again.
- `DeletedIsDeleted`: `Spec => []DeletedMeansDeleted`, from `Orderly`: no run begins or
  flushes once a graduation was asked for, so nothing comes back.
- `MergeIsTold`: `Spec => MergedIsTold`, an action property. `Told` says that a request
  told of a merge finds the pull request merged, for good, and has taken that outcome.

`WorkerRunProofs` proves, for any number of workers and of steps of the agent, any skills
and any number of faults of every kind:

- `WorkersTyped`: `Spec => []TypeOK`. `Sane` strengthens it with what goes with a stage
  (a run answers only when it is over, a success has a URL and, before it is pushed, its
  code in the clone), with the numbers of the pods, and with `OneIsOpen`: one
  pull request of the branch is open at most, and it is the last one unless it was closed
  and opened again.
- `SuccessIsKept`: `Spec => []OpenPRHoldsSuccess`. A push takes only a clone that holds
  the whole branch, so the branch grows; `PushedStays` says that what a worker has pushed
  is still there when it answers, or the branch was deleted, which happens only while none
  of its pull requests is open. `SuccessStays` keeps every success on a branch that is
  never deleted, whatever becomes of its pull request; `FreshHoldsSuccess` that of a pull
  request nobody has closed. After that a push may recreate the branch without the success
  only if another worker holds a clone from before, a stray one: `BranchKept`.
- `OnlyCodeIsReady`: `Spec => []ReadyHoldsCode`, which is inductive together with
  `FreshHoldsSuccess`: a pull request becomes ready when a worker that succeeded is
  finalized, and what makes the branch lose its code is what `BranchKept` names.
- `RetriesKnow`: `Spec => []RetryKnowsOpenPR`, from `Alone` (only the current worker is
  active, unless one strayed) and `AllAreKnown` (every pull request, open or not, is known
  to the current worker, or to the operator while there is none).
- `WorkersKeepPromise`: `Spec => ImplementsPromise`. `RunSteps` puts every step of a run
  into one of five effects: it proceeds, ends as failed, has pushed, opens a pull request,
  or finishes; each is a step of `WorkerPromise` or does not show. `WorkerPromise` sees the
  newest pull request: what happens to an older one does not show (`OlderHidden`), and a worker
  finalizes, or a human decides on, the newest or one that does not show.

`RetrievalProofs` proves, for any limits, scores, answers and errors:

- `AnswersAreComplete` (`Spec => []CompleteAnswer`), `LadderIsClimbed`
  (`Spec => []LadderClimbed`) and `NoSearchTwice` (`Spec => NeverAsksTwice`). The inductive
  invariant says which levels have been asked (all before this one, and this one if it
  has searched an index: `Climbing`) and that what this level has asked is done
  (`UpToDate`).
- `AnswersAreBest`: `Spec => []BestHits`. `SortByScore` puts a hit at its rank, the number
  of hits that come before it or are it. `RankGrows` and `RankIsOnto` (a
  one-to-one function from 1..N to itself is onto) make that a permutation in order,
  `HitsInARow` relates the places in both answers to the order that `BestHits` asks for, and
  `MergeGivesBest` puts the cut behind it. The invariant `Sound` carries it along: what a
  level has found is tagged with its index and place, and nothing is found before
  a search is done.

The assumptions on constants are those of the modules (types and bounds only); the hypotheses
of the theorems are those given above. All inductive invariants were checked by TLC on
small instances before they were proved. The library's facts about finite sets and
sequences are cited, the ones with an operator as parameter are not.

Every invariant and every action property that a run checks is now proved. Only
model-checked is what holds under fairness (`ComesToRest`, `DecisionEndsTask`,
`FailedIsRetried`, `PodsReleased`, `Converges`, `EventuallyForgotten`,
`EveryLaunchIsAnswered`, `AlwaysReturns`): liveness and `ENABLED` are beyond the
prover. `TypeOK` of `AgentStatus` and `MemoryStore` is proved and in no run.

## 5. Plan

In this order:

1. `AgentTaskController`, its runs and its refinement of `TaskLifecycle` (done).
2. `AgentStatus`: two writers of one status from one cache (done).
3. `MemoryStore`: buffer, flushes, graduation and deletion step by step (done).
4. `WorkerRun`, refining `WorkerPromise`, on which `AgentTaskController` builds (done).
5. `Retrieval`: the ladder and `merge_and_rank_results` (done).
6. `PodNames`: names of pods across tasks (the retry of task `x` is named as the first
   pod of a task `x-r1`), adoption of existing pods, deletion and recreation of an
   AgentTask.
7. A composition of the controller with `MemoryStore`, of which `GraduationIsLast` is the
   first half. Their runs take the place of runs that ask less.
8. Proofs of every invariant, action property and refinement that the runs check (done).
   Left, with modules 6 and 7: the same for them; and for `WorkerRun` what its faults
   rule out one by one, as `AgentTaskFaultsProofs` does for the controller.

Not planned: operator start-up, generated code, manifests and charts
(configuration without behaviour); the text of prompts, messages and pull
requests; the relevance scores of Elasticsearch.
