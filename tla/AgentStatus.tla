----------------------------- MODULE AgentStatus -----------------------------
(***************************************************************************)
(* The status of one Agent and its two writers: AgentReconciler.Reconcile  *)
(* and updateAgentStatus, which the AgentTask controller calls after, and  *)
(* sometimes before, it saves a task.  Both read the Agent and then the    *)
(* tasks from the informer caches of one operator process.                 *)
(*                                                                         *)
(* Of a task only whether it is Pending or Running is kept.  Ready,        *)
(* ActiveTasks and LastReconciled are left out; a write in the second of   *)
(* the last one with the same list changes nothing at all.                 *)
(***************************************************************************)
EXTENDS Naturals, Sequences

CONSTANTS
    Tasks,        \* the AgentTasks whose agentRef names this Agent
    MaxChanges,   \* how often the set of active tasks changes
    MaxFaults     \* failed calls and restarts of the operator

ASSUME MaxChangesIsNat == MaxChanges \in Nat
ASSUME AgentFaultsIsNat == MaxFaults \in Nat

VARIABLES
    history,   \* the active tasks in the API server, after each change
    seen,      \* how much of history the operator's cache of tasks holds
    status,    \* Agent.status, and how much of history it was computed from
    cached,    \* the operator's copy of the Agent: absent, stale or fresh
    writer,    \* what each of the two writers is doing
    due,       \* the Agent's key is in the work queue, or will be
    owed,      \* the tasks that the AgentTask controller has yet to save
    faults

vars == <<history, seen, status, cached, writer, due, owed, faults>>

Writers == {"agent", "task"}

Statuses == [running : SUBSET Tasks, asOf : 0..(MaxChanges + 1)]

WriterStates == [pc : {"idle", "get", "list", "update"}, fresh : BOOLEAN,
                 running : SUBSET Tasks, asOf : 0..(MaxChanges + 1)]

Idle == [pc |-> "idle", fresh |-> FALSE, running |-> {}, asOf |-> 0]

Active == history[Len(history)]

TypeOK ==
    /\ history \in Seq(SUBSET Tasks)
    /\ Len(history) \in 1..(MaxChanges + 1)
    /\ seen \in 1..Len(history)
    /\ status \in Statuses
    /\ cached \in {"absent", "stale", "fresh"}
    /\ writer \in [Writers -> WriterStates]
    /\ due \in BOOLEAN
    /\ owed \in SUBSET Tasks
    /\ faults \in 0..MaxFaults

Fault == faults < MaxFaults /\ faults' = faults + 1

-----------------------------------------------------------------------------
\* A new Agent, which the operator has not noticed yet.
Init ==
    /\ history = <<{}>>
    /\ seen = 1
    /\ status = [running |-> {}, asOf |-> 0]
    /\ cached = "absent"
    /\ writer = [w \in Writers |-> Idle]
    /\ due = FALSE
    /\ owed = {}
    /\ faults = 0

-----------------------------------------------------------------------------
(* The tasks *)

BecomeActive(tasks) ==
    \/ tasks = Active /\ UNCHANGED history
    \/ /\ tasks # Active
       /\ Len(history) <= MaxChanges
       /\ history' = Append(history, tasks)

TaskIdle == writer["task"].pc = "idle" /\ owed = {}

UpdateAgentStatus == writer' = [writer EXCEPT !["task"].pc = "get"]

\* Reconcile and handleFailed make a task Pending, and leave the Agent alone.
TaskAdmitted(t) ==
    /\ TaskIdle
    /\ t \notin Active
    /\ BecomeActive(Active \cup {t})
    /\ UNCHANGED <<seen, status, cached, writer, due, owed, faults>>

TaskDeleted(t) ==
    /\ t \in Active
    /\ BecomeActive(Active \ {t})
    /\ UNCHANGED <<seen, status, cached, writer, due, owed, faults>>

\* The task is saved, then the Agent's status is updated: a launch and a poll
\* keep the active tasks, the end of a pod takes one away, unless the update
\* failed and its error was dropped.
TaskSaved(t) ==
    /\ TaskIdle
    /\ BecomeActive(Active \ {t}) \/ UNCHANGED history
    /\ UpdateAgentStatus
    /\ UNCHANGED <<seen, status, cached, due, owed, faults>>

\* The worker's last answer: the Agent's status is updated first.
TaskAnswered(t) ==
    /\ TaskIdle
    /\ t \in Active
    /\ UpdateAgentStatus
    /\ owed' = {t}
    /\ UNCHANGED <<history, seen, status, cached, due, faults>>

TaskSavedAfter ==
    /\ writer["task"].pc = "idle"
    /\ owed # {}
    /\ BecomeActive(Active \ owed) \/ UNCHANGED history
    /\ owed' = {}
    /\ UNCHANGED <<seen, status, cached, writer, due, faults>>

-----------------------------------------------------------------------------
(* The writers of the Agent's status *)

Reconcile ==
    /\ writer["agent"].pc = "idle"
    /\ due
    /\ due' = FALSE
    /\ writer' = [writer EXCEPT !["agent"].pc = "get"]
    /\ UNCHANGED <<history, seen, status, cached, owed, faults>>

Get(w) ==
    /\ writer[w].pc = "get"
    /\ cached # "absent"
    /\ writer' = [writer EXCEPT ![w].pc = "list", ![w].fresh = (cached = "fresh")]
    /\ UNCHANGED <<history, seen, status, cached, due, owed, faults>>

\* No Agent, no status, and nothing to come back for.
GetNotFound(w) ==
    /\ writer[w].pc = "get"
    /\ cached = "absent"
    /\ writer' = [writer EXCEPT ![w] = Idle]
    /\ UNCHANGED <<history, seen, status, cached, due, owed, faults>>

List(w) ==
    /\ writer[w].pc = "list"
    /\ writer' = [writer EXCEPT
          ![w] = [@ EXCEPT !.pc = "update", !.running = history[seen], !.asOf = seen]]
    /\ UNCHANGED <<history, seen, status, cached, due, owed, faults>>

\* A write makes every copy read before it out of date.
WriteStatus(w) ==
    \/ /\ writer[w].running = status.running
       /\ writer' = [writer EXCEPT ![w] = Idle]
       /\ UNCHANGED <<status, cached>>
    \/ /\ status' = [running |-> writer[w].running, asOf |-> writer[w].asOf]
       /\ writer' = [v \in Writers |-> IF v = w THEN Idle
                                       ELSE [writer[v] EXCEPT !.fresh = FALSE]]
       /\ cached' = "stale"

NothingWritten(w) ==
    /\ writer' = [writer EXCEPT ![w] = Idle]
    /\ UNCHANGED <<status, cached>>

StatusStored(w) ==
    /\ writer[w].fresh
    /\ WriteStatus(w)
    /\ UNCHANGED faults

\* Mutant: a conflict is answered by writing the same list once more.
StatusConflictForced(w) ==
    /\ ~writer[w].fresh
    /\ WriteStatus(w)
    /\ UNCHANGED faults

\* Mutant: after a conflict the Agent is read again, the tasks are not.
StatusConflictReread(w) ==
    /\ ~writer[w].fresh
    /\ writer' = [writer EXCEPT ![w].fresh = (cached = "fresh")]
    /\ UNCHANGED <<status, cached, faults>>

StatusConflict(w) ==
    /\ ~writer[w].fresh
    /\ NothingWritten(w)
    /\ UNCHANGED faults

\* The call fails, or its answer is lost.
StatusCallFails(w) ==
    /\ Fault
    /\ NothingWritten(w) \/ (writer[w].fresh /\ WriteStatus(w))

\* Mutant: the Agent is reconciled once per event.
ComeBackNever(w) == UNCHANGED due

\* After an error or 15 seconds the Agent is reconciled again; the AgentTask
\* controller drops the error.
ComeBack(w) == due' = (due \/ w = "agent")

Update(w) ==
    /\ writer[w].pc = "update"
    /\ StatusStored(w) \/ StatusConflict(w) \/ StatusCallFails(w)
    /\ ComeBack(w)
    /\ UNCHANGED <<history, seen, owed>>

-----------------------------------------------------------------------------
(* The informers and the process *)

AgentEvent ==
    /\ cached # "fresh"
    /\ cached' = "fresh"
    /\ due' = TRUE
    /\ UNCHANGED <<history, seen, status, writer, owed, faults>>

\* Changes of tasks arrive in their order; the Agent controller does not
\* watch them.
TaskEvent ==
    /\ seen < Len(history)
    /\ seen' = seen + 1
    /\ UNCHANGED <<history, status, cached, writer, due, owed, faults>>

Crash ==
    /\ Fault
    /\ seen' = Len(history)
    /\ cached' = "fresh"
    /\ writer' = [w \in Writers |-> Idle]
    /\ due' = TRUE
    /\ owed' = {}
    /\ UNCHANGED <<history, status>>

Next ==
    \/ \E t \in Tasks : TaskAdmitted(t) \/ TaskDeleted(t) \/ TaskSaved(t) \/ TaskAnswered(t)
    \/ TaskSavedAfter
    \/ Reconcile
    \/ \E w \in Writers : Get(w) \/ GetNotFound(w) \/ List(w) \/ Update(w)
    \/ AgentEvent
    \/ TaskEvent
    \/ Crash

Spec == Init /\ [][Next]_vars

\* The Agent controller and the informers keep running; nothing is asked of
\* the AgentTask controller.
Fairness ==
    /\ WF_vars(Reconcile)
    /\ WF_vars(Get("agent") \/ GetNotFound("agent"))
    /\ WF_vars(List("agent")) /\ WF_vars(Update("agent"))
    /\ WF_vars(AgentEvent) /\ WF_vars(TaskEvent)

FairSpec == Spec /\ Fairness

-----------------------------------------------------------------------------
(* Properties *)

\* A writer whose update will be accepted holds a list at least as recent as
\* the one in the status, because it reads the Agent before it lists the tasks;
\* and no status is computed from changes the cache has not seen.
ListsKeepUp ==
    /\ status.asOf <= seen
    /\ \A w \in Writers :
          /\ writer[w].asOf <= seen
          /\ writer[w].pc = "update" /\ writer[w].fresh
                => writer[w].asOf >= status.asOf

\* Of two writers racing for the Agent's status, the one with the older list of
\* tasks never wins over the one with the newer.
NoRegression == [][status'.asOf >= status.asOf]_vars

\* Once the tasks stop changing, the Agent's status names exactly those that
\* are Pending or Running (AgentReconciler "maintains" it).
Converges == <>[](status.running = Active)
=============================================================================
