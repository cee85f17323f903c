-------------------------- MODULE AgentStatusProofs --------------------------
(***************************************************************************)
(* For any set of tasks, any number of changes and of failures: of the two *)
(* writers of an Agent's status the one with the older list never wins.    *)
(***************************************************************************)
EXTENDS AgentStatus, TLAPS

\* The active tasks are a set of tasks, and a change of them lengthens their
\* history by one within its bound, or not at all.
LEMMA ChangeTypes ==
    ASSUME TypeOK, NEW tasks \in SUBSET Tasks, BecomeActive(tasks) \/ UNCHANGED history
    PROVE  /\ history' \in Seq(SUBSET Tasks)
           /\ Len(history') \in 1..(MaxChanges + 1)
           /\ Len(history') >= Len(history)
<1>1. CASE UNCHANGED history
  BY <1>1 DEF TypeOK
<1>2. CASE Len(history) <= MaxChanges /\ history' = Append(history, tasks)
  <2>1. /\ history' \in Seq(SUBSET Tasks)
        /\ Len(history') = Len(history) + 1
    BY <1>2 DEF TypeOK
  <2>2. QED
    BY <1>2, <2>1, MaxChangesIsNat DEF TypeOK
<1>3. QED
  BY <1>1, <1>2 DEF BecomeActive

\* The tasks that are active now are a set of tasks.
LEMMA ActiveType ==
    ASSUME TypeOK
    PROVE  Active \in SUBSET Tasks
<1>1. history \in Seq(SUBSET Tasks) /\ Len(history) \in 1..Len(history)
  BY DEF TypeOK
<1>2. QED
  BY <1>1 DEF Active

\* Types and ListsKeepUp are together inductive.
Inv == TypeOK /\ ListsKeepUp

\* A new Agent, not noticed by the operator yet, satisfies it.
LEMMA InvInitially == Init => Inv
<1> SUFFICES ASSUME Init PROVE Inv
  OBVIOUS
<1>1. Idle \in WriterStates
  BY MaxChangesIsNat DEF Idle, WriterStates
<1>2. history \in Seq(SUBSET Tasks) /\ Len(history) = 1
  BY DEF Init
<1>3. TypeOK
  <2>1. status \in Statuses
    BY MaxChangesIsNat DEF Init, Statuses
  <2>2. Len(history) \in 1..(MaxChanges + 1) /\ seen \in 1..Len(history)
    <3>1. seen = 1
      BY DEF Init
    <3>2. QED
      BY <1>2, <3>1, MaxChangesIsNat
  <2>3. /\ cached \in {"absent", "stale", "fresh"}
        /\ due \in BOOLEAN
        /\ owed \in SUBSET Tasks
    BY DEF Init
  <2>4. writer \in [Writers -> WriterStates]
    <3>1. writer = [w \in Writers |-> Idle]
      BY DEF Init
    <3>2. QED
      BY <1>1, <3>1
  <2>5. faults \in 0..MaxFaults
    <3>1. faults = 0
      BY DEF Init
    <3>2. QED
      BY <3>1, AgentFaultsIsNat
  <2>6. QED
    BY <1>2, <2>1, <2>2, <2>3, <2>4, <2>5 DEF TypeOK
<1>4. ListsKeepUp
  BY DEF Init, ListsKeepUp, Idle, Writers
<1>5. QED
  BY <1>3, <1>4 DEF Inv

\* What the tasks do.
LEMMA TaskSteps ==
    ASSUME Inv,
           \/ \E t \in Tasks : TaskAdmitted(t) \/ TaskDeleted(t) \/ TaskSaved(t)
                                               \/ TaskAnswered(t)
           \/ TaskSavedAfter
    PROVE  Inv'
<1> USE DEF Inv
<1>1. ASSUME NEW tasks \in SUBSET Tasks, BecomeActive(tasks) \/ UNCHANGED history,
             UNCHANGED <<seen, status, cached, writer, due, faults>>,
             owed' \in SUBSET Tasks
      PROVE  Inv'
  BY <1>1, ChangeTypes DEF TypeOK, ListsKeepUp
<1>2. ASSUME NEW tasks \in SUBSET Tasks, BecomeActive(tasks) \/ UNCHANGED history,
             UNCHANGED <<seen, status, cached, due, faults>>, TaskIdle,
             UpdateAgentStatus, owed' \in SUBSET Tasks
      PROVE  Inv'
  <2>1. /\ writer' \in [Writers -> WriterStates]
        /\ \A w \in Writers : writer'[w].asOf = writer[w].asOf
        /\ \A w \in Writers : writer'[w].pc = "update" =>
              writer[w].pc = "update" /\ writer'[w].fresh = writer[w].fresh
    BY <1>2 DEF TypeOK, UpdateAgentStatus, Writers, WriterStates
  <2>2. QED
    BY <1>2, <2>1, ChangeTypes DEF TypeOK, ListsKeepUp
<1>3. CASE \E t \in Tasks : TaskAdmitted(t) \/ TaskDeleted(t)
  BY <1>3, <1>1, ActiveType DEF TaskAdmitted, TaskDeleted, TypeOK
<1>4. CASE \E t \in Tasks : TaskSaved(t)
  BY <1>4, <1>2, ActiveType DEF TaskSaved, TypeOK
<1>5. CASE \E t \in Tasks : TaskAnswered(t)
  BY <1>5, <1>2, ActiveType DEF TaskAnswered
<1>6. CASE TaskSavedAfter
  BY <1>6, <1>1, ActiveType DEF TaskSavedAfter
<1>7. QED
  BY <1>3, <1>4, <1>5, <1>6

\* The steps of a writer up to its update.
LEMMA ReadingSteps ==
    ASSUME Inv, Reconcile \/ \E w \in Writers : Get(w) \/ GetNotFound(w) \/ List(w)
    PROVE  Inv'
<1> USE DEF Inv
<1>1. CASE Reconcile
  BY <1>1 DEF Reconcile, TypeOK, ListsKeepUp, Writers, WriterStates
<1>2. ASSUME NEW w \in Writers, Get(w)
      PROVE  Inv'
  <2> DEFINE read == [writer[w] EXCEPT !.pc = "list", !.fresh = (cached = "fresh")]
  <2>1. writer \in [Writers -> WriterStates] /\ writer[w] \in WriterStates
    BY DEF TypeOK
  <2>2. writer' = [writer EXCEPT ![w] = read]
    BY <1>2, <2>1 DEF Get
  <2>3. read \in WriterStates /\ read.pc = "list" /\ read.asOf = writer[w].asOf
    BY <2>1 DEF WriterStates
  <2> HIDE DEF read
  <2>4. UNCHANGED <<history, seen, status, cached, due, owed, faults>>
    BY <1>2 DEF Get
  <2>5. TypeOK'
    <3>1. writer' \in [Writers -> WriterStates]
      BY <2>1, <2>2, <2>3
    <3>2. QED
      BY <2>4, <3>1 DEF TypeOK
  <2>6. ListsKeepUp'
    <3>1. writer'[w] = read /\ \A v \in Writers \ {w} : writer'[v] = writer[v]
      BY <2>1, <2>2
    <3>2. QED
      BY <2>3, <2>4, <3>1 DEF ListsKeepUp
  <2>7. QED
    BY <2>5, <2>6
<1>3. ASSUME NEW w \in Writers, GetNotFound(w)
      PROVE  Inv'
  BY <1>3, MaxChangesIsNat DEF GetNotFound, TypeOK, ListsKeepUp, WriterStates, Idle
<1>4. ASSUME NEW w \in Writers, List(w)
      PROVE  Inv'
  <2>1. history[seen] \in SUBSET Tasks /\ seen \in 0..(MaxChanges + 1)
    BY MaxChangesIsNat DEF TypeOK
  <2>2. writer' \in [Writers -> WriterStates]
    <3>1. writer[w] \in WriterStates
      BY DEF TypeOK
    <3>2. [writer[w] EXCEPT !.pc = "update", !.running = history[seen], !.asOf = seen]
             \in WriterStates
      BY <2>1, <3>1 DEF WriterStates
    <3>3. QED
      BY <1>4, <3>2 DEF List, TypeOK
  <2>3. TypeOK'
    BY <1>4, <2>2 DEF List, TypeOK
  <2>4. ListsKeepUp'
    <3>1. writer'[w].asOf = seen /\ \A v \in Writers \ {w} : writer'[v] = writer[v]
      <4> DEFINE listed == [writer[w] EXCEPT !.pc = "update", !.running = history[seen],
                                             !.asOf = seen]
      <4>1. writer \in [Writers -> WriterStates] /\ writer[w] \in WriterStates
        BY DEF TypeOK
      <4>2. writer' = [writer EXCEPT ![w] = listed]
        BY <1>4 DEF List
      <4>3. listed.asOf = seen
        BY <4>1 DEF WriterStates
      <4> HIDE DEF listed
      <4>4. writer'[w] = listed /\ \A v \in Writers \ {w} : writer'[v] = writer[v]
        BY <4>1, <4>2
      <4>5. QED
        BY <4>3, <4>4
    <3>2. UNCHANGED <<status, seen>>
      BY <1>4 DEF List
    <3>3. seen \in Nat /\ status.asOf <= seen
      BY DEF TypeOK, ListsKeepUp
    <3>4. ASSUME NEW v \in Writers
          PROVE  /\ writer'[v].asOf <= seen
                 /\ writer'[v].pc = "update" /\ writer'[v].fresh
                       => writer'[v].asOf >= status.asOf
      <4>1. CASE v = w
        BY <3>1, <3>3, <4>1 DEF TypeOK, Statuses
      <4>2. CASE v # w
        BY <3>1, <4>2 DEF ListsKeepUp
      <4>3. QED
        BY <4>1, <4>2
    <3>5. QED
      BY <3>2, <3>3, <3>4 DEF ListsKeepUp
  <2>5. QED
    BY <2>3, <2>4
<1>5. QED
  BY <1>1, <1>2, <1>3, <1>4

\* An accepted write: it leaves the status at least as recent as it was, and no
\* other writer's update acceptable.
LEMMA WriteSteps ==
    ASSUME Inv, NEW w \in Writers, writer[w].pc = "update", writer[w].fresh,
           WriteStatus(w)
    PROVE  /\ status' \in Statuses
           /\ cached' \in {"absent", "stale", "fresh"}
           /\ writer' \in [Writers -> WriterStates]
           /\ status.asOf <= status'.asOf
           /\ status'.asOf <= seen
           /\ \A v \in Writers :
                 /\ writer'[v].asOf <= seen
                 /\ writer'[v].pc = "update" /\ writer'[v].fresh
                       => writer'[v].asOf >= status'.asOf
<1> USE DEF Inv
<1>1. Idle \in WriterStates /\ Idle.asOf <= seen /\ Idle.pc # "update"
  BY MaxChangesIsNat DEF Idle, WriterStates, TypeOK
<1>2. CASE /\ writer' = [writer EXCEPT ![w] = Idle]
           /\ UNCHANGED <<status, cached>>
  BY <1>1, <1>2 DEF TypeOK, ListsKeepUp, Statuses
<1>3. CASE /\ status' = [running |-> writer[w].running, asOf |-> writer[w].asOf]
           /\ writer' = [v \in Writers |-> IF v = w THEN Idle
                                           ELSE [writer[v] EXCEPT !.fresh = FALSE]]
           /\ cached' = "stale"
  <2>1. /\ writer' \in [Writers -> WriterStates]
        /\ \A v \in Writers : writer'[v].asOf <= seen
        /\ \A v \in Writers : writer'[v].pc = "update" => ~writer'[v].fresh
    BY <1>1, <1>3 DEF TypeOK, ListsKeepUp, WriterStates
  <2>2. status' \in Statuses /\ status'.asOf = writer[w].asOf
    BY <1>3 DEF TypeOK, WriterStates, Statuses
  <2>3. status.asOf <= writer[w].asOf /\ writer[w].asOf <= seen
    BY DEF TypeOK, ListsKeepUp, WriterStates, Statuses
  <2>4. QED
    BY <1>3, <2>1, <2>2, <2>3
<1>4. QED
  BY <1>2, <1>3 DEF WriteStatus

\* The end of an update: stored, refused, failed, or stored and unanswered.
LEMMA UpdateSteps ==
    ASSUME Inv, NEW w \in Writers, Update(w)
    PROVE  Inv' /\ status'.asOf >= status.asOf
<1> USE DEF Inv
<1>1. due' \in BOOLEAN /\ faults' \in 0..MaxFaults
  BY AgentFaultsIsNat
  DEF TypeOK, Update, ComeBack, StatusStored, StatusConflict, StatusCallFails, Fault
<1>2. CASE writer[w].fresh /\ WriteStatus(w)
  <2>1. status.asOf \in Nat /\ status'.asOf \in Nat
    BY <1>2, WriteSteps, MaxChangesIsNat DEF Update, TypeOK, Statuses
  <2>2. QED
    BY <1>1, <1>2, <2>1, WriteSteps DEF Update, TypeOK, ListsKeepUp
<1>3. CASE NothingWritten(w)
  BY <1>1, <1>3, MaxChangesIsNat
  DEF NothingWritten, Update, TypeOK, ListsKeepUp, Idle, WriterStates, Statuses
<1>4. QED
  BY <1>2, <1>3 DEF Update, StatusStored, StatusConflict, StatusCallFails

\* The informers and a restart.
LEMMA ProcessSteps ==
    ASSUME Inv, AgentEvent \/ TaskEvent \/ Crash
    PROVE  Inv'
<1> USE DEF Inv
<1>1. CASE AgentEvent
  BY <1>1 DEF AgentEvent, TypeOK, ListsKeepUp
<1>2. CASE TaskEvent
  BY <1>2, MaxChangesIsNat DEF TaskEvent, TypeOK, ListsKeepUp, WriterStates, Statuses
<1>3. CASE Crash
  <2>1. Idle \in WriterStates /\ Idle.asOf = 0 /\ Idle.pc = "idle"
    BY MaxChangesIsNat DEF Idle, WriterStates
  <2>2. TypeOK'
    BY <1>3, <2>1, AgentFaultsIsNat DEF Crash, Fault, TypeOK
  <2>3. ListsKeepUp'
    BY <1>3, <2>1, MaxChangesIsNat DEF Crash, TypeOK, ListsKeepUp, Statuses
  <2>4. QED
    BY <2>2, <2>3
<1>4. QED
  BY <1>1, <1>2, <1>3

\* Every step keeps the invariant and never takes the status back.
LEMMA InvInductive == Inv /\ [Next]_vars => Inv' /\ status'.asOf >= status.asOf
<1> SUFFICES ASSUME Inv, [Next]_vars
             PROVE  Inv' /\ status'.asOf >= status.asOf
  OBVIOUS
<1>1. status.asOf \in Nat
  BY MaxChangesIsNat DEF Inv, TypeOK, Statuses
<1>2. CASE \E w \in Writers : Update(w)
  BY <1>2, UpdateSteps
<1>3. CASE UNCHANGED vars
  BY <1>1, <1>3 DEF vars, Inv, TypeOK, ListsKeepUp
<1>4. CASE /\ Next
           /\ ~ \E w \in Writers : Update(w)
  <2>1. Inv'
    BY <1>4, TaskSteps, ReadingSteps, ProcessSteps DEF Next
  <2>2. UNCHANGED status
    BY <1>4
    DEF Next, TaskAdmitted, TaskDeleted, TaskSaved, TaskAnswered, TaskSavedAfter,
        Reconcile, Get, GetNotFound, List, AgentEvent, TaskEvent, Crash
  <2>3. QED
    BY <1>1, <2>1, <2>2
<1>5. QED
  BY <1>2, <1>3, <1>4

\* The writers' state stays typed, and a writer that will be accepted holds a
\* list at least as recent as the one in the status.
THEOREM ListsAlwaysKeepUp == Spec => [](TypeOK /\ ListsKeepUp)
<1>1. Inv /\ [Next]_vars => Inv'
  BY InvInductive
<1>2. Inv => TypeOK /\ ListsKeepUp
  BY DEF Inv
<1>3. QED
  BY InvInitially, <1>1, <1>2, PTL DEF Spec

\* The Agent's status never goes back to an older list of tasks, whichever of
\* AgentReconciler and updateAgentStatus writes it.
THEOREM StatusNeverRegresses == Spec => NoRegression
<1>1. Inv /\ [Next]_vars => Inv'
  BY InvInductive
<1>2. Inv /\ [Next]_vars => [status'.asOf >= status.asOf]_vars
  BY InvInductive
<1>3. QED
  BY InvInitially, <1>1, <1>2, PTL DEF Spec, NoRegression
=============================================================================
