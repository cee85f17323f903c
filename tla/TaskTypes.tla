------------------------------ MODULE TaskTypes ------------------------------
(***************************************************************************)
(* The phases of an AgentTask and its retry budget, shared by the abstract *)
(* life cycle and by the controller.                                       *)
(***************************************************************************)
EXTENDS Integers

CONSTANT SpecMaxRetries     \* spec.maxRetries as the user wrote it

ASSUME SpecMaxRetriesIsInt == SpecMaxRetries \in Int

\* The phase of a task nobody has looked at yet, and every other empty string.
Unset == ""

Phases == {Unset, "Pending", "Running", "Completed", "Failed",
           "WaitingForPR", "Merged", "Closed"}

TerminalPhases == {"Merged", "Closed"}

DefaultMaxRetries == 2

\* Zero means "not set" and selects the default; a negative number stays.
MaxRetries == IF SpecMaxRetries = 0 THEN DefaultMaxRetries ELSE SpecMaxRetries

\* Mutant: one retry too many.
CanRetryOnceMore(count) == count <= MaxRetries

CanRetry(count) == count < MaxRetries

\* The retry counts a task can reach: a negative budget leaves only 0.
RetryCounts == 0..(IF MaxRetries < 0 THEN 0 ELSE MaxRetries)
=============================================================================
