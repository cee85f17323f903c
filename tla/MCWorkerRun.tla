----------------------------- MODULE MCWorkerRun -----------------------------
(***************************************************************************)
(* Instances of WorkerRun for TLC: the skills a task may come with.        *)
(***************************************************************************)
EXTENDS WorkerRun

\* No skill at all, one that only reads, one that edits.
AllSkillSets == {{}, {"testing"}, {"code-edit"}}
=============================================================================
