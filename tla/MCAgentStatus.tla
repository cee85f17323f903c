--------------------------- MODULE MCAgentStatus ---------------------------
(***************************************************************************)
(* An instance of AgentStatus for TLC.  The tasks are interchangeable.     *)
(***************************************************************************)
EXTENDS AgentStatus, TLC

CONSTANTS t1, t2

TwoTasks == {t1, t2}
TaskSymmetry == Permutations(TwoTasks)
=============================================================================
