---------------------- MODULE MCAgentTaskController ----------------------
(***************************************************************************)
(* Instances of AgentTaskController for TLC: the sets of failures that the *)
(* runs allow.                                                             *)
(***************************************************************************)
EXTENDS AgentTaskController

NoFaults == {}

\* Everything outside the API server can fail.
WorldFaults == FaultKinds \ {"api"}

\* The API server can fail, workers and GitHub do not.
ControlPlaneFaults == {"api", "crash", "edit", "agent"}
=============================================================================
