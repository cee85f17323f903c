---------------------------- MODULE MCMemoryStore ----------------------------
(***************************************************************************)
(* The sets of faults from which the runs of MemoryStore choose.           *)
(***************************************************************************)
EXTENDS MemoryStore

EveryFault == FaultKinds
NoFault == {}
OnlyRead == {"read"}
=============================================================================
