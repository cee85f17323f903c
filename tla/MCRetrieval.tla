----------------------------- MODULE MCRetrieval -----------------------------
(***************************************************************************)
(* Instance of Retrieval for TLC: scores that can be equal or not.         *)
(***************************************************************************)
EXTENDS Retrieval

SomeScores == 1..3
=============================================================================
