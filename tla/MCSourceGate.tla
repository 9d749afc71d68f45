---------------------------- MODULE MCSourceGate ----------------------------
(***************************************************************************)
(* The gate by itself, with callers that reserve, drop, block and publish  *)
(* in any order.                                                           *)
(***************************************************************************)
EXTENDS SourceGate

CONSTANT MaxGeneration   \* mutations completed per source that a run explores

\* generation is a u64 that only grows; the bound cuts the search, not the code.
MCNext == GateNext /\ \A s \in Sources : gate'[s].generation <= MaxGeneration

MCSpec == GateInit /\ [][MCNext]_gateVars
=============================================================================
