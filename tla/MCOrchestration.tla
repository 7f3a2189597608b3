--------------------------- MODULE MCOrchestration ---------------------------
(* A small instance of Orchestration for TLC. *)
EXTENDS Orchestration
=============================================================================
