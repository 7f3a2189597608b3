---------------------------- MODULE MCDagExecutor ----------------------------
(* A small instance of DagExecutor for TLC: every graph over three nodes and *)
(* one name that is no node.                                                 *)
EXTENDS DagExecutor
=============================================================================
