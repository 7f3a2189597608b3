----------------------------- MODULE MCContext -----------------------------
(* A small instance of ContextManager for TLC: two agents with models of   *)
(* different windows.                                                      *)
EXTENDS ContextManager

MCTokens == [r \in Speakers |-> IF r = "x" THEN 3 ELSE 9]
=============================================================================
