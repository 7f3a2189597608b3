---------------------------- MODULE TaskSchedule ----------------------------
(***************************************************************************)
(* What the DAG engine promises (server/dag_engine.py, its docstrings): a  *)
(* node starts when every node it depends on has succeeded, ends once, and *)
(* is given up without a start only when a dependency is missing.          *)
(***************************************************************************)
CONSTANTS
  Nodes,       (* the nodes to run                                         *)
  Names        (* what a dependency may name, the nodes included           *)

VARIABLES
  deps,        (* node -> names it depends on, a name may be no node       *)
  progress     (* node -> waiting, started, succeeded or failed            *)

vars == <<deps, progress>>

In(p) == {n \in Nodes : progress[n] = p}

Satisfied(n) == deps[n] \subseteq In("succeeded")

Init ==
  /\ deps \in [Nodes -> SUBSET Names]
  /\ progress = [n \in Nodes |-> "waiting"]

\* Some waiting nodes start, each with all it needs
Start ==
  \E S \in SUBSET In("waiting") :
    /\ \A n \in S : Satisfied(n)
    /\ progress' = [n \in Nodes |-> IF n \in S THEN "started" ELSE progress[n]]
    /\ UNCHANGED deps

\* Some started nodes end, the ones in G well
End ==
  \E D \in SUBSET In("started"), G \in SUBSET Nodes :
    /\ progress' = [n \in Nodes |->
                      IF n \notin D THEN progress[n]
                      ELSE IF n \in G THEN "succeeded" ELSE "failed"]
    /\ UNCHANGED deps

\* Everything that still waits is given up: none of it could start
GiveUp ==
  /\ \A n \in In("waiting") : ~Satisfied(n)
  /\ progress' = [n \in Nodes |-> IF progress[n] = "waiting" THEN "failed" ELSE progress[n]]
  /\ UNCHANGED deps

Next == Start \/ End \/ GiveUp

Spec == Init /\ [][Next]_vars
=============================================================================
