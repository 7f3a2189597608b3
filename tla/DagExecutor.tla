----------------------------- MODULE DagExecutor -----------------------------
(***************************************************************************)
(* DAGExecutor.execute (server/dag_engine.py), one run over one graph.     *)
(*                                                                         *)
(* The event loop switches only at an await.  execute awaits in one place, *)
(* asyncio.wait, so a pass of its loop up to there is one step.  A node's  *)
(* task awaits the semaphore and then dispatch_fn, which is external: it   *)
(* ends well, with an error or cancelled.                                  *)
(***************************************************************************)
EXTENDS Naturals, FiniteSets

CONSTANTS
  Nodes,           (* ids of the nodes of the graph                        *)
  Names,           (* what a dependency may name: a node or an unknown id  *)
  MaxConcurrency   (* max_concurrency                                      *)

ASSUME DagAssumption == Nodes \subseteq Names /\ MaxConcurrency \in Nat \ {0}

VARIABLES
  deps,        (* DAGNode.dependencies                                     *)
  status,      (* DAGNode.status                                           *)
  executor,    (* looping; waiting in asyncio.wait; returned; interrupted  *)
  inFlight,    (* keys of _in_flight                                       *)
  awaited,     (* the nodes whose tasks were given to asyncio.wait         *)
  task,        (* node -> state of its asyncio task                        *)
  doomed,      (* nodes whose task was cancelled and has not ended         *)
  completed,   (* the sets execute returns                                 *)
  failed,
  cancelled    (* history: cancel_all was called                           *)

loop == <<executor, inFlight, awaited, completed, failed>>
vars == <<deps, status, loop, task, doomed, cancelled>>

-----------------------------------------------------------------------------
Terminal == {"completed", "failed", "cancelled"}

Ended == {"ok", "error", "cancelled"}

TypeOK ==
  /\ deps \in [Nodes -> SUBSET Names]
  /\ status \in [Nodes -> {"pending", "running"} \cup Terminal]
  /\ executor \in {"looping", "waiting", "returned", "interrupted"}
  /\ inFlight \subseteq Nodes /\ awaited \subseteq Nodes /\ doomed \subseteq Nodes
  /\ completed \subseteq Nodes /\ failed \subseteq Nodes
  /\ task \in [Nodes -> {"none", "queued", "running"} \cup Ended]
  /\ cancelled \in BOOLEAN

Init ==
  /\ deps \in [Nodes -> SUBSET Names]
  /\ status = [n \in Nodes |-> "pending"]
  /\ task = [n \in Nodes |-> "none"]
  /\ executor = "looping"
  /\ inFlight = {} /\ awaited = {} /\ doomed = {} /\ completed = {} /\ failed = {}
  /\ cancelled = FALSE

-----------------------------------------------------------------------------
(* The loop of execute *)

Pending == {n \in Nodes : status[n] = "pending"}

IsComplete == \A n \in Nodes : status[n] \in Terminal

\* Mutant: any one dependency is enough
ReadyOnAny == {n \in Pending : deps[n] = {} \/ deps[n] \cap completed # {}}

\* Mutant: the next wave starts when the last one has ended
ReadyInWaves == {n \in Pending : deps[n] \subseteq completed /\ inFlight = {}}

\* Mutant: dependencies that name no node are ignored
ReadyKnown == {n \in Pending : deps[n] \cap Nodes \subseteq completed}

\* Mutant: one failure holds back the nodes that do not depend on it
ReadyUntilFailure == {n \in Pending : deps[n] \subseteq completed /\ failed = {}}

\* get_ready
Ready == {n \in Pending : deps[n] \subseteq completed}

\* Mutant: execute waits even when nothing is left to wait for
NeverStuck == FALSE

Stuck == inFlight \cup Ready = {}

\* Mutant: the loop ends and leaves the pending nodes as they are
NothingGivenUp == {}

\* What a stuck pass marks as failed
GivenUp == Pending

\* The while condition fails
ReturnComplete ==
  /\ executor = "looping"
  /\ IsComplete
  /\ executor' = "returned"
  /\ UNCHANGED <<deps, status, inFlight, awaited, completed, failed, task, doomed, cancelled>>

\* A pass that finds or has work: a task per ready node, then asyncio.wait
DispatchReady ==
  /\ executor = "looping"
  /\ ~IsComplete /\ ~Stuck
  /\ inFlight' = inFlight \cup Ready
  /\ status' = [n \in Nodes |-> IF n \in Ready \ inFlight THEN "running" ELSE status[n]]
  /\ task' = [n \in Nodes |-> IF n \in Ready \ inFlight THEN "queued" ELSE task[n]]
  /\ awaited' = inFlight'
  /\ executor' = "waiting"
  /\ UNCHANGED <<deps, completed, failed, doomed, cancelled>>

\* A pass with nothing in flight and nothing ready fails what is pending
Deadlock ==
  /\ executor = "looping"
  /\ ~IsComplete /\ Stuck
  /\ status' = [n \in Nodes |-> IF n \in GivenUp THEN "failed" ELSE status[n]]
  /\ failed' = failed \cup GivenUp
  /\ executor' = "returned"
  /\ UNCHANGED <<deps, inFlight, awaited, completed, task, doomed, cancelled>>

\* The status of a node whose task has ended
Outcome(n) ==
  CASE task[n] = "ok"    -> "completed"
    [] task[n] = "error" -> "failed"
    [] OTHER             -> "cancelled"

\* asyncio.wait hands over every awaited task that has ended; one that
\* _resolve_node_id no longer finds in _in_flight is skipped.
Collect ==
  LET done  == {n \in awaited : task[n] \in Ended}
      known == done \cap inFlight IN
  /\ executor = "waiting"
  /\ done # {}
  /\ inFlight' = inFlight \ known
  /\ status' = [n \in Nodes |-> IF n \in known THEN Outcome(n) ELSE status[n]]
  /\ completed' = completed \cup {n \in known : task[n] = "ok"}
  /\ failed' = failed \cup {n \in known : task[n] # "ok"}
  /\ awaited' = {}
  /\ executor' = "looping"
  /\ UNCHANGED <<deps, task, doomed, cancelled>>

\* The task that awaits execute is cancelled: the nodes' tasks go on
Interrupt ==
  /\ executor = "waiting"
  /\ executor' = "interrupted"
  /\ UNCHANGED <<deps, status, inFlight, awaited, completed, failed, task, doomed, cancelled>>

-----------------------------------------------------------------------------
(* The tasks, which run while execute is in an await or has ended *)

EventLoopFree == executor # "looping"

Running == {n \in Nodes : task[n] = "running"}

\* _run_node gets the semaphore
Acquire(n) ==
  /\ EventLoopFree
  /\ task[n] = "queued" /\ n \notin doomed
  /\ Cardinality(Running) < MaxConcurrency
  /\ task' = [task EXCEPT ![n] = "running"]
  /\ UNCHANGED <<deps, status, loop, doomed, cancelled>>

\* dispatch_fn ends
Finish(n, result) ==
  /\ EventLoopFree
  /\ task[n] = "running" /\ n \notin doomed
  /\ task' = [task EXCEPT ![n] = result]
  /\ UNCHANGED <<deps, status, loop, doomed, cancelled>>

\* A cancelled task ends, wherever it was waiting
EndCancelled(n) ==
  /\ EventLoopFree
  /\ n \in doomed
  /\ task' = [task EXCEPT ![n] = "cancelled"]
  /\ doomed' = doomed \ {n}
  /\ UNCHANGED <<deps, status, loop, cancelled>>

\* cancel_all, called from outside
CancelAll ==
  /\ EventLoopFree
  /\ inFlight # {}
  /\ doomed' = doomed \cup {n \in inFlight : task[n] \notin Ended}
  /\ inFlight' = {}
  /\ cancelled' = TRUE
  /\ UNCHANGED <<deps, status, executor, awaited, completed, failed, task>>

-----------------------------------------------------------------------------
Loop == ReturnComplete \/ DispatchReady \/ Deadlock \/ Collect

NodeTask(n) == Acquire(n) \/ EndCancelled(n) \/ \E r \in Ended : Finish(n, r)

Next ==
  \/ Loop
  \/ \E n \in Nodes : NodeTask(n)
  \/ Interrupt
  \/ CancelAll

Spec == Init /\ [][Next]_vars

\* The event loop runs every callback that is ready, and dispatch_fn ends: the
\* adapters' timeouts are what that rests on.
Fairness == WF_vars(Loop) /\ \A n \in Nodes : WF_vars(NodeTask(n))

FairSpec == Spec /\ Fairness

-----------------------------------------------------------------------------
(* Properties *)

\* No node's task exists before everything the node depends on has completed.
DependenciesFirst ==
  \A n \in Nodes : task[n] # "none" => deps[n] \subseteq completed

\* There is no barrier: whenever execute waits, no node that could start is
\* held back for a sibling still running.
NoBarrier ==
  executor = "waiting" => Ready = {}

\* The sets execute returns account for every node exactly once, unless
\* cancel_all took nodes away from it.
ResultPartition ==
  executor = "returned" /\ ~cancelled =>
    /\ completed \cup failed = Nodes
    /\ completed \cap failed = {}

\* A node reported as failed without having been dispatched had a dependency
\* that did not complete.
FailedForAReason ==
  executor = "returned" =>
    \A n \in failed : task[n] = "none" => ~(deps[n] \subseteq completed)

\* execute ends, whatever the graph (cycles and unknown ids included) and
\* whichever dispatches fail or are cancelled.
Terminates == <>(executor \in {"returned", "interrupted"})

\* The engine implements what it promises.
Progress == [n \in Nodes |->
  CASE status[n] = "pending"   -> "waiting"
    [] status[n] = "running"   -> "started"
    [] status[n] = "completed" -> "succeeded"
    [] OTHER                   -> "failed"]
Schedule == INSTANCE TaskSchedule WITH progress <- Progress
ImplementsSchedule == Schedule!Spec
=============================================================================
