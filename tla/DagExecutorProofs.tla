-------------------------- MODULE DagExecutorProofs --------------------------
(***************************************************************************)
(* Safety of DagExecutor for every graph, every number of nodes and every  *)
(* concurrency, and that it implements TaskSchedule.  The inductive        *)
(* invariant ties the three records of a node together: its status, its    *)
(* asyncio task, and the two sets execute returns.                         *)
(***************************************************************************)
EXTENDS DagExecutor, TLAPS

\* Where a node is, by its status
StatusInv ==
  \A n \in Nodes :
    /\ status[n] = "pending" => task[n] = "none" /\ n \notin inFlight
    /\ n \in inFlight => status[n] = "running"
    /\ status[n] = "running" => task[n] # "none" /\ (n \in inFlight \/ cancelled)
    /\ n \in completed <=> status[n] = "completed"
    /\ n \in failed <=> status[n] \in {"failed", "cancelled"}
    /\ n \in doomed => task[n] # "none"

\* A failure without a task comes from the last pass only
FailureInv ==
  executor # "returned" => \A n \in failed : task[n] # "none"

\* What is left when execute returns
ReturnInv ==
  executor = "returned" /\ ~cancelled => \A n \in Nodes : status[n] \in Terminal

DagInv ==
  /\ TypeOK /\ StatusInv /\ FailureInv /\ ReturnInv
  /\ DependenciesFirst /\ NoBarrier /\ FailedForAReason

-----------------------------------------------------------------------------
(* The invariant *)

\* The state before the first pass satisfies the invariant.
LEMMA DagInit == Init => DagInv
BY DEF Init, DagInv, TypeOK, StatusInv, FailureInv, ReturnInv, DependenciesFirst, NoBarrier,
       FailedForAReason, Terminal

\* Every step keeps the types.
LEMMA DagType == TypeOK /\ [Next]_vars => TypeOK'
<1> SUFFICES ASSUME TypeOK, [Next]_vars PROVE TypeOK'
  OBVIOUS
<1>1. CASE ReturnComplete
  BY <1>1 DEF TypeOK, ReturnComplete
<1>2. CASE DispatchReady
  BY <1>2 DEF TypeOK, DispatchReady, Ready, Pending
<1>3. CASE Deadlock
  BY <1>3 DEF TypeOK, Deadlock, GivenUp, Pending, Terminal
<1>4. CASE Collect
  BY <1>4 DEF TypeOK, Collect, Outcome, Terminal
<1>5. ASSUME NEW n \in Nodes, NodeTask(n) PROVE TypeOK'
  BY <1>5 DEF TypeOK, NodeTask, Acquire, EndCancelled, Finish, Ended, loop
<1>6. CASE Interrupt
  BY <1>6 DEF TypeOK, Interrupt
<1>7. CASE CancelAll
  BY <1>7 DEF TypeOK, CancelAll
<1>8. CASE UNCHANGED vars
  BY <1>8 DEF TypeOK, vars, loop
<1> QED
  BY <1>1, <1>2, <1>3, <1>4, <1>5, <1>6, <1>7, <1>8 DEF Next, Loop

\* Every step preserves the invariant.
LEMMA DagNext == DagInv /\ [Next]_vars => DagInv'
<1> SUFFICES ASSUME DagInv, [Next]_vars PROVE DagInv'
  OBVIOUS
<1>0. TypeOK /\ TypeOK'
  BY DagType DEF DagInv
<1> USE <1>0
<1>1. CASE ReturnComplete
  BY <1>1 DEF DagInv, ReturnComplete, IsComplete, StatusInv, FailureInv, ReturnInv,
     DependenciesFirst, NoBarrier, FailedForAReason
<1>2. CASE DispatchReady
  <2>1. StatusInv'
    BY <1>2 DEF DagInv, TypeOK, StatusInv, DispatchReady, Ready, Pending
  <2>2. FailureInv' /\ ReturnInv' /\ FailedForAReason'
    BY <1>2 DEF DagInv, TypeOK, FailureInv, ReturnInv, FailedForAReason, DispatchReady
  <2>3. DependenciesFirst'
    BY <1>2 DEF DagInv, TypeOK, DependenciesFirst, DispatchReady, Ready
  <2>4. NoBarrier'
    BY <1>2 DEF DagInv, TypeOK, StatusInv, NoBarrier, DispatchReady, Ready, Pending
  <2> QED
    BY <2>1, <2>2, <2>3, <2>4 DEF DagInv
<1>3. CASE Deadlock
  <2>1. StatusInv'
    BY <1>3 DEF DagInv, TypeOK, StatusInv, Deadlock, GivenUp, Pending
  <2>2. ReturnInv'
    BY <1>3 DEF DagInv, TypeOK, StatusInv, ReturnInv, Terminal, Deadlock, Stuck, GivenUp, Pending
  <2>3. FailedForAReason'
    BY <1>3 DEF DagInv, TypeOK, FailureInv, FailedForAReason, Deadlock, Stuck, Ready, GivenUp
  <2>4. FailureInv' /\ DependenciesFirst' /\ NoBarrier'
    BY <1>3 DEF DagInv, FailureInv, DependenciesFirst, NoBarrier, Deadlock
  <2> QED
    BY <2>1, <2>2, <2>3, <2>4 DEF DagInv
<1>4. CASE Collect
  <2>1. StatusInv'
    BY <1>4 DEF DagInv, TypeOK, StatusInv, Collect, Outcome, Ended
  <2>2. FailureInv' /\ ReturnInv' /\ NoBarrier' /\ FailedForAReason'
    BY <1>4 DEF DagInv, TypeOK, FailureInv, ReturnInv, NoBarrier, FailedForAReason, Collect, Ended
  <2>3. DependenciesFirst'
    BY <1>4 DEF DagInv, DependenciesFirst, Collect
  <2> QED
    BY <2>1, <2>2, <2>3 DEF DagInv
<1>5. ASSUME NEW n \in Nodes, NodeTask(n) PROVE DagInv'
  <2> DEFINE OnlyTask ==
        /\ task[n] # "none" /\ task'[n] # "none"
        /\ \A m \in Nodes : m # n => task'[m] = task[m]
        /\ executor # "looping" /\ doomed' \subseteq doomed
        /\ UNCHANGED <<deps, status, loop, cancelled>>
  <2>1. OnlyTask
    <3>1. CASE Acquire(n)
      BY <3>1 DEF TypeOK, Acquire, EventLoopFree
    <3>2. CASE \E r \in Ended : Finish(n, r)
      BY <3>2 DEF TypeOK, Finish, Ended, EventLoopFree
    <3>3. CASE EndCancelled(n)
      BY <3>3 DEF DagInv, TypeOK, StatusInv, EndCancelled, EventLoopFree
    <3> QED
      BY <1>5, <3>1, <3>2, <3>3 DEF NodeTask
  <2>2. StatusInv'
    BY <2>1 DEF DagInv, TypeOK, StatusInv, loop
  <2>3. DependenciesFirst'
    BY <2>1 DEF DagInv, DependenciesFirst, loop
  <2>4. FailureInv' /\ FailedForAReason'
    BY <2>1 DEF DagInv, TypeOK, FailureInv, FailedForAReason, loop
  <2>5. ReturnInv' /\ NoBarrier'
    BY <2>1 DEF DagInv, ReturnInv, NoBarrier, Ready, Pending, loop
  <2> QED
    BY <2>2, <2>3, <2>4, <2>5 DEF DagInv
<1>6. CASE Interrupt
  BY <1>6 DEF DagInv, Interrupt, StatusInv, FailureInv, ReturnInv, DependenciesFirst, NoBarrier,
     FailedForAReason
<1>7. CASE CancelAll
  BY <1>7 DEF DagInv, TypeOK, CancelAll, StatusInv, FailureInv, ReturnInv, DependenciesFirst,
     NoBarrier, FailedForAReason, Ready, Pending
<1>8. CASE UNCHANGED vars
  BY <1>8 DEF DagInv, vars, loop, StatusInv, FailureInv, ReturnInv, DependenciesFirst, NoBarrier,
     FailedForAReason, Ready, Pending
<1> QED
  BY <1>1, <1>2, <1>3, <1>4, <1>5, <1>6, <1>7, <1>8 DEF Next, Loop

\* The invariant holds in every reachable state, for every graph.
THEOREM DagInvariance == Spec => []DagInv
BY DagInit, DagNext, PTL DEF Spec

\* No node starts before everything it depends on has completed.
THEOREM DependenciesRespected == Spec => []DependenciesFirst
<1>1. DagInv => DependenciesFirst
  BY DEF DagInv
<1> QED
  BY <1>1, DagInvariance, PTL

\* Whenever execute waits, everything that could start has been started.
THEOREM Barrierless == Spec => []NoBarrier
<1>1. DagInv => NoBarrier
  BY DEF DagInv
<1> QED
  BY <1>1, DagInvariance, PTL

\* Without cancel_all, what execute returns accounts for every node once.
THEOREM EveryNodeAccounted == Spec => []ResultPartition
<1>1. DagInv => ResultPartition
  BY DEF DagInv, TypeOK, StatusInv, ReturnInv, ResultPartition, Terminal
<1> QED
  BY <1>1, DagInvariance, PTL

\* A node failed without a dispatch had a dependency that did not complete.
THEOREM NoGroundlessFailure == Spec => []FailedForAReason
<1>1. DagInv => FailedForAReason
  BY DEF DagInv
<1> QED
  BY <1>1, DagInvariance, PTL

-----------------------------------------------------------------------------
(* Refinement *)

\* The engine implements TaskSchedule: a pass is a Start or a GiveUp, a
\* collection is an End, and every other step is a stutter.
THEOREM EngineImplementsSchedule == Spec => ImplementsSchedule
<1>1. Init => Schedule!Init
  BY DEF Init, Schedule!Init, Progress
<1>2. ASSUME DagInv, [Next]_vars PROVE [Schedule!Next]_(Schedule!vars)
  <2>0. TypeOK /\ Schedule!In("succeeded") = completed
    BY <1>2 DEF DagInv, TypeOK, StatusInv, Schedule!In, Progress, Terminal
  <2>1. CASE DispatchReady
    <3>1. Ready \subseteq Schedule!In("waiting") /\ Ready \cap inFlight = {}
      BY <1>2, <2>0 DEF DagInv, TypeOK, StatusInv, Ready, Pending, Schedule!In, Progress
    <3>2. \A n \in Ready : Schedule!Satisfied(n)
      BY <2>0 DEF Ready, Schedule!Satisfied
    <3>3. Progress' = [n \in Nodes |-> IF n \in Ready THEN "started" ELSE Progress[n]]
      BY <2>0, <2>1, <3>1 DEF TypeOK, DispatchReady, Progress
    <3> QED
      BY <2>1, <3>1, <3>2, <3>3 DEF DispatchReady, Schedule!Next, Schedule!Start
  <2>2. CASE Deadlock
    <3>1. Schedule!In("waiting") = Pending
      BY <2>0 DEF TypeOK, Pending, Schedule!In, Progress, Terminal
    <3>2. \A n \in Pending : ~Schedule!Satisfied(n)
      BY <2>0, <2>2 DEF Deadlock, Stuck, Ready, Schedule!Satisfied
    <3>3. Progress' = [n \in Nodes |-> IF Progress[n] = "waiting" THEN "failed" ELSE Progress[n]]
      BY <2>0, <2>2 DEF TypeOK, Deadlock, GivenUp, Pending, Progress, Terminal
    <3> QED
      BY <2>2, <3>1, <3>2, <3>3 DEF Deadlock, Schedule!Next, Schedule!GiveUp
  <2>3. CASE Collect
    <3> DEFINE D == {n \in awaited : task[n] \in Ended} \cap inFlight
               G == {n \in Nodes : task[n] = "ok"}
    <3>1. D \subseteq Schedule!In("started")
      BY <1>2, <2>0 DEF DagInv, TypeOK, StatusInv, Schedule!In, Progress
    <3>2. \A n \in Nodes : status'[n] = IF n \in D THEN Outcome(n) ELSE status[n]
      BY <2>0, <2>3 DEF TypeOK, Collect
    <3>3. Progress' = [n \in Nodes |->
                         IF n \notin D THEN Progress[n]
                         ELSE IF n \in G THEN "succeeded" ELSE "failed"]
      BY <2>0, <3>2 DEF TypeOK, Outcome, Progress, Ended
    <3> QED
      BY ZenonT(30), <2>3, <3>1, <3>3 DEF Collect, Schedule!Next, Schedule!End
  <2>4. CASE UNCHANGED <<deps, status>>
    BY <2>4 DEF Schedule!vars, Progress
  <2> QED
    BY <1>2, <2>1, <2>2, <2>3, <2>4 DEF Next, Loop, ReturnComplete, NodeTask, Acquire, Finish,
       EndCancelled, Interrupt, CancelAll, loop, vars
<1> QED
  BY <1>1, <1>2, DagInvariance, PTL DEF Spec, ImplementsSchedule, Schedule!Spec
=============================================================================
