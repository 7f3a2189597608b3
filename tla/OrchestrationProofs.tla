------------------------- MODULE OrchestrationProofs -------------------------
(***************************************************************************)
(* Safety of Orchestration for every set of subtasks and every RETRY_LIMIT. *)
(* The inductive invariant says what each stage of the orchestrator's      *)
(* coroutine has written, and what a dispatch's state says of its row: no  *)
(* dispatch is alive over a row that is final, which is why a retry can    *)
(* never reopen one.                                                       *)
(***************************************************************************)
EXTENDS Orchestration, TLAPS

\* What the coroutine has written when it is at a stage, and what it leaves
\* behind when it is cancelled or crashes
StageInv ==
  /\ pc = "planning" => parent = "none"
  /\ pc = "filing" => parent = "pending"
  /\ pc \in {"starting", "executing", "summing"} => parent = "running"
  /\ pc \in {"planning", "filing", "starting"} => \A s \in Subtasks : dispatch[s] = "none"
  /\ pc \in {"summing", "reporting", "done"} => AllEnded

\* A settled parent had every dispatch ended, and every one well if it is done
\* without a recovered preview
ParentInv ==
  /\ parent \in {"done", "failed"} => AllEnded
  /\ parent = "done" /\ ~degraded => AllDone

\* A row and the dispatch that works on it
RowInv ==
  \A s \in Subtasks :
    /\ dispatch[s] = "ok" => row[s] = "done"
    /\ row[s] = "done" => dispatch[s] = "ok"
    /\ row[s] = "failed" => dispatch[s] \in {"raised", "error"}
    /\ dispatch[s] = "active" => row[s] = "running"
    /\ dispatch[s] = "raised" => row[s] \in {"running", "failed"}
    /\ dispatch[s] = "cancelled" => row[s] = "running"

OrchInv == TypeOK /\ StageInv /\ ParentInv /\ RowInv

-----------------------------------------------------------------------------
(* The task table *)

\* What the moves of the task table come to for the rows in these states.
LEMMA Moves ==
  /\ ~CanMove("running", "running") /\ ~CanMove("failed", "running")
  /\ ~CanMove("done", "done") /\ ~CanMove("done", "failed")
  /\ ~CanMove("failed", "done") /\ ~CanMove("failed", "failed")
BY DEF CanMove, ALLOWED_TRANSITIONS

\* A failed attempt is never followed by another: the row cannot be set running.
LEMMA NoSecondAttempt ==
  ASSUME RowInv, NEW s \in Subtasks, dispatch[s] = "raised"
  PROVE  AfterException(s) = "error"
<1>1. row[s] \in {"running", "failed"}
  BY DEF RowInv
<1> QED
  BY <1>1, Moves DEF AfterException

-----------------------------------------------------------------------------
(* The invariant *)

\* The state before the plan satisfies the invariant.
LEMMA OrchInit == Init => OrchInv
<1> SUFFICES ASSUME Init PROVE OrchInv
  OBVIOUS
<1>1. 0 \in 0..(RETRY_LIMIT + 1)
  BY OrchestrationAssumption
<1>2. TypeOK
  BY <1>1 DEF Init, TypeOK, Live, VALID_STATUSES
<1>3. StageInv /\ ParentInv /\ RowInv
  BY DEF Init, StageInv, ParentInv, RowInv
<1> QED
  BY <1>2, <1>3 DEF OrchInv

\* Every step keeps the types.
LEMMA OrchType == TypeOK /\ RowInv /\ [Next]_vars => TypeOK'
<1> SUFFICES ASSUME TypeOK, RowInv, [Next]_vars PROVE TypeOK'
  OBVIOUS
<1> USE OrchestrationAssumption DEF TypeOK, Live, VALID_STATUSES
<1>1. CASE FileParent
  BY <1>1 DEF FileParent
<1>2. ASSUME NEW s \in Subtasks, FileSubtask(s) \/ StartSubtask(s) PROVE TypeOK'
  BY <1>2 DEF FileSubtask, StartSubtask
<1>3. CASE StartParent
  BY <1>3 DEF StartParent
<1>4. CASE Execute
  BY <1>4 DEF Execute, rows
<1>5. CASE Collected \/ Report \/ Crash
  BY <1>5 DEF Collected, Report, Crash, rows
<1>6. ASSUME NEW recovered \in BOOLEAN, SettleParent(recovered) PROVE TypeOK'
  BY <1>6 DEF SettleParent
<1>7. ASSUME NEW s \in Subtasks, Dispatch(s) PROVE TypeOK'
  <2>1. CASE AttemptDone(s) \/ AttemptFails(s)
    BY <2>1 DEF AttemptDone, AttemptFails
  <2>2. CASE AttemptRaises(s) \/ AttemptCancelled(s)
    BY <2>2 DEF AttemptRaises, AttemptCancelled, rows
  <2>3. CASE HandleException(s)
    <3>1. AfterException(s) = "error"
      BY <2>3, NoSecondAttempt DEF HandleException
    <3> QED
      BY <2>3, <3>1 DEF HandleException
  <2> QED
    BY <1>7, <2>1, <2>2, <2>3 DEF Dispatch
<1>8. CASE CancelCheck \/ CancelFire
  BY <1>8 DEF CancelCheck, CancelFire, rows
<1>9. CASE UNCHANGED vars
  BY <1>9 DEF vars, rows
<1> QED
  BY <1>1, <1>2, <1>3, <1>4, <1>5, <1>6, <1>7, <1>8, <1>9 DEF Next, Orchestrate

\* Every step preserves the invariant.
LEMMA OrchNext == OrchInv /\ [Next]_vars => OrchInv'
<1> SUFFICES ASSUME OrchInv, [Next]_vars PROVE OrchInv'
  OBVIOUS
<1>0. TypeOK /\ TypeOK'
  BY OrchType DEF OrchInv
<1> USE <1>0 DEF OrchInv
<1>1. CASE FileParent
  BY <1>1 DEF FileParent, StageInv, ParentInv, RowInv
<1>2. ASSUME NEW s \in Subtasks, FileSubtask(s) \/ StartSubtask(s) PROVE OrchInv'
  BY <1>2 DEF FileSubtask, StartSubtask, TypeOK, StageInv, ParentInv, RowInv, AllEnded, AllDone
<1>3. CASE StartParent
  BY <1>3 DEF StartParent, StageInv, ParentInv, RowInv
<1>4. CASE Execute
  BY <1>4 DEF Execute, rows, TypeOK, StageInv, ParentInv, RowInv, AllEnded, AllDone
<1>5. CASE Collected \/ Report \/ Crash
  BY <1>5 DEF Collected, Report, Crash, rows, StageInv, ParentInv, RowInv, AllEnded, AllDone, Live
<1>6. ASSUME NEW recovered \in BOOLEAN, SettleParent(recovered) PROVE OrchInv'
  <2>1. AllEnded
    BY <1>6 DEF SettleParent, StageInv
  <2>2. ParentInv'
    BY <1>6, <2>1 DEF SettleParent, ParentInv, AllEnded, AllDone
  <2> QED
    BY <1>6, <2>1, <2>2 DEF SettleParent, StageInv, RowInv, AllEnded
<1>7. ASSUME NEW s \in Subtasks, Dispatch(s) PROVE OrchInv'
  <2> DEFINE OnlyThis ==
        /\ dispatch[s] \in {"active", "raised"} /\ dispatch'[s] \notin {"none", "active"}
        /\ \A t \in Subtasks : t # s => dispatch'[t] = dispatch[t] /\ row'[t] = row[t]
        /\ UNCHANGED <<pc, parent, degraded>>
  <2>1. OnlyThis
    <3>1. CASE AttemptDone(s) \/ AttemptFails(s)
      BY <3>1 DEF AttemptDone, AttemptFails, TypeOK
    <3>2. CASE AttemptRaises(s) \/ AttemptCancelled(s)
      BY <3>2 DEF AttemptRaises, AttemptCancelled, rows, TypeOK
    <3>3. CASE HandleException(s)
      BY <3>3, NoSecondAttempt DEF HandleException, TypeOK
    <3> QED
      BY <1>7, <3>1, <3>2, <3>3 DEF Dispatch
  <2>2. RowInv'
    <3>1. CASE AttemptDone(s) \/ AttemptFails(s)
      BY <3>1 DEF AttemptDone, AttemptFails, TypeOK, RowInv
    <3>2. CASE AttemptRaises(s) \/ AttemptCancelled(s)
      BY <3>2 DEF AttemptRaises, AttemptCancelled, rows, TypeOK, RowInv
    <3>3. CASE HandleException(s)
      BY <3>3, NoSecondAttempt DEF HandleException, TypeOK, RowInv
    <3> QED
      BY <1>7, <3>1, <3>2, <3>3 DEF Dispatch
  <2>3. StageInv' /\ ParentInv'
    BY <2>1 DEF StageInv, ParentInv, AllEnded, AllDone
  <2> QED
    BY <2>2, <2>3
<1>8. CASE CancelCheck \/ CancelFire
  BY <1>8 DEF CancelCheck, CancelFire, rows, StageInv, ParentInv, RowInv, AllEnded, AllDone
<1>9. CASE UNCHANGED vars
  BY <1>9 DEF vars, rows, StageInv, ParentInv, RowInv, AllEnded, AllDone
<1> QED
  BY <1>1, <1>2, <1>3, <1>4, <1>5, <1>6, <1>7, <1>8, <1>9 DEF Next, Orchestrate

\* The invariant holds in every reachable state.
THEOREM OrchInvariance == Spec => []OrchInv
BY OrchInit, OrchNext, PTL DEF Spec

\* The parent's row is settled only after the last dispatch has ended.
THEOREM SettledAfterLast == Spec => []ParentSettledLast
<1>1. OrchInv => ParentSettledLast
  BY DEF OrchInv, ParentInv, AllEnded, ParentSettledLast
<1> QED
  BY <1>1, OrchInvariance, PTL

\* A parent that is done without a recovered preview has every row done.
THEOREM DoneIsDone == Spec => []DoneMeansAllDone
<1>1. OrchInv => DoneMeansAllDone
  BY DEF OrchInv, ParentInv, RowInv, AllDone, DoneMeansAllDone
<1> QED
  BY <1>1, OrchInvariance, PTL

\* No step writes a row that is done or failed.
THEOREM FinalStays == Spec => FinalRowsStay
<1> DEFINE Stays ==
      /\ parent \in {"done", "failed"} => parent' = parent
      /\ \A s \in Subtasks : row[s] \in {"done", "failed"} => row'[s] = row[s]
<1>1. ASSUME OrchInv, [Next]_vars PROVE [Stays]_vars
  <2> USE <1>1 DEF OrchInv
  <2>1. CASE FileParent \/ StartParent
    BY <2>1 DEF FileParent, StartParent, StageInv
  <2>2. ASSUME NEW t \in Subtasks, FileSubtask(t) \/ StartSubtask(t) PROVE Stays
    BY <2>2 DEF FileSubtask, StartSubtask, TypeOK
  <2>3. CASE Execute \/ Collected \/ Report \/ Crash \/ CancelCheck \/ CancelFire
    BY <2>3 DEF Execute, Collected, Report, Crash, CancelCheck, CancelFire, rows
  <2>4. ASSUME NEW recovered \in BOOLEAN, SettleParent(recovered) PROVE Stays
    BY <2>4, Moves DEF SettleParent, StageInv
  <2>5. ASSUME NEW t \in Subtasks, Dispatch(t) PROVE Stays
    <3>1. CASE AttemptDone(t) \/ AttemptFails(t)
      BY <3>1, Moves DEF AttemptDone, AttemptFails, TypeOK
    <3>2. CASE AttemptRaises(t) \/ AttemptCancelled(t)
      BY <3>2 DEF AttemptRaises, AttemptCancelled, rows
    <3>3. CASE HandleException(t)
      BY <3>3, NoSecondAttempt DEF HandleException, TypeOK
    <3> QED
      BY <2>5, <3>1, <3>2, <3>3 DEF Dispatch
  <2>6. CASE UNCHANGED vars
    BY <2>6
  <2> QED
    BY <1>1, <2>1, <2>2, <2>3, <2>4, <2>5, <2>6 DEF Next, Orchestrate
<1> QED
  BY <1>1, OrchInvariance, PTL DEF Spec, FinalRowsStay

-----------------------------------------------------------------------------
(* Refinement *)

\* The dispatches of one orchestration are a schedule: Execute is a Start of all
\* of them, each ends once, and every other step is a stutter.
THEOREM DispatchesAreASchedule == Spec => ImplementsSchedule
<1>1. Init => Schedule!Init
  BY DEF Init, Schedule!Init, Progress
<1>2. ASSUME OrchInv, [Next]_vars PROVE [Schedule!Next]_(Schedule!vars)
  <2>0. TypeOK
    BY <1>2 DEF OrchInv
  <2>1. CASE Execute
    <3>1. \A s \in Subtasks : dispatch[s] = "none"
      BY <1>2, <2>1 DEF OrchInv, StageInv, Execute
    <3>2. Schedule!In("waiting") = Subtasks
      BY <3>1 DEF Schedule!In, Progress
    <3>3. \A s \in Subtasks : Schedule!Satisfied(s)
      BY DEF Schedule!Satisfied
    <3>4. Progress' = [s \in Subtasks |-> IF s \in Subtasks THEN "started" ELSE Progress[s]]
      BY <2>1 DEF Execute, Progress
    <3> QED
      BY <3>2, <3>3, <3>4 DEF Schedule!Next, Schedule!Start
  <2>2. ASSUME NEW s \in Subtasks, Dispatch(s) PROVE [Schedule!Next]_(Schedule!vars)
    <3>1. Progress[s] = "started" /\ s \in Schedule!In("started")
      <4>1. dispatch[s] \in {"active", "raised"}
        BY <2>2 DEF Dispatch, AttemptDone, AttemptFails, AttemptRaises, AttemptCancelled,
           HandleException
      <4> QED
        BY <4>1 DEF Progress, Schedule!In
    <3>2. \E r \in {"raised", "ok", "error", "cancelled"} : dispatch' = [dispatch EXCEPT ![s] = r]
      <4>1. CASE HandleException(s)
        BY <1>2, <4>1, NoSecondAttempt DEF HandleException, OrchInv
      <4> QED
        BY <2>2, <4>1 DEF Dispatch, AttemptDone, AttemptFails, AttemptRaises, AttemptCancelled
    <3>3. PICK r \in {"raised", "ok", "error", "cancelled"} : dispatch' = [dispatch EXCEPT ![s] = r]
      BY <3>2
    <3>4. CASE r = "raised"
      <4>1. Progress' = Progress
        BY <2>0, <3>1, <3>3, <3>4 DEF TypeOK, Progress
      <4> QED
        BY <4>1 DEF Schedule!vars
    <3>5. CASE r # "raised"
      <4> DEFINE G == {n \in {s} : r = "ok"}
      <4>1. Progress' = [n \in Subtasks |->
                           IF n \notin {s} THEN Progress[n]
                           ELSE IF n \in G THEN "succeeded" ELSE "failed"]
        BY <2>0, <3>3, <3>5 DEF TypeOK, Progress
      <4>2. {s} \subseteq Schedule!In("started") /\ G \subseteq Subtasks
        BY <3>1
      <4> QED
        BY <4>1, <4>2 DEF Schedule!Next, Schedule!End
    <3> QED
      BY <3>4, <3>5
  <2>3. CASE UNCHANGED dispatch
    BY <2>3 DEF Schedule!vars, Progress
  <2> QED
    BY <1>2, <2>1, <2>2, <2>3 DEF Next, Orchestrate, FileParent, FileSubtask, StartSubtask,
       StartParent, Collected, SettleParent, Report, Crash, CancelCheck, CancelFire, vars
<1> QED
  BY <1>1, <1>2, OrchInvariance, PTL DEF Spec, ImplementsSchedule, Schedule!Spec
=============================================================================
