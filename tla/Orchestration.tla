---------------------------- MODULE Orchestration ----------------------------
(***************************************************************************)
(* One message to @Orchestrator (server/orchestrator.py, run by            *)
(* _run_orchestrator in server/handlers/send_message.py) with the cancel   *)
(* handler (server/handlers/cancel.py) beside it.                          *)
(*                                                                         *)
(* The orchestrator's coroutine files a parent task and its subtasks,      *)
(* starts one dispatch per subtask and waits for all of them, then settles *)
(* the parent.  The DAG it builds has no dependencies and room for every   *)
(* node (module DagExecutor has the engine), so all dispatches run at      *)
(* once.  Coroutines switch at awaits: a step ends at a database commit.   *)
(* The agent's stream, the plan and the summary's text are left out.       *)
(***************************************************************************)
EXTENDS Naturals, TaskStatus

CONSTANTS
  Subtasks,    (* the subtasks the plan decomposed the request into        *)
  RETRY_LIMIT  (* retries of a subtask after its first attempt             *)

ASSUME OrchestrationAssumption == Subtasks # {} /\ RETRY_LIMIT \in Nat

VARIABLES
  pc,          (* where the orchestrator's coroutine is                    *)
  parent,      (* status of the parent's row, "none" before it is filed    *)
  row,         (* subtask -> status of its row                             *)
  dispatch,    (* subtask -> state of _dispatch_subtask_with_retry         *)
  attempts,    (* subtask -> attempts begun                                *)
  canceller,   (* the cancel handler: idle, or cleared to cancel           *)
  degraded     (* the parent was done over a generated preview             *)

rows == <<parent, row>>
vars == <<pc, rows, dispatch, attempts, canceller, degraded>>

-----------------------------------------------------------------------------
Live == {"planning", "filing", "starting", "executing", "summing", "reporting"}

TypeOK ==
  /\ pc \in Live \cup {"done", "cancelled", "crashed"}
  /\ parent \in VALID_STATUSES \cup {"none"}
  /\ row \in [Subtasks -> VALID_STATUSES \cup {"none"}]
  /\ dispatch \in [Subtasks -> {"none", "active", "raised", "ok", "error", "cancelled"}]
  /\ attempts \in [Subtasks -> 0..(RETRY_LIMIT + 1)]
  /\ canceller \in {"idle", "cleared"}
  /\ degraded \in BOOLEAN

Init ==
  /\ pc = "planning" /\ parent = "none"
  /\ row = [s \in Subtasks |-> "none"]
  /\ dispatch = [s \in Subtasks |-> "none"]
  /\ attempts = [s \in Subtasks |-> 0]
  /\ canceller = "idle"
  /\ degraded = FALSE

-----------------------------------------------------------------------------
(* handle_orchestrator_mention *)

FileParent ==
  /\ pc = "planning"
  /\ parent' = "pending"
  /\ pc' = "filing"
  /\ UNCHANGED <<row, dispatch, attempts, canceller, degraded>>

FileSubtask(s) ==
  /\ pc = "filing"
  /\ row[s] = "none"
  /\ row' = [row EXCEPT ![s] = "pending"]
  /\ UNCHANGED <<pc, parent, dispatch, attempts, canceller, degraded>>

StartParent ==
  /\ pc = "filing"
  /\ \A s \in Subtasks : row[s] # "none"
  /\ CanMove(parent, "running")
  /\ parent' = "running"
  /\ pc' = "starting"
  /\ UNCHANGED <<row, dispatch, attempts, canceller, degraded>>

StartSubtask(s) ==
  /\ pc = "starting"
  /\ row[s] = "pending" /\ CanMove(row[s], "running")
  /\ row' = [row EXCEPT ![s] = "running"]
  /\ UNCHANGED <<pc, parent, dispatch, attempts, canceller, degraded>>

\* The engine's first pass: every node is ready
Execute ==
  /\ pc = "starting"
  /\ \A s \in Subtasks : row[s] = "running"
  /\ dispatch' = [s \in Subtasks |-> "active"]
  /\ attempts' = [s \in Subtasks |-> 1]
  /\ pc' = "executing"
  /\ UNCHANGED <<rows, canceller, degraded>>

\* Mutant: the engine's result is taken when the first dispatch ends
FirstEnded == \E s \in Subtasks : dispatch[s] \in {"ok", "error", "cancelled"}

\* Mutant: only dispatches that end well are collected
AllOk == \A s \in Subtasks : dispatch[s] = "ok"

\* execute returns
AllEnded == \A s \in Subtasks : dispatch[s] \in {"ok", "error", "cancelled"}

Collected ==
  /\ pc = "executing"
  /\ AllEnded
  /\ pc' = "summing"
  /\ UNCHANGED <<rows, dispatch, attempts, canceller, degraded>>

\* Mutant: one completed subtask is enough
SomeDone == \E s \in Subtasks : dispatch[s] = "ok"

AllDone == \A s \in Subtasks : dispatch[s] = "ok"

\* With a failure the parent is done only over a recovered preview, which is
\* generated when the request asks for a page.
SettleParent(recovered) ==
  /\ pc = "summing"
  /\ recovered => ~AllDone
  /\ LET outcome == IF AllDone \/ recovered THEN "done" ELSE "failed" IN
       /\ CanMove(parent, outcome)
       /\ parent' = outcome
  /\ degraded' = recovered
  /\ pc' = "reporting"
  /\ UNCHANGED <<row, dispatch, attempts, canceller>>

\* The summary, message_done, and the coroutine's end
Report ==
  /\ pc = "reporting"
  /\ pc' = "done"
  /\ UNCHANGED <<rows, dispatch, attempts, canceller, degraded>>

\* A database call or the planner raises: _run_orchestrator writes [error] to
\* the bubble and nothing to the rows.
Crash ==
  /\ pc \in Live \ {"executing"}
  /\ pc' = "crashed"
  /\ UNCHANGED <<rows, dispatch, attempts, canceller, degraded>>

-----------------------------------------------------------------------------
(* _dispatch_subtask_with_retry, one coroutine per subtask *)

\* _dispatch_subtask_with_result returns: the row first, then the result
AttemptDone(s) ==
  /\ dispatch[s] = "active" /\ CanMove(row[s], "done")
  /\ row' = [row EXCEPT ![s] = "done"]
  /\ dispatch' = [dispatch EXCEPT ![s] = "ok"]
  /\ UNCHANGED <<pc, parent, attempts, canceller, degraded>>

\* The agent is not available or streamed an error: the row is failed, then
\* RuntimeError
AttemptFails(s) ==
  /\ dispatch[s] = "active" /\ CanMove(row[s], "failed")
  /\ row' = [row EXCEPT ![s] = "failed"]
  /\ dispatch' = [dispatch EXCEPT ![s] = "raised"]
  /\ UNCHANGED <<pc, parent, attempts, canceller, degraded>>

\* The adapter itself raises: the row stays as it is
AttemptRaises(s) ==
  /\ dispatch[s] = "active"
  /\ dispatch' = [dispatch EXCEPT ![s] = "raised"]
  /\ UNCHANGED <<pc, rows, attempts, canceller, degraded>>

\* CancelledError out of the adapter: no except clause of the retry takes it
AttemptCancelled(s) ==
  /\ dispatch[s] = "active"
  /\ dispatch' = [dispatch EXCEPT ![s] = "cancelled"]
  /\ UNCHANGED <<pc, rows, attempts, canceller, degraded>>

\* Mutant: the exception of a failed attempt is taken for a result
SwallowException(s) == "ok"

\* The except clause: with attempts left the row is set running again, and the
\* ValueError of a move the table does not allow ends the coroutine instead.
AfterException(s) ==
  IF attempts[s] <= RETRY_LIMIT /\ CanMove(row[s], "running") THEN "active" ELSE "error"

\* Mutant: the next attempt is not counted
RetryUncounted(s) ==
  /\ dispatch[s] = "raised"
  /\ dispatch' = [dispatch EXCEPT ![s] = "active"]
  /\ row' = [row EXCEPT ![s] = "running"]
  /\ UNCHANGED <<pc, parent, attempts, canceller, degraded>>

\* Mutant: a cancelled dispatch is retried like one that raised
RetryCancelled(s) ==
  /\ dispatch[s] \in {"raised", "cancelled"}
  /\ dispatch' = [dispatch EXCEPT ![s] = IF attempts[s] <= RETRY_LIMIT THEN "active" ELSE "error"]
  /\ attempts' = [attempts EXCEPT ![s] = IF @ <= RETRY_LIMIT THEN @ + 1 ELSE @]
  /\ UNCHANGED <<pc, rows, canceller, degraded>>

HandleException(s) ==
  /\ dispatch[s] = "raised"
  /\ dispatch' = [dispatch EXCEPT ![s] = AfterException(s)]
  /\ row' = [row EXCEPT ![s] = IF AfterException(s) = "active" THEN "running" ELSE @]
  /\ attempts' = [attempts EXCEPT ![s] = IF AfterException(s) = "active" THEN @ + 1 ELSE @]
  /\ UNCHANGED <<pc, parent, canceller, degraded>>

-----------------------------------------------------------------------------
(* cancel.handle: two awaits, the query for active subtasks and the rest   *)

ACTIVE_TASK_STATUSES == {"planning", "pending", "running"}

HasActiveSubtasks == \E s \in Subtasks : row[s] \in ACTIVE_TASK_STATUSES

CancelCheck ==
  /\ canceller = "idle"
  /\ pc \in Live
  /\ ~HasActiveSubtasks
  /\ canceller' = "cleared"
  /\ UNCHANGED <<pc, rows, dispatch, attempts, degraded>>

\* task.cancel(): CancelledError at the orchestrator's await, nothing if it has
\* ended.  asyncio.wait does not pass it on: the dispatches go on.
CancelFire ==
  /\ canceller = "cleared"
  /\ canceller' = "idle"
  /\ pc' = IF pc \in Live THEN "cancelled" ELSE pc
  /\ UNCHANGED <<rows, dispatch, attempts, degraded>>

-----------------------------------------------------------------------------
Orchestrate ==
  \/ FileParent
  \/ \E s \in Subtasks : FileSubtask(s) \/ StartSubtask(s)
  \/ StartParent
  \/ Execute
  \/ Collected
  \/ \E recovered \in BOOLEAN : SettleParent(recovered)
  \/ Report

Dispatch(s) ==
  AttemptDone(s) \/ AttemptFails(s) \/ AttemptRaises(s) \/ AttemptCancelled(s) \/ HandleException(s)

Next ==
  \/ Orchestrate
  \/ \E s \in Subtasks : Dispatch(s)
  \/ Crash
  \/ CancelCheck
  \/ CancelFire

Spec == Init /\ [][Next]_vars

\* The event loop runs every coroutine that can go on, and every attempt ends
Fairness == WF_vars(Orchestrate) /\ \A s \in Subtasks : WF_vars(Dispatch(s))

FairSpec == Spec /\ Fairness

-----------------------------------------------------------------------------
(* Properties *)

\* The parent is settled after its last dispatch has ended, and never while an
\* agent is still writing for it.
ParentSettledLast ==
  parent \in {"done", "failed"} =>
    \A s \in Subtasks : dispatch[s] \in {"ok", "error", "cancelled"}

\* A parent that is done without a recovered preview has every subtask done.
DoneMeansAllDone ==
  parent = "done" /\ ~degraded => \A s \in Subtasks : row[s] = "done"

\* A row that is done or failed is never written again: no late attempt, no
\* retry and no summary of a cancelled orchestrator reopens it.
FinalRowsStay ==
  [][/\ parent \in {"done", "failed"} => parent' = parent
     /\ \A s \in Subtasks : row[s] \in {"done", "failed"} => row'[s] = row[s]]_vars

\* The orchestrator's coroutine ends, with a report, cancelled or crashed, and every
\* dispatch goes on to an end of its own, also when the orchestrator that started it
\* was cancelled.
EverythingEnds ==
  /\ <>(pc \notin Live)
  /\ \A s \in Subtasks :
       dispatch[s] = "active" ~> dispatch[s] \in {"ok", "error", "cancelled"}

\* docs/ARCHITECTURE.md:855 says a failed adapter is retried once.  Neither
\* failed -> running nor running -> running is a transition, so the except
\* clause that should retry raises, and no subtask has a second attempt.
RetriedOnce ==
  \A s \in Subtasks : dispatch[s] = "error" => attempts[s] = RETRY_LIMIT + 1

\* The cancel handler says "Orchestrator is waiting for active subtasks and
\* cannot be cancelled yet" (server/handlers/cancel.py:55).  The query and the
\* cancel are two steps: the subtasks may be filed in between.
NotCancelledOverSubtasks ==
  [][pc' = "cancelled" /\ pc # "cancelled" => ~HasActiveSubtasks]_vars

\* The dispatches of one orchestration are a schedule without dependencies.
Progress == [s \in Subtasks |->
  CASE dispatch[s] = "none"               -> "waiting"
    [] dispatch[s] \in {"active", "raised"} -> "started"
    [] dispatch[s] = "ok"                 -> "succeeded"
    [] OTHER                              -> "failed"]
Schedule == INSTANCE TaskSchedule WITH
  Nodes <- Subtasks, Names <- Subtasks,
  deps <- [s \in Subtasks |-> {}], progress <- Progress
ImplementsSchedule == Schedule!Spec
=============================================================================
