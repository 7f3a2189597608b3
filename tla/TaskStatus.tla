----------------------------- MODULE TaskStatus -----------------------------
(***************************************************************************)
(* The state machine of a row of the task table                            *)
(* (server/services/task.py): update_task_status raises on a move that     *)
(* ALLOWED_TRANSITIONS does not list.                                      *)
(***************************************************************************)

VALID_STATUSES == {"planning", "pending", "running", "done", "failed", "blocked", "conflict"}

\* Mutant: a row may be set running whatever it was
ReopeningTransitions ==
  [s \in VALID_STATUSES |-> {"running", "done", "failed", "blocked", "conflict"}]

ALLOWED_TRANSITIONS ==
  [planning |-> {"pending", "running", "blocked", "failed"},
   pending  |-> {"running", "blocked", "failed", "conflict"},
   running  |-> {"done", "failed", "blocked", "conflict"},
   done     |-> {},
   failed   |-> {},
   blocked  |-> {"running", "failed"},
   conflict |-> {"running", "failed", "blocked"}]

\* _validate_transition
CanMove(current, next) == next \in ALLOWED_TRANSITIONS[current]
=============================================================================
