------------------------------ MODULE Pipeline ------------------------------
(***************************************************************************)
(* The stage pipeline (src/src/scheduler/pipeline.py) over a flow of       *)
(* src/src/scheduler/stage_agents.py: stages in sequence, each tried some  *)
(* times, written by an actor, reviewed by a critic and confirmed by the   *)
(* user, who may ask for another version.                                  *)
(*                                                                         *)
(* Agents and the user are external.  An agent that raises is an agent     *)
(* that has answered: _run_agent turns the exception into its text.  No    *)
(* stage returns GOTO, so what execute does about it is left out, and so   *)
(* are prompts and artifacts.                                              *)
(***************************************************************************)
EXTENDS Naturals, Sequences, FiniteSets, SequencesExt

CONSTANTS
  Flow,         (* a flow definition                                       *)
  StartStage,   (* the stage it is started at                              *)
  MaxNesting    (* bound: versions asked for one within the other          *)

StageOf(critic, iterations, confirm, next) ==
  [critic |-> critic, max_iterations |-> iterations, needs_confirmation |-> confirm, on_success |-> next]

DEFAULT_FLOW ==
  [stages |-> [idea |-> StageOf(FALSE, 1, TRUE, "prd"), prd |-> StageOf(TRUE, 1, TRUE, "design"),
               design |-> StageOf(TRUE, 1, TRUE, "plan"), plan |-> StageOf(TRUE, 1, TRUE, "coding"),
               coding |-> StageOf(TRUE, 2, TRUE, "check"), check |-> StageOf(FALSE, 1, FALSE, "delivery"),
               delivery |-> StageOf(FALSE, 1, FALSE, "")],
   max_feedback_loops |-> 5, max_stage_retries |-> 3, stop_on_failure |-> TRUE]

QUICK_FLOW ==
  [stages |-> [design |-> StageOf(TRUE, 1, TRUE, "coding"), coding |-> StageOf(TRUE, 2, TRUE, "check"),
               check |-> StageOf(FALSE, 1, FALSE, "delivery"), delivery |-> StageOf(FALSE, 1, FALSE, "")],
   max_feedback_loops |-> 3, max_stage_retries |-> 2, stop_on_failure |-> TRUE]

ASSUME FlowAssumption ==
  StartStage \in DOMAIN Flow.stages /\ {Flow.max_feedback_loops, Flow.max_stage_retries} \subseteq Nat \ {0}

VARIABLES
  step,         (* where execute is                                        *)
  place,        (* the stage it is at, in the execution order              *)
  attempt,      (* of _execute_stage_with_retry                            *)
  iteration,    (* of the actor and the critic                             *)
  rounds,       (* feedback round of each confirmation that is open, the   *)
                (* outermost first: each but the last waits for a version  *)
  returned,     (* what _execute_stage returns                             *)
  stages,       (* stage -> status of its result                           *)
  pipeline,     (* status of the whole                                     *)
  last_word,    (* history: the user's last word on the stage's output     *)
  worn_out      (* history: stages a confirmation of which ran out of rounds *)

pipeVars == <<step, place, attempt, iteration, rounds, returned, stages, pipeline, last_word, worn_out>>

-----------------------------------------------------------------------------
\* _build_execution_order: on_success is followed until there is none, or it comes back
ExecutionOrder ==
  LET Path[n \in Nat] ==
        IF n = 0 THEN <<StartStage>>
        ELSE LET next == Flow.stages[Last(Path[n - 1])].on_success IN
               IF next = "" \/ next \in Range(Path[n - 1]) THEN Path[n - 1] ELSE Append(Path[n - 1], next)
  IN Path[Cardinality(DOMAIN Flow.stages)]

Stage == ExecutionOrder[place]
Def == Flow.stages[Stage]

PipeInit ==
  /\ step = "next" /\ place = 0 /\ attempt = 0 /\ iteration = 0 /\ rounds = <<>> /\ returned = "none"
  /\ stages = [s \in {} |-> "none"] /\ pipeline = "running" /\ last_word = "none" /\ worn_out = {}

\* execute: the next stage, or the end; on_stage_start may raise
NextStage ==
  /\ step = "next"
  /\ \/ /\ place < Len(ExecutionOrder)
        /\ place' = place + 1 /\ step' = "act" /\ attempt' = 1 /\ iteration' = 1
        /\ UNCHANGED pipeline
     \/ /\ place < Len(ExecutionOrder)
        /\ step' = "over" /\ pipeline' = "raised"
        /\ UNCHANGED <<place, attempt, iteration>>
     \/ /\ place = Len(ExecutionOrder)
        /\ step' = "over" /\ pipeline' = "success"
        /\ UNCHANGED <<place, attempt, iteration>>
  /\ rounds' = <<>> /\ last_word' = "none"
  /\ UNCHANGED <<returned, stages, worn_out>>

\* What follows a version of the stage that is complete
Completed ==
  IF Def.needs_confirmation
  THEN step' = "ask" /\ rounds' = Append(rounds, 0) /\ UNCHANGED returned
  ELSE step' = "return" /\ returned' = "completed" /\ UNCHANGED rounds

\* The agent of a simple stage, or the actor
Act ==
  /\ step = "act"
  /\ IF Def.critic THEN step' = "review" /\ UNCHANGED <<rounds, returned>> ELSE Completed
  /\ UNCHANGED <<place, attempt, iteration, stages, pipeline, last_word, worn_out>>

\* The critic.  After the last iteration its verdict is not asked for any more.
Review ==
  /\ step = "review"
  /\ \/ Completed /\ UNCHANGED iteration
     \/ /\ iteration < Def.max_iterations
        /\ iteration' = iteration + 1 /\ step' = "act" /\ UNCHANGED <<rounds, returned>>
  /\ UNCHANGED <<place, attempt, stages, pipeline, last_word, worn_out>>

-----------------------------------------------------------------------------
(* _request_confirmation *)

Outer == Front(rounds)

\* The innermost confirmation returns
Answered(status) == step' = "return" /\ returned' = status /\ rounds' = Outer

RoundsLeft(n) == n < Flow.max_feedback_loops

\* The next round of it; after the last one the result stands as it is
NextRound ==
  IF RoundsLeft(Last(rounds) + 1)
  THEN /\ rounds' = Append(Outer, Last(rounds) + 1) /\ step' = "ask"
       /\ UNCHANGED <<returned, worn_out>>
  ELSE Answered("completed") /\ worn_out' = worn_out \cup {Stage}

\* Mutant: a cancel skips the stage
LenientWords == [pass |-> "completed", skip |-> "skipped", cancel |-> "skipped"]

\* What the stage's result becomes by a word that ends the confirmation
FinalWords == [pass |-> "completed", skip |-> "skipped", cancel |-> "failed"]

Ask(word) ==
  /\ step = "ask"
  /\ last_word' = word
  /\ \/ word \in DOMAIN FinalWords /\ Answered(FinalWords[word]) /\ UNCHANGED <<iteration, worn_out>>
     \/ word = "view" /\ NextRound /\ UNCHANGED iteration
     \/ /\ word = "raise"
        /\ step' = "return" /\ returned' = "failed" /\ rounds' = <<>>
        /\ UNCHANGED <<iteration, worn_out>>
     \/ /\ word = "feedback" /\ Len(rounds) < MaxNesting
        /\ step' = "act" /\ iteration' = 1 /\ UNCHANGED <<rounds, returned, worn_out>>
  /\ UNCHANGED <<place, attempt, stages, pipeline>>

\* _execute_stage returns to the confirmation that asked for a new version, which asks
\* about it again if it is complete
ReturnToConfirmation ==
  /\ step = "return" /\ rounds # <<>>
  /\ IF returned = "completed" THEN NextRound ELSE Answered(returned) /\ UNCHANGED worn_out
  /\ UNCHANGED <<place, attempt, iteration, stages, pipeline, last_word>>

\* It returns to _execute_stage_with_retry, and that to execute
ReturnToExecute ==
  /\ step = "return" /\ rounds = <<>>
  /\ IF returned = "failed" /\ attempt < Flow.max_stage_retries
     THEN /\ attempt' = attempt + 1 /\ iteration' = 1 /\ step' = "act"
          /\ UNCHANGED <<stages, pipeline>>
     ELSE /\ stages' = [s \in DOMAIN stages \cup {Stage} |-> IF s = Stage THEN returned ELSE stages[s]]
          /\ IF returned = "failed" /\ Flow.stop_on_failure
             THEN step' = "over" /\ pipeline' = "failed"
             ELSE step' = "next" /\ UNCHANGED pipeline
          /\ UNCHANGED <<attempt, iteration>>
  /\ UNCHANGED <<place, rounds, returned, last_word, worn_out>>

PipeNext ==
  \/ NextStage \/ Act \/ Review \/ ReturnToConfirmation \/ ReturnToExecute
  \/ \E word \in {"pass", "skip", "cancel", "view", "raise", "feedback"} : Ask(word)

PipeSpec == PipeInit /\ [][PipeNext]_pipeVars

-----------------------------------------------------------------------------
\* A stage that waits for the user is left for the next one on the user's last word
\* about it, pass or skip, however deep versions were asked for within versions, or
\* because the rounds ran out; never after a cancel or an exception.
StagesConfirmed ==
  /\ step = "next" /\ place > 0 /\ Def.needs_confirmation =>
       CASE stages[Stage] = "completed" -> last_word = "pass" \/ Stage \in worn_out
         [] stages[Stage] = "skipped"   -> last_word = "skip"
         [] OTHER                       -> ~Flow.stop_on_failure
  /\ pipeline = "success" /\ Flow.stop_on_failure =>
       \A i \in 1..Len(ExecutionOrder) : stages[ExecutionOrder[i]] \in {"completed", "skipped"}
=============================================================================
