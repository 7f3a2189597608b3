------------------------------ MODULE TaskRun ------------------------------
(***************************************************************************)
(* `team run --wait` (handle_run in src/src/cli/team.py): the task is      *)
(* judged simple or complex (complexity.py), cut into subtasks, each given *)
(* to an agent (scheduler.py, agents.py), sent, and the answers are waited *)
(* for and counted (aggregator.py).  The command sends through the Router, *)
(* the library through any function it is given.                           *)
(*                                                                         *)
(* Which keywords a text or a path has is an input: the domains it is      *)
(* about, and how hard and how long it is.  Scores are in hundredths.      *)
(***************************************************************************)
EXTENDS Decomposition

CONSTANTS
  Paths,        (* files a task may list                                   *)
  PathDomains,  (* path -> the domains it has keywords of                  *)
  MaxAnswers    (* bound: answers to a subtask                             *)

ASSUME RunAssumption == PathDomains \in [Paths -> SUBSET (DOMAIN DOMAIN_DEPENDENCIES \cup {"product"})]

VARIABLES
  sender,       (* who takes the assignments: "router" or another function *)
  run_at,       (* "new", "scheduled", "sent", "polling", "counting", "over" *)
  mode,         (* of the schedule                                         *)
  assignments,  (* sequence of the agent, id, domain, files and status     *)
  conflicts,    (* what setup_task reported: file and agent                *)
  answers,      (* id -> answers in the trace, in order                    *)
  round,        (* ids the aggregator has yet to poll in this round        *)
  results,      (* id -> its result                                        *)
  final         (* what is printed: a status, and files in conflict        *)

runVars == <<sender, run_at, mode, assignments, conflicts, answers, round, results, final>>
everything == <<planVars, runVars>>

NoResults == [x \in {} |-> ""]
NoFinal == [status |-> "none", conflicts |-> {}]

RunInit ==
  /\ PlanInit
  /\ sender \in {"router", "other"}
  /\ run_at = "new" /\ mode = "none" /\ assignments = <<>> /\ conflicts = {}
  /\ answers = NoResults /\ round = {} /\ results = NoResults /\ final = NoFinal

-----------------------------------------------------------------------------
(* ComplexityJudge.judge *)

\* A task: its domains, in the order of the set, the files listed, the words in it,
\* the files its length adds and the number of components it mentions.
TaskInputs(orders) ==
  [order : orders, files : SUBSET Paths, high : BOOLEAN, low : BOOLEAN, longer : 0..2, mentions : {0, 3}]

EstimatedFiles(task) ==
  IF task.files # {} THEN Cardinality(task.files)
  ELSE Max({2 * Len(task.order) + task.longer, task.mentions})

If(cond, points) == IF cond THEN points ELSE 0

Score(task) ==
  LET est == EstimatedFiles(task) IN
    If(Len(task.order) >= 2, 30) + If(est >= 3, 30) + If(task.high, 15) - If(task.low, 10)
      + If(Len(task.order) >= 2 \/ est >= 3, 10)
      + If(Cardinality(UNION {PathDomains[p] : p \in task.files}) >= 2, 20)

IsComplex(task) == Score(task) >= 50

-----------------------------------------------------------------------------
(* Agents *)

DOMAIN_TO_AGENT ==
  [frontend |-> "A", backend |-> "B", database |-> "C", test |-> "D", docs |-> "D",
   devops |-> "D", product |-> "E"]

DomainPriority ==
  [database |-> 3, backend |-> 2, frontend |-> 1, devops |-> 1, test |-> 0, docs |-> 0, product |-> 0]

ByPriority(order) ==
  FlattenSeq([i \in 1..4 |-> Picked(order, {j \in DOMAIN order : DomainPriority[order[j]] = 4 - i})])

Roles == <<"A", "B", "C", "D">>

\* Mutant: an agent is taken for free as long as it is not the domain's own
FreeRoles(used, own) == {i \in DOMAIN Roles : Roles[i] # own}

\* The roles nobody has been given, in the order they are tried in
Unused(used, own) == {i \in DOMAIN Roles : Roles[i] \notin used}

\* match_agents_for_domains; D helps out when all are used
PickAgent(used, own) ==
  IF own \notin used THEN own
  ELSE IF Unused(used, own) # {} THEN Roles[Min(Unused(used, own))]
  ELSE "D"

MatchNext(acc, d) ==
  LET a == PickAgent(acc.used, DOMAIN_TO_AGENT[d]) IN
    [used |-> acc.used \cup {a}, of |-> [e \in DOMAIN acc.of \cup {d} |-> IF e = d THEN a ELSE acc.of[e]]]

MatchAgents(order) ==
  LET list == ByPriority(order)
      match[k \in 0..Len(list)] ==
        IF k = 0 THEN [used |-> {}, of |-> NoResults] ELSE MatchNext(match[k - 1], list[k])
  IN match[Len(list)].of

\* _select_agent_for_domain has no entry for product
AgentForDomain(d) == IF d = "product" THEN "B" ELSE DOMAIN_TO_AGENT[d]

\* _infer_files_for_domain: the task's files that have a keyword of the domain, or
\* patterns of its own, which are named after it; product has none.
InferFiles(task, d) ==
  LET own == {p \in task.files : d \in PathDomains[p]} IN
    IF own # {} THEN own ELSE {d} \ {"product"}

-----------------------------------------------------------------------------
(* TaskScheduler.schedule *)

Assigned(a, x, d, files) == [agent |-> a, id |-> x, domain |-> d, files |-> files, status |-> "pending"]

\* setup_task locks the files agent by agent, in a hub that was made for the run: a
\* file is refused to whoever comes after another agent.
AgentOrder(as) ==
  Picked([i \in DOMAIN as |-> as[i].agent], {i \in DOMAIN as : \A j \in 1..(i - 1) : as[j].agent # as[i].agent})

FilesOf(as, a) == UNION {s.files : s \in {t \in Range(as) : t.agent = a}}

Refused(as) ==
  LET agents == AgentOrder(as) IN
    UNION {{[file |-> f, agent |-> agents[i]] : f \in FilesOf(as, agents[i])
              \cap UNION {FilesOf(as, agents[j]) : j \in 1..(i - 1)}} : i \in DOMAIN agents}

Schedule(task) ==
  /\ run_at = "new" /\ run_at' = "scheduled"
  /\ IF IsComplex(task)
     THEN /\ mode' = "parallel"
          /\ Decompose(task.order) \/ DecomposeWithContract(task.order)
          /\ assignments' = [i \in DOMAIN subtasks' |->
               LET st == subtasks'[i] IN
                 Assigned(MatchAgents(task.order)[st.domain], st.id, st.domain, InferFiles(task, st.domain))]
          /\ conflicts' = Refused(assignments')
     ELSE /\ mode' = "single"
          /\ LET d == Head(task.order) a == AgentForDomain(d) IN
               assignments' = <<Assigned(a, <<a, 0>>, d, task.files)>>
          /\ UNCHANGED <<planVars, conflicts>>
  /\ UNCHANGED <<sender, answers, round, results, final>>

\* The Router of `team run` refuses every assignment: _build_assign_message gives it
\* neither from nor agent_instance, which validate_message requires.  Another send
\* function may take it or raise.
SendEnds == IF sender = "router" THEN {"failed"} ELSE {"sent", "failed"}

\* TaskScheduler.execute: one after the other, whatever they depend on
SendAssignments ==
  /\ run_at = "scheduled"
  /\ LET unsent == {i \in DOMAIN assignments : assignments[i].status = "pending"} IN
       IF unsent # {}
       THEN \E status \in SendEnds :
              /\ assignments' = [assignments EXCEPT ![Min(unsent)].status = status]
              /\ answers' = IF status = "sent"
                            THEN [x \in DOMAIN answers \cup {assignments[Min(unsent)].id} |->
                                   IF x \in DOMAIN answers THEN answers[x] ELSE <<>>]
                            ELSE answers
              /\ UNCHANGED run_at
       ELSE /\ run_at' = "sent" /\ UNCHANGED <<assignments, answers>>
  /\ UNCHANGED <<sender, planVars, mode, conflicts, round, results, final>>

\* An agent reports: its task's files, or only some, are what it says it changed
Report(x, type, changes) ==
  /\ x \in DOMAIN answers /\ Len(answers[x]) < MaxAnswers
  /\ answers' = [answers EXCEPT ![x] = Append(@, [status |-> type, changes |-> changes])]
  /\ UNCHANGED <<sender, planVars, run_at, mode, assignments, conflicts, round, results, final>>

-----------------------------------------------------------------------------
(* ResultAggregator *)

SentIds == {s.id : s \in {t \in Range(assignments) : t.status = "sent"}}
PendingIds == SentIds \ DOMAIN results

\* As handle_run does: what was sent is waited for when everything was
Wait ==
  /\ run_at = "sent"
  /\ IF \A s \in Range(assignments) : s.status = "sent"
     THEN run_at' = "polling" /\ round' = SentIds
     ELSE run_at' = "over" /\ round' = {}
  /\ UNCHANGED <<sender, planVars, mode, assignments, conflicts, answers, results, final>>

\* wait_for_results asks for the trace of each in turn; the request may fail, and
\* the first done or fail in it counts (_parse_trace_result).
Poll(x) ==
  /\ run_at = "polling" /\ x \in round
  /\ round' = round \ {x}
  /\ \/ UNCHANGED results
     \/ /\ answers[x] # <<>>
        /\ results' = [y \in DOMAIN results \cup {x} |-> IF y = x THEN Head(answers[x]) ELSE results[y]]
  /\ UNCHANGED <<sender, planVars, run_at, mode, assignments, conflicts, answers, final>>

PollAgain ==
  /\ run_at = "polling" /\ round = {}
  /\ IF PendingIds = {} THEN run_at' = "counting" /\ UNCHANGED round
                        ELSE round' = PendingIds /\ UNCHANGED run_at
  /\ UNCHANGED <<sender, planVars, mode, assignments, conflicts, answers, results, final>>

\* The time is looked at between two rounds
TimedOut ==
  /\ run_at = "polling" /\ round = {} /\ PendingIds # {}
  /\ run_at' = "counting"
  /\ results' = [x \in SentIds |-> IF x \in DOMAIN results THEN results[x] ELSE [status |-> "timeout", changes |-> {}]]
  /\ UNCHANGED <<sender, planVars, mode, assignments, conflicts, answers, round, final>>

Count(status) == Cardinality({x \in DOMAIN results : results[x].status = status})

\* Mutant: what timed out is not looked at
FailuresOnly(done, fail, timeout) == IF fail = 0 THEN "success" ELSE IF done > 0 THEN "partial" ELSE "failed"

FinalStatus(done, fail, timeout) ==
  IF fail = 0 /\ timeout = 0 THEN "success" ELSE IF done > 0 THEN "partial" ELSE "failed"

\* _detect_conflicts
ChangedTwice == {f \in UNION {results[x].changes : x \in DOMAIN results} :
                   Cardinality({x \in DOMAIN results : f \in results[x].changes}) > 1}

Aggregate ==
  /\ run_at = "counting" /\ run_at' = "over"
  /\ final' = [status |-> FinalStatus(Count("done"), Count("fail"), Count("timeout")), conflicts |-> ChangedTwice]
  /\ UNCHANGED <<sender, planVars, mode, assignments, conflicts, answers, round, results>>

RunNext ==
  \/ \E task \in TaskInputs(Orders) : Schedule(task)
  \/ SendAssignments \/ Wait \/ PollAgain \/ TimedOut \/ Aggregate
  \/ \E x \in DOMAIN answers :
       \/ Poll(x)
       \/ \E s \in Range(assignments) : s.id = x /\ (Report(x, "fail", {}) \/ Report(x, "done", s.files))

RunSpec == RunInit /\ [][RunNext]_everything

-----------------------------------------------------------------------------
\* The domains of a task go to agents of their own as long as there are enough, and
\* whoever works on a file that another agent works on too is reported.
AgentsApart ==
  mode = "parallel" =>
    /\ Cardinality(asked_domains \ {"product"}) <= 4 =>
         IsInjective([i \in DOMAIN assignments |-> assignments[i].agent])
    /\ \A s, t \in Range(assignments) : s.agent # t.agent =>
         \A f \in s.files \cap t.files : \E c \in conflicts : c.file = f /\ c.agent \in {s.agent, t.agent}

\* What is printed in the end is true of what the agents reported, though requests
\* fail and answers come late or twice: success only when each subtask's first
\* answer is done, and every file that two changed in conflict.
FinalTrue ==
  run_at = "over" /\ final # NoFinal =>
    /\ DOMAIN results = {s.id : s \in Range(assignments)}
    /\ final.status = "success" => \A x \in DOMAIN answers : answers[x] # <<>> /\ Head(answers[x]).status = "done"
    /\ final.status = "failed" => \A x \in DOMAIN results : results[x].status # "done"
    /\ \A x, y \in DOMAIN results : x # y => results[x].changes \cap results[y].changes \subseteq final.conflicts

\* A run of a team, from the assignments to the result that is printed
RunTruthful == AgentsApart /\ FinalTrue
=============================================================================
