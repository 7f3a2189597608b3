------------------------------ MODULE Planning ------------------------------
(***************************************************************************)
(* What the orchestrator makes of a request before it dispatches anything  *)
(* (the first half of handle_orchestrator_mention in                       *)
(* server/orchestrator.py): which domains the task is about, by the model  *)
(* or by keywords, which subtasks, who does them, and the rows they become *)
(* with what each depends on.  Orchestration goes on from there.           *)
(*                                                                         *)
(* Which words a request has and whether the conversation has a build are  *)
(* inputs, and so are the answers of the model and the capability scores   *)
(* of the agents, of whom any may be best.                                 *)
(***************************************************************************)
EXTENDS Decomposition

CONSTANT
  Everyone        (* agents other than the orchestrator                    *)

VARIABLES
  orch_at,        (* "new", "analysed", "split", "filed", or "deployed"    *)
  request,        (* what the text asks for                                *)
  members,        (* agents in the conversation                            *)
  domains,        (* complexity_domains                                    *)
  by_model,       (* the subtasks are the model's                          *)
  unfiled,        (* subtasks that have no row yet                         *)
  parent_domains, (* of the parent's row                                   *)
  task_rows       (* id -> its row: domain, agent, dependencies            *)

orchVars == <<orch_at, request, members, domains, by_model, unfiled, parent_domains, task_rows>>
planningVars == <<planVars, orchVars>>

\* A request may be the demo, ask for a deployment, for a page in one of the ways
\* that keep it to the frontend, or for an application with the words of a backend.
Requests == [demo : BOOLEAN, deploy : BOOLEAN, wants : {"other", "page", "preview", "application"},
             keywords : SUBSET Chosen]
NoRequest == [demo |-> FALSE, deploy |-> FALSE, wants |-> "other", keywords |-> {}]

DemoDomains == <<"frontend", "backend", "database", "test">>

\* What the prompt offers and what is taken of the answer differ in product
Offered == Chosen \cup {"product"}
ValidDomains == {"frontend", "backend", "database", "test", "docs", "devops", "code"}

OrchInit ==
  /\ PlanInit
  /\ orch_at = "new" /\ request = NoRequest /\ members = {} /\ domains = {} /\ by_model = FALSE
  /\ unfiled = <<>> /\ parent_domains = {} /\ task_rows = [x \in {} |-> NoRequest]

-----------------------------------------------------------------------------
\* _ensure_preview_collaboration_domains
Ensured(wants, ds) ==
  CASE wants = "page"        -> ds \cup {"frontend"}
    [] wants = "preview"     -> ds \cup {"frontend"}
    [] wants = "application" -> ds \cup {"frontend", "backend", "database"}
    [] OTHER                 -> IF ds = {} THEN {"frontend"} ELSE ds

WithDeploy(r, ds) == IF r.deploy THEN ds \cup {"devops"} ELSE ds

\* A deployment of what is built already is answered at once
DeployAtOnce ==
  /\ orch_at = "new"
  /\ \E r \in Requests : r.deploy /\ request' = r
  /\ orch_at' = "deployed"
  /\ UNCHANGED <<planVars, members, domains, by_model, unfiled, parent_domains, task_rows>>

\* The three ways to the domains: the demo has its own; the model's answer, which
\* may say that the task is no software; and the keywords of the request.
AnalyseDemo(r) ==
  /\ r.demo
  /\ domains' = WithDeploy(r, Range(DemoDomains)) /\ by_model' = FALSE
  /\ unfiled' = [i \in DOMAIN DemoDomains |-> [id |-> <<DemoDomains[i], 0>>, domain |-> DemoDomains[i]]]
  /\ orch_at' = "split" /\ UNCHANGED planVars

AnalyseOther(r) ==
  /\ ~r.demo
  /\ domains' = WithDeploy(r, {"code"}) /\ by_model' = FALSE
  /\ unfiled' = << [id |-> <<"code", 0>>, domain |-> "code"] >>
  /\ orch_at' = "split" /\ UNCHANGED planVars

\* The subtasks of the model, in the domains it named, all without dependencies
AnalyseByModel(r, named, items) ==
  LET known == named \cap ValidDomains
      sts == ParsedItems(SetToSeq(known), items)
  IN /\ ~r.demo /\ known # {} /\ sts # <<>>
     /\ domains' = WithDeploy(r, Ensured(r.wants, known)) /\ by_model' = TRUE
     /\ LET list == [i \in DOMAIN sts |-> [id |-> sts[i].id, domain |-> sts[i].domain]] IN
          /\ Planned(SetToSeq(known), list, [x \in Ids(list) |-> <<>>])
          /\ unfiled' = list
     /\ orch_at' = "split"

\* No model, no answer in time, or one that is of no use
AnalyseByKeywords(r) ==
  /\ ~r.demo
  /\ domains' = WithDeploy(r, Ensured(r.wants, r.keywords)) /\ by_model' = FALSE
  /\ orch_at' = "analysed" /\ UNCHANGED <<planVars, unfiled>>

Analyse ==
  /\ orch_at = "new"
  /\ \E r \in Requests :
       /\ request' = r
       /\ \/ AnalyseDemo(r) \/ AnalyseOther(r) \/ AnalyseByKeywords(r)
          \/ \E named \in SUBSET Offered, items \in BoundedSeq([domain : Offered, deps : {<<>>}], MaxItems) :
               AnalyseByModel(r, named, items)
  /\ members' \in SUBSET Everyone
  /\ UNCHANGED <<parent_domains, task_rows>>

\* decompose_with_contract goes through the set in an order of its own
SplitByContract ==
  /\ orch_at = "analysed" /\ orch_at' = "split"
  /\ DecomposeWithContract(SetToSeq(domains))
  /\ unfiled' = subtasks'
  /\ UNCHANGED <<request, members, domains, by_model, parent_domains, task_rows>>

\* The parent's row comes first
FileParentRow ==
  /\ orch_at = "split" /\ parent_domains = {}
  /\ parent_domains' = domains
  /\ UNCHANGED <<planVars, orch_at, request, members, domains, by_model, unfiled, task_rows>>

\* Mutant: whoever is best, in the conversation or not
Anybody == Everyone

\* _pick_agent_for_domain: a member, or anyone when there is none
Candidates == IF members # {} THEN members ELSE Everyone

FileRow ==
  /\ orch_at = "split" /\ parent_domains # {} /\ unfiled # <<>>
  /\ LET st == Head(unfiled) IN
       \E a \in Candidates :
         task_rows' = [x \in DOMAIN task_rows \cup {st.id} |->
                         IF x = st.id
                         THEN [domain |-> st.domain, agent |-> a, deps |-> Listed(dependency_graph, st.id)]
                         ELSE task_rows[x]]
  /\ unfiled' = Tail(unfiled)
  /\ orch_at' = IF unfiled' = <<>> THEN "filed" ELSE "split"
  /\ UNCHANGED <<planVars, request, members, domains, by_model, parent_domains>>

PlanningNext == DeployAtOnce \/ Analyse \/ SplitByContract \/ FileParentRow \/ FileRow

PlanningSpec == OrchInit /\ [][PlanningNext]_planningVars

-----------------------------------------------------------------------------
\* However the request was analysed, what the orchestrator files is one row for each
\* subtask, at least one, in a domain the parent's row names and done by a member of
\* the conversation if it has any; no row waits for one that will not run; and when
\* the subtasks are not the model's every domain found has a row, the deployment that
\* is added for a request included, unless the demo or another task fixes them.
PlanFiled ==
  orch_at = "filed" =>
    /\ DOMAIN task_rows # {}
    /\ plan_at # "none" => DOMAIN task_rows = Ids(subtasks)
    /\ \A x \in DOMAIN task_rows :
         /\ task_rows[x].domain \in parent_domains
         /\ members # {} => task_rows[x].agent \in members
         /\ Range(task_rows[x].deps) \subseteq DOMAIN task_rows \ {x}
    /\ ~by_model /\ plan_at # "none" => {task_rows[x].domain : x \in DOMAIN task_rows} = parent_domains
=============================================================================
