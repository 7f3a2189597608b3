---------------------------- MODULE Decomposition ----------------------------
(***************************************************************************)
(* How a task is cut into subtasks by domain and in which layers they may  *)
(* run: TaskDecomposer and EnhancedTaskDecomposer                          *)
(* (src/src/scheduler/decomposer.py, enhanced_decomposer.py).  The model   *)
(* that may be asked (external) answers anything; texts and contracts are  *)
(* left out.  A subtask's id is its domain and a number, 0 unless the      *)
(* model has listed the domain before.                                     *)
(***************************************************************************)
EXTENDS Naturals, Sequences, FiniteSets, SequencesExt, FiniteSetsExt, Lists

CONSTANTS
  Chosen,       (* domains the tasks are about                             *)
  MaxItems,     (* bound: subtasks the model lists                         *)
  MaxDeps       (* bound: dependencies it then lists of a subtask          *)

VARIABLES
  asked_domains,    (* domains the decomposer was called with              *)
  subtasks,         (* the subtasks, in order                              *)
  dependency_graph, (* id -> sequence of ids                               *)
  execution_order,  (* sequence of layers, sets of ids                     *)
  plan_at           (* "none", "decomposed" or "resolved"                  *)

planVars == <<asked_domains, subtasks, dependency_graph, execution_order, plan_at>>

DOMAIN_DEPENDENCIES ==
  [frontend |-> <<"backend">>, backend |-> <<"database">>,
   test |-> <<"frontend", "backend", "database">>, docs |-> <<"frontend", "backend", "database">>,
   database |-> <<>>, devops |-> <<"backend">>]

ASSUME ChosenAssumption == Chosen \subseteq DOMAIN DOMAIN_DEPENDENCIES \cup {"product"}

ASSUME BoundsAssumption == {MaxItems, MaxDeps} \subseteq Nat

-----------------------------------------------------------------------------
(* _compute_execution_order *)

Ids(sts) == {sts[i].id : i \in DOMAIN sts}

\* Mutant: a subtask may start when one dependency of it is left
AlmostFree(acc) == {x \in acc.remaining : acc.in_degree[x] <= 1}

ZeroDegree(acc) == {x \in acc.remaining : acc.in_degree[x] = 0}

\* What is left is one layer when nothing is free, which is meant for cycles
CurrentLayer(acc) == IF ZeroDegree(acc) = {} THEN acc.remaining ELSE ZeroDegree(acc)

NextLayer(graph, acc) ==
  LET layer == CurrentLayer(acc) IN
    [layers |-> Append(acc.layers, layer),
     remaining |-> acc.remaining \ layer,
     in_degree |-> [x \in DOMAIN acc.in_degree |->
                     IF x \in layer THEN 0
                     ELSE acc.in_degree[x] - Cardinality(layer \cap Range(graph[x]))]]

\* in_degree is the length of the list, in which an id may occur twice; whoever is
\* in it is taken off once.
Layers(graph) ==
  LET Round[n \in 0..Cardinality(DOMAIN graph)] ==
        IF n = 0
        THEN [layers |-> <<>>, remaining |-> DOMAIN graph, in_degree |-> [x \in DOMAIN graph |-> Len(graph[x])]]
        ELSE IF Round[n - 1].remaining = {} THEN Round[n - 1] ELSE NextLayer(graph, Round[n - 1])
  IN Round[Cardinality(DOMAIN graph)].layers

-----------------------------------------------------------------------------
\* The ids, in the order of the list, of the other subtasks in the domains listed
DomainIds(sts, st, domains) ==
  FlattenSeq([i \in DOMAIN domains |->
    LET found == Picked(sts, {j \in DOMAIN sts : sts[j].domain = domains[i] /\ sts[j].id # st.id})
    IN [j \in DOMAIN found |-> found[j].id]])

Listed(f, d) == IF d \in DOMAIN f THEN f[d] ELSE <<>>

\* A subtask for each domain; a set is gone through in any order
OnePerDomain(order) == [i \in DOMAIN order |-> [id |-> <<order[i], 0>>, domain |-> order[i]]]

SubtaskOf(sts, x) == CHOOSE s \in Range(sts) : s.id = x

\* What each subtask depends on, given the domains listed for it
GraphOf(sts, listed) == [x \in Ids(sts) |-> DomainIds(sts, SubtaskOf(sts, x), listed[x])]

Planned(order, sts, graph) ==
  /\ asked_domains' = Range(order) /\ subtasks' = sts
  /\ dependency_graph' = graph /\ execution_order' = Layers(graph)
  /\ plan_at' = "decomposed"

\* TaskDecomposer.decompose
Decompose(order) ==
  LET sts == OnePerDomain(order) IN
    Planned(order, sts, GraphOf(sts, [x \in Ids(sts) |-> Listed(DOMAIN_DEPENDENCIES, SubtaskOf(sts, x).domain)]))

\* EnhancedTaskDecomposer.decompose_with_contract: no dependencies
DecomposeWithContract(order) ==
  LET sts == OnePerDomain(order) IN Planned(order, sts, [x \in Ids(sts) |-> <<>>])

\* _parse_llm_decomposition_response: items of a domain that was not asked for are
\* left out, a domain that comes again gets the item's number.
ParsedItems(order, items) ==
  LET numbered == [i \in DOMAIN items |->
        [id |-> <<items[i].domain,
                  IF \E j \in 1..(i - 1) : items[j].domain = items[i].domain THEN i ELSE 0>>,
         domain |-> items[i].domain, deps |-> items[i].deps]]
  IN Picked(numbered, {i \in DOMAIN numbered : numbered[i].domain \in Range(order)})

\* decompose_with_llm: the answer, or what decompose_with_contract makes of it
DecomposeWithLlm(order, items) ==
  LET sts == ParsedItems(order, items) IN
    IF sts = <<>> THEN DecomposeWithContract(order)
    ELSE Planned(order, [i \in DOMAIN sts |-> [id |-> sts[i].id, domain |-> sts[i].domain]],
                 GraphOf(sts, [x \in Ids(sts) |-> SubtaskOf(sts, x).deps]))

\* resolve_dependencies_llm: ids that exist, for every subtask; self and doubles stay
ResolveDependencies(answer) ==
  /\ plan_at = "decomposed" /\ plan_at' = "resolved"
  /\ dependency_graph' = [x \in Ids(subtasks) |->
       LET listed == Listed(answer, x) IN Picked(listed, {i \in DOMAIN listed : listed[i] \in Ids(subtasks)})]
  /\ execution_order' = Layers(dependency_graph')
  /\ UNCHANGED <<asked_domains, subtasks>>

PlanInit ==
  /\ asked_domains = {} /\ subtasks = <<>> /\ dependency_graph = [x \in {} |-> <<>>] /\ execution_order = <<>>
  /\ plan_at = "none"

Orders == UNION {SetToSeqs(ds) : ds \in (SUBSET Chosen) \ {{}}}

PlanNext ==
  \/ /\ plan_at = "none"
     /\ \E order \in Orders :
          \/ Decompose(order)
          \/ DecomposeWithContract(order)
          \/ \E items \in BoundedSeq([domain : Chosen, deps : BoundedSeq(Chosen, 1)], MaxItems) : DecomposeWithLlm(order, items)
  \/ \E answer \in [Ids(subtasks) -> BoundedSeq(Ids(subtasks), MaxDeps)] : ResolveDependencies(answer)

PlanSpec == PlanInit /\ [][PlanNext]_planVars

-----------------------------------------------------------------------------
Place(x) == CHOOSE i \in DOMAIN execution_order : x \in execution_order[i]

\* Dependencies that no order satisfies (each of some subtasks waits for another of
\* them), or that _compute_execution_order counts more often than it takes off
Cyclic == \E S \in SUBSET DOMAIN dependency_graph :
            S # {} /\ \A x \in S : Range(dependency_graph[x]) \cap S # {}
Doubled == \E x \in DOMAIN dependency_graph : ~IsInjective(dependency_graph[x])

\* Every subtask is in one layer, and in a later one than all it depends on, unless
\* the dependencies are cyclic or one is listed twice.
LayersSound ==
  /\ UNION Range(execution_order) = Ids(subtasks)
  /\ \A i, j \in DOMAIN execution_order : i # j => execution_order[i] \cap execution_order[j] = {}
  /\ ~Cyclic /\ ~Doubled =>
       \A x \in DOMAIN dependency_graph : \A y \in Range(dependency_graph[x]) : Place(y) < Place(x)
=============================================================================
