------------------------------ MODULE MCParts ------------------------------
(* Small instances of the components that share nothing with each other,   *)
(* side by side in one state space for TLC: `part` says which of them a    *)
(* behaviour is of, and the variables of the others keep their initial     *)
(* values.                                                                 *)
EXTENDS MCContext, ChatTabs, SdkClientPool, ShellProxy, Listener, Collaboration, TaskRun, Planning, Pipeline,
        ReactLoop, SubtaskStream, Adapters, Artifacts, Preview, TeamCommands, AgentWizard, DeployRequest

VARIABLE part

MCPathDomains == [p \in Paths |-> IF p = "p1" THEN {"database"} ELSE {}]
\* What is under way on the connection of the web client, either way, and over HTTP
MCShortWire == Len(wire) + Cardinality(joining) + Len(requests) + Cardinality(fetches) <= 2
\* Conversations are interchangeable: the first tab is of one of them.  A state in which two
\* conversations were mixed up is checked, but nothing is claimed of what follows it.
MCFirstTab == (\A f \in fetches : f.id = 0 => f.c = CHOOSE c \in Convs : TRUE) /\ ~mixed

MCFlow == [QUICK_FLOW EXCEPT !.max_feedback_loops = 2]

proxyOwn == <<proxies, response, seen_ids, message_queue, typing, typed>>
listenOwn == <<starts, options, phase, batch, pending, file, acted>>
webVars == <<tabVars, artVars>>
replyVars == <<poolVars, reactVars, subVars, ctxVars, adapterVars>>
teamVars == <<hubVars, runVars, pipeVars>>
otherVars == <<proxyOwn, listenOwn, inboxVars, planVars, orchVars>>
requestVars == <<previewVars, teamCmdVars, wizardVars, deployVars>>
allVars == <<part, webVars, replyVars, teamVars, otherVars, requestVars>>

PartsInit ==
  /\ part \in {"tabs", "artifacts", "pool", "react", "subtask", "context", "adapter", "hub", "run",
               "pipeline", "proxy", "listener", "plan", "planning", "preview", "commands", "wizard", "deploy"}
  \* one of the many initial states, while another component is looked at
  /\ PreviewInit /\ (part # "preview" => asks = {} /\ \A s \in Records : wrote[s] = "other" /\ result[s] = "completed")
  /\ DeployInit /\ (part # "deploy" => env = {})
  /\ RunInit /\ (part # "run" => sender = "other")
  /\ TabInit /\ ArtInit /\ PoolInit /\ ReactInit /\ SubInit /\ ContextInit /\ AdapterInit
  /\ HubInit /\ PipeInit /\ ProxyInit /\ ListenInit /\ OrchInit
  /\ TeamCmdInit /\ WizardInit

WebNext ==
  /\ \/ part = "tabs" /\ TabNext /\ UNCHANGED artVars
     \/ part = "artifacts" /\ ArtNext /\ UNCHANGED tabVars
  /\ UNCHANGED <<part, replyVars, teamVars, otherVars, requestVars>>

ReplyNext ==
  /\ \/ part = "pool" /\ PoolNext /\ UNCHANGED <<reactVars, subVars, ctxVars, adapterVars>>
     \/ part = "react" /\ ReactNext /\ UNCHANGED <<poolVars, subVars, ctxVars, adapterVars>>
     \/ part = "subtask" /\ SubNext /\ UNCHANGED <<poolVars, reactVars, ctxVars, adapterVars>>
     \/ part = "context" /\ ContextNext /\ UNCHANGED <<poolVars, reactVars, subVars, adapterVars>>
     \/ part = "adapter" /\ AdapterNext /\ UNCHANGED <<poolVars, reactVars, subVars, ctxVars>>
  /\ UNCHANGED <<part, webVars, teamVars, otherVars, requestVars>>

TeamNext ==
  /\ \/ part = "hub" /\ HubNext /\ UNCHANGED <<runVars, pipeVars, planVars>>
     \/ part = "run" /\ RunNext /\ UNCHANGED <<hubVars, pipeVars>>
     \/ part = "pipeline" /\ PipeNext /\ UNCHANGED <<hubVars, runVars, planVars>>
  /\ UNCHANGED <<part, webVars, replyVars, proxyOwn, listenOwn, inboxVars, orchVars, requestVars>>

ClientNext ==
  /\ \/ part = "proxy" /\ ProxyNext /\ UNCHANGED listenOwn
     \/ part = "listener" /\ ListenNext /\ UNCHANGED proxyOwn
  /\ UNCHANGED <<part, webVars, replyVars, teamVars, planVars, orchVars, requestVars>>

PlannerNext ==
  /\ \/ part = "plan" /\ PlanNext /\ UNCHANGED orchVars
     \/ part = "planning" /\ PlanningNext
  /\ UNCHANGED <<part, webVars, replyVars, teamVars, proxyOwn, listenOwn, inboxVars, requestVars>>

RequestNext ==
  /\ \/ part = "preview" /\ PreviewNext /\ UNCHANGED <<teamCmdVars, wizardVars, deployVars>>
     \/ part = "commands" /\ TeamCmdNext /\ UNCHANGED <<previewVars, wizardVars, deployVars>>
     \/ part = "wizard" /\ WizardNext /\ UNCHANGED <<previewVars, teamCmdVars, deployVars>>
     \/ part = "deploy" /\ DeployNext /\ UNCHANGED <<previewVars, teamCmdVars, wizardVars>>
  /\ UNCHANGED <<part, webVars, replyVars, teamVars, otherVars>>

PartsNext == RequestNext \/ WebNext \/ ReplyNext \/ TeamNext \/ ClientNext \/ PlannerNext

PartsSpec == PartsInit /\ [][PartsNext]_allVars
=============================================================================
