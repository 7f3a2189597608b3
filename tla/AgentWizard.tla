----------------------------- MODULE AgentWizard -----------------------------
(***************************************************************************)
(* What happens first to a chat message (server/handlers/send_message.py): *)
(* the dialogue that creates an agent, whose draft is kept in memory for   *)
(* the conversation and shared by all its connections, and the choice of   *)
(* the agents a message goes to (resolve_targets).                         *)
(*                                                                         *)
(* A connection handles one message at a time, and several connections can *)
(* be in one conversation.  A draft is an object: who is handling a        *)
(* confirmation holds on to it while the dictionary moves on.              *)
(***************************************************************************)
EXTENDS Naturals, Sequences, FiniteSets, Functions

CONSTANTS
  Tabs,          (* connections in the conversation                        *)
  Members,       (* agents in the conversation; the one below may be one   *)
  Strangers,     (* agents that are not                                    *)
  Orchestrator,
  MaxDrafts,     (* bound: drafts started                                  *)
  MaxCreated     (* bound: agents created                                  *)

ASSUME WizardAssumption == MaxDrafts \in Nat /\ MaxCreated \in Nat

VARIABLES
  draftOf,       (* _agent_create_drafts of the conversation: 0 is none    *)
  drafts,        (* the draft objects: the required fields that are filled *)
  handling,      (* connection -> what it handles                          *)
  created,       (* the agents created: their draft (0: none) and fields   *)
  cancelled,     (* drafts whose cancellation the user was told of         *)
  overlapped,    (* history: drafts touched while a confirmation was under way *)
  routed         (* what the last message that got past the wizard went to *)

wizardVars == <<draftOf, drafts, handling, created, cancelled, overlapped, routed>>

Required == {"name", "system_prompt"}
MissingFields(fields) == Required \ fields
NotHandling == [at |-> "idle"]
Nowhere == [to |-> {}, error |-> "none", asked |-> {}, kind |-> "group"]

WizardInit ==
  /\ draftOf = 0 /\ drafts = <<>>
  /\ handling = [c \in Tabs |-> NotHandling]
  /\ created = <<>> /\ cancelled = {} /\ overlapped = {} /\ routed = Nowhere

\* Confirmations of draft d that are under way
Confirming(d) == {c \in Tabs : handling[c].at # "idle" /\ handling[c].draft = d}
Overlap(d) == IF Confirming(d) # {} THEN overlapped \cup {d} ELSE overlapped

-----------------------------------------------------------------------------
(* The dialogue *)

\* A request that gives no name or no prompt starts a draft
StartDraft(c, fields) ==
  /\ handling[c].at = "idle" /\ draftOf = 0 /\ routed = Nowhere
  /\ MissingFields(fields) # {}
  /\ Len(drafts) < MaxDrafts
  /\ drafts' = Append(drafts, fields)
  /\ draftOf' = Len(drafts) + 1
  \* the popping at the end of a confirmation would take this draft
  /\ overlapped' = overlapped \cup
       (IF \E t \in Tabs : handling[t].at # "idle" THEN {Len(drafts) + 1} ELSE {})
  /\ UNCHANGED <<handling, created, cancelled, routed>>

\* Anything that is not one of the words adds the fields it names
AddFields(c, fields) ==
  /\ handling[c].at = "idle" /\ draftOf # 0
  /\ drafts' = [drafts EXCEPT ![draftOf] = @ \cup fields]
  /\ overlapped' = Overlap(draftOf)
  /\ UNCHANGED <<draftOf, handling, created, cancelled, routed>>

CancelDraft(c) ==
  /\ handling[c].at = "idle" /\ draftOf # 0
  /\ draftOf' = 0
  /\ cancelled' = cancelled \cup {draftOf}
  /\ overlapped' = Overlap(draftOf)
  /\ UNCHANGED <<drafts, handling, created, routed>>

\* Mutant: a confirmation is taken whatever is still missing
Unchecked(fields) == TRUE

Confirmable(fields) == MissingFields(fields) = {}

\* The user's message is stored first, and the draft stays where it is
Confirm(c) ==
  /\ handling[c].at = "idle" /\ draftOf # 0
  /\ Confirmable(drafts[draftOf])
  /\ handling' = [handling EXCEPT ![c] = [at |-> "stored", draft |-> draftOf]]
  /\ overlapped' = Overlap(draftOf)
  /\ UNCHANGED <<draftOf, drafts, created, cancelled, routed>>

CreateAgent(c) ==
  /\ handling[c].at = "stored" /\ Len(created) < MaxCreated
  /\ created' = Append(created, [draft |-> handling[c].draft, fields |-> drafts[handling[c].draft]])
  /\ handling' = [handling EXCEPT ![c].at = "created"]
  /\ UNCHANGED <<draftOf, drafts, cancelled, overlapped, routed>>

\* Mutant: the draft stays in the dictionary when its agent is there
StaysAsDraft(d) == d

DraftPopped(d) == 0

\* The answer is stored, the agents are listed, the entry of the conversation goes
FinishConfirm(c) ==
  /\ handling[c].at = "created"
  /\ draftOf' = DraftPopped(draftOf)
  /\ handling' = [handling EXCEPT ![c] = NotHandling]
  /\ UNCHANGED <<drafts, created, cancelled, overlapped, routed>>

\* An exception of the database ends the connection; the draft stays
ConfirmFails(c) ==
  /\ handling[c].at \in {"stored", "created"}
  /\ handling' = [handling EXCEPT ![c] = NotHandling]
  \* an agent that is there already can be confirmed once more
  /\ overlapped' = IF handling[c].at = "created" THEN overlapped \cup {handling[c].draft} ELSE overlapped
  /\ UNCHANGED <<draftOf, drafts, created, cancelled, routed>>

\* A request that gives everything creates the agent without a dialogue
CreateAtOnce(c) ==
  /\ handling[c].at = "idle" /\ draftOf = 0 /\ Len(created) < MaxCreated /\ routed = Nowhere
  /\ created' = Append(created, [draft |-> 0, fields |-> Required])
  /\ UNCHANGED <<draftOf, drafts, handling, cancelled, overlapped, routed>>

-----------------------------------------------------------------------------
(* The targets *)

Error(e, to) == [to |-> to, error |-> e]

\* With mentions: those of members, and an error if there are others
Mentioned(ids, inConv) ==
  Error(IF ids \subseteq inConv THEN "none" ELSE "not_member", ids \cap inConv)

\* Without, in a group: the text, then whether there are messages and who sent the
\* last one
InGroup(inConv, text, last) ==
  LET orchestrated == Orchestrator \in inConv IN
  IF orchestrated /\ (text \in {"@orchestrator", "deploy"} \/ (text = "complex" /\ last = "nothing"))
  THEN Error("none", {Orchestrator})
  ELSE IF text \in {"@", "@orchestrator"} THEN Error("bad_mentions", {})
  ELSE IF last \in inConv \ {Orchestrator} THEN Error("none", {last})
  ELSE Error("no_target", {})

\* Mutant: the agent that spoke last is not looked up among the members any more
LastSpeaker(inConv, text, last) ==
  InGroup(IF last = "nothing" THEN inConv ELSE inConv \cup {last}, text, last)

Unmentioned(inConv, text, last) == InGroup(inConv, text, last)

Resolved(convKind, inConv, ids, text, last) ==
  CASE ids # {} -> {Mentioned(ids, inConv)}
    [] ids = {} /\ convKind = "single" /\ inConv = {} -> {Error("no_agent", {})}
    [] ids = {} /\ convKind = "single" /\ inConv # {} -> {Error("none", {a}) : a \in inConv}
    [] OTHER -> {Unmentioned(inConv, text, last)}

\* A message that is none of the wizard's, in whatever conversation it is of.  Where
\* it goes depends on no draft, so that one message is looked at, the first one.
Route ==
  /\ drafts = <<>> /\ created = <<>> /\ routed = Nowhere
  /\ \E convKind \in {"single", "group"}, inConv \in SUBSET Members, ids \in SUBSET (Members \cup Strangers),
        text \in {"plain", "complex", "deploy", "@", "@orchestrator"},
        last \in Members \cup Strangers \cup {"user", "nothing"} :
       \E r \in Resolved(convKind, inConv, ids, text, last) :
         routed' = [to |-> r.to, error |-> r.error, asked |-> ids, in |-> inConv, last |-> last,
                    text |-> text, kind |-> convKind]
  /\ UNCHANGED <<draftOf, drafts, handling, created, cancelled, overlapped>>

WizardNext ==
  \/ \E c \in Tabs, fields \in SUBSET Required : StartDraft(c, fields) \/ AddFields(c, fields)
  \/ \E c \in Tabs :
       \/ CancelDraft(c) \/ Confirm(c) \/ CreateAgent(c) \/ FinishConfirm(c) \/ ConfirmFails(c)
       \/ CreateAtOnce(c)
  \/ Route

WizardSpec == WizardInit /\ [][WizardNext]_wizardVars

-----------------------------------------------------------------------------
(* Properties *)

WizardTypeOK ==
  /\ draftOf \in 0..Len(drafts) /\ Range(drafts) \subseteq SUBSET Required
  /\ cancelled \cup overlapped \subseteq 1..Len(drafts)

\* Every agent of the wizard has a name and a prompt when it is created, whatever was
\* typed on other connections while the confirmation was under way.
AgentsComplete == \A i \in DOMAIN created : MissingFields(created[i].fields) = {}

FromDraft(d) == {i \in DOMAIN created : created[i].draft = d}

\* A draft makes one agent, and none once the user was told that it is cancelled, and
\* it is not kept when its agent is there: unless another connection was in the
\* middle of a confirmation (the draft is popped only after the agent is stored).
OneAgentPerDraft ==
  \A d \in DOMAIN drafts \ overlapped :
    /\ Cardinality(FromDraft(d)) <= 1
    /\ d \in cancelled => FromDraft(d) = {}
    /\ FromDraft(d) # {} /\ Confirming(d) = {} => draftOf # d

\* A message reaches members only; with mentions, all the members it mentions and
\* nobody else; the only silence is one the user is told of; and a group message
\* that mentions nobody is never spread over several agents.
TargetsRight ==
  routed # Nowhere =>
    /\ routed.to \subseteq routed.in
    /\ routed.asked # {} => routed.to = routed.asked \cap routed.in
    /\ routed.to = {} => routed.error # "none"
    /\ routed.asked = {} => Cardinality(routed.to) <= 1
    /\ routed.asked = {} /\ routed.kind = "group" /\ routed.to # {} =>
         routed.to \in {{Orchestrator}, {routed.last}}

\* What a message leads to before any agent is asked
IntakeSound == WizardTypeOK /\ AgentsComplete /\ OneAgentPerDraft /\ TargetsRight
=============================================================================
