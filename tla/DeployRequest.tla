---------------------------- MODULE DeployRequest ----------------------------
(***************************************************************************)
(* A message that asks to deploy (_run_netlify_deploy_request in           *)
(* server/handlers/send_message.py and server/services/deploy.py): a card  *)
(* that says pending, deploying and how it ended, the choice of the page   *)
(* among the artifacts of the conversation, and the calls to Netlify, which*)
(* is external.  One request follows another, and agents store pages at    *)
(* any time.                                                               *)
(***************************************************************************)
EXTENDS Naturals, Sequences, FiniteSets

CONSTANT MaxPages    (* bound: html artifacts of the conversation, within  *)
                     (* the 50 newest which the query for them lists       *)

ASSUME DeployAssumption == MaxPages \in 0..50

VARIABLES
  pages,       (* the html artifacts, oldest first: [frontend, body]       *)
  env,         (* what is configured: "token", "site"                      *)
  uploaded,    (* the pages Netlify has the file of                        *)
  deployAt,    (* the await the request is at; "over" (none), "raised"     *)
  choice,      (* the page that was read, 0 for none                       *)
  site,        (* the deploy Netlify was told of serves this page          *)
  cardStored,  (* the status stored in the deploy message                  *)
  cardTold     (* the status of the last event                             *)

deployVars == <<pages, env, uploaded, deployAt, choice, site, cardStored, cardTold>>

Pages == [frontend : BOOLEAN, body : {"whole", "part", "empty"}]

DeployInit ==
  /\ env \in SUBSET {"token", "site"}
  /\ pages = <<>> /\ uploaded = {}
  /\ deployAt = "over" /\ choice = 0 /\ site = 0
  /\ cardStored = "none" /\ cardTold = "none"

\* Both the stored card and the event
Announce(st) == cardStored' = st /\ cardTold' = st

\* A message asks for a deployment, the earlier one has ended: its own card begins
Pending ==
  /\ deployAt \in {"over", "raised"} /\ deployAt' = "pending"
  /\ Announce("pending")
  /\ choice' = 0 /\ site' = 0
  /\ UNCHANGED <<pages, env, uploaded>>

Deploying ==
  /\ deployAt = "pending" /\ deployAt' = "choose"
  /\ Announce("deploying")
  /\ UNCHANGED <<pages, env, uploaded, choice, site>>

-----------------------------------------------------------------------------
(* The page *)

\* The artifacts of frontend agents go first, the newest of each kind first
Before(i, j) ==
  \/ pages[i].frontend /\ ~pages[j].frontend
  \/ pages[i].frontend = pages[j].frontend /\ i > j

FirstOf(S) == IF S = {} THEN 0 ELSE CHOOSE i \in S : \A j \in S \ {i} : Before(i, j)

\* Mutant: the first one with any content is taken
AnyContent(whole, filled) == FirstOf(filled)

\* The first complete one, and without one the first that has content: it is wrapped
Deployable(whole, filled) == IF whole # {} THEN FirstOf(whole) ELSE FirstOf(filled)

ChoosePage ==
  /\ deployAt = "choose"
  /\ LET whole  == {i \in DOMAIN pages : pages[i].body = "whole"}
         filled == {i \in DOMAIN pages : pages[i].body # "empty"}
     IN /\ choice' = Deployable(whole, filled)
        /\ deployAt' = IF choice' = 0 \/ "token" \notin env THEN "failed"
                       ELSE IF "site" \in env THEN "deploy" ELSE "site"
  /\ UNCHANGED <<pages, env, uploaded, site, cardStored, cardTold>>

-----------------------------------------------------------------------------
(* Netlify *)

\* An answer of 400 and more, or without an id, fails; a connection that breaks raises
NetlifyRefuses(here) == deployAt = here /\ deployAt' = "failed" /\ UNCHANGED <<uploaded, site>>

CreateSite ==
  /\ \/ deployAt = "site" /\ deployAt' = "deploy" /\ UNCHANGED <<uploaded, site>>
     \/ NetlifyRefuses("site")
  /\ UNCHANGED <<pages, env, choice, cardStored, cardTold>>

\* Mutant: the file is not sent when Netlify asks for it
NeverNeeded(required) == FALSE

Needed(required) == required

\* The digest of the file is announced, and Netlify tells whether it needs it
CreateDeploy ==
  /\ \/ /\ deployAt = "deploy"
        /\ site' = choice
        /\ deployAt' = IF Needed(choice \notin uploaded) THEN "upload" ELSE "deployed"
        /\ UNCHANGED uploaded
     \/ NetlifyRefuses("deploy")
  /\ UNCHANGED <<pages, env, choice, cardStored, cardTold>>

Upload ==
  /\ \/ /\ deployAt = "upload" /\ deployAt' = "deployed"
        /\ uploaded' = uploaded \cup {choice}
        /\ UNCHANGED site
     \/ NetlifyRefuses("upload")
  /\ UNCHANGED <<pages, env, choice, cardStored, cardTold>>

\* A call to Netlify that raises (a timeout, no connection, an answer that is not
\* json) leaves the handler, and ends the connection of the browser.
NetlifyRaises ==
  /\ deployAt \in {"site", "deploy", "upload"}
  /\ deployAt' = "raised"
  /\ UNCHANGED <<pages, env, uploaded, choice, site, cardStored, cardTold>>

\* The card is stored, then the event is sent, and message_done with what was stored
StoreResult ==
  /\ deployAt \in {"deployed", "failed"}
  /\ cardStored' = deployAt /\ deployAt' = "announce"
  /\ UNCHANGED <<pages, env, uploaded, choice, site, cardTold>>

TellResult ==
  /\ deployAt = "announce" /\ deployAt' = "over"
  /\ cardTold' = cardStored
  /\ UNCHANGED <<pages, env, uploaded, choice, site, cardStored>>

\* An agent stores a page, also while a request is under way
StoreArtifact(p) ==
  /\ Len(pages) < MaxPages
  /\ pages' = Append(pages, p)
  /\ UNCHANGED <<env, uploaded, deployAt, choice, site, cardStored, cardTold>>

DeployNext ==
  \/ Pending \/ Deploying \/ ChoosePage \/ CreateSite \/ CreateDeploy \/ Upload
  \/ NetlifyRaises \/ StoreResult \/ TellResult
  \/ \E p \in Pages : StoreArtifact(p)

DeploySpec == DeployInit /\ [][DeployNext]_deployVars

-----------------------------------------------------------------------------
(* Properties *)

DeployTypeOK ==
  /\ choice \in 0..Len(pages) /\ site \in 0..Len(pages) /\ uploaded \subseteq DOMAIN pages
  /\ cardStored \in {"none", "pending", "deploying", "deployed", "failed"}

\* The card says deployed only when Netlify has the file of the page it serves, and
\* the page is not cut off or of another agent when a complete one of a frontend agent
\* was there before it (of the pages stored since then none is newer).
DeployedIsServed ==
  cardStored = "deployed" =>
    /\ site # 0 /\ site = choice /\ site \in uploaded
    /\ pages[site].body # "empty"
    /\ \A i \in 1..site :
         pages[i].body = "whole" => /\ pages[site].body = "whole"
                                    /\ pages[i].frontend => pages[site].frontend

\* The browser is told what is stored, and a request that comes to its end, however
\* Netlify answered, leaves no card behind that says it is still deploying.
CardEnds ==
  /\ deployAt = "over" => cardStored = cardTold /\ cardStored \in {"none", "deployed", "failed"}
  /\ cardTold \in {"deployed", "failed"} => cardStored = cardTold

DeploySound == DeployTypeOK /\ DeployedIsServed /\ CardEnds
=============================================================================
