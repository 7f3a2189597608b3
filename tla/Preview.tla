------------------------------ MODULE Preview ------------------------------
(***************************************************************************)
(* How the orchestrator closes a message (server/orchestrator.py 2118-2470)*)
(* once its subtasks have run: the deploy card, the web page it shows for  *)
(* the request (taken from what the agents wrote, from their workspace, or *)
(* asked of one more model), the status of the parent row, the summary.    *)
(*                                                                         *)
(* Every subtask is completed or failed, as the engine promises for a graph *)
(* without dependencies (ResultPartition of DagExecutor): the branch for   *)
(* blocked ones cannot be reached and is left out.  The turn may be cut at *)
(* every await by a cancellation, or an exception outside a page's try.    *)
(***************************************************************************)
EXTENDS Naturals, Sequences, FiniteSets

CONSTANT Records     (* the subtask records                                *)

VARIABLES
  asks,        (* what the user asked for: "page", "deploy"                *)
  domain,      (* subtask -> its domain                                    *)
  result,      (* subtask -> "completed" or "failed"                       *)
  wrote,       (* subtask -> its message: "html" or "other"                *)
  workspace,   (* the workspace: "html", "partial", "no html" or "none"    *)
  askable,     (* agents that might generate: [able, fit]                  *)
  closing,     (* the await the turn has got to; "over" or "cut"           *)
  page,        (* the source of the page in hand, NoPage without           *)
  storedPages, (* the sources of the artifacts stored                      *)
  modelCalls,  (* how often a model has been asked for a page              *)
  shownAs,     (* the previews whose messages are stored                   *)
  pageRecovered, (* recovered_preview                                      *)
  parentStatus, (* the status of the parent row                            *)
  finalText,   (* the parts stored as the content of the message           *)
  sentEvents   (* the events sent                                          *)

givenVars == <<asks, domain, result, wrote, workspace, askable>>
pageVars == <<page, storedPages, modelCalls>>
previewVars == <<givenVars, closing, pageVars, shownAs, pageRecovered, parentStatus, finalText, sentEvents>>

NoPage == "no page"
Those(r) == {s \in Records : result[s] = r}
AllCompleted == Those("completed") = Records
Sent(t, what) == <<[t |-> t, what |-> what]>>

PreviewInit ==
  /\ asks \in SUBSET {"page", "deploy"}
  /\ askable \in SUBSET [able : BOOLEAN, fit : {0, 25}] /\ Cardinality(askable) <= 2
  /\ workspace \in {"html", "partial", "no html", "none"}
  /\ domain \in [Records -> {"frontend", "devops"}]
  \* what nothing looks at for this message has one value only
  /\ "deploy" \notin asks => \A s \in Records : domain[s] = "frontend"
  /\ "page" \notin asks => askable = {}
  /\ asks = {} => workspace = "none"
  /\ result \in [Records -> {"completed", "failed"}]
  \* a message is collected of the subtasks that are completed only
  /\ wrote \in {t \in [Records -> {"html", "other"}] :
                 \A s \in Records : result[s] # "completed" => t[s] = "other"}
  /\ closing = "executed"
  /\ page = NoPage /\ storedPages = {} /\ modelCalls = 0 /\ shownAs = <<>>
  /\ pageRecovered = FALSE /\ parentStatus = "running"
  /\ finalText = <<"process">> /\ sentEvents = <<>>

-----------------------------------------------------------------------------
(* The deploy card                                                        *)

\* The build directory counts as the output of the deployment if it has files
Deployed ==
  /\ closing = "executed"
  /\ closing' = "collect"
  /\ sentEvents' = IF "deploy" \in asks /\ \E s \in Those("completed") : domain[s] = "devops"
             THEN sentEvents \o Sent("deploy_status", IF workspace = "none" THEN "failed" ELSE "deployed")
             ELSE sentEvents
  /\ UNCHANGED <<givenVars, pageVars, shownAs, pageRecovered, parentStatus, finalText>>

-----------------------------------------------------------------------------
(* The page                                                               *)

WantsPage == "page" \in asks

\* The outputs are collected by the id of the message, and task_outputs turns them
\* back to subtasks: every completed one is looked at, whatever its domain.
HtmlOf(s) == wrote[s] = "html"

\* Mutant: the outputs are looked up by the id of the subtask
NeverFound(s) == s \notin Records

Found(s) == HtmlOf(s)

\* The agents that can be asked, and the best of them
Able == {a \in askable : a.able}
Best == {a \in Able : a.fit > 0 /\ \A b \in Able : b.fit <= a.fit}

\* Before any model, the outputs, then an html file of the workspace, which is
\* closed if it is cut off
TakePage ==
  /\ closing = "collect" /\ WantsPage
  /\ \/ /\ \E s \in Records : Found(s)
        /\ page' = "output" /\ closing' = "store"
     \/ /\ \A s \in Records : ~Found(s)
        /\ workspace \in {"html", "partial"}
        /\ page' = "file" /\ closing' = "store"
     \/ /\ \A s \in Records : ~Found(s)
        /\ workspace \notin {"html", "partial"}
        /\ page' = NoPage
        /\ closing' = IF Best = {} THEN "settle" ELSE "ask"
  /\ UNCHANGED <<givenVars, storedPages, modelCalls, shownAs, pageRecovered, parentStatus, finalText,
                 sentEvents>>

NoPageWanted ==
  /\ closing = "collect" /\ ~WantsPage
  /\ closing' = "settle"
  /\ UNCHANGED <<givenVars, pageVars, shownAs, pageRecovered, parentStatus, finalText, sentEvents>>

\* A timeout, an error, an adapter that does not load, or an answer without html:
\* each raises, and the try around the page logs it.
AskForPage ==
  /\ closing = "ask"
  /\ modelCalls' = modelCalls + 1
  /\ \/ page' = "model" /\ closing' = "store"
     \/ page' = NoPage /\ closing' = "settle"
  /\ UNCHANGED <<givenVars, storedPages, shownAs, pageRecovered, parentStatus, finalText, sentEvents>>

StorePage ==
  /\ closing = "store"
  /\ \/ /\ storedPages' = storedPages \cup {page}
        /\ closing' = IF AllCompleted THEN "settle" ELSE "announce"
        /\ page' = page
     \/ /\ page' = NoPage /\ closing' = "settle"
        /\ UNCHANGED storedPages
  /\ UNCHANGED <<givenVars, modelCalls, shownAs, pageRecovered, parentStatus, finalText, sentEvents>>

Announcement(p) ==
  Sent("message_created", p) \o Sent("artifact_ready", p) \o Sent("message_done", p)

\* Over failed subtasks, the preview message is part of the try: if it cannot be
\* stored the artifact stays, and the page is not recovered.
AnnounceRecovered ==
  /\ closing = "announce"
  /\ closing' = "settle"
  /\ \/ /\ shownAs' = Append(shownAs, page) /\ sentEvents' = sentEvents \o Announcement(page)
        /\ pageRecovered' = TRUE /\ page' = page
     \/ /\ page' = NoPage
        /\ UNCHANGED <<shownAs, sentEvents, pageRecovered>>
  /\ UNCHANGED <<givenVars, storedPages, modelCalls, parentStatus, finalText>>

-----------------------------------------------------------------------------
(* The parent and the summary                                             *)

\* Mutant: the parent is done as soon as there is a page to show
PageIsEnough == IF AllCompleted \/ page # NoPage \/ storedPages # {} THEN "done" ELSE "failed"

ParentStatus == IF AllCompleted \/ pageRecovered THEN "done" ELSE "failed"

Settle ==
  /\ closing = "settle"
  /\ parentStatus' = ParentStatus
  /\ sentEvents' = sentEvents \o Sent("task_update", ParentStatus) \o Sent("stream_chunk", "summary")
  /\ closing' = "summary"
  /\ UNCHANGED <<givenVars, pageVars, shownAs, pageRecovered, finalText>>

\* The whole text is stored before message_done
StoreSummary ==
  /\ closing = "summary"
  /\ finalText' = Append(finalText, "summary")
  /\ sentEvents' = sentEvents \o Sent("message_done", "summary")
  /\ closing' = IF page # NoPage THEN "preview" ELSE "last"
  /\ UNCHANGED <<givenVars, pageVars, shownAs, pageRecovered, parentStatus>>

\* w4_artifact gets a message after the summary, a recovered page's second one
ShowPage ==
  /\ closing = "preview"
  /\ shownAs' = Append(shownAs, page)
  /\ sentEvents' = sentEvents \o Announcement(page)
  /\ closing' = "last"
  /\ UNCHANGED <<givenVars, pageVars, pageRecovered, parentStatus, finalText>>

LastUpdate ==
  /\ closing = "last"
  /\ sentEvents' = sentEvents \o Sent("task_update", parentStatus)
  /\ closing' = "over"
  /\ UNCHANGED <<givenVars, pageVars, shownAs, pageRecovered, parentStatus, finalText>>

\* A cancellation, or an exception of the database that no try is around
Cut ==
  /\ closing \notin {"over", "cut"}
  /\ closing' = "cut"
  /\ UNCHANGED <<givenVars, pageVars, shownAs, pageRecovered, parentStatus, finalText, sentEvents>>

PreviewNext ==
  \/ Deployed \/ TakePage \/ NoPageWanted \/ AskForPage \/ StorePage \/ AnnounceRecovered
  \/ Settle \/ StoreSummary \/ ShowPage \/ LastUpdate \/ Cut

PreviewSpec == PreviewInit /\ [][PreviewNext]_previewVars

-----------------------------------------------------------------------------
(* Properties                                                             *)

PreviewTypeOK ==
  /\ closing \in {"executed", "collect", "ask", "store", "announce", "settle", "summary", "preview",
             "last", "over", "cut"}
  /\ page \in {NoPage, "output", "file", "model"} /\ storedPages \subseteq {"output", "file", "model"}
  /\ parentStatus \in {"running", "done", "failed"} /\ pageRecovered \in BOOLEAN

Announced(p) == \E i \in DOMAIN sentEvents : sentEvents[i] = [t |-> "message_done", what |-> p]

\* A parent is done over failed subtasks only when the user has been shown a page
\* for them: wherever the turn is cut, and whatever failed on the way
\* (recovered_preview, orchestrator.py:2305).
DoneIsBacked ==
  parentStatus = "done" =>
    \/ AllCompleted
    \/ \E p \in storedPages : Announced(p) /\ p \in {shownAs[i] : i \in DOMAIN shownAs}

\* A page an agent has written is used before any model is asked for another one,
\* and one turn stores one page at most.
PagesNotWasted ==
  /\ (\E s \in Records : HtmlOf(s)) => modelCalls = 0 /\ storedPages \subseteq {"output"}
  /\ Cardinality(storedPages) <= 1 /\ modelCalls <= 1

\* A turn that is not cut leaves no stored page out of the conversation, but the one
\* whose message could not be stored, and then the parent has failed; and the
\* summary is stored once, after the process.
NothingLeftBehind ==
  closing = "over" =>
    /\ parentStatus = "done" => \A p \in storedPages : Announced(p)
    /\ finalText = <<"process", "summary">>

\* What the user is told and shown at the end of a turn
PreviewSound == PreviewTypeOK /\ DoneIsBacked /\ PagesNotWasted /\ NothingLeftBehind
=============================================================================
