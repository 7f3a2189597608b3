--------------------------- MODULE SubtaskStream ---------------------------
(***************************************************************************)
(* The dispatch of one subtask (_dispatch_subtask_with_result and          *)
(* _dispatch_subtask_with_retry in server/orchestrator.py): an agent's     *)
(* stream becomes the text of the subtask's bubble and the status of its   *)
(* row, and the browser (web/src/stores/reducer.ts) follows by the events. *)
(* Orchestration has the subtasks together, without what they say.         *)
(*                                                                         *)
(* The connection is one that holds: WsConnection has the others.  Calls   *)
(* of tools, whose records the final content overwrites, are left out.     *)
(***************************************************************************)
EXTENDS Naturals, Sequences, TaskStatus

CONSTANTS MaxChunks  (* bound: chunks of text                              *)

Web == INSTANCE ChatSlice WITH Replies <- {"bubble"}

VARIABLES
  sub_at,      (* where the dispatch is                                    *)
  kind,        (* the subtask: is it a page, is its agent a mock           *)
  parts,       (* final_parts                                              *)
  failed,      (* error_parts is not empty                                 *)
  artifacts,   (* kinds the tools have created                             *)
  task_row,    (* status of the row                                        *)
  content,     (* of the message's row                                     *)
  events,      (* sent, in order, and not yet reduced                      *)
  slice,       (* the browser's view of the bubble                         *)
  task_card    (* its view of the task                                     *)

subVars == <<sub_at, kind, parts, failed, artifacts, task_row, content, events, slice, task_card>>
stream == <<kind, parts, failed, artifacts>>
browser == <<slice, task_card>>

\* Contents: text, with what was put after it; a card for an artifact of a kind
Says(note) == Web!Text(parts, note)
Card(k) == [kind |-> k, parts |-> {}, note |-> "none"]
Waiting == Web!Text({}, "working")

Done(c) == [t |-> "done", m |-> "bubble", content |-> c]
TaskIs(status) == [t |-> "task", status |-> status]

SubInit ==
  /\ sub_at = "load" /\ kind = [page |-> FALSE, mock |-> FALSE]
  /\ parts = {} /\ failed = FALSE /\ artifacts = <<>>
  /\ task_row = "running" /\ content = Waiting
  /\ events = <<>>
  /\ slice = [Web!EmptySlice EXCEPT !.known = {"bubble"}, !.content = [m \in {"bubble"} |-> Waiting],
                                    !.streaming = {"bubble"}]
  /\ task_card = "running"

-----------------------------------------------------------------------------
(* _dispatch_subtask_with_result *)

\* The row is marked and the browser told
MarkRow(status) ==
  /\ CanMove(task_row, status)
  /\ task_row' = status
  /\ events' = Append(events, TaskIs(status))

LoadAgent ==
  /\ sub_at = "load" /\ sub_at' = "stream"
  /\ kind' \in [page : BOOLEAN, mock : BOOLEAN]
  /\ UNCHANGED <<parts, failed, artifacts, task_row, content, events, browser>>

\* The message says which agent is missing, the event only that one is
AgentMissing ==
  /\ sub_at = "load" /\ sub_at' = "missing"
  /\ content' = Web!Text({}, "agent_missing")
  /\ events' = Append(events, Done(Web!Text({}, "unavailable")))
  /\ UNCHANGED <<stream, task_row, browser>>

SubtaskChunk ==
  /\ sub_at = "stream"
  /\ \E n \in 1..MaxChunks \ parts :
       /\ parts' = parts \cup {n}
       /\ events' = Append(events, [t |-> "chunk", m |-> "bubble", n |-> n])
  /\ UNCHANGED <<sub_at, kind, failed, artifacts, task_row, content, browser>>

\* create_artifact, or the engine's or the adapter's error
ToolCreates(k) ==
  /\ sub_at = "stream" /\ artifacts = <<>>
  /\ artifacts' = <<k>>
  /\ UNCHANGED <<sub_at, kind, parts, failed, task_row, content, events, browser>>

SubtaskError ==
  /\ sub_at = "stream" /\ ~failed
  /\ failed' = TRUE
  /\ UNCHANGED <<sub_at, kind, parts, artifacts, task_row, content, events, browser>>

\* What the final content is, by what the stream has brought.  Of a broken page
\* what there is of it is closed; a text in which a call of create_artifact is
\* found makes the artifact now; a diff has no card.
FinalCard ==
  IF failed THEN {IF kind.page THEN Card("preview") ELSE Says("error")}
  ELSE CASE artifacts = <<"diff">>                -> {Says("none")}
         [] artifacts \notin {<<>>, <<"diff">>}   -> {Card(artifacts[1])}
         [] artifacts = <<>> /\ parts = {}        -> {Says("finished")}
         [] OTHER                                 -> {Says("none"), Card("preview"), Card("file"), Card("code")}

\* The stream ends: the final content is written
SaveContent ==
  /\ sub_at = "stream"
  /\ content' \in FinalCard
  /\ sub_at' = "saved"
  /\ UNCHANGED <<stream, task_row, events, browser>>

\* What has a page in its text, of a mock or a subtask that is one
MayHavePage == ~failed /\ (kind.page \/ kind.mock) /\ parts # {}

\* message_done; a page found in the text is made an artifact
AnnounceContent ==
  /\ sub_at = "saved"
  /\ events' = Append(events, Done(content))
  /\ sub_at' \in {"marking"} \cup (IF MayHavePage THEN {"page"} ELSE {})
  /\ UNCHANGED <<stream, task_row, content, browser>>

SavePage ==
  /\ sub_at = "page" /\ sub_at' = "page_saved"
  /\ content' = Card("preview")
  /\ UNCHANGED <<stream, task_row, events, browser>>

\* Mutant: the bubble is not told that its text has become a card
AnnounceNothing ==
  /\ sub_at = "page_saved" /\ sub_at' = "marking"
  /\ UNCHANGED <<stream, task_row, content, events, browser>>

AnnouncePage ==
  /\ sub_at = "page_saved" /\ sub_at' = "marking"
  /\ events' = Append(events, Done(content))
  /\ UNCHANGED <<stream, task_row, content, browser>>

MarkSubtask ==
  /\ sub_at \in {"marking", "missing"}
  /\ LET ok == sub_at = "marking" /\ (failed => kind.page) IN
       /\ MarkRow(IF ok THEN "done" ELSE "failed")
       /\ sub_at' = IF ok THEN "returned" ELSE "raised"
  /\ UNCHANGED <<stream, content, browser>>

\* An exception of the adapter, of a tool's file or of the database
SubtaskRaises ==
  /\ sub_at \notin {"raised", "returned", "gave_up", "cancelled"}
  /\ sub_at' = "raised"
  /\ UNCHANGED <<stream, task_row, content, events, browser>>

\* CancelledError inside the try: the message says so, and nobody is told
SubtaskCancelled ==
  /\ sub_at \in {"stream", "saved", "page", "page_saved", "marking"}
  /\ content' = Web!Text({}, "cancelled")
  /\ sub_at' = "cancelled"
  /\ UNCHANGED <<stream, task_row, events, browser>>

\* _dispatch_subtask_with_retry: another attempt begins with the row set running,
\* which raises when the table does not allow it
RetrySubtask ==
  /\ sub_at = "raised"
  /\ IF CanMove(task_row, "running")
     THEN MarkRow("running") /\ sub_at' = "load" /\ parts' = {} /\ failed' = FALSE /\ artifacts' = <<>>
     ELSE sub_at' = "gave_up" /\ UNCHANGED <<task_row, events, parts, failed, artifacts>>
  /\ UNCHANGED <<kind, content, browser>>

-----------------------------------------------------------------------------
\* A message_done completes the card of the task it belongs to
TaskAfter(card, e) ==
  CASE e.t = "task"                                                    -> e.status
    [] e.t = "done" /\ card \in {"planning", "pending", "running"}     -> "done"
    [] OTHER                                                           -> card

ReduceEvent ==
  /\ events # <<>>
  /\ events' = Tail(events)
  /\ slice' = Web!Reduce(slice, Head(events))
  /\ task_card' = TaskAfter(task_card, Head(events))
  /\ UNCHANGED <<sub_at, stream, task_row, content>>

SubNext ==
  \/ LoadAgent \/ AgentMissing \/ SubtaskChunk \/ SubtaskError \/ SaveContent \/ AnnounceContent
  \/ SavePage \/ AnnouncePage \/ MarkSubtask \/ SubtaskRaises \/ SubtaskCancelled \/ RetrySubtask
  \/ ReduceEvent
  \/ \E k \in {"preview", "file", "code", "diff"} : ToolCreates(k)

SubSpec == SubInit /\ [][SubNext]_subVars

-----------------------------------------------------------------------------
\* When a subtask has returned and its events are reduced, the bubble shows what is
\* stored, however often the content was replaced on the way, it no longer streams,
\* and the card of the task has the row's status.  A failed one as well, of an agent
\* that was there and a stream that ended.
SubtaskShown ==
  events = <<>> /\ (sub_at = "returned" \/ (sub_at = "gave_up" /\ task_row = "failed"))
    => /\ slice.content["bubble"] = content \/ content = Web!Text({}, "agent_missing")
       /\ slice.streaming = {} /\ task_card = task_row
=============================================================================
