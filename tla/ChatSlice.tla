----------------------------- MODULE ChatSlice -----------------------------
(***************************************************************************)
(* The browser's view of one conversation and its pure reducer             *)
(* (web/src/stores/reducer.ts).  The texts of a bubble are abstracted to   *)
(* the set of chunks they hold and the note appended to them; appending a  *)
(* chunk that is there already changes nothing, as appendStreamDelta does. *)
(***************************************************************************)
EXTENDS Naturals, FiniteSets

CONSTANTS Replies  (* ids of the agents' messages                          *)

Text(parts, note) == [kind |-> "text", parts |-> parts, note |-> note]
Artifact == [kind |-> "artifact", parts |-> {}, note |-> "none"]
Blank == Text({}, "none")

\* isPendingAgentTextMessage
Pending(content) == content = Blank

EmptySlice ==
  [known |-> {}, content |-> [m \in Replies |-> Blank], streaming |-> {},
   over |-> FALSE]

\* history: the messages are replaced, those still blank stream; what streamed
\* before goes on streaming
ApplyHistory(s, e) ==
  [s EXCEPT !.known = DOMAIN e.rows,
            !.content = [m \in Replies |-> IF m \in DOMAIN e.rows THEN e.rows[m] ELSE Blank],
            !.streaming = @ \cup {m \in DOMAIN e.rows : Pending(e.rows[m])}]

\* message_created of an agent's message: once, and its bubble streams
ApplyCreated(s, e) ==
  IF e.m \in s.known THEN s
  ELSE [s EXCEPT !.known = @ \cup {e.m}, !.content[e.m] = Blank,
                 !.streaming = @ \cup {e.m}]

ApplyChunk(s, e) ==
  IF e.m \notin s.known THEN s
  ELSE [s EXCEPT !.content[e.m] = Text(@.parts \cup {e.n}, @.note)]

\* Mutant: the bubble keeps the text it streamed
ApplyFinalStatus(s, e) == [s EXCEPT !.streaming = @ \ {e.m}]

\* message_done and message_cancelled
ApplyFinal(s, e) ==
  [s EXCEPT !.content = IF e.m \in s.known THEN [@ EXCEPT ![e.m] = e.content] ELSE @,
            !.streaming = @ \ {e.m}]

\* error: only for a bubble that streams, which gets a note
ApplyError(s, e) ==
  IF e.m \notin s.streaming THEN s
  ELSE [s EXCEPT !.content = IF e.m \in s.known
                             THEN [@ EXCEPT ![e.m] = Text(s.content[e.m].parts, "error")] ELSE @,
                 !.streaming = @ \ {e.m}]

Reduce(s, e) ==
  CASE e.t = "history"              -> ApplyHistory(s, e)
    [] e.t = "created"              -> ApplyCreated(s, e)
    [] e.t = "chunk"                -> ApplyChunk(s, e)
    [] e.t \in {"done", "cancelled"} -> ApplyFinal(s, e)
    [] e.t = "error"                -> ApplyError(s, e)
    [] e.t = "fanout"               -> [s EXCEPT !.over = TRUE]
    [] OTHER                        -> s
=============================================================================
