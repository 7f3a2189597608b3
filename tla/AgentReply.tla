----------------------------- MODULE AgentReply -----------------------------
(***************************************************************************)
(* One message of the user, fanned out to agents: the handler              *)
(* (handle in server/handlers/send_message.py), a task per reply           *)
(* (run_agent_reply, _run_orchestrator), the cancel and join handlers, the *)
(* WebSockets the events go over (WsConnection) and the browser that shows *)
(* them (ChatSlice), which may lose its connection and come back.          *)
(*                                                                         *)
(* Coroutines switch at awaits that really suspend: database calls, the    *)
(* adapter, a put into a full queue.  A step of a reply makes what happens *)
(* between two of them; a database call takes effect in a step of its own  *)
(* and a cancel can hit before its caller goes on.                         *)
(*                                                                         *)
(* The orchestrator's work is one step here (Orchestration has it), and so *)
(* is what a reply reads before it streams.  Events that no bubble's text  *)
(* shows (typing, tools, usage, the animation's), the user's own message   *)
(* and the execution records are left out.                                 *)
(***************************************************************************)
EXTENDS WsConnection, ChatSlice

CONSTANTS
  Orchestrated,  (* the replies that _run_orchestrator makes               *)
  MaxChunks,     (* bound: text chunks of a reply                          *)
  MaxCancels,    (* bound: cancels the user asks for                       *)
  Budget         (* bound: connections opened and agents mentioned         *)

ASSUME ReplyAssumption == /\ Orchestrated \subseteq Replies
                          /\ Producers = Conns \cup Replies /\ Conns \cap Replies = {}
                          /\ "none" \notin Replies /\ IsFiniteSet(Replies)

VARIABLES
  slice,       (* what the browser shows                                   *)
  reader,      (* connection -> what its receive loop is doing             *)
  target,      (* connection -> the reply its cancel handler works on      *)
  read,        (* connection -> the rows its join handler has read         *)
  origin,      (* the connection the message came from, NoConn before it   *)
  asked,       (* the replies that the message's mentions ask for          *)
  pc,          (* reply -> where its task is                               *)
  ending,      (* reply -> how it ends, as far as that is decided          *)
  parts,       (* reply -> chunks produced                                 *)
  row,         (* reply -> the content of its message's row                *)
  active,      (* replies that have not left _wrap_agent_task              *)
  verdicts,    (* history: reply -> the final events its task has sent     *)
  cancels      (* history: the replies whose cancel was asked for, in turn *)

browserVars == <<slice, target, cancels>>
turn == <<origin, asked>>
taskVars == <<pc, ending, parts, row, active, verdicts>>
vars == <<wsVars, browserVars, reader, read, turn, taskVars>>

-----------------------------------------------------------------------------
None == "none"
NoConn == 0
Unread == [t |-> "none"]

Init ==
  /\ link = [c \in Conns |-> "none"] /\ hub = {} /\ joined = {}
  /\ outbound = [c \in Conns |-> <<>>] /\ closed = [c \in Conns |-> FALSE]
  /\ writer = [c \in Conns |-> "off"] /\ owed = [p \in Producers |-> <<>>]
  /\ slice = EmptySlice
  /\ reader = [c \in Conns |-> "off"] /\ target = [c \in Conns |-> None]
  /\ read = [c \in Conns |-> Unread] /\ origin = NoConn /\ asked = {}
  /\ pc = [m \in Replies |-> "none"] /\ ending = [m \in Replies |-> "none"]
  /\ parts = [m \in Replies |-> 0]
  /\ row = [m \in Replies |-> Blank]
  /\ active = 0
  /\ verdicts = [m \in Replies |-> <<>>] /\ cancels = <<>>

Opened == {c \in Conns : link[c] # "none"}
Spent == Cardinality(Opened) + Cardinality(asked)
Written(m) == Text(1..parts[m], "none")

-----------------------------------------------------------------------------
(* The browser *)

\* It opens a connection when it has none; onConnected joins the open tab.
Connect(c) ==
  /\ link[c] = "none" /\ Spent < Budget
  /\ \A d \in Conns : link[d] # "up" /\ (d < c => link[d] = "down")
  /\ Accept(c)
  /\ reader' = [reader EXCEPT ![c] = "joining"]
  /\ UNCHANGED <<joined, outbound, closed, owed, browserVars, read, turn, taskVars>>

Disconnect(c) ==
  /\ Lose(c)
  /\ UNCHANGED <<hub, joined, outbound, closed, writer, owed, browserVars, reader, read, turn,
                 taskVars>>

\* The writer sends an event and the browser reduces it
Deliver(c) ==
  /\ Take(c)
  /\ slice' = IF link[c] = "up" THEN Reduce(slice, Head(outbound[c])) ELSE slice
  /\ UNCHANGED <<link, hub, joined, closed, owed, target, cancels, reader, read, turn, taskVars>>

-----------------------------------------------------------------------------
(* The handlers of a connection: its receive loop runs one at a time *)

\* Mutant: the endpoint waits for its queue to be sent before it goes on
IdleFlushed(c) == reader[c] = "idle" /\ outbound[c] = <<>>

Idle(c) == reader[c] = "idle" /\ Free(c)

\* join: the connection counts as joined before the history is read
Join(c) ==
  /\ reader[c] = "joining"
  /\ joined' = joined \cup {c}
  /\ reader' = [reader EXCEPT ![c] = "reading"]
  /\ UNCHANGED <<link, hub, outbound, closed, writer, owed, browserVars, read, turn, taskVars>>

ReadHistory(c) ==
  /\ reader[c] = "reading"
  /\ read' = [read EXCEPT ![c] = [t |-> "history", rows |-> [m \in asked |-> row[m]]]]
  /\ reader' = [reader EXCEPT ![c] = "answering"]
  /\ UNCHANGED <<wsVars, browserVars, turn, taskVars>>

\* the rest of join; the next event is read when the answer is in the queue
Answer(c) ==
  /\ reader[c] = "answering"
  /\ Produce(c, SendAll(c, <<read[c]>>))
  /\ read' = [read EXCEPT ![c] = Unread]
  /\ reader' = [reader EXCEPT ![c] = "idle"]
  /\ UNCHANGED <<link, hub, joined, closed, writer, browserVars, turn, taskVars>>

\* dispatch has got its answer from the Router
Return(c) ==
  /\ reader[c] = "dispatching"
  /\ reader' = [reader EXCEPT ![c] = "idle"]
  /\ UNCHANGED <<wsVars, browserVars, read, turn, taskVars>>

\* send_message files the rows and announces them to this connection alone
SendMessage(c) ==
  /\ origin = NoConn /\ link[c] = "up" /\ Idle(c)
  /\ \E ms \in SUBSET Replies \ {{}} :
       /\ Spent + Cardinality(ms) <= Budget
       /\ asked' = ms
       /\ Produce(c, SendAll(c, [i \in 1..Cardinality(ms) |-> [t |-> "created", m |-> SetToSeq(ms)[i]]]))
  /\ origin' = c
  /\ reader' = [reader EXCEPT ![c] = "creating"]
  /\ UNCHANGED <<link, hub, joined, closed, writer, browserVars, read, taskVars>>

\* ... then starts a task for each reply and dispatches to the Router
StartReplies(c) ==
  /\ reader[c] = "creating" /\ Free(c)
  /\ pc' = [m \in Replies |-> IF m \in asked THEN "begin" ELSE "none"]
  /\ active' = Cardinality(asked)
  /\ reader' = [reader EXCEPT ![c] = "dispatching"]
  /\ UNCHANGED <<wsVars, browserVars, read, turn, ending, parts, row, verdicts>>

\* cancel: the task is looked up before the subtasks are queried
InFlight(m) == pc[m] \notin {"none", "begin", "over"}

AskCancel(c, m) ==
  /\ link[c] = "up" /\ Idle(c)
  /\ m \in slice.streaming /\ Len(cancels) < MaxCancels
  /\ cancels' = Append(cancels, m)
  /\ InFlight(m)
  /\ target' = [target EXCEPT ![c] = m]
  /\ reader' = [reader EXCEPT ![c] = "cancelling"]
  /\ UNCHANGED <<wsVars, slice, read, turn, taskVars>>

\* create_trace follows the last event, except after a failure and for the
\* orchestrator, where the task ends with the event.
Traced(m) == m \notin Orchestrated /\ ending[m] # "failed"

\* Mutant: the except clause covers the stream alone
InStream(m) == pc[m] \in {"stream", "coordinate", "reread"}

\* Where a CancelledError meets the except clause that reports it
InTry(m) ==
  \/ pc[m] \in {"stream", "coordinate", "reread"}
  \/ pc[m] \in {"persist", "report"} /\ ending[m] \in {"done", "failed"}
  \/ pc[m] = "trace" /\ ending[m] \in {"done", "failed"} /\ (Traced(m) \/ ~Free(m))

CancelReply(m) ==
  /\ owed' = [owed EXCEPT ![m] = <<>>]
  /\ verdicts' = IF Free(m) \/ pc[m] = "over" \/ verdicts[m] = <<>> THEN verdicts       \* what waits is lost
                 ELSE [verdicts EXCEPT ![m] = Front(@)]
  /\ CASE ~InFlight(m) -> UNCHANGED <<pc, ending>>
       [] InFlight(m) /\ InTry(m) ->
            pc' = [pc EXCEPT ![m] = "persist"] /\ ending' = [ending EXCEPT ![m] = "cancelled"]
       [] OTHER -> pc' = [pc EXCEPT ![m] = "leave"] /\ UNCHANGED ending

FireCancel(c) ==
  /\ reader[c] = "cancelling"
  /\ \/ CancelReply(target[c])
     \/ target[c] \in Orchestrated /\ UNCHANGED <<pc, ending, owed, verdicts>>   \* active subtasks
  /\ target' = [target EXCEPT ![c] = None]
  /\ reader' = [reader EXCEPT ![c] = "idle"]
  /\ UNCHANGED <<link, hub, joined, outbound, closed, writer, slice, cancels, read, turn, parts,
                 row, active>>

\* The endpoint notices the lost link when it receives again
Close(c) ==
  /\ link[c] = "down" /\ Idle(c)
  /\ BeginClose(c)
  /\ reader' = [reader EXCEPT ![c] = "closing"]
  /\ UNCHANGED <<link, hub, joined, writer, browserVars, read, turn, taskVars>>

Leave(c) ==
  /\ reader[c] = "closing"
  /\ EndClose(c)
  /\ reader' = [reader EXCEPT ![c] = "gone"]
  /\ UNCHANGED <<link, joined, outbound, closed, owed, browserVars, read, turn, taskVars>>

-----------------------------------------------------------------------------
(* A reply's task *)

Step(m, from, to) == pc[m] = from /\ Free(m) /\ pc' = [pc EXCEPT ![m] = to]
Quiet == UNCHANGED <<link, hub, joined, closed, writer, browserVars, reader, read, turn>>
Silent == Quiet /\ UNCHANGED <<outbound, owed>>

Begin(m) ==
  /\ Step(m, "begin", IF m \in Orchestrated THEN "coordinate" ELSE "prepare")
  /\ Silent /\ UNCHANGED <<ending, parts, row, active, verdicts>>

\* load_adapter_for finds no adapter and the bubble gets an error
NotLoaded(m) ==
  /\ Step(m, "prepare", "leave")
  /\ Produce(m, SendAll(origin, <<[t |-> "error", m |-> m]>>))
  /\ verdicts' = [verdicts EXCEPT ![m] = Append(@, "error")]
  /\ Quiet /\ UNCHANGED <<ending, parts, row, active>>

\* The conversation's context is built outside of the try, and may raise
Prepared(m) ==
  /\ \/ Step(m, "prepare", "stream")
     \/ Step(m, "prepare", "leave")
  /\ Silent /\ UNCHANGED <<ending, parts, row, active, verdicts>>

TextChunk(m) ==
  /\ Step(m, "stream", "stream")
  /\ parts[m] < MaxChunks
  /\ parts' = [parts EXCEPT ![m] = @ + 1]
  /\ Produce(m, Emit(origin, [t |-> "chunk", m |-> m, n |-> parts[m] + 1]))
  /\ Quiet /\ UNCHANGED <<ending, row, active, verdicts>>

\* How the stream ends: done, an error chunk, or an exception of the adapter
StreamEnds(m) ==
  /\ Step(m, "stream", "persist")
  /\ \E e \in {"done", "failed", "crashed"} : ending' = [ending EXCEPT ![m] = e]
  /\ Silent /\ UNCHANGED <<parts, row, active, verdicts>>

\* persist_final and persist_message_content: a text, or for a reply that is done
\* the artifact made of it
FinalContents(m) ==
  IF m \in Orchestrated THEN {Text({}, IF ending[m] = "crashed" THEN "error" ELSE "cancelled")}
  ELSE CASE ending[m] = "done"   -> {Written(m), Artifact}
         [] ending[m] = "failed" -> {Text(1..parts[m], "error")}
         [] OTHER                -> {Written(m)}

Persist(m) ==
  /\ Step(m, "persist", "report")
  /\ \E content \in FinalContents(m) : row' = [row EXCEPT ![m] = content]
  /\ Silent /\ UNCHANGED <<ending, parts, active, verdicts>>

\* handle_orchestrator_mention writes the summary; it may raise as well
Coordinate(m) ==
  /\ pc[m] = "coordinate" /\ Free(m)
  /\ \/ /\ pc' = [pc EXCEPT ![m] = "reread"] /\ ending' = ending
        /\ row' = [row EXCEPT ![m] = Text({}, "summary")]
     \/ /\ pc' = [pc EXCEPT ![m] = "persist"] /\ row' = row
        /\ ending' = [ending EXCEPT ![m] = "crashed"]
  /\ Silent /\ UNCHANGED <<parts, active, verdicts>>

Reread(m) ==
  /\ Step(m, "reread", "report")
  /\ ending' = [ending EXCEPT ![m] = "done"]
  /\ Silent /\ UNCHANGED <<parts, row, active, verdicts>>

\* Mutant: the message is reported cancelled with an empty text
VerdictBlank(m) ==
  CASE ending[m] = "crashed"   -> <<[t |-> "error", m |-> m]>>
    [] ending[m] = "failed"    -> <<[t |-> "done", m |-> m, content |-> row[m]], [t |-> "error", m |-> m]>>
    [] ending[m] = "cancelled" -> <<[t |-> "cancelled", m |-> m, content |-> Blank]>>
    [] OTHER                   -> <<[t |-> ending[m], m |-> m, content |-> row[m]]>>

Verdict(m) ==
  CASE ending[m] = "crashed"   -> <<[t |-> "error", m |-> m]>>
    [] ending[m] = "failed"    -> <<[t |-> "done", m |-> m, content |-> row[m]], [t |-> "error", m |-> m]>>
    [] OTHER                   -> <<[t |-> ending[m], m |-> m, content |-> row[m]]>>

\* The final event.  A failure, and a crash of the orchestrator, is told to the
\* origin alone.
Alone(m) == ending[m] = "failed" \/ (m \in Orchestrated /\ ending[m] = "crashed")

Report(m) ==
  /\ Step(m, "report", "trace")
  /\ verdicts' = [verdicts EXCEPT ![m] = Append(@, Verdict(m)[1].t)]
  /\ Produce(m, IF Alone(m) THEN SendAll(origin, Verdict(m)) ELSE Emit(origin, Verdict(m)[1]))
  /\ Quiet /\ UNCHANGED <<ending, parts, row, active>>

Trace(m) ==
  /\ Step(m, "trace", "leave")
  /\ Silent /\ UNCHANGED <<ending, parts, row, active, verdicts>>

\* Mutant: the first reply that ends says that all have
AnnounceFirst(m) == active = Cardinality(asked)

\* _on_agent_done: the last one says that all are done
LastOfAll(m) == active = 1

LeaveTask(m) ==
  /\ Step(m, "leave", "over")
  /\ active' = active - 1
  /\ Produce(m, IF LastOfAll(m) THEN SendAll(origin, <<[t |-> "fanout"]>>) ELSE <<>>)
  /\ Quiet /\ UNCHANGED <<ending, parts, row, verdicts>>

\* A producer that waits for room goes on with its sends
PutWaiting(p) ==
  /\ Resume(p)
  /\ UNCHANGED <<link, hub, joined, closed, writer, browserVars, reader, read, turn, taskVars>>

-----------------------------------------------------------------------------
Handler(c) ==
  \/ Join(c) \/ ReadHistory(c) \/ Answer(c) \/ Return(c) \/ StartReplies(c) \/ FireCancel(c)
  \/ Close(c) \/ Leave(c)

Reply(m) ==
  \/ Begin(m) \/ NotLoaded(m) \/ Prepared(m) \/ TextChunk(m) \/ StreamEnds(m) \/ Coordinate(m) \/ Reread(m)
  \/ Persist(m) \/ Report(m) \/ Trace(m) \/ LeaveTask(m)

\* What the event loop, the writers and the browser do of themselves
System ==
  \/ \E c \in Conns : Deliver(c) \/ Handler(c)
  \/ \E m \in Replies : Reply(m)
  \/ \E p \in Producers : PutWaiting(p)

Environment ==
  \/ \E c \in Conns : Connect(c) \/ Disconnect(c) \/ SendMessage(c)
  \/ \E c \in Conns, m \in Replies : AskCancel(c, m)

Next == System \/ Environment

Spec == Init /\ [][Next]_vars

-----------------------------------------------------------------------------
(* Properties *)

Reported(m) == pc[m] = "over" /\ verdicts[m] # <<>> /\ verdicts[m][Len(verdicts[m])] = Verdict(m)[1].t

AllSent(c) == outbound[c] = <<>> /\ \A p \in Producers : Free(p)

\* What the browser shows of a reply that was reported done or cancelled is what
\* its message's row holds, and its bubble has stopped streaming, as long as the
\* browser is still on the connection it sent the message over.
ShownIsStored ==
  \A m \in Replies :
    Reported(m) /\ link[origin] = "up" /\ AllSent(origin) =>
      /\ m \notin slice.streaming
      /\ ending[m] # "crashed" => slice.content[m] = row[m]

\* The same for a browser that lost the connection and joined again
ShownIsStoredAfterRejoin ==
  \A m \in Replies, c \in Conns :
    Reported(m) /\ row[m] # Blank /\ link[c] = "up" /\ reader[c] = "idle" /\ AllSent(c) =>
      /\ m \notin slice.streaming
      /\ ending[m] # "crashed" => slice.content[m] = row[m]

Asked(m) == Cardinality({i \in DOMAIN cancels : cancels[i] = m})

\* A reply whose task is over without having reported anything never got to the
\* try, or was cancelled while it was reporting.
NoSilentEnd ==
  \A m \in Replies :
    pc[m] = "over" /\ verdicts[m] = <<>> =>
      ending[m] = "none" \/ Asked(m) > (IF ending[m] = "crashed" THEN 0 ELSE 1)

\* fan_out_done comes after everything else that the turn sends
FanOutLast ==
  /\ slice.over => \A m \in asked : pc[m] = "over"
  /\ \A c \in Conns : \A i, j \in DOMAIN outbound[c] :
       i < j /\ outbound[c][i].t = "fanout" => outbound[c][j].t \in {"stop", "history"}

\* There is work left: a reply that has not ended, a lost connection that the hub knows
Unfinished == (\E m \in Replies : pc[m] \notin {"none", "over"}) \/ (\E c \in hub : link[c] = "down")

\* The guards of what the system does of itself: a writer with events, a handler or a
\* reply between two awaits, a put whose queue has room
Ready ==
  \/ \E c \in Conns :
       \/ writer[c] = "on" /\ outbound[c] # <<>>
       \/ reader[c] \in {"joining", "reading", "answering", "dispatching", "cancelling"}
       \/ reader[c] \in {"creating", "closing"} /\ Free(c)
       \/ link[c] = "down" /\ Idle(c)
  \/ \E m \in Replies : pc[m] \notin {"none", "over"} /\ Free(m)
  \/ \E p \in Producers : ~Free(p) /\ Len(outbound[Head(owed[p]).to]) < QueueSize

\* The system comes to rest only when every reply has ended and every lost
\* connection has left the hub, unless somebody waits for room in a queue whose
\* writer is gone.  (What it does of itself is bounded, so it comes to rest.)
RestsWhenDone == Unfinished => Ready \/ \E c \in Conns : Jammed(c)

\* The same of the steps themselves: their guards are all that they need
NobodyWaitsInVain == RestsWhenDone /\ (Ready <=> ENABLED System)
=============================================================================
