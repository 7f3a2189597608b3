----------------------------- MODULE ReactLoop -----------------------------
(***************************************************************************)
(* The loop in which an agent reasons and uses tools (ReActEngine.run in   *)
(* src/server/services/react_loop.py): a generator that asks the model,    *)
(* executes the tools it calls, tells it the results and asks again.  The  *)
(* consumer may close the generator at any of its yields.                  *)
(*                                                                         *)
(* A model speaks in one of three ways: with native calls and a history in *)
(* the OpenAI form, with native calls and results as text, or with calls   *)
(* written in its text, which is then held back until the step is over.    *)
(***************************************************************************)
EXTENDS Naturals, Sequences, FiniteSets

CONSTANTS
  MaxSteps,       (* max_steps                                             *)
  MaxCalls        (* bound: calls in a step                                *)

ASSUME ReactAssumption == MaxSteps \in Nat \ {0}

Ways == {"openai", "legacy", "structured"}

\* A call names the tool that writes an artifact, another tool, or nothing
ToolNames == {"create_artifact", "other", ""}

VARIABLES
  way,            (* how the model speaks                                  *)
  react_step,     (* step                                                  *)
  react_phase,    (* where the generator is                                *)
  step_text,      (* what the text of the step has been: nothing, prose, or a broken call *)
  step_tool_calls,
  observed,       (* calls of the step whose result has been yielded       *)
  succeeded,      (* of them, those whose result is a success              *)
  messages,       (* the history sent to the model: role and call it is about *)
  yielded         (* what the consumer has got                             *)

reactVars == <<way, react_step, react_phase, step_text, step_tool_calls, observed, succeeded,
               messages, yielded>>

ReactInit ==
  /\ way = "openai" /\ react_step = 0 /\ react_phase = "new"
  /\ step_text = "none" /\ step_tool_calls = <<>> /\ observed = 0 /\ succeeded = 0
  /\ messages = <<[role |-> "user", of |-> {}]>> /\ yielded = <<>>

\* A call is a number in its step; other chunks are about none
NoCall == <<0, 0>>
StreamChunk(what) == [what |-> what, call |-> NoCall]
ToolCall(what, i) == [what |-> what, call |-> <<react_step, i>>]

Yield(c) == yielded' = Append(yielded, c)
Finish(cs) == yielded' = yielded \o Append(cs, StreamChunk("done")) /\ react_phase' = "over"
Hint(role) == [role |-> role, of |-> {}]

-----------------------------------------------------------------------------
\* A step begins: the next request, or the end of the steps
AskModel ==
  /\ react_phase \in {"new", "next"}
  /\ way' \in IF react_phase = "new" THEN Ways ELSE {way}
  /\ IF react_step < MaxSteps
     THEN /\ react_step' = react_step + 1 /\ react_phase' = "stream"
          /\ step_text' = "none" /\ step_tool_calls' = <<>> /\ observed' = 0 /\ succeeded' = 0
          /\ UNCHANGED yielded
     ELSE /\ Finish(<<StreamChunk("warning")>>)
          /\ UNCHANGED <<react_step, step_text, step_tool_calls, observed, succeeded>>
  /\ UNCHANGED messages

\* Text is passed on, or held back from a model that writes its calls in it
ModelText ==
  /\ react_phase = "stream" /\ step_text = "none"
  /\ IF way = "structured"
     THEN step_text' \in {"prose", "broken"} /\ UNCHANGED yielded
     ELSE step_text' = "prose" /\ Yield(StreamChunk("text"))
  /\ UNCHANGED <<way, react_step, react_phase, step_tool_calls, observed, succeeded, messages>>

\* A call: forwarded when the model makes it natively, found in the text otherwise
ModelCall(name) ==
  /\ react_phase = "stream" /\ Len(step_tool_calls) < MaxCalls
  /\ step_tool_calls' = Append(step_tool_calls, name)
  /\ IF way = "structured" THEN UNCHANGED yielded ELSE Yield(StreamChunk("tool_call"))
  /\ UNCHANGED <<way, react_step, react_phase, step_text, observed, succeeded, messages>>

\* No answer within llm_timeout, or an exception in the adapter: what was held
\* back, and the calls, are dropped
StreamFails ==
  /\ react_phase = "stream"
  /\ \E why \in {"warning", "error"} : Finish(<<StreamChunk(why)>>)
  /\ UNCHANGED <<way, react_step, step_text, step_tool_calls, observed, succeeded, messages>>

\* How many of the calls name a tool: those are executed, numbered from 1
Named(calls) == Cardinality({i \in 1..Len(calls) : calls[i] # ""})
valid_calls == Named(step_tool_calls)

\* Mutant: the calls without a name are in the assistant's message as well
AllCalls(calls) == Len(calls)

ListedCalls(calls) == Named(calls)

CallIds(n) == {<<react_step, i>> : i \in 1..n}

\* The answer is complete: text is the end, a broken call is dropped and the model
\* asked again, and calls are announced
AnswerComplete ==
  /\ react_phase = "stream"
  /\ CASE valid_calls # 0 ->
            /\ yielded' = yielded \o [i \in 1..valid_calls |-> ToolCall("running", i)]
            /\ react_phase' = "tools" /\ UNCHANGED messages
       [] step_tool_calls = <<>> /\ step_text = "broken" ->
            /\ Yield(StreamChunk("observation"))
            /\ messages' = Append(messages, Hint("system"))
            /\ react_phase' = "next"
       [] OTHER ->
            /\ Finish(IF way = "structured" /\ step_text = "prose" /\ step_tool_calls = <<>>
                      THEN <<StreamChunk("text")>> ELSE <<>>)
            /\ UNCHANGED messages
  /\ UNCHANGED <<way, react_step, step_text, step_tool_calls, observed, succeeded>>

\* All tools have run; the assistant's message says which
Gathered ==
  /\ react_phase = "tools"
  /\ messages' = IF way = "openai"
                 THEN Append(messages, [role |-> "assistant", of |-> CallIds(ListedCalls(step_tool_calls))])
                 ELSE messages
  /\ react_phase' = "results"
  /\ UNCHANGED <<way, react_step, step_text, step_tool_calls, observed, succeeded, yielded>>

\* The next result is yielded and told to the model
Observation(ok) ==
  /\ react_phase = "results" /\ observed < valid_calls
  /\ observed' = observed + 1 /\ succeeded' = IF ok THEN succeeded + 1 ELSE succeeded
  /\ Yield(ToolCall("finished", observed'))
  /\ messages' = Append(messages, [role |-> IF way = "openai" THEN "tool" ELSE "user",
                                   of |-> {<<react_step, observed'>>}])
  /\ UNCHANGED <<way, react_step, react_phase, step_text, step_tool_calls>>

\* An agent that has done nothing but write artifacts, all of them, has finished;
\* another is told to go on, or to delegate (SubAgentGate)
StepOver ==
  /\ react_phase = "results" /\ observed = valid_calls
  /\ IF (\A i \in DOMAIN step_tool_calls : step_tool_calls[i] \in {"create_artifact", ""}) /\ succeeded = observed
     THEN Finish(<<StreamChunk("text")>>) /\ UNCHANGED messages
     ELSE /\ react_phase' = "next" /\ UNCHANGED yielded
          /\ \/ messages' = Append(messages, Hint("system"))
             \/ way # "structured" /\ UNCHANGED messages
  /\ UNCHANGED <<way, react_step, step_text, step_tool_calls, observed, succeeded>>

\* The consumer closes the generator (a cancelled reply)
CloseLoop ==
  /\ react_phase \notin {"over", "closed"}
  /\ react_phase' = "closed"
  /\ UNCHANGED <<way, react_step, step_text, step_tool_calls, observed, succeeded, messages, yielded>>

ReactNext ==
  \/ AskModel \/ ModelText \/ StreamFails \/ AnswerComplete \/ Gathered \/ StepOver \/ CloseLoop
  \/ \E n \in ToolNames : ModelCall(n)
  \/ \E ok \in BOOLEAN : Observation(ok)

ReactSpec == ReactInit /\ [][ReactNext]_reactVars

-----------------------------------------------------------------------------
Yields(what) == {k \in DOMAIN yielded : yielded[k].what = what}
CallsOf(what) == {yielded[k].call : k \in Yields(what)}
Tells(role) == {k \in DOMAIN messages : messages[k].role = role}

\* The history a model with the OpenAI form is sent answers every call of an
\* assistant's message, and nothing else, before anything else is said; every tool
\* the consumer has been told is running is reported finished once, in its step; and
\* a generator that was not closed ends with the one done it yields.
ReactSound ==
  /\ react_phase = "stream" => \A k \in Tells("assistant") :
       LET answers == (k + 1)..(k + Cardinality(messages[k].of)) IN
         /\ answers \subseteq Tells("tool")
         /\ messages[k].of = UNION {messages[j].of : j \in answers}
  /\ react_phase \in {"stream", "over"} =>
       CallsOf("running") = CallsOf("finished")
  /\ \A j, k \in Yields("finished") : yielded[j].call = yielded[k].call => j = k
  /\ Yields("done") = IF react_phase = "over" THEN {Len(yielded)} ELSE {}
=============================================================================
