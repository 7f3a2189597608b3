------------------------------ MODULE Adapters ------------------------------
(***************************************************************************)
(* What an adapter makes of a model's answer: the chunks that send yields  *)
(* in server/adapters/claude_code.py, codex.py, claude_agent_sdk.py and    *)
(* mock.py.  The APIs and the SDK are external: they answer a request with *)
(* an error or with a body, which the two HTTP adapters hold completely    *)
(* before they parse it.                                                   *)
(*                                                                         *)
(* A text delta is one unit.  The arguments of a tool call come in         *)
(* fragments; a call is its index and how many fragments it has.           *)
(***************************************************************************)
EXTENDS Naturals, Sequences, FiniteSets

CONSTANTS
  MaxEvents    (* bound: text deltas and fragments of an answer            *)

ASSUME AdaptersAssumption == MaxEvents \in Nat

Apis == {"anthropic", "openai", "sdk", "mock"}
CallIndexes == {1, 2}

VARIABLES
  api,         (* the adapter's                                            *)
  send_at,     (* where send is                                            *)
  out,         (* the chunks it has yielded                                *)
  open_calls,  (* active_tool_calls, pending_tool_calls: index -> fragments*)
  unnamed,     (* those of pending_tool_calls that have no name            *)
  reason,      (* finish_reason_seen                                       *)
  said         (* what the model has said: texts, calls, those it has      *)
               (* finished and those the adapter has missed a part of, in  *)
               (* how many events and in what form                         *)

adapterVars == <<api, send_at, out, open_calls, unnamed, reason, said>>
entryVars == <<open_calls, unnamed>>

NoCalls == [i \in {} |-> 0]
With(f, i, n) == [j \in DOMAIN f \cup {i} |-> IF j = i THEN n ELSE f[j]]

AdapterInit ==
  /\ api = "none" /\ send_at = "new" /\ out = <<>>
  /\ open_calls = NoCalls /\ unnamed = {} /\ reason = "none"
  /\ said = [text |-> 0, calls |-> NoCalls, closed |-> {}, lost |-> {}, events |-> 0, form |-> "open"]

Chunk(t) == [type |-> t]
CallChunk(i, n) == [type |-> "tool_call", index |-> i, args |-> n]
Failure == <<Chunk("error")>>

\* send ends after these chunks
Ends(chunks) == out' = out \o chunks /\ send_at' = "over"

-----------------------------------------------------------------------------
(* The request *)

\* Without a key, without a question (SDK), with a question the SDK adapter answers
\* itself, or without a client from the pool; the mock adapter asks nobody.
SendStarts(a) ==
  /\ send_at = "new"
  /\ api' = a
  /\ \/ a # "mock" /\ Ends(Failure)
     \/ a = "sdk" /\ Ends(<<Chunk("text"), Chunk("done")>>)
     \/ send_at' = (IF a \in {"anthropic", "openai"} THEN "posted" ELSE "reading") /\ out' = out
  /\ UNCHANGED <<entryVars, reason, said>>

\* A timeout, a transport error, 400, 429, 5xx
RequestFails ==
  /\ send_at \in {"posted", "posted again"}
  /\ Ends(Failure)
  /\ UNCHANGED <<api, entryVars, reason, said>>

\* OpenAI only: asked again without the assistant's messages, when those are what
\* the API objects to.  NoCalls catches an exception of the second request.
AskAgain ==
  /\ send_at = "posted" /\ api = "openai"
  /\ send_at' = "posted again"
  /\ UNCHANGED <<api, out, entryVars, reason, said>>

SecondRaises ==
  /\ send_at = "posted again"
  /\ send_at' = "raised"
  /\ UNCHANGED <<api, out, entryVars, reason, said>>

RequestAnswered ==
  /\ send_at \in {"posted", "posted again"}
  /\ send_at' = "reading"
  /\ UNCHANGED <<api, out, entryVars, reason, said>>

-----------------------------------------------------------------------------
(* The answer *)

\* The form of the body: "started" with Anthropic's message_start, "whole" if it is one
\* JSON answer instead of a stream, "over" when the model has given a reason nobody saw
Reading == send_at = "reading" /\ reason = "none" /\ said.form \in {"open", "started"}
Heard(s) == said' = [s EXCEPT !.events = @ + 1]

\* message_start, the first event if it comes
MessageStarts ==
  /\ Reading /\ api = "anthropic" /\ said.form = "open" /\ said.events = 0
  /\ said' = [said EXCEPT !.form = "started"]
  /\ UNCHANGED <<api, send_at, out, entryVars, reason>>

\* The body is one JSON answer.  Anthropic's adapter takes the text of it, OpenAI's
\* nothing; the calls in it are seen by neither.
WholeAnswer(calls) ==
  /\ Reading /\ api \in {"anthropic", "openai"} /\ said.form = "open" /\ said.events = 0
  /\ said' = [said EXCEPT !.form = "whole", !.calls = [i \in calls |-> 1], !.closed = calls, !.lost = calls]
  /\ \/ out' = out
     \/ api = "anthropic" /\ out' = Append(out, Chunk("text"))
  /\ UNCHANGED <<api, send_at, entryVars, reason>>

TextDelta ==
  /\ Reading /\ said.events < MaxEvents
  /\ Heard([said EXCEPT !.text = @ + 1])
  /\ out' = Append(out, Chunk("text"))
  /\ UNCHANGED <<api, send_at, entryVars, reason>>

\* The SDK tells of a call it has already run
SdkCall(i) ==
  /\ Reading /\ api = "sdk" /\ said.events < MaxEvents /\ i \notin DOMAIN said.calls
  /\ Heard([said EXCEPT !.calls = With(said.calls, i, 1), !.closed = @ \cup {i}])
  /\ out' = Append(out, CallChunk(i, 1))
  /\ UNCHANGED <<api, send_at, entryVars, reason>>

\* The chunk of a call, if there is an entry with a name for it
YieldedCall(i) == IF i \in DOMAIN open_calls \ unnamed THEN <<CallChunk(i, open_calls[i])>> ELSE <<>>

\* Mutant: every delta begins a new entry
EntryReplaced(i) == 0

\* The fragments so far; a call's first delta makes its entry
EntryOf(i) == IF i \in DOMAIN open_calls THEN open_calls[i] ELSE 0

\* content_block_start: Anthropic's calls come one after the other
CallStarts(i) ==
  /\ Reading /\ api = "anthropic" /\ said.events < MaxEvents
  /\ i \notin DOMAIN said.calls /\ DOMAIN open_calls = {}
  /\ Heard([said EXCEPT !.calls = With(said.calls, i, 0)])
  /\ open_calls' = With(open_calls, i, 0)
  /\ UNCHANGED <<api, send_at, out, unnamed, reason>>

SaidOf(i) == IF i \in DOMAIN said.calls THEN said.calls[i] ELSE 0

\* input_json_delta, or a delta of OpenAI's tool_calls, which makes an entry if there is
\* none.  A call's first fragment has its name.
CallDelta(i) ==
  /\ Reading /\ said.events < MaxEvents
  /\ \/ api = "anthropic" /\ i \in DOMAIN open_calls
     \/ api = "openai"
  /\ Heard([said EXCEPT !.calls = With(said.calls, i, SaidOf(i) + 1)])
  /\ open_calls' = With(open_calls, i, EntryOf(i) + 1)
  /\ unnamed' = IF i \in DOMAIN said.calls \ DOMAIN open_calls THEN unnamed \cup {i} ELSE unnamed
  /\ UNCHANGED <<api, send_at, out, reason>>

\* OpenAI only: a delta that also has reasoning_content and no content is skipped, the
\* fragment in it ...
HiddenDelta(i) ==
  /\ Reading /\ api = "openai" /\ said.events < MaxEvents
  /\ Heard([said EXCEPT !.calls = With(said.calls, i, SaidOf(i) + 1), !.lost = @ \cup {i}])
  /\ UNCHANGED <<api, send_at, out, entryVars, reason>>

\* ... and the reason for the end
HiddenReason ==
  /\ Reading /\ api = "openai"
  /\ said' = [said EXCEPT !.form = "over", !.closed = DOMAIN said.calls, !.lost = DOMAIN said.calls]
  /\ UNCHANGED <<api, send_at, out, entryVars, reason>>

\* content_block_stop
CallStops(i) ==
  /\ Reading /\ api = "anthropic" /\ i \in DOMAIN open_calls
  /\ said' = [said EXCEPT !.closed = @ \cup {i}]
  /\ out' = Append(out, CallChunk(i, open_calls[i]))
  /\ open_calls' = NoCalls
  /\ UNCHANGED <<api, send_at, unnamed, reason>>

\* The reason the model gives for its end.  OpenAI's calls are yielded in the order
\* of their indexes, if tool_calls is the reason, and forgotten otherwise.
Reasons == [anthropic |-> {"stop", "tool_calls", "length"}, openai |-> {"stop", "tool_calls", "length"},
            sdk |-> {"stop", "error"}, mock |-> {"stop"}]

ReasonSeen(r) ==
  /\ Reading /\ r \in Reasons[api]
  /\ api = "anthropic" => DOMAIN open_calls = {} \/ r = "length"
  /\ reason' = r
  /\ IF api = "openai" /\ r = "tool_calls"
     THEN /\ out' = out \o YieldedCall(1) \o YieldedCall(2)
          /\ said' = [said EXCEPT !.closed = DOMAIN said.calls]
          /\ open_calls' = NoCalls /\ unnamed' = {}
     ELSE UNCHANGED <<out, said, entryVars>>
  /\ UNCHANGED <<api, send_at>>

\* The end of the body.  One that gave no reason, an answer that was cut off or ends
\* with an error event, is taken for complete; the SDK adapter then says nothing.
Unfinished == api = "sdk" /\ reason = "none"

\* Without message_start and without a text Anthropic's adapter takes the body for JSON
NotJson == api = "anthropic" /\ said.form = "open" /\ said.text = 0

BodyEnds ==
  /\ send_at = "reading" /\ ~NotJson /\ (reason = "none" => api # "mock")
  /\ Ends(IF Unfinished THEN <<>>
          ELSE <<Chunk("usage")>> \o IF reason = "length" THEN Failure ELSE <<Chunk("done")>>)
  /\ UNCHANGED <<api, entryVars, reason, said>>

BodyRaises ==
  /\ send_at = "reading" /\ NotJson
  /\ send_at' = "raised"
  /\ UNCHANGED <<api, out, entryVars, reason, said>>

\* OpenAI only: a line of the body that is an error
ErrorLine ==
  /\ Reading /\ api = "openai"
  /\ Ends(Failure)
  /\ UNCHANGED <<api, entryVars, reason, said>>

\* The SDK fails or takes too long
SdkFails ==
  /\ Reading /\ api = "sdk"
  /\ Ends(<<Chunk("error"), Chunk("done")>>)
  /\ UNCHANGED <<api, entryVars, reason, said>>

\* The reply is cancelled: the SDK adapter adds a mark and lets the exception go on
CancelSend ==
  /\ send_at \in {"posted", "posted again", "reading"}
  /\ out' = out \o IF api = "sdk" /\ send_at = "reading" /\ said.text > 0 THEN <<Chunk("text")>> ELSE <<>>
  /\ send_at' = "cancelled"
  /\ UNCHANGED <<api, entryVars, reason, said>>

AdapterNext ==
  \/ \E a \in Apis : SendStarts(a)
  \/ RequestFails \/ AskAgain \/ SecondRaises \/ RequestAnswered
  \/ MessageStarts \/ TextDelta \/ HiddenReason \/ BodyEnds \/ BodyRaises \/ ErrorLine \/ SdkFails \/ CancelSend
  \/ \E i \in CallIndexes : SdkCall(i) \/ CallStarts(i) \/ CallDelta(i) \/ HiddenDelta(i) \/ CallStops(i)
  \/ \E calls \in SUBSET CallIndexes : WholeAnswer(calls)
  \/ \E r \in {"stop", "tool_calls", "length", "error"} : ReasonSeen(r)

AdapterSpec == AdapterInit /\ [][AdapterNext]_adapterVars

-----------------------------------------------------------------------------
(* Properties *)

Positions(types) == {k \in DOMAIN out : out[k].type \in types}

\* A call has all of its fragments, unless the adapter has missed one
Fragments(i, n) == IF i \in said.lost THEN n < said.calls[i] ELSE n = said.calls[i]

\* Whoever reads the chunks can rely on this: every call the model has finished is
\* yielded once with all of its fragments, however the deltas of several calls were
\* mixed, and no other call is; one of which the adapter has skipped a delta, or that
\* is in a body that is no stream, comes at most once and never with all of them.  A
\* stream that comes to its end says so last, with done or with an error, after the
\* usage (an SDK stream that just stops excepted); and only an error comes before a
\* done.
AdapterSound ==
  LET calls == Positions({"tool_call"})
      verdicts == Positions({"error", "done"})
  IN /\ \A k \in calls : out[k].index \in said.closed /\ Fragments(out[k].index, out[k].args)
     /\ \A i \in said.closed \ said.lost : \E k \in calls : out[k].index = i
     /\ \A j, k \in calls : out[j].index = out[k].index => j = k
     /\ ~Unfinished => (send_at = "over") = (verdicts # {})
     /\ \A k \in verdicts :
          \/ k = Len(out)
          \/ k = Len(out) - 1 /\ out[k].type = "error" /\ out[k + 1].type = "done"
     /\ reason # "none" /\ send_at = "over" => Len(out) > 1 /\ out[Len(out) - 1].type = "usage"
     /\ reason = "length" /\ send_at = "over" => out[Len(out)].type = "error"
=============================================================================
