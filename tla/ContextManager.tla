--------------------------- MODULE ContextManager ---------------------------
(***************************************************************************)
(* The context of a reply (server/services/context_manager.py): what of    *)
(* the conversation an agent is sent, how that is trimmed to its model's   *)
(* window, and the cache build() keeps for a few seconds, whose list the   *)
(* ReAct loop (server/services/react_loop.py) then writes to.              *)
(*                                                                         *)
(* A message is a record of its number, its role, whether it is pinned and *)
(* its size; the size stands for its tokens and for its characters.  The   *)
(* numbers of the code (200 rows, 20 turns, 35 % ...) are constants.       *)
(***************************************************************************)
EXTENDS Naturals, Sequences, FiniteSets, SequencesExt, FiniteSetsExt, Lists

CONSTANTS
  Speakers,      (* the agents that reply                                  *)
  MaxTokens,     (* agent -> max_tokens of its model                       *)
  MaxRows,       (* bound: messages when the agents are asked              *)
  RowLimit,      (* the newest rows that load() reads                      *)
  Sizes,         (* sizes of messages                                      *)
  FewTurns,      (* below: the sliding window                              *)
  LongChars,     (* from here on: window and tokens                        *)
  SlidingSize,   (* SLIDING_WINDOW_TURNS * 2                               *)
  HybridSize,    (* HYBRID_WINDOW_TURNS * 2                                *)
  HeadSize,      (* the oldest messages the token strategy keeps           *)
  ShortSize      (* so few messages are not trimmed                        *)

ASSUME ContextAssumption == /\ MaxTokens \in [Speakers -> Nat \ {0}] /\ Sizes \subseteq Nat
                            /\ MaxRows \in Nat \ {0} /\ RowLimit \in Nat \ {0}
                            /\ {FewTurns, LongChars, SlidingSize, HybridSize, HeadSize, ShortSize} \subseteq Nat
                            /\ HeadSize <= ShortSize

VARIABLES
  rows,          (* the conversation in the database                       *)
  ctx_at,        (* agent -> where its reply is                            *)
  loaded,        (* agent -> what load() has left of the conversation      *)
  lists,         (* the lists build() has made                             *)
  list_of,       (* agent -> the list it sends, 0 before build()           *)
  build_cache    (* cache key -> its list                                  *)

ctxVars == <<rows, ctx_at, loaded, lists, list_of, build_cache>>

SizeOf(s) == LET Sum[n \in 0..Len(s)] == IF n = 0 THEN 0 ELSE Sum[n - 1] + s[n].size IN Sum[Len(s)]
Pinned(s) == {i \in DOMAIN s : s[i].pinned}
LastOf(s, n) == IF Len(s) > n THEN SubSeq(s, Len(s) - n + 1, Len(s)) ELSE s

ContextInit ==
  /\ rows = <<>> /\ ctx_at = [r \in Speakers |-> "idle"]
  /\ loaded = [r \in Speakers |-> [pins |-> <<>>, cut |-> 0, older |-> 0, seen |-> 0, rest |-> <<>>]]
  /\ lists = <<>> /\ list_of = [r \in Speakers |-> 0] /\ build_cache = [k \in {} |-> 0]

-----------------------------------------------------------------------------
(* load *)

\* The rows it leaves in the database, and those it reads
Older(s) == IF Len(s) > RowLimit THEN Len(s) - RowLimit ELSE 0
RowsRead(s) == (Older(s) + 1)..Len(s)

\* _trim_pinned_context_to_budget: the newest first, then whichever older ones fit
\* (the budget is at least 512 tokens in the code)
PinBudget(max) == (max * 35) \div 100

Taken(acc, pins, i, budget) ==
  IF acc.chosen # {} /\ acc.used + pins[i].size > budget THEN acc
  ELSE [chosen |-> acc.chosen \cup {i}, used |-> acc.used + pins[i].size]

PinsKept(pins, budget) ==
  LET Take[n \in 0..Len(pins)] ==
        IF n = 0 THEN [chosen |-> {}, used |-> 0] ELSE Taken(Take[n - 1], pins, Len(pins) + 1 - n, budget)
  IN Take[Len(pins)].chosen

\* _pick_strategy
Strategy(s) ==
  IF Cardinality({i \in DOMAIN s : s[i].role = "user"}) < FewTurns THEN "sliding"
  ELSE IF SizeOf(s) < LongChars THEN "token" ELSE "hybrid"

\* Mutant: what fits is counted from the older end
OldestThatFit(tail, room) ==
  SubSeq(tail, 1, Max({n \in 0..Len(tail) : SizeOf(SubSeq(tail, 1, n)) <= room}))

\* The newest messages that fit; the loop that collects them goes backwards and
\* leaves them in that order.
NewestThatFit(tail, room) ==
  LET back == Reverse(tail) IN
    SubSeq(back, 1, Max({n \in 0..Len(back) : SizeOf(SubSeq(back, 1, n)) <= room}))

\* _prune_token_control.  The pinned messages are taken off twice, the head never.
TokenControl(rest, pinned, notice, max) ==
  IF max <= notice + 2 * pinned THEN <<>>
  ELSE IF Len(rest) <= ShortSize THEN rest
  ELSE SubSeq(rest, 1, HeadSize) \o
       NewestThatFit(SubSeq(rest, HeadSize + 1, Len(rest)), max - notice - 2 * pinned)

\* _prune
Pruned(s, rest, pinned, notice, max) ==
  IF Strategy(s) = "sliding" THEN LastOf(rest, SlidingSize)
  ELSE TokenControl(IF Strategy(s) = "token" THEN rest ELSE LastOf(rest, HybridSize), pinned, notice, max)

Loaded(s, max) ==
  LET pins == Picked(s, RowsRead(s) \cap Pinned(s))
      kept == Picked(pins, PinsKept(pins, PinBudget(max)))
      cut  == Len(pins) - Len(kept)
  IN [pins |-> kept, cut |-> cut, older |-> Older(s), seen |-> Len(s),
      rest |-> Pruned(Picked(s, RowsRead(s)), Picked(s, RowsRead(s) \ Pinned(s)), SizeOf(kept),
                      IF cut > 0 THEN 1 ELSE 0, max)]

\* The user's message is the last of the conversation when the agents are asked
Message(n, role, pinned, size) == [n |-> n, role |-> role, pinned |-> pinned, size |-> size]

AskedWith(s) ==
  /\ rows = <<>>
  /\ \E size \in Sizes : rows' = Append(s, Message(Len(s) + 1, "user", FALSE, size))
  /\ UNCHANGED <<ctx_at, loaded, lists, list_of, build_cache>>

AskAgents ==
  \E n \in 0..(MaxRows - 1) : \E f \in [1..n -> {"user", "assistant"} \X BOOLEAN \X Sizes] :
    AskedWith([i \in 1..n |-> Message(i, f[i][1], f[i][2], f[i][3])])

Load(r) ==
  /\ rows # <<>> /\ ctx_at[r] = "idle"
  /\ loaded' = [loaded EXCEPT ![r] = Loaded(rows, MaxTokens[r])]
  /\ ctx_at' = [ctx_at EXCEPT ![r] = "loaded"]
  /\ UNCHANGED <<rows, lists, list_of, build_cache>>

-----------------------------------------------------------------------------
(* build *)

\* An entry of a list: what it is, which message, and the agent that added it
Entry(what, n, by) == [what |-> what, n |-> n, by |-> by]

BuiltList(l) ==
  (IF l.cut > 0 THEN <<Entry("notice", l.cut, "build")>> ELSE <<>>)
  \o [i \in DOMAIN l.pins |-> Entry("pinned", l.pins[i].n, "build")]
  \o <<Entry("workspace", 0, "build")>>
  \o [i \in DOMAIN l.rest |-> Entry(l.rest[i].role, l.rest[i].n, "build")]

\* How many of the messages read are pinned and how many of those were cut off, and
\* the signature of what load() has read; not the model it has been trimmed for.
CacheKey(l) == <<Len(l.pins) + l.cut, l.cut, l.seen>>

Build(r) ==
  /\ ctx_at[r] = "loaded"
  /\ LET k == CacheKey(loaded[r]) IN
       IF k \in DOMAIN build_cache
       THEN list_of' = [list_of EXCEPT ![r] = build_cache[k]] /\ UNCHANGED <<lists, build_cache>>
       ELSE /\ lists' = Append(lists, [items |-> BuiltList(loaded[r]), from |-> loaded[r]])
            /\ list_of' = [list_of EXCEPT ![r] = Len(lists')]
            /\ build_cache' = [j \in DOMAIN build_cache \cup {k} |->
                                 IF j = k THEN Len(lists') ELSE build_cache[j]]
  /\ ctx_at' = [ctx_at EXCEPT ![r] = "built"]
  /\ UNCHANGED <<rows, loaded>>

\* Five seconds later
Expire ==
  /\ build_cache # [k \in {} |-> 0]
  /\ build_cache' = [k \in {} |-> 0]
  /\ UNCHANGED <<rows, ctx_at, loaded, lists, list_of>>

-----------------------------------------------------------------------------
(* The reply *)

Write(r, items) == lists' = [lists EXCEPT ![list_of[r]].items = items]

\* run puts the description of the tools before the first message of the user
Prompt(r) ==
  /\ ctx_at[r] = "built"
  /\ LET items == lists[list_of[r]].items
         users == {i \in DOMAIN items : items[i].what = "user"}
     IN Write(r, InsertAt(items, IF users = {} THEN 1 ELSE Min(users), Entry("prompt", 0, r)))
  /\ ctx_at' = [ctx_at EXCEPT ![r] = "asking"]
  /\ UNCHANGED <<rows, loaded, list_of, build_cache>>

\* A step of the loop that called a tool: the call and what it returned
ToolStep(r) ==
  /\ ctx_at[r] = "asking"
  /\ Write(r, lists[list_of[r]].items \o <<Entry("call", 0, r), Entry("result", 0, r)>>)
  /\ ctx_at' = [ctx_at EXCEPT ![r] = "answering"]
  /\ UNCHANGED <<rows, loaded, list_of, build_cache>>

\* The answer becomes a message of the conversation; an adapter that is used
\* without the loop gets the list as it was built.
ReplyEnds(r) ==
  /\ ctx_at[r] \in {"built", "asking", "answering"}
  /\ rows' = Append(rows, Message(Len(rows) + 1, "assistant", FALSE, 1))
  /\ ctx_at' = [ctx_at EXCEPT ![r] = "over"]
  /\ UNCHANGED <<loaded, lists, list_of, build_cache>>

ContextNext ==
  \/ AskAgents
  \/ \E r \in Speakers : Load(r) \/ Build(r) \/ Prompt(r) \/ ToolStep(r) \/ ReplyEnds(r)
  \/ Expire

ContextSpec == ContextInit /\ [][ContextNext]_ctxVars

-----------------------------------------------------------------------------
(* Properties *)

\* The messages a list has entries of one kind for
NumbersOf(l, what) == {e.n : e \in {x \in ToSet(l.items) : x.what = what}}

\* Pinned messages come in the order of time, each of them once, and one notice is enough
Ahead(x, y) ==
  /\ x.what = "pinned" /\ y.what = "pinned" => x.n < y.n
  /\ ~(x.what = "notice" /\ y.what = "notice")

\* Of the rows that were read: the pinned messages come in the order of time, once
\* each, the newest of them always, and the notice says how many of them are missing;
\* of the others, whatever is left out is older than all that is kept besides the
\* head, so that what the user has just asked is the last thing to go.  What is
\* older than the rows read is not in the list and not counted, pinned or not.
ContextSound ==
  \A l \in ToSet(lists) :
    LET read == (l.from.older + 1)..l.from.seen
        pinned == {n \in read : rows[n].pinned}
        kept == NumbersOf(l, "pinned")
        rest == {n \in 1..l.from.seen : n \in NumbersOf(l, rows[n].role)}
        head == {n \in rest : Cardinality({o \in rest : o < n}) < HeadSize}
    IN /\ \A i, j \in DOMAIN l.items : i < j => Ahead(l.items[i], l.items[j])
       /\ kept \subseteq pinned /\ Cardinality(kept) + l.from.cut = Cardinality(pinned)
       /\ pinned # {} => Max(pinned) \in kept
       /\ NumbersOf(l, "notice") = IF l.from.cut > 0 THEN {l.from.cut} ELSE {}
       /\ rest \subseteq read
       /\ \A n \in read \ rest : ~rows[n].pinned => \A o \in rest \ head : n < o

\* What an agent sends to its model is its own: nothing in it comes from the
\* reply of another agent.
ContextsApart ==
  \A r \in Speakers : ctx_at[r] \in {"built", "asking", "answering"} =>
    \A e \in ToSet(lists[list_of[r]].items) : e.by \in {"build", r}
=============================================================================
