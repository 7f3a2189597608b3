---------------------------- MODULE WsConnection ----------------------------
(***************************************************************************)
(* The runtime of the BFF's WebSockets (server/ws.py) and its endpoint     *)
(* (ws_endpoint in server/main.py), for one conversation.                  *)
(*                                                                         *)
(* A producer (the connection's own handler, or a reply's task) sends by   *)
(* put_nowait, which does not suspend it; only an event that must not be   *)
(* dropped makes it wait for room in a full queue.  So a batch of sends is *)
(* one step up to the first event that has to wait, and the rest of the    *)
(* batch is what the producer still owes.                                  *)
(***************************************************************************)
EXTENDS Naturals, Sequences, FiniteSets, SequencesExt

CONSTANTS
  Conns,       (* connections, in the order in which the browser opens them *)
  Producers,   (* what sends: the handler of a connection, a reply's task   *)
  QueueSize    (* room of the outbound queue                                *)

ASSUME WsAssumption == /\ IsFiniteSet(Conns) /\ Conns \subseteq Nat \ {0} /\ Conns \subseteq Producers
                       /\ QueueSize \in Nat \ {0}

VARIABLES
  link,        (* connection -> what the network makes of it                *)
  hub,         (* connections registered with the hub                      *)
  joined,      (* connections that joined the conversation                 *)
  outbound,    (* connection -> its queue                                  *)
  closed,      (* connection -> _closed                                    *)
  writer,      (* connection -> state of the writer's task                 *)
  owed         (* producer -> sends it has not got through                 *)

wsVars == <<link, hub, joined, outbound, closed, writer, owed>>

-----------------------------------------------------------------------------
Stop == [t |-> "stop"]          \* the None that ends the writer

Direct(c, e) == [to |-> c, e |-> e, room |-> FALSE, waits |-> FALSE]

\* conn.send to each of evs in turn
SendAll(c, evs) == [i \in DOMAIN evs |-> Direct(c, evs[i])]

\* _emit_conversation: the connection itself, then everybody else who joined
Emit(c, e) ==
  LET others == SetToSeq(Conns \ {c}) IN   \* the hub has a set, in an order of its own
    <<Direct(c, e)>> \o [i \in DOMAIN others |-> [to |-> others[i], e |-> e, room |-> TRUE, waits |-> FALSE]]

\* What is lost rather than waited for
Droppable == {"chunk"}

Skipped(it) == ~it.waits /\ (closed[it.to] \/ (it.room /\ it.to \notin hub \cap joined))

PutStep(acc, it) ==
  IF acc.rest # <<>> THEN [acc EXCEPT !.rest = Append(@, it)]
  ELSE IF Skipped(it) THEN acc
  ELSE IF Len(acc.out[it.to]) < QueueSize THEN [acc EXCEPT !.out[it.to] = Append(@, it.e)]
  ELSE IF it.e.t \in Droppable /\ ~it.waits THEN acc
  ELSE [acc EXCEPT !.rest = <<[it EXCEPT !.waits = TRUE]>>]

\* The sends of the sequence items, as far as they get
PutAll(items) ==
  LET put[k \in 0..Len(items)] ==
        IF k = 0 THEN [out |-> outbound, rest |-> <<>>] ELSE PutStep(put[k - 1], items[k])
  IN put[Len(items)]

Produce(p, items) ==
  LET r == PutAll(items) IN
    /\ outbound' = r.out
    /\ owed' = [owed EXCEPT ![p] = r.rest]

\* The put a producer waits in gets its room
Resume(p) ==
  /\ owed[p] # <<>>
  /\ Len(outbound[Head(owed[p]).to]) < QueueSize
  /\ Produce(p, owed[p])

Free(p) == owed[p] = <<>>

-----------------------------------------------------------------------------
\* The endpoint accepts: the hub knows the connection and its writer runs
Accept(c) ==
  /\ link' = [link EXCEPT ![c] = "up"]
  /\ hub' = hub \cup {c}
  /\ writer' = [writer EXCEPT ![c] = "on"]

Lose(c) ==
  /\ link[c] = "up"
  /\ link' = [link EXCEPT ![c] = "down"]

\* The writer takes one event and sends it; on a lost link the send raises and
\* the writer ends with what is left in the queue.
Take(c) ==
  /\ writer[c] = "on" /\ outbound[c] # <<>>
  /\ outbound' = [outbound EXCEPT ![c] = Tail(@)]
  /\ writer' = [writer EXCEPT ![c] =
                  IF Head(outbound[c]) = Stop \/ link[c] = "down" THEN "off" ELSE "on"]

\* close: no more sends, and the writer is told to end
BeginClose(c) ==
  /\ closed' = [closed EXCEPT ![c] = TRUE]
  /\ IF Len(outbound[c]) < QueueSize
     THEN outbound' = [outbound EXCEPT ![c] = Append(@, Stop)] /\ owed' = owed
     ELSE owed' = [owed EXCEPT ![c] = <<[Direct(c, Stop) EXCEPT !.waits = TRUE]>>] /\ outbound' = outbound

\* The rest of the endpoint's finally: leave the hub, wait for the writer and
\* cancel it when it takes longer than two seconds.
EndClose(c) ==
  /\ Free(c)
  /\ hub' = hub \ {c}
  /\ writer' = [writer EXCEPT ![c] = "off"]

\* Nobody will ever make room in this queue
Jammed(c) == writer[c] = "off" /\ link[c] # "none" /\ Len(outbound[c]) >= QueueSize
=============================================================================
