---------------------------- MODULE RouterInbox ----------------------------
(***************************************************************************)
(* The Router as one of its clients sees it over HTTP (RouterHandler in    *)
(* src/src/api/server.py): an inbox whose messages are popped by being     *)
(* asked for, and deliveries that are repeated until they are acknowledged *)
(* or given up.  RouterDelivery has what is behind it.                     *)
(***************************************************************************)
EXTENDS Naturals, Sequences, FiniteSets, SequencesExt

CONSTANTS
  Mail,          (* messages to the client                                 *)
  OwnMail,       (* those whose sender is the client's own role            *)
  MaxDeliveries  (* 1 + max_retries                                        *)

ASSUME InboxAssumption ==
  MaxDeliveries \in Nat \ {0} /\ OwnMail \subseteq Mail /\ IsFiniteSet(Mail)

VARIABLES
  inbox,         (* the copies nobody has popped                           *)
  delivery,      (* message -> what the delivery table says of it          *)
  sent           (* message -> copies enqueued                             *)

inboxVars == <<inbox, delivery, sent>>

InboxInit ==
  /\ inbox = <<>> /\ delivery = [m \in Mail |-> "none"] /\ sent = [m \in Mail |-> 0]

Enqueue(m) ==
  /\ inbox' = Append(inbox, m)
  /\ delivery' = [delivery EXCEPT ![m] = "delivered"]
  /\ sent' = [sent EXCEPT ![m] = @ + 1]

Post(m) == delivery[m] = "none" /\ Enqueue(m)

Redeliver(m) == delivery[m] = "delivered" /\ sent[m] < MaxDeliveries /\ Enqueue(m)

Undeliverable(m) ==
  /\ delivery[m] = "delivered" /\ sent[m] = MaxDeliveries
  /\ delivery' = [delivery EXCEPT ![m] = "failed"]
  /\ UNCHANGED <<inbox, sent>>

RouterStep == \E m \in Mail : Post(m) \/ Redeliver(m) \/ Undeliverable(m)

\* Mutant: what is answered counts as accepted
PoppedForGood(n) ==
  /\ inbox' = SubSeq(inbox, n + 1, Len(inbox))
  /\ delivery' = [m \in Mail |-> IF \E i \in 1..n : inbox[i] = m THEN "accepted" ELSE delivery[m]]
  /\ UNCHANGED sent

\* GET /inbox: what is answered is no longer in the inbox
Popped(n) ==
  /\ inbox' = SubSeq(inbox, n + 1, Len(inbox))
  /\ UNCHANGED <<delivery, sent>>

\* POST of an accepted ack for m.  What is posted to a path the API does not have
\* is answered by 404.
PostAck(path, m) ==
  IF path = "/acks"
  THEN /\ inbox' = SelectSeq(inbox, LAMBDA c : c # m)
       /\ delivery' = [delivery EXCEPT ![m] = "accepted"]
       /\ sent' = sent
  ELSE UNCHANGED inboxVars
=============================================================================
