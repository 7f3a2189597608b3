--------------------------- MODULE RouterDelivery ---------------------------
(***************************************************************************)
(* The v1 Router (src/router/router.py) with the files it recovers from    *)
(* (src/storage, src/state).  Clients post messages and acknowledge them,  *)
(* agents drain their inboxes, a retry thread re-delivers what nobody      *)
(* accepted, and the process may be killed between any two writes.         *)
(*                                                                         *)
(* One lock serialises receive_message, receive_ack, pop_inbox and the     *)
(* retry sweep, so a handler's steps interleave with nothing but a kill:   *)
(* `handler' is what the holder of the lock is doing, and every other      *)
(* handler waits for it to be idle.  A handler is cut into one step per    *)
(* file it writes.                                                         *)
(*                                                                         *)
(* A message is its sequence number.  Its body, sender and resolved        *)
(* recipients are inputs.  Clock values are abstracted to "the timer runs" *)
(* and "the deadline has passed": each may lapse at any moment.  An inbox  *)
(* is a bag, the order of its ids is left out: a pop takes any of them.    *)
(* The fields of a DeliveryState are functions and sets over the keys.     *)
(***************************************************************************)
EXTENDS Integers, FiniteSets

CONSTANTS
  Agents,      (* inbox names a message may resolve to                     *)
  MaxMsgs,     (* bound: messages posted over all epochs                   *)
  MaxEpoch,    (* bound: starts of the router process                      *)
  MaxRetries,  (* RouterConfig.max_retries                                 *)
  AckStages,   (* stages clients send to receive_ack                       *)
  Kinds        (* what messages say about a task, see `kind'               *)

Stages == {"delivered", "accepted", "nack"}

ASSUME RouterAssumption ==
  /\ MaxMsgs \in Nat /\ MaxEpoch \in Nat /\ MaxRetries \in Nat
  /\ AckStages \subseteq Stages
  /\ Kinds \subseteq {"plain", "other", "action", "type"}

Ids  == 1..MaxMsgs
Keys == Ids \X Agents

VARIABLES
  (* files *)
  diskSeq,     (* last_seq in state/router.json                            *)
  log,         (* ids in logs/messages-<epoch>.jsonl                       *)
  hasFile,     (* agents whose inbox/<agent>.jsonl exists                  *)
  pending,     (* agent -> ids its inbox file still owes                   *)
  ackLog,      (* key -> stages in logs/acks-<epoch>.jsonl                 *)
  lastAck,     (* key -> the last of them, or "none"                       *)
  hasTaskFile, (* state/tasks.json exists                                  *)
  taskFile,    (* task messages folded into it                             *)
  reported,    (* keys in logs/failures.log                                *)
  (* the process *)
  epoch,       (* RouterState.epoch: number of this start                  *)
  lastSeq,     (* RouterState.last_seq                                     *)
  status,      (* key -> DeliveryState.status, "none" when there is none   *)
  retries,     (* key -> DeliveryState.retries                             *)
  armed,       (* keys whose next_retry_at is set and ahead                *)
  dated,       (* keys whose expires_at is set                             *)
  inbox,       (* key -> copies of the id in the agent's in-memory inbox   *)
  tasks,       (* task messages folded into Router.tasks                   *)
  (* the handler that holds the lock *)
  op,          (* its next write, or "idle": nobody holds the lock         *)
  current,     (* the id it works on                                       *)
  left,        (* recipients not served yet                                *)
  at,          (* the agent being served                                   *)
  stage,       (* the ack being logged                                     *)
  (* the messages and the clients *)
  to,          (* id -> agents it was resolved to                          *)
  kind,        (* id -> plain: no task id; action: a status-changing       *)
               (*   action; type: only its type (done, fail) says so;      *)
               (*   other: a task id and neither                           *)
  expired,     (* ids whose ttl or deadline has passed                     *)
  popped,      (* keys some pop_inbox has handed to the agent              *)
  (* history *)
  answered,    (* ids whose receive_message returned to the client         *)
  confirmed,   (* keys with an accepted event in an inbox file             *)
  sends        (* key -> deliveries made since this start                  *)

files    == <<diskSeq, log, hasFile, pending, ackLog, lastAck, hasTaskFile,
              taskFile, reported>>
delivery == <<status, retries, armed, dated>>
handler  == <<op, current, left, at, stage>>
process  == <<epoch, lastSeq, delivery, inbox, tasks, handler>>
world    == <<to, kind, expired, popped, answered, confirmed, sends>>
vars     == <<files, process, world>>

-----------------------------------------------------------------------------
(* Types *)

Statuses == {"none", "delivered", "accepted", "failed", "nack"}

Ops == {"idle", "record", "deliver", "confirm", "ack"}

TypeOK ==
  /\ diskSeq \in 0..MaxMsgs /\ lastSeq \in 0..MaxMsgs
  /\ log \subseteq Ids
  /\ hasFile \subseteq Agents
  /\ pending \in [Agents -> SUBSET Ids]
  /\ ackLog \in [Keys -> SUBSET Stages]
  /\ lastAck \in [Keys -> Stages \cup {"none"}]
  /\ hasTaskFile \in BOOLEAN /\ taskFile \subseteq Ids /\ tasks \subseteq Ids
  /\ reported \subseteq Keys
  /\ epoch \in Nat
  /\ status \in [Keys -> Statuses]
  /\ retries \in [Keys -> 0..MaxRetries]
  /\ armed \subseteq Keys /\ dated \subseteq Keys
  /\ inbox \in [Keys -> Nat]
  /\ op \in Ops /\ stage \in Stages
  /\ current \in 0..MaxMsgs /\ (op # "idle" => current \in Ids)
  /\ left \subseteq Agents /\ at \subseteq Agents
  /\ to \in [Ids -> SUBSET Agents]
  /\ kind \in [Ids -> Kinds \cup {"plain"}]
  /\ expired \subseteq Ids /\ answered \subseteq Ids
  /\ popped \subseteq Keys /\ confirmed \subseteq Keys
  /\ sends \in [Keys -> Nat]

-----------------------------------------------------------------------------
(* The first start: an empty workspace.  recover_router_state finds no     *)
(* file and no log, so the epoch is 1 and the sequence starts from 0.      *)
Init ==
  /\ diskSeq = 0 /\ lastSeq = 0 /\ epoch = 1
  /\ log = {} /\ hasFile = {} /\ reported = {}
  /\ hasTaskFile = FALSE /\ taskFile = {} /\ tasks = {}
  /\ pending  = [a \in Agents |-> {}]
  /\ ackLog   = [k \in Keys |-> {}]
  /\ lastAck  = [k \in Keys |-> "none"]
  /\ status  = [k \in Keys |-> "none"]
  /\ retries = [k \in Keys |-> 0]
  /\ armed = {} /\ dated = {}
  /\ inbox    = [k \in Keys |-> 0]
  /\ op = "idle" /\ current = 0 /\ left = {} /\ at = {} /\ stage = "delivered"
  /\ to   = [m \in Ids |-> {}]
  /\ kind = [m \in Ids |-> "plain"]
  /\ expired = {} /\ popped = {} /\ answered = {} /\ confirmed = {}
  /\ sends = [k \in Keys |-> 0]

-----------------------------------------------------------------------------
(* Helpers *)

\* Mutant: the copy is queued in memory and the inbox file not written
EnqueueUnlogged(k) ==
  /\ inbox' = [inbox EXCEPT ![k] = @ + 1]
  /\ sends' = [sends EXCEPT ![k] = @ + 1]
  /\ UNCHANGED <<hasFile, pending>>

\* append_inbox_event(agent, "deliver", id) followed by the in-memory append:
\* pending_ids_from_events ignores a deliver of an id that is already pending.
EnqueueCopy(k) ==
  /\ hasFile' = hasFile \cup {k[2]}
  /\ pending' = [pending EXCEPT ![k[2]] = @ \cup {k[1]}]
  /\ inbox'   = [inbox EXCEPT ![k] = @ + 1]
  /\ sends'   = [sends EXCEPT ![k] = @ + 1]

\* The handler returns, the lock is free
Release == op' = "idle" /\ current' = 0 /\ left' = {} /\ at' = {} /\ stage' = "delivered"

\* append_ack_event
LogStage(k, s) ==
  /\ ackLog'  = [ackLog EXCEPT ![k] = @ \cup {s}]
  /\ lastAck' = [lastAck EXCEPT ![k] = s]

-----------------------------------------------------------------------------
(* receive_message, under the lock *)

\* _prepare_message: the next sequence number, saved to router.json before
\* anything else mentions it.
PrepareMessage(recipients, about) ==
  /\ op = "idle"
  /\ lastSeq < MaxMsgs
  /\ lastSeq' = lastSeq + 1
  /\ diskSeq' = lastSeq + 1
  /\ to'   = [to EXCEPT ![lastSeq + 1] = recipients]
  /\ kind' = [kind EXCEPT ![lastSeq + 1] = about]
  /\ op' = "record" /\ current' = lastSeq + 1 /\ left' = recipients
  /\ UNCHANGED <<at, stage>>
  /\ UNCHANGED <<log, hasFile, pending, ackLog, lastAck, hasTaskFile, taskFile, reported>>
  /\ UNCHANGED <<epoch, delivery, inbox, tasks>>
  /\ UNCHANGED <<expired, popped, answered, confirmed, sends>>

\* _record_message
RecordMessage ==
  /\ op = "record"
  /\ log' = log \cup {current}
  /\ op' = "deliver"
  /\ UNCHANGED <<current, left, at, stage>>
  /\ UNCHANGED <<diskSeq, hasFile, pending, ackLog, lastAck, hasTaskFile, taskFile, reported>>
  /\ UNCHANGED <<epoch, lastSeq, delivery, inbox, tasks, world>>

\* _deliver_to_inbox for the next recipient; the timer and the deadline are
\* set only when the key is new
DeliverToInbox(a) ==
  LET k == <<current, a>> IN
  /\ op = "deliver"
  /\ a \in left
  /\ EnqueueCopy(k)
  /\ status' = [status EXCEPT ![k] = "delivered"]
  /\ armed' = IF status[k] = "none" THEN armed \cup {k} ELSE armed
  /\ dated' = IF status[k] = "none" THEN dated \cup {k} ELSE dated
  /\ op' = "confirm" /\ left' = left \ {a} /\ at' = {a}
  /\ UNCHANGED <<retries, current, stage>>
  /\ UNCHANGED <<diskSeq, log, ackLog, lastAck, hasTaskFile, taskFile, reported>>
  /\ UNCHANGED <<epoch, lastSeq, tasks>>
  /\ UNCHANGED <<to, kind, expired, popped, answered, confirmed>>

\* The router's own "delivered" ack for that recipient
LogDelivered ==
  /\ op = "confirm"
  /\ \E a \in at : LogStage(<<current, a>>, "delivered")
  /\ op' = "deliver" /\ at' = {}
  /\ UNCHANGED <<current, left, stage>>
  /\ UNCHANGED <<diskSeq, log, hasFile, pending, hasTaskFile, taskFile, reported>>
  /\ UNCHANGED <<epoch, lastSeq, delivery, inbox, tasks, world>>

\* _update_task with its save, then the answer to the client.  A message that
\* carries a task id rewrites tasks.json with everything in memory.
AnswerMessage ==
  /\ op = "deliver"
  /\ left = {}
  /\ tasks' = IF kind[current] \in {"action", "type"} THEN tasks \cup {current} ELSE tasks
  /\ taskFile' = IF kind[current] = "plain" THEN taskFile ELSE tasks'
  /\ hasTaskFile' = (hasTaskFile \/ kind[current] # "plain")
  /\ answered' = answered \cup {current}
  /\ Release
  /\ UNCHANGED <<diskSeq, log, hasFile, pending, ackLog, lastAck, reported>>
  /\ UNCHANGED <<epoch, lastSeq, delivery, inbox>>
  /\ UNCHANGED <<to, kind, expired, popped, confirmed, sends>>

-----------------------------------------------------------------------------
(* receive_ack, under the lock: the state and the inbox file first, the    *)
(* acks log after them.  A key without a DeliveryState gets one that has   *)
(* no timer and no deadline, which is what the functions say of it.        *)

\* Mutant: an accepted ack takes one copy and leaves the retried duplicates
RemoveOneCopy(k) == IF inbox[k] = 0 THEN 0 ELSE inbox[k] - 1

\* _remove_from_inbox: the copies left of the id
RemoveFromInbox(k) == 0

\* The rest of receive_ack: LogAck is the one step left
AckNext(k, s) ==
  op' = "ack" /\ current' = k[1] /\ left' = {} /\ at' = {k[2]} /\ stage' = s

ReceiveAccepted(k) ==
  /\ op = "idle"
  /\ k \in popped /\ "accepted" \in AckStages
  /\ status' = [status EXCEPT ![k] = "accepted"]
  /\ armed' = armed \ {k}
  /\ inbox' = [inbox EXCEPT ![k] = RemoveFromInbox(k)]
  /\ hasFile' = hasFile \cup {k[2]}
  /\ pending' = [pending EXCEPT ![k[2]] = @ \ {k[1]}]
  /\ confirmed' = confirmed \cup {k}
  /\ AckNext(k, "accepted")
  /\ UNCHANGED <<retries, dated>>
  /\ UNCHANGED <<diskSeq, log, ackLog, lastAck, hasTaskFile, taskFile, reported>>
  /\ UNCHANGED <<epoch, lastSeq, tasks, to, kind, expired, popped, answered, sends>>

ReceiveNack(k) ==
  /\ op = "idle"
  /\ k \in popped /\ "nack" \in AckStages
  /\ status' = [status EXCEPT ![k] = "failed"]
  /\ armed' = armed \ {k}
  /\ reported' = reported \cup {k}
  /\ AckNext(k, "nack")
  /\ UNCHANGED <<retries, dated>>
  /\ UNCHANGED <<diskSeq, log, hasFile, pending, ackLog, lastAck, hasTaskFile, taskFile>>
  /\ UNCHANGED <<epoch, lastSeq, inbox, tasks, world>>

\* A client may repeat the router's own stage: the status goes back to
\* delivered and the retry timer stays as it was.
ReceiveDelivered(k) ==
  /\ op = "idle"
  /\ k \in popped /\ "delivered" \in AckStages
  /\ status' = [status EXCEPT ![k] = "delivered"]
  /\ AckNext(k, "delivered")
  /\ UNCHANGED <<retries, armed, dated>>
  /\ UNCHANGED <<files, epoch, lastSeq, inbox, tasks, world>>

LogAck ==
  /\ op = "ack"
  /\ \E a \in at : LogStage(<<current, a>>, stage)
  /\ Release
  /\ UNCHANGED <<diskSeq, log, hasFile, pending, hasTaskFile, taskFile, reported>>
  /\ UNCHANGED <<epoch, lastSeq, delivery, inbox, tasks, world>>

-----------------------------------------------------------------------------
(* pop_inbox: nothing is written to disk                                   *)

PopInbox(k) ==
  /\ op = "idle"
  /\ inbox[k] > 0
  /\ inbox'  = [inbox EXCEPT ![k] = @ - 1]
  /\ popped' = IF k[1] \in log THEN popped \cup {k} ELSE popped
  /\ UNCHANGED <<files, epoch, lastSeq, delivery, tasks, handler>>
  /\ UNCHANGED <<to, kind, expired, answered, confirmed, sends>>

-----------------------------------------------------------------------------
(* The retry sweep, key by key.  The keys of a sweep are independent, so a *)
(* sweep over several is several sweeps over one.                          *)

TimerLapses(k) ==
  /\ k \in armed
  /\ armed' = armed \ {k}
  /\ UNCHANGED <<files, epoch, lastSeq, status, retries, dated, inbox, tasks, handler, world>>

DeadlinePasses(m) ==
  /\ m \in log \ expired
  /\ expired' = expired \cup {m}
  /\ UNCHANGED <<files, process, to, kind, popped, answered, confirmed, sends>>

\* Mutant: the sweep skips accepted deliveries and not failed ones
UnsettledOrFailed(k) == status[k] \notin {"none", "accepted"}

Unsettled(k) == status[k] \notin {"none", "accepted", "failed"}

Overdue(k) == k \in dated /\ k[1] \in expired

\* Mutant: one retry too many
RetriesExceeded(k) == retries[k] > MaxRetries

OutOfRetries(k) == retries[k] >= MaxRetries

\* Mutant: the failure is not reported
MarkFailedSilently(k) ==
  /\ status' = [status EXCEPT ![k] = "failed"]
  /\ armed' = armed \ {k}
  /\ UNCHANGED <<retries, dated, handler, files, epoch, lastSeq, inbox, tasks, world>>

\* _mark_failed
MarkFailed(k) ==
  /\ status' = [status EXCEPT ![k] = "failed"]
  /\ armed' = armed \ {k}
  /\ reported' = reported \cup {k}
  /\ UNCHANGED <<retries, dated, handler>>
  /\ UNCHANGED <<diskSeq, log, hasFile, pending, ackLog, lastAck, hasTaskFile, taskFile>>
  /\ UNCHANGED <<epoch, lastSeq, inbox, tasks, world>>

Expire(k) ==
  /\ op = "idle"
  /\ Unsettled(k) /\ Overdue(k)
  /\ MarkFailed(k)

GiveUp(k) ==
  /\ op = "idle"
  /\ Unsettled(k) /\ ~Overdue(k) /\ k \notin armed
  /\ OutOfRetries(k)
  /\ MarkFailed(k)

Retry(k) ==
  /\ op = "idle"
  /\ Unsettled(k) /\ ~Overdue(k) /\ k \notin armed
  /\ ~OutOfRetries(k)
  /\ k[1] \in log
  /\ EnqueueCopy(k)
  /\ status' = [status EXCEPT ![k] = "delivered"]
  /\ retries' = [retries EXCEPT ![k] = @ + 1]
  /\ armed' = armed \cup {k}
  /\ UNCHANGED <<dated, handler>>
  /\ UNCHANGED <<diskSeq, log, ackLog, lastAck, hasTaskFile, taskFile, reported>>
  /\ UNCHANGED <<epoch, lastSeq, tasks, to, kind, expired, popped, answered, confirmed>>

Sweep == \E k \in Keys : Expire(k) \/ GiveUp(k) \/ Retry(k)

-----------------------------------------------------------------------------
(* A kill at any step, and the next start: recover_state, then             *)
(* _load_history.                                                          *)

\* rebuild_inbox_from_logs: used for an agent without an inbox file.  When no
\* ack log holds any delivered stage, the message log's recipients stand in.
Rebuilt(a) ==
  IF \A k \in Keys : "delivered" \notin ackLog[k]
    THEN {m \in log : a \in to[m] /\ "accepted" \notin ackLog[<<m, a>>]}
    ELSE {m \in Ids : "delivered" \in ackLog[<<m, a>>] /\ "accepted" \notin ackLog[<<m, a>>]}

\* recover_inbox, over all agents
Recovered ==
  {k \in Keys : k[1] \in (IF k[2] \in hasFile THEN pending[k[2]] ELSE Rebuilt(k[2]))}

\* recover_tasks: the file, or else a replay, which reads the action field only
RecoveredTasks ==
  IF hasTaskFile THEN taskFile ELSE {m \in log : kind[m] = "action"}

\* Mutant: every start counts its messages from 1
FreshSeq == 0

\* recover_router_state: router.json, written by the first start, always exists
RecoveredSeq == diskSeq

\* Mutant: recovered ids keep the last logged stage
LoadAcksOnly ==
  /\ status'  = [k \in Keys |-> lastAck[k]]
  /\ retries' = [k \in Keys |-> 0]
  /\ armed' = {} /\ dated' = {}

\* _load_history: the last logged stage is the status, without timer or
\* deadline; then every recovered id is tracked afresh as delivered.
LoadHistory ==
  /\ status'  = [k \in Keys |-> IF k \in Recovered THEN "delivered" ELSE lastAck[k]]
  /\ retries' = [k \in Keys |-> 0]
  /\ armed' = Recovered
  /\ dated' = Recovered

Restart ==
  /\ epoch < MaxEpoch
  /\ epoch' = epoch + 1
  /\ lastSeq' = RecoveredSeq
  /\ inbox' = [k \in Keys |-> IF k \in Recovered THEN 1 ELSE 0]
  /\ LoadHistory
  /\ tasks' = RecoveredTasks
  /\ Release
  /\ sends' = [k \in Keys |-> 0]
  /\ UNCHANGED files
  /\ UNCHANGED <<to, kind, expired, popped, answered, confirmed>>

-----------------------------------------------------------------------------
(* The specification                                                       *)

\* The handler that holds the lock goes on
Proceed ==
  \/ RecordMessage
  \/ \E a \in Agents : DeliverToInbox(a)
  \/ LogDelivered
  \/ AnswerMessage
  \/ LogAck

Lapse == \E k \in Keys : TimerLapses(k)

Clients ==
  \/ \E recipients \in SUBSET Agents \ {{}}, about \in Kinds :
       PrepareMessage(recipients, about)
  \/ \E k \in Keys : \/ PopInbox(k)
                     \/ ReceiveAccepted(k)
                     \/ ReceiveNack(k)
                     \/ ReceiveDelivered(k)

Next ==
  \/ Clients
  \/ Proceed
  \/ Lapse
  \/ Sweep
  \/ \E m \in Ids : DeadlinePasses(m)
  \/ Restart

Spec == Init /\ [][Next]_vars

\* A handler that holds the lock finishes, time passes, and the retry thread,
\* which loops while the process lives, gets the lock again and again.
Fairness == WF_vars(Proceed) /\ WF_vars(Lapse) /\ SF_vars(Sweep)

FairSpec == Spec /\ Fairness

-----------------------------------------------------------------------------
(* Properties *)

\* A message that is being logged is numbered above all that were logged before
\* it, in this start or an earlier one, and so has an id of its own: router.json
\* is saved before the number is used (_prepare_message), and a kill wastes
\* numbers but never repeats one.
SeqMonotone ==
  [][op = "record" /\ op' = "deliver" => \A n \in log : n < current]_vars

\* What receive_message answered "delivered" survives any kill: each recipient's
\* inbox file still owes the id unless that recipient accepted it, and the
\* task file reflects it.  pop_inbox, nacks, failures and restarts forget nothing.
AnsweredDurable ==
  \A m \in answered :
    /\ \A a \in to[m] : m \in pending[a] \/ <<m, a>> \in confirmed
    /\ kind[m] \in {"action", "type"} => m \in taskFile

\* The running router tracks every answered delivery nobody accepted, so the
\* retry sweep will come back to it or has reported it (_load_history rebuilds
\* a DeliveryState for exactly these).
AnsweredTracked ==
  \A m \in answered : \A a \in to[m] :
    \/ <<m, a>> \in confirmed
    \/ status[<<m, a>>] \in {"delivered", "failed"}

\* An accepted delivery has no copy left to pop: _remove_from_inbox takes the
\* retried duplicates with it, and neither the sweep nor recovery puts one back.
AcceptedNotQueued ==
  \A k \in Keys : status[k] = "accepted" => inbox[k] = 0

\* One start delivers a message to an agent at most 1 + max_retries times, late
\* acks, nacks and duplicate pops included.
RetryBudget ==
  \A k \in Keys : sends[k] <= 1 + MaxRetries

\* Once a delivery is accepted, or reported as failed, this start never enqueues
\* it again: the sweep skips both.
SettledNotResent ==
  [][\A k \in Keys :
        status[k] \in {"accepted", "failed"} /\ epoch' = epoch
          => sends'[k] = sends[k]]_vars

\* Every answered delivery is in the end accepted or reported in failures.log,
\* whatever the recipient does or fails to do.
Settled(k) == status[k] = "accepted" \/ k \in reported \/ k \in confirmed
EventuallySettled ==
  \A k \in Keys : (k[1] \in answered /\ k[2] \in to[k[1]]) ~> Settled(k)

\* docs/design.md:280 says the accepted state is kept on disk so that a restart
\* does not deliver again.  The inbox file learns of it before the acks log does
\* (receive_ack), and a kill in between leaves an acks log that says delivered:
\* the next start tracks the key and the sweep enqueues it.
AcceptedStaysOut ==
  \A k \in confirmed : k[1] \notin pending[k[2]]
=============================================================================
