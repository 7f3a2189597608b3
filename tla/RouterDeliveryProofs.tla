------------------------ MODULE RouterDeliveryProofs ------------------------
(***************************************************************************)
(* Safety of RouterDelivery for every number of agents, messages, starts   *)
(* and retries.  The inductive invariant adds to the properties what they  *)
(* rest on: the message in progress owns its number, no file mentions a    *)
(* number before the message log does, and the recipients already served   *)
(* are owed the message on disk.                                           *)
(***************************************************************************)
EXTENDS RouterDelivery, TLAPS

\* Nothing has happened to the key yet, on disk or in memory
Untouched(k) ==
  /\ k[1] \notin pending[k[2]]
  /\ ackLog[k] = {} /\ lastAck[k] = "none"
  /\ status[k] = "none"
  /\ inbox[k] = 0 /\ sends[k] = 0
  /\ k \notin popped

\* Numbers: the counter on disk is the counter in memory and bounds the log
SeqInv ==
  /\ lastSeq = diskSeq
  /\ \A m \in log : m <= lastSeq
  /\ answered \subseteq log
  /\ \A k \in Keys : k[1] \notin log => Untouched(k)

\* The message in progress
InProgress == op \in {"deliver", "confirm"}

WorkInv ==
  /\ op = "record" => current = lastSeq /\ current \notin log /\ left = to[current]
  /\ op = "ack" => current \in log
  /\ op = "confirm" => at \cap left = {}
  /\ InProgress =>
       /\ current \in log
       /\ current \notin answered
       /\ \A a \in left : Untouched(<<current, a>>)
       /\ \A a \in to[current] \ left :
            current \in pending[a] /\ status[<<current, a>>] = "delivered"

\* Files: an inbox that owes something has a file, tasks.json lags memory
FileInv ==
  /\ \A a \in Agents : pending[a] # {} => a \in hasFile
  /\ taskFile \subseteq tasks
  /\ ~hasTaskFile => taskFile = {}

\* Deliveries of this start are the first one and the retries
SendInv ==
  \A k \in Keys :
    /\ sends[k] <= 1 + retries[k]
    /\ status[k] = "none" => sends[k] = 0 /\ retries[k] = 0

IInv ==
  /\ TypeOK /\ SeqInv /\ WorkInv /\ FileInv /\ SendInv
  /\ AnsweredDurable /\ AnsweredTracked /\ AcceptedNotQueued

-----------------------------------------------------------------------------
(* Type correctness *)

\* The first start satisfies the type invariant.
LEMMA TypeInit == Init => TypeOK
<1> SUFFICES ASSUME Init PROVE TypeOK
  OBVIOUS
<1>1. 0 \in 0..MaxMsgs /\ 0 \in 0..MaxRetries
  BY RouterAssumption
<1>2. /\ status \in [Keys -> Statuses] /\ retries \in [Keys -> 0..MaxRetries]
      /\ inbox \in [Keys -> Nat] /\ sends \in [Keys -> Nat]
  BY <1>1 DEF Init, Statuses
<1>3. /\ ackLog \in [Keys -> SUBSET Stages] /\ lastAck \in [Keys -> Stages \cup {"none"}]
      /\ pending \in [Agents -> SUBSET Ids]
      /\ to \in [Ids -> SUBSET Agents] /\ kind \in [Ids -> Kinds \cup {"plain"}]
  BY DEF Init
<1> QED
  BY <1>1, <1>2, <1>3 DEF Init, TypeOK, Stages, Ops

\* The handler that holds the lock works on a message
LEMMA Busy == ASSUME TypeOK, op # "idle", NEW a \in Agents PROVE <<current, a>> \in Keys
BY DEF TypeOK, Keys

\* A key is a message and an agent
LEMMA KeyParts == ASSUME NEW k \in Keys
                  PROVE k[1] \in Ids /\ k[2] \in Agents /\ k = <<k[1], k[2]>> /\ Ids \subseteq 0..MaxMsgs
BY DEF Keys, Ids

\* Every step of the router, its clients and its clock keeps the types.
LEMMA TypeStep == TypeOK /\ [Next]_vars => TypeOK'
<1> SUFFICES ASSUME TypeOK, [Next]_vars PROVE TypeOK'
  OBVIOUS
<1>1. ASSUME NEW r \in SUBSET Agents, NEW kd \in Kinds, PrepareMessage(r, kd) PROVE TypeOK'
  BY <1>1, Busy, KeyParts, RouterAssumption DEF TypeOK, PrepareMessage, Ids, Ops, delivery
<1>2. ASSUME RecordMessage PROVE TypeOK'
  BY <1>2, Busy, KeyParts, RouterAssumption DEF TypeOK, RecordMessage, Ops, world, delivery
<1>3. ASSUME NEW a \in Agents, DeliverToInbox(a) PROVE TypeOK'
  BY <1>3, Busy, KeyParts, RouterAssumption DEF TypeOK, DeliverToInbox, EnqueueCopy, Ops,
     Statuses, delivery
<1>4. ASSUME LogDelivered PROVE TypeOK'
  BY <1>4, Busy, KeyParts, RouterAssumption DEF TypeOK, LogDelivered, LogStage, Ops,
     Stages, world, delivery
<1>5. ASSUME AnswerMessage PROVE TypeOK'
  BY <1>5, Busy, KeyParts, RouterAssumption DEF TypeOK, AnswerMessage, Release, Ops,
     Stages, delivery
<1>6. ASSUME NEW k \in Keys, ReceiveAccepted(k) PROVE TypeOK'
  BY <1>6, Busy, KeyParts, RouterAssumption DEF TypeOK, ReceiveAccepted, AckNext,
     RemoveFromInbox, Ops, Stages, Statuses
<1>7. ASSUME NEW k \in Keys, ReceiveNack(k) PROVE TypeOK'
  BY <1>7, Busy, KeyParts, RouterAssumption DEF TypeOK, ReceiveNack, AckNext, Ops, Stages,
     Statuses, world
<1>8. ASSUME NEW k \in Keys, ReceiveDelivered(k) PROVE TypeOK'
  BY <1>8, Busy, KeyParts, RouterAssumption DEF TypeOK, ReceiveDelivered, AckNext, Ops,
     Stages, Statuses, world, files
<1>9. ASSUME LogAck PROVE TypeOK'
  BY <1>9, Busy, KeyParts, RouterAssumption DEF TypeOK, LogAck, LogStage, Release, Ops,
     Stages, world, delivery
<1>10. ASSUME NEW k \in Keys, PopInbox(k) PROVE TypeOK'
  BY <1>10, Busy, KeyParts, RouterAssumption DEF TypeOK, PopInbox, files, delivery, handler
<1>11. ASSUME NEW k \in Keys, TimerLapses(k) PROVE TypeOK'
  BY <1>11, Busy, KeyParts, RouterAssumption DEF TypeOK, TimerLapses, files, handler, world
<1>12. ASSUME NEW m \in Ids, DeadlinePasses(m) PROVE TypeOK'
  BY <1>12, Busy, KeyParts, RouterAssumption DEF TypeOK, DeadlinePasses, files, process,
     delivery, handler
<1>13. ASSUME NEW k \in Keys, Expire(k) PROVE TypeOK'
  BY <1>13, Busy, KeyParts, RouterAssumption DEF TypeOK, Expire, MarkFailed, Statuses,
     handler, world
<1>14. ASSUME NEW k \in Keys, GiveUp(k) PROVE TypeOK'
  BY <1>14, Busy, KeyParts, RouterAssumption DEF TypeOK, GiveUp, MarkFailed, Statuses,
     handler, world
<1>15. ASSUME NEW k \in Keys, Retry(k) PROVE TypeOK'
  BY <1>15, Busy, KeyParts, RouterAssumption DEF TypeOK, Retry, EnqueueCopy, OutOfRetries,
     Statuses, handler
<1>16. ASSUME Restart PROVE TypeOK'
  BY <1>16, Busy, KeyParts, RouterAssumption DEF TypeOK, Restart, LoadHistory,
     RecoveredTasks, Recovered, RecoveredSeq, Release, Statuses, Stages, Ops, files
<1>17. CASE UNCHANGED vars
  BY <1>17 DEF TypeOK, vars, files, process, world, delivery, handler
<1> QED
  BY <1>1, <1>2, <1>3, <1>4, <1>5, <1>6, <1>7, <1>8, <1>9, <1>10, <1>11, <1>12, <1>13,
     <1>14, <1>15, <1>16, <1>17 DEF Next, Clients, Proceed, Lapse, Sweep
-----------------------------------------------------------------------------
(* Each action preserves the invariant *)

\* A new number is above every number in the log, so nobody answered it yet.
LEMMA PrepareMessageSafe ==
  ASSUME IInv, TypeOK', NEW r \in SUBSET Agents, NEW kd \in Kinds, PrepareMessage(r, kd)
  PROVE  IInv'
<1>1. SeqInv'
  <2>1. lastSeq' = diskSeq' /\ (\A m \in log' : m <= lastSeq') /\ answered' \subseteq log'
    BY DEF IInv, TypeOK, Ids, SeqInv, PrepareMessage, delivery
  <2>2. ASSUME NEW k \in Keys, k[1] \notin log' PROVE Untouched(k)'
    BY <2>2 DEF IInv, SeqInv, Untouched, PrepareMessage, delivery
  <2> QED
    BY <2>1, <2>2 DEF SeqInv
<1>2. WorkInv'
  BY Busy, KeyParts DEF IInv, TypeOK, WorkInv, SeqInv, Untouched, InProgress,
     PrepareMessage, delivery
<1>3. FileInv'
  BY Busy, KeyParts DEF IInv, TypeOK, FileInv, PrepareMessage, delivery
<1>4. SendInv'
  BY Busy, KeyParts DEF IInv, TypeOK, SendInv, PrepareMessage, delivery
<1>5. AnsweredDurable'
  <2>1. lastSeq + 1 \notin answered
    BY DEF IInv, TypeOK, SeqInv, Ids
  <2>2. ASSUME NEW m \in answered' PROVE m \in answered /\ to'[m] = to[m] /\ kind'[m] = kind[m]
    BY <2>1, <2>2 DEF TypeOK, IInv, PrepareMessage
  <2> QED
    BY <2>2 DEF IInv, AnsweredDurable, PrepareMessage
<1>6. AnsweredTracked'
  <2>1. lastSeq + 1 \notin answered
    BY DEF IInv, TypeOK, SeqInv, Ids
  <2>2. ASSUME NEW m \in answered' PROVE m \in answered /\ to'[m] = to[m]
    BY <2>1, <2>2 DEF TypeOK, IInv, PrepareMessage
  <2> QED
    BY <2>2 DEF IInv, AnsweredTracked, PrepareMessage, delivery
<1>7. AcceptedNotQueued'
  BY Busy, KeyParts DEF IInv, TypeOK, AcceptedNotQueued, PrepareMessage, delivery
<1> QED
  BY <1>1, <1>2, <1>3, <1>4, <1>5, <1>6, <1>7 DEF IInv

\* The number enters the log after the counter on disk has reached it.
LEMMA RecordMessageSafe ==
  ASSUME IInv, TypeOK', RecordMessage
  PROVE  IInv'
<1>1. SeqInv'
  <2>1. lastSeq' = diskSeq' /\ (\A m \in log' : m <= lastSeq') /\ answered' \subseteq log'
    BY DEF IInv, TypeOK, SeqInv, WorkInv, RecordMessage, world, delivery
  <2>2. ASSUME NEW k \in Keys, k[1] \notin log' PROVE Untouched(k)'
    BY <2>2 DEF IInv, SeqInv, Untouched, RecordMessage, delivery, world
  <2> QED
    BY <2>1, <2>2 DEF SeqInv
<1>2. WorkInv'
  BY Busy, KeyParts DEF IInv, TypeOK, WorkInv, SeqInv, Untouched, InProgress,
     RecordMessage, world, delivery
<1>3. FileInv'
  BY Busy, KeyParts DEF IInv, TypeOK, FileInv, RecordMessage, world, delivery
<1>4. SendInv'
  BY Busy, KeyParts DEF IInv, TypeOK, SendInv, RecordMessage, world, delivery
<1>5. AnsweredDurable'
  BY Busy, KeyParts DEF IInv, TypeOK, AnsweredDurable, RecordMessage, world, delivery
<1>6. AnsweredTracked'
  BY Busy, KeyParts DEF IInv, TypeOK, AnsweredTracked, RecordMessage, world, delivery
<1>7. AcceptedNotQueued'
  BY Busy, KeyParts DEF IInv, TypeOK, AcceptedNotQueued, RecordMessage, world, delivery
<1> QED
  BY <1>1, <1>2, <1>3, <1>4, <1>5, <1>6, <1>7 DEF IInv

\* The first delivery to a recipient writes its inbox file before anything else.
LEMMA DeliverToInboxSafe ==
  ASSUME IInv, TypeOK', NEW a \in Agents, DeliverToInbox(a)
  PROVE  IInv'
<1>1. SeqInv'
  <2>1. lastSeq' = diskSeq' /\ (\A m \in log' : m <= lastSeq') /\ answered' \subseteq log'
    BY DEF IInv, TypeOK, SeqInv, DeliverToInbox, EnqueueCopy, delivery
  <2>2. ASSUME NEW k \in Keys, k[1] \notin log' PROVE Untouched(k)'
    <3>1. k # <<current, a>> /\ k[1] # current
      BY <2>2 DEF IInv, WorkInv, InProgress, DeliverToInbox
    <3>2. Untouched(k)
      BY <2>2 DEF IInv, SeqInv, DeliverToInbox
    <3>3. <<current, a>> \in Keys /\ a \in Agents
      BY Busy DEF IInv, TypeOK, DeliverToInbox
    <3> QED
      BY <3>1, <3>2, <3>3, KeyParts DEF IInv, TypeOK, Untouched, DeliverToInbox, EnqueueCopy
  <2> QED
    BY <2>1, <2>2 DEF SeqInv
<1>2. WorkInv'
  BY Busy, KeyParts DEF IInv, TypeOK, WorkInv, SeqInv, Untouched, InProgress,
     DeliverToInbox, EnqueueCopy, delivery
<1>3. FileInv'
  BY Busy, KeyParts DEF IInv, TypeOK, FileInv, DeliverToInbox, EnqueueCopy, delivery
<1>4. SendInv'
  <2>1. <<current, a>> \in Keys
    BY Busy DEF IInv, TypeOK, DeliverToInbox
  <2>2. sends[<<current, a>>] = 0
    BY DEF IInv, WorkInv, InProgress, Untouched, DeliverToInbox
  <2>3. ASSUME NEW k \in Keys, k # <<current, a>>
        PROVE  sends'[k] = sends[k] /\ retries'[k] = retries[k] /\ status'[k] = status[k]
    BY <2>1, <2>3 DEF IInv, TypeOK, DeliverToInbox, EnqueueCopy
  <2>4. sends'[<<current, a>>] = 1 /\ retries'[<<current, a>>] \in Nat /\ status'[<<current, a>>] = "delivered"
    BY <2>1, <2>2, RouterAssumption DEF IInv, TypeOK, DeliverToInbox, EnqueueCopy
  <2> QED
    BY <2>1, <2>3, <2>4 DEF IInv, SendInv
<1>5. AnsweredDurable'
  BY Busy, KeyParts DEF IInv, TypeOK, AnsweredDurable, DeliverToInbox, EnqueueCopy, delivery
<1>6. AnsweredTracked'
  <2> SUFFICES ASSUME NEW m \in answered', NEW b \in to'[m]
               PROVE  (<<m, b>> \in confirmed \/ status[<<m, b>>] \in {"delivered", "failed"})'
    BY DEF AnsweredTracked
  <2>1. m \in Ids /\ b \in Agents /\ <<m, b>> \in Keys
    BY TypeOK' DEF TypeOK, Keys
  <2> QED
    BY <2>1 DEF IInv, TypeOK, SeqInv, AnsweredTracked, DeliverToInbox, EnqueueCopy, delivery
<1>7. AcceptedNotQueued'
  BY Busy, KeyParts DEF IInv, TypeOK, AcceptedNotQueued, DeliverToInbox, EnqueueCopy,
     delivery
<1> QED
  BY <1>1, <1>2, <1>3, <1>4, <1>5, <1>6, <1>7 DEF IInv

\* The router's own ack concerns the recipient just served, none of those left.
LEMMA LogDeliveredSafe ==
  ASSUME IInv, TypeOK', LogDelivered
  PROVE  IInv'
<1>1. SeqInv'
  <2>1. lastSeq' = diskSeq' /\ (\A m \in log' : m <= lastSeq') /\ answered' \subseteq log'
    BY DEF IInv, TypeOK, SeqInv, LogDelivered, LogStage, world, delivery
  <2>2. ASSUME NEW k \in Keys, k[1] \notin log' PROVE Untouched(k)'
    <3>1. k[1] # current /\ Untouched(k)
      BY <2>2 DEF IInv, SeqInv, WorkInv, InProgress, LogDelivered
    <3>2. PICK a \in at : LogStage(<<current, a>>, "delivered")
      BY DEF LogDelivered
    <3>3. k # <<current, a>>
      BY <3>1
    <3> QED
      BY <3>1, <3>2, <3>3 DEF IInv, TypeOK, Untouched, LogDelivered, LogStage, delivery,
         world
  <2> QED
    BY <2>1, <2>2 DEF SeqInv
<1>2. WorkInv'
  <2>1. current \in log /\ current \notin answered /\ InProgress'
    BY DEF IInv, WorkInv, InProgress, LogDelivered
  <2>2. ASSUME NEW a \in left PROVE Untouched(<<current, a>>)'
    <3>1. PICK b \in at : LogStage(<<current, b>>, "delivered")
      BY DEF LogDelivered
    <3>2. b \notin left
      BY <3>1 DEF IInv, WorkInv, InProgress, LogDelivered
    <3>3. Untouched(<<current, a>>) /\ <<current, a>> # <<current, b>>
      BY <3>2 DEF IInv, WorkInv, InProgress, LogDelivered
    <3> QED
      BY <3>1, <3>3, Busy DEF IInv, TypeOK, Untouched, LogDelivered, LogStage, delivery,
         world
  <2> QED
    BY <2>1, <2>2 DEF IInv, WorkInv, InProgress, LogDelivered, delivery, world
<1>3. FileInv'
  BY Busy, KeyParts DEF IInv, TypeOK, FileInv, LogDelivered, LogStage, world, delivery
<1>4. SendInv'
  BY Busy, KeyParts DEF IInv, TypeOK, SendInv, LogDelivered, LogStage, world, delivery
<1>5. AnsweredDurable'
  BY Busy, KeyParts DEF IInv, TypeOK, AnsweredDurable, LogDelivered, LogStage, world,
     delivery
<1>6. AnsweredTracked'
  BY Busy, KeyParts DEF IInv, TypeOK, AnsweredTracked, LogDelivered, LogStage, world,
     delivery
<1>7. AcceptedNotQueued'
  BY Busy, KeyParts DEF IInv, TypeOK, AcceptedNotQueued, LogDelivered, LogStage, world,
     delivery
<1> QED
  BY <1>1, <1>2, <1>3, <1>4, <1>5, <1>6, <1>7 DEF IInv

\* Nobody is left: every recipient is owed the message, and the task is saved.
LEMMA AnswerMessageSafe ==
  ASSUME IInv, TypeOK', AnswerMessage
  PROVE  IInv'
<1>1. SeqInv'
  <2>1. lastSeq' = diskSeq' /\ (\A m \in log' : m <= lastSeq') /\ answered' \subseteq log'
    BY DEF IInv, TypeOK, SeqInv, WorkInv, InProgress, AnswerMessage, Release, delivery
  <2>2. ASSUME NEW k \in Keys, k[1] \notin log' PROVE Untouched(k)'
    BY <2>2 DEF IInv, SeqInv, Untouched, AnswerMessage, delivery
  <2> QED
    BY <2>1, <2>2 DEF SeqInv
<1>2. WorkInv'
  BY Busy, KeyParts DEF IInv, TypeOK, WorkInv, SeqInv, Untouched, InProgress,
     AnswerMessage, Release, delivery
<1>3. FileInv'
  BY Busy, KeyParts DEF IInv, TypeOK, FileInv, AnswerMessage, Release, delivery
<1>4. SendInv'
  BY Busy, KeyParts DEF IInv, TypeOK, SendInv, AnswerMessage, Release, delivery
<1>5. AnsweredDurable'
  <2>1. current \in log /\ \A a \in to[current] : current \in pending[a]
    BY DEF IInv, WorkInv, InProgress, AnswerMessage
  <2>2. kind[current] \in {"action", "type"} => current \in taskFile'
    BY DEF AnswerMessage
  <2>3. taskFile \subseteq taskFile'
    BY DEF IInv, FileInv, AnswerMessage
  <2> QED
    BY <2>1, <2>2, <2>3 DEF IInv, AnsweredDurable, AnswerMessage
<1>6. AnsweredTracked'
  <2>1. \A a \in to[current] : status[<<current, a>>] = "delivered"
    BY DEF IInv, WorkInv, InProgress, AnswerMessage
  <2> QED
    BY <2>1 DEF IInv, AnsweredTracked, AnswerMessage, delivery
<1>7. AcceptedNotQueued'
  BY Busy, KeyParts DEF IInv, TypeOK, AcceptedNotQueued, AnswerMessage, Release, delivery
<1> QED
  BY <1>1, <1>2, <1>3, <1>4, <1>5, <1>6, <1>7 DEF IInv

\* An accepted ack settles the key on disk and takes its copies out of memory.
LEMMA ReceiveAcceptedSafe ==
  ASSUME IInv, TypeOK', NEW k \in Keys, ReceiveAccepted(k)
  PROVE  IInv'
<1>1. SeqInv'
  BY Busy, KeyParts DEF IInv, TypeOK, SeqInv, Untouched, ReceiveAccepted, AckNext,
     RemoveFromInbox
<1>2. WorkInv'
  BY Busy, KeyParts DEF IInv, TypeOK, WorkInv, SeqInv, Untouched, InProgress,
     ReceiveAccepted, AckNext, RemoveFromInbox
<1>3. FileInv'
  BY Busy, KeyParts DEF IInv, TypeOK, FileInv, ReceiveAccepted, AckNext, RemoveFromInbox
<1>4. SendInv'
  BY Busy, KeyParts DEF IInv, TypeOK, SendInv, ReceiveAccepted, AckNext, RemoveFromInbox
<1>5. AnsweredDurable'
  BY Busy, KeyParts DEF IInv, TypeOK, AnsweredDurable, ReceiveAccepted, AckNext,
     RemoveFromInbox
<1>6. AnsweredTracked'
  <2> SUFFICES ASSUME NEW m \in answered', NEW a \in to'[m]
               PROVE  (<<m, a>> \in confirmed \/ status[<<m, a>>] \in {"delivered", "failed"})'
    BY DEF AnsweredTracked
  <2>1. m \in Ids /\ a \in Agents /\ <<m, a>> \in Keys
    BY TypeOK' DEF TypeOK, Keys
  <2> QED
    BY <2>1 DEF IInv, TypeOK, SeqInv, AnsweredTracked, ReceiveAccepted, AckNext,
       RemoveFromInbox
<1>7. AcceptedNotQueued'
  BY Busy, KeyParts DEF IInv, TypeOK, AcceptedNotQueued, ReceiveAccepted, AckNext,
     RemoveFromInbox
<1> QED
  BY <1>1, <1>2, <1>3, <1>4, <1>5, <1>6, <1>7 DEF IInv

\* A nack leaves the inbox file alone and marks the delivery failed.
LEMMA ReceiveNackSafe ==
  ASSUME IInv, TypeOK', NEW k \in Keys, ReceiveNack(k)
  PROVE  IInv'
<1>1. SeqInv'
  BY Busy, KeyParts DEF IInv, TypeOK, SeqInv, Untouched, ReceiveNack, AckNext, world
<1>2. WorkInv'
  BY Busy, KeyParts DEF IInv, TypeOK, WorkInv, SeqInv, Untouched, InProgress, ReceiveNack,
     AckNext, world
<1>3. FileInv'
  BY Busy, KeyParts DEF IInv, TypeOK, FileInv, ReceiveNack, AckNext, world
<1>4. SendInv'
  BY Busy, KeyParts DEF IInv, TypeOK, SendInv, ReceiveNack, AckNext, world
<1>5. AnsweredDurable'
  BY Busy, KeyParts DEF IInv, TypeOK, AnsweredDurable, ReceiveNack, AckNext, world
<1>6. AnsweredTracked'
  <2> SUFFICES ASSUME NEW m \in answered', NEW a \in to'[m]
               PROVE  (<<m, a>> \in confirmed \/ status[<<m, a>>] \in {"delivered", "failed"})'
    BY DEF AnsweredTracked
  <2>1. m \in Ids /\ a \in Agents /\ <<m, a>> \in Keys
    BY TypeOK' DEF TypeOK, Keys
  <2> QED
    BY <2>1 DEF IInv, TypeOK, SeqInv, AnsweredTracked, ReceiveNack, AckNext, world
<1>7. AcceptedNotQueued'
  BY Busy, KeyParts DEF IInv, TypeOK, AcceptedNotQueued, ReceiveNack, AckNext, world
<1> QED
  BY <1>1, <1>2, <1>3, <1>4, <1>5, <1>6, <1>7 DEF IInv

\* A repeated delivered ack changes a status and no file.
LEMMA ReceiveDeliveredSafe ==
  ASSUME IInv, TypeOK', NEW k \in Keys, ReceiveDelivered(k)
  PROVE  IInv'
<1>1. SeqInv'
  BY Busy, KeyParts DEF IInv, TypeOK, SeqInv, Untouched, ReceiveDelivered, AckNext, world,
     files
<1>2. WorkInv'
  BY Busy, KeyParts DEF IInv, TypeOK, WorkInv, SeqInv, Untouched, InProgress,
     ReceiveDelivered, AckNext, world, files
<1>3. FileInv'
  BY Busy, KeyParts DEF IInv, TypeOK, FileInv, ReceiveDelivered, AckNext, world, files
<1>4. SendInv'
  BY Busy, KeyParts DEF IInv, TypeOK, SendInv, ReceiveDelivered, AckNext, world, files
<1>5. AnsweredDurable'
  BY Busy, KeyParts DEF IInv, TypeOK, AnsweredDurable, ReceiveDelivered, AckNext, world,
     files
<1>6. AnsweredTracked'
  <2> SUFFICES ASSUME NEW m \in answered', NEW a \in to'[m]
               PROVE  (<<m, a>> \in confirmed \/ status[<<m, a>>] \in {"delivered", "failed"})'
    BY DEF AnsweredTracked
  <2>1. m \in Ids /\ a \in Agents /\ <<m, a>> \in Keys
    BY TypeOK' DEF TypeOK, Keys
  <2> QED
    BY <2>1 DEF IInv, TypeOK, SeqInv, AnsweredTracked, ReceiveDelivered, AckNext, world,
       files
<1>7. AcceptedNotQueued'
  BY Busy, KeyParts DEF IInv, TypeOK, AcceptedNotQueued, ReceiveDelivered, AckNext, world,
     files
<1> QED
  BY <1>1, <1>2, <1>3, <1>4, <1>5, <1>6, <1>7 DEF IInv

\* Only keys of logged messages get a line in the acks log.
LEMMA LogAckSafe ==
  ASSUME IInv, TypeOK', LogAck
  PROVE  IInv'
<1>1. SeqInv'
  <2>1. lastSeq' = diskSeq' /\ (\A m \in log' : m <= lastSeq') /\ answered' \subseteq log'
    BY DEF IInv, TypeOK, SeqInv, LogAck, LogStage, Release, world, delivery
  <2>2. ASSUME NEW k \in Keys, k[1] \notin log' PROVE Untouched(k)'
    <3>1. k[1] # current /\ Untouched(k)
      BY <2>2 DEF IInv, SeqInv, WorkInv, LogAck
    <3>2. PICK a \in at : LogStage(<<current, a>>, stage)
      BY DEF LogAck
    <3>3. k # <<current, a>>
      BY <3>1
    <3> QED
      BY <3>1, <3>2, <3>3 DEF IInv, TypeOK, Untouched, LogAck, LogStage, delivery, world
  <2> QED
    BY <2>1, <2>2 DEF SeqInv
<1>2. WorkInv'
  BY Busy, KeyParts DEF IInv, TypeOK, WorkInv, SeqInv, Untouched, InProgress, LogAck,
     LogStage, Release, world, delivery
<1>3. FileInv'
  BY Busy, KeyParts DEF IInv, TypeOK, FileInv, LogAck, LogStage, Release, world, delivery
<1>4. SendInv'
  BY Busy, KeyParts DEF IInv, TypeOK, SendInv, LogAck, LogStage, Release, world, delivery
<1>5. AnsweredDurable'
  BY Busy, KeyParts DEF IInv, TypeOK, AnsweredDurable, LogAck, LogStage, Release, world,
     delivery
<1>6. AnsweredTracked'
  BY Busy, KeyParts DEF IInv, TypeOK, AnsweredTracked, LogAck, LogStage, Release, world,
     delivery
<1>7. AcceptedNotQueued'
  BY Busy, KeyParts DEF IInv, TypeOK, AcceptedNotQueued, LogAck, LogStage, Release, world,
     delivery
<1> QED
  BY <1>1, <1>2, <1>3, <1>4, <1>5, <1>6, <1>7 DEF IInv

\* A pop forgets a copy in memory and nothing else.
LEMMA PopInboxSafe ==
  ASSUME IInv, TypeOK', NEW k \in Keys, PopInbox(k)
  PROVE  IInv'
<1>1. SeqInv'
  BY Busy, KeyParts DEF IInv, TypeOK, SeqInv, Untouched, PopInbox, files, delivery, handler
<1>2. WorkInv'
  BY Busy, KeyParts DEF IInv, TypeOK, WorkInv, SeqInv, Untouched, InProgress, PopInbox,
     files, delivery, handler
<1>3. FileInv'
  BY Busy, KeyParts DEF IInv, TypeOK, FileInv, PopInbox, files, delivery, handler
<1>4. SendInv'
  BY Busy, KeyParts DEF IInv, TypeOK, SendInv, PopInbox, files, delivery, handler
<1>5. AnsweredDurable'
  BY Busy, KeyParts DEF IInv, TypeOK, AnsweredDurable, PopInbox, files, delivery, handler
<1>6. AnsweredTracked'
  BY Busy, KeyParts DEF IInv, TypeOK, AnsweredTracked, PopInbox, files, delivery, handler
<1>7. AcceptedNotQueued'
  BY Busy, KeyParts DEF IInv, TypeOK, AcceptedNotQueued, PopInbox, files, delivery, handler
<1> QED
  BY <1>1, <1>2, <1>3, <1>4, <1>5, <1>6, <1>7 DEF IInv

\* Timers are no part of the invariant.
LEMMA TimerLapsesSafe ==
  ASSUME IInv, TypeOK', NEW k \in Keys, TimerLapses(k)
  PROVE  IInv'
<1>1. SeqInv'
  BY Busy, KeyParts DEF IInv, TypeOK, SeqInv, Untouched, TimerLapses, files, handler, world
<1>2. WorkInv'
  BY Busy, KeyParts DEF IInv, TypeOK, WorkInv, SeqInv, Untouched, InProgress, TimerLapses,
     files, handler, world
<1>3. FileInv'
  BY Busy, KeyParts DEF IInv, TypeOK, FileInv, TimerLapses, files, handler, world
<1>4. SendInv'
  BY Busy, KeyParts DEF IInv, TypeOK, SendInv, TimerLapses, files, handler, world
<1>5. AnsweredDurable'
  BY Busy, KeyParts DEF IInv, TypeOK, AnsweredDurable, TimerLapses, files, handler, world
<1>6. AnsweredTracked'
  BY Busy, KeyParts DEF IInv, TypeOK, AnsweredTracked, TimerLapses, files, handler, world
<1>7. AcceptedNotQueued'
  BY Busy, KeyParts DEF IInv, TypeOK, AcceptedNotQueued, TimerLapses, files, handler, world
<1> QED
  BY <1>1, <1>2, <1>3, <1>4, <1>5, <1>6, <1>7 DEF IInv

\* Deadlines are no part of the invariant.
LEMMA DeadlinePassesSafe ==
  ASSUME IInv, TypeOK', NEW m \in Ids, DeadlinePasses(m)
  PROVE  IInv'
<1>1. SeqInv'
  BY Busy, KeyParts DEF IInv, TypeOK, SeqInv, Untouched, DeadlinePasses, files, process,
     delivery, handler
<1>2. WorkInv'
  BY Busy, KeyParts DEF IInv, TypeOK, WorkInv, SeqInv, Untouched, InProgress,
     DeadlinePasses, files, process, delivery, handler
<1>3. FileInv'
  BY Busy, KeyParts DEF IInv, TypeOK, FileInv, DeadlinePasses, files, process, delivery,
     handler
<1>4. SendInv'
  BY Busy, KeyParts DEF IInv, TypeOK, SendInv, DeadlinePasses, files, process, delivery,
     handler
<1>5. AnsweredDurable'
  BY Busy, KeyParts DEF IInv, TypeOK, AnsweredDurable, DeadlinePasses, files, process,
     delivery, handler
<1>6. AnsweredTracked'
  BY Busy, KeyParts DEF IInv, TypeOK, AnsweredTracked, DeadlinePasses, files, process,
     delivery, handler
<1>7. AcceptedNotQueued'
  BY Busy, KeyParts DEF IInv, TypeOK, AcceptedNotQueued, DeadlinePasses, files, process,
     delivery, handler
<1> QED
  BY <1>1, <1>2, <1>3, <1>4, <1>5, <1>6, <1>7 DEF IInv

\* A failure, of a deadline or of a spent budget, keeps the pending id.
LEMMA MarkFailedSafe ==
  ASSUME IInv, TypeOK', NEW k \in Keys, op = "idle", Unsettled(k), MarkFailed(k)
  PROVE  IInv'
<1>1. SeqInv'
  BY Busy, KeyParts DEF IInv, TypeOK, SeqInv, Untouched, MarkFailed, Unsettled, handler,
     world
<1>2. WorkInv'
  BY Busy, KeyParts DEF IInv, TypeOK, WorkInv, SeqInv, Untouched, InProgress, MarkFailed,
     Unsettled, handler, world
<1>3. FileInv'
  BY Busy, KeyParts DEF IInv, TypeOK, FileInv, MarkFailed, Unsettled, handler, world
<1>4. SendInv'
  BY Busy, KeyParts DEF IInv, TypeOK, SendInv, MarkFailed, Unsettled, handler, world
<1>5. AnsweredDurable'
  BY Busy, KeyParts DEF IInv, TypeOK, AnsweredDurable, MarkFailed, Unsettled, handler, world
<1>6. AnsweredTracked'
  <2> SUFFICES ASSUME NEW m \in answered', NEW a \in to'[m]
               PROVE  (<<m, a>> \in confirmed \/ status[<<m, a>>] \in {"delivered", "failed"})'
    BY DEF AnsweredTracked
  <2>1. m \in Ids /\ a \in Agents /\ <<m, a>> \in Keys
    BY TypeOK' DEF TypeOK, Keys
  <2> QED
    BY <2>1 DEF IInv, TypeOK, SeqInv, AnsweredTracked, MarkFailed, Unsettled, handler, world
<1>7. AcceptedNotQueued'
  BY Busy, KeyParts DEF IInv, TypeOK, AcceptedNotQueued, MarkFailed, Unsettled, handler,
     world
<1> QED
  BY <1>1, <1>2, <1>3, <1>4, <1>5, <1>6, <1>7 DEF IInv

\* A retry counts itself and owes the recipient what it was owed before.
LEMMA RetrySafe ==
  ASSUME IInv, TypeOK', NEW k \in Keys, Retry(k)
  PROVE  IInv'
<1>1. SeqInv'
  BY Busy, KeyParts DEF IInv, TypeOK, SeqInv, Untouched, Retry, EnqueueCopy, OutOfRetries,
     Unsettled, handler
<1>2. WorkInv'
  BY Busy, KeyParts DEF IInv, TypeOK, WorkInv, SeqInv, Untouched, InProgress, Retry,
     EnqueueCopy, OutOfRetries, Unsettled, handler
<1>3. FileInv'
  BY Busy, KeyParts DEF IInv, TypeOK, FileInv, Retry, EnqueueCopy, OutOfRetries,
     Unsettled, handler
<1>4. SendInv'
  BY Busy, KeyParts DEF IInv, TypeOK, SendInv, Retry, EnqueueCopy, OutOfRetries,
     Unsettled, handler
<1>5. AnsweredDurable'
  BY Busy, KeyParts DEF IInv, TypeOK, AnsweredDurable, Retry, EnqueueCopy, OutOfRetries,
     Unsettled, handler
<1>6. AnsweredTracked'
  <2> SUFFICES ASSUME NEW m \in answered', NEW a \in to'[m]
               PROVE  (<<m, a>> \in confirmed \/ status[<<m, a>>] \in {"delivered", "failed"})'
    BY DEF AnsweredTracked
  <2>1. m \in Ids /\ a \in Agents /\ <<m, a>> \in Keys
    BY TypeOK' DEF TypeOK, Keys
  <2> QED
    BY <2>1 DEF IInv, TypeOK, SeqInv, AnsweredTracked, Retry, EnqueueCopy, OutOfRetries,
       Unsettled, handler
<1>7. AcceptedNotQueued'
  BY Busy, KeyParts DEF IInv, TypeOK, AcceptedNotQueued, Retry, EnqueueCopy, OutOfRetries,
     Unsettled, handler
<1> QED
  BY <1>1, <1>2, <1>3, <1>4, <1>5, <1>6, <1>7 DEF IInv

\* What a start recovers is what the files owe: every answered delivery nobody
\* accepted is queued and tracked again.
LEMMA RestartSafe ==
  ASSUME IInv, TypeOK', Restart
  PROVE  IInv'
<1>1. SeqInv'
  BY Busy, KeyParts DEF IInv, TypeOK, SeqInv, Untouched, Restart, LoadHistory,
     RecoveredTasks, Recovered, Rebuilt, RecoveredSeq, Release, files
<1>2. WorkInv'
  BY Busy, KeyParts DEF IInv, TypeOK, WorkInv, SeqInv, Untouched, InProgress, Restart,
     LoadHistory, RecoveredTasks, Recovered, Rebuilt, RecoveredSeq, Release, files
<1>3. FileInv'
  BY Busy, KeyParts DEF IInv, TypeOK, FileInv, Restart, LoadHistory, RecoveredTasks,
     Recovered, Rebuilt, RecoveredSeq, Release, files
<1>4. SendInv'
  BY Busy, KeyParts DEF IInv, TypeOK, SendInv, Restart, LoadHistory, RecoveredTasks,
     Recovered, Rebuilt, RecoveredSeq, Release, files
<1>5. AnsweredDurable'
  BY Busy, KeyParts DEF IInv, TypeOK, AnsweredDurable, Restart, LoadHistory,
     RecoveredTasks, Recovered, Rebuilt, RecoveredSeq, Release, files
<1>6. AnsweredTracked'
  <2> SUFFICES ASSUME NEW m \in answered', NEW a \in to'[m]
               PROVE  (<<m, a>> \in confirmed \/ status[<<m, a>>] \in {"delivered", "failed"})'
    BY DEF AnsweredTracked
  <2>1. m \in Ids /\ a \in Agents /\ <<m, a>> \in Keys
    BY TypeOK' DEF TypeOK, Keys
  <2>2. m \in pending[a] \/ <<m, a>> \in confirmed
    BY DEF IInv, AnsweredDurable, Restart
  <2>3. ASSUME m \in pending[a] PROVE <<m, a>> \in Recovered
    BY <2>1, <2>3 DEF IInv, FileInv, Recovered
  <2> QED
    BY <2>1, <2>2, <2>3 DEF Restart, LoadHistory
<1>7. AcceptedNotQueued'
  BY Busy, KeyParts DEF IInv, TypeOK, AcceptedNotQueued, Restart, LoadHistory,
     RecoveredTasks, Recovered, Rebuilt, RecoveredSeq, Release, files
<1> QED
  BY <1>1, <1>2, <1>3, <1>4, <1>5, <1>6, <1>7 DEF IInv

-----------------------------------------------------------------------------
(* The theorems *)

\* An empty workspace satisfies the invariant.
LEMMA InitSafe == Init => IInv
<1> SUFFICES ASSUME Init PROVE IInv
  OBVIOUS
<1>1. TypeOK
  BY TypeInit
<1>2. SeqInv
  BY KeyParts DEF Init, SeqInv, Untouched
<1>3. WorkInv /\ FileInv
  BY DEF Init, WorkInv, FileInv, InProgress
<1>4. SendInv
  BY DEF Init, SendInv
<1>5. AnsweredDurable /\ AnsweredTracked /\ AcceptedNotQueued
  BY DEF Init, AnsweredDurable, AnsweredTracked, AcceptedNotQueued
<1> QED
  BY <1>1, <1>2, <1>3, <1>4, <1>5 DEF IInv

\* Every step of the specification preserves the invariant.
LEMMA NextSafe == IInv /\ [Next]_vars => IInv'
<1> SUFFICES ASSUME IInv, [Next]_vars PROVE IInv'
  OBVIOUS
<1>1. TypeOK'
  BY TypeStep DEF IInv
<1>2. CASE Clients
  BY <1>1, <1>2, PrepareMessageSafe, PopInboxSafe, ReceiveAcceptedSafe, ReceiveNackSafe,
     ReceiveDeliveredSafe DEF Clients
<1>3. CASE Proceed
  BY <1>1, <1>3, RecordMessageSafe, DeliverToInboxSafe, LogDeliveredSafe, AnswerMessageSafe,
     LogAckSafe DEF Proceed
<1>4. CASE Lapse
  BY <1>1, <1>4, TimerLapsesSafe DEF Lapse
<1>5. CASE Sweep
  BY <1>1, <1>5, MarkFailedSafe, RetrySafe DEF Sweep, Expire, GiveUp
<1>6. ASSUME NEW m \in Ids, DeadlinePasses(m) PROVE IInv'
  BY <1>1, <1>6, DeadlinePassesSafe
<1>7. CASE Restart
  BY <1>1, <1>7, RestartSafe
<1>8. CASE UNCHANGED vars
  BY <1>1, <1>8 DEF IInv, SeqInv, Untouched, WorkInv, InProgress, FileInv, SendInv,
     AnsweredDurable, AnsweredTracked, AcceptedNotQueued,
     vars, files, process, world, delivery, handler
<1> QED
  BY <1>2, <1>3, <1>4, <1>5, <1>6, <1>7, <1>8 DEF Next

\* The invariant holds in every reachable state of every instance.
THEOREM Invariance == Spec => []IInv
BY InitSafe, NextSafe, PTL DEF Spec

\* Every variable keeps its type, retry counters their bound included.
THEOREM TypeCorrect == Spec => []TypeOK
<1>1. IInv => TypeOK
  BY DEF IInv
<1> QED
  BY <1>1, Invariance, PTL

\* What receive_message answered is owed on disk to every recipient that has not
\* accepted it, through kills at any step and any number of restarts.
THEOREM DurableAfterAnswer == Spec => []AnsweredDurable
<1>1. IInv => AnsweredDurable
  BY DEF IInv
<1> QED
  BY <1>1, Invariance, PTL

\* The running router tracks every answered delivery nobody accepted.
THEOREM TrackedAfterAnswer == Spec => []AnsweredTracked
<1>1. IInv => AnsweredTracked
  BY DEF IInv
<1> QED
  BY <1>1, Invariance, PTL

\* An accepted delivery has no copy left in any in-memory inbox.
THEOREM NoCopyAfterAccept == Spec => []AcceptedNotQueued
<1>1. IInv => AcceptedNotQueued
  BY DEF IInv
<1> QED
  BY <1>1, Invariance, PTL

\* One start delivers a message to an agent at most 1 + max_retries times.
THEOREM DeliveryBudget == Spec => []RetryBudget
<1>1. IInv => RetryBudget
  BY RouterAssumption DEF IInv, TypeOK, SendInv, RetryBudget
<1> QED
  BY <1>1, Invariance, PTL

\* A number is never used twice: whatever is logged is numbered above the log.
THEOREM NumbersIncrease == Spec => SeqMonotone
<1> DEFINE Above == op = "record" /\ op' = "deliver" => \A n \in log : n < current
<1>1. ASSUME IInv, op = "record" PROVE \A n \in log : n < current
  <2>1. current = lastSeq /\ current \notin log /\ \A n \in log : n <= lastSeq
    BY <1>1 DEF IInv, SeqInv, WorkInv
  <2>2. current \in Int /\ log \subseteq Int
    BY <1>1, RouterAssumption DEF IInv, TypeOK, Ids
  <2> QED
    BY <2>1, <2>2
<1>2. IInv /\ [Next]_vars => [Above]_vars
  BY <1>1
<1> QED
  BY <1>2, Invariance, PTL DEF Spec, SeqMonotone

\* This start never enqueues again what is accepted or reported as failed.
THEOREM SettledStaysOut == Spec => SettledNotResent
<1> DEFINE Quiet == \A k \in Keys :
                      status[k] \in {"accepted", "failed"} /\ epoch' = epoch
                        => sends'[k] = sends[k]
<1>1. ASSUME IInv, NEW a \in Agents, DeliverToInbox(a) PROVE Quiet
  <2>1. <<current, a>> \in Keys /\ status[<<current, a>>] = "none"
    BY <1>1, Busy DEF IInv, TypeOK, WorkInv, InProgress, Untouched, DeliverToInbox
  <2> QED
    BY <1>1, <2>1 DEF IInv, TypeOK, DeliverToInbox, EnqueueCopy
<1>2. ASSUME IInv, NEW j \in Keys, Retry(j) PROVE Quiet
  BY <1>2 DEF IInv, TypeOK, Retry, Unsettled, EnqueueCopy
<1>3. ASSUME IInv, Restart PROVE Quiet
  BY <1>3 DEF IInv, TypeOK, Restart
<1>4. ASSUME IInv, [Next]_vars, \A a \in Agents : ~DeliverToInbox(a), \A j \in Keys : ~Retry(j), ~Restart
      PROVE  sends' = sends
  BY <1>4 DEF Next, Clients, Proceed, Lapse, Sweep, PrepareMessage, RecordMessage,
     LogDelivered,
     AnswerMessage, ReceiveAccepted, ReceiveNack, ReceiveDelivered, LogAck, PopInbox,
     TimerLapses, DeadlinePasses, Expire, GiveUp, MarkFailed, world, vars
<1>5. IInv /\ [Next]_vars => [Quiet]_vars
  BY <1>1, <1>2, <1>3, <1>4
<1> QED
  BY <1>5, Invariance, PTL DEF Spec, SettledNotResent
=============================================================================
