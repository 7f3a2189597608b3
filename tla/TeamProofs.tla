----------------------------- MODULE TeamProofs -----------------------------
(***************************************************************************)
(* Safety of the command line clients of the Router (team listen, the      *)
(* shell proxy, the commands that wait) and of the scheduler library       *)
(* (locks, stages, layers, plans, runs), for any mail, agents, files,      *)
(* tasks, flows and answers of a model.                                    *)
(***************************************************************************)
EXTENDS Decomposition, Listener, ShellProxy, TeamCommands, Collaboration, Pipeline,
        FiniteSetTheorems, SequenceTheorems, Integers, Planning, TaskRun, Induction,
        TLAPS

-----------------------------------------------------------------------------
\* team listen.  What is accepted and never acted upon is paid for by a start that died.

Lost == {m \in Mail : delivery[m] = "accepted"} \ acted

ListenType ==
  /\ starts \in Nat
  /\ phase \in {"down", "pull", "ack", "act", "pulled"}
  /\ delivery \in [Mail -> {"none", "delivered", "accepted", "failed"}]

\* A start that runs has lost nothing yet, but for the message it is at
LostInv ==
  /\ Cardinality(Lost) <= starts
  /\ phase \in {"pull", "ack"} => Cardinality(Lost) < starts
  /\ phase = "act" => Cardinality(Lost \ {Head(batch)}) < starts

ListenInv == ListenType /\ LostInv

-----------------------------------------------------------------------------
\* What is lost is a finite set, with a message or without.
LEMMA LostFinite ==
  /\ IsFiniteSet(Lost) /\ IsFiniteSet(Lost')
  /\ Cardinality(Lost) \in Nat /\ Cardinality(Lost') \in Nat
  /\ \A m : IsFiniteSet(Lost \ {m}) /\ Cardinality(Lost \ {m}) \in Nat
  /\ \A m : Cardinality(Lost) <= Cardinality(Lost \ {m}) + 1
<1>1. Lost \in SUBSET Mail /\ Lost' \in SUBSET Mail
  BY DEF Lost
<1>2. IsFiniteSet(Lost) /\ IsFiniteSet(Lost')
  BY <1>1, InboxAssumption, FS_Subset
<1>3. Cardinality(Lost) \in Nat /\ Cardinality(Lost') \in Nat
  BY <1>2, FS_CardinalityType
<1>4. ASSUME NEW m
      PROVE  /\ IsFiniteSet(Lost \ {m}) /\ Cardinality(Lost \ {m}) \in Nat
             /\ Cardinality(Lost) <= Cardinality(Lost \ {m}) + 1
  <2>1. IsFiniteSet(Lost \ {m}) /\ Cardinality(Lost \ {m}) \in Nat
    BY <1>2, FS_RemoveElement, FS_CardinalityType
  <2>2. Cardinality(Lost \ {m}) = IF m \in Lost THEN Cardinality(Lost) - 1 ELSE Cardinality(Lost)
    BY <1>2, FS_RemoveElement
  <2> QED
    BY <1>3, <2>1, <2>2
<1> QED
  BY <1>2, <1>3, <1>4

\* Fewer messages lost are no more than before.
LEMMA NoneLost ==
  ASSUME NEW S, IsFiniteSet(S), Lost' \subseteq S
  PROVE  Cardinality(Lost') <= Cardinality(S)
BY FS_Subset

LEMMA OneMore ==
  ASSUME NEW S, IsFiniteSet(S), NEW x
  PROVE  IsFiniteSet(S \cup {x}) /\ Cardinality(S \cup {x}) <= Cardinality(S) + 1
<1>1. Cardinality(S) \in Nat
  BY FS_CardinalityType
<1>2. /\ IsFiniteSet(S \cup {x})
      /\ Cardinality(S \cup {x}) = IF x \in S THEN Cardinality(S) ELSE Cardinality(S) + 1
  BY FS_AddElement
<1> QED BY <1>1, <1>2

\* Nothing the Router does on its own accepts a message.
LEMMA RouterLosesNothing ==
  ASSUME ListenType, RouterStep, UNCHANGED acted
  PROVE  delivery' \in [Mail -> {"none", "delivered", "accepted", "failed"}] /\ Lost' = Lost
<1> PICK m \in Mail : Post(m) \/ Redeliver(m) \/ Undeliverable(m)
  BY DEF RouterStep
<1>1. delivery[m] # "accepted" /\ \E st \in {"delivered", "failed"} : delivery' = [delivery EXCEPT ![m] = st]
  BY DEF Post, Redeliver, Undeliverable, Enqueue
<1> QED
  BY <1>1 DEF Lost, ListenType

\* The invariant holds in every reachable state.
THEOREM ListenInvariance == ListenSpec => []ListenInv
<1>1. ListenInit => ListenInv
  <2> SUFFICES ASSUME ListenInit PROVE ListenInv
    OBVIOUS
  <2>1. Lost = {} /\ Cardinality({}) = 0
    BY FS_EmptySet DEF ListenInit, InboxInit, Lost
  <2> QED
    BY <2>1 DEF ListenInit, InboxInit, ListenInv, ListenType, LostInv
<1>2. ListenInv /\ [ListenNext]_listenVars => ListenInv'
  <2> SUFFICES ASSUME ListenInv, [ListenNext]_listenVars PROVE ListenInv'
    OBVIOUS
  <2> USE DEF ListenInv, ListenType, LostInv
  <2>1. CASE RouterStep /\ UNCHANGED <<starts, options, phase, batch, pending, file, acted>>
    BY <2>1, RouterLosesNothing
  <2>2. CASE Start
    <3>1. Lost' = Lost
      BY <2>2 DEF Start, inboxVars, Lost
    <3> QED
      BY <2>2, <3>1, LostFinite DEF Start, inboxVars
  <2>3. CASE Die \/ FinishPull
    <3>1. Lost' = Lost
      BY <2>3 DEF Die, FinishPull, inboxVars, Lost
    <3> QED
      BY <2>3, <3>1, LostFinite DEF Die, FinishPull, inboxVars
  <2>4. CASE PullOnce
    <3>1. Lost' = Lost
      BY <2>4 DEF PullOnce, Popped, Lost
    <3> QED
      BY <2>4, <3>1 DEF PullOnce, Popped
  <2>5. CASE Accept
    <3>1. Lost' \subseteq Lost \cup {Head(batch)} /\ ListenType'
      BY <2>5 DEF Accept, PostAck, inboxVars, Lost
    <3>2. Cardinality((Lost \ {Head(batch)})') <= Cardinality(Lost)
      BY <2>5, <3>1, LostFinite, FS_Subset DEF Accept
    <3>3. Cardinality(Lost') <= Cardinality(Lost) + 1
      <4>1. /\ IsFiniteSet(Lost \cup {Head(batch)})
            /\ Cardinality(Lost \cup {Head(batch)}) <= Cardinality(Lost) + 1
        BY LostFinite, OneMore
      <4>2. Cardinality(Lost') <= Cardinality(Lost \cup {Head(batch)})
        BY <3>1, <4>1, NoneLost
      <4>3. Cardinality(Lost \cup {Head(batch)}) \in Nat
        BY <4>1, FS_CardinalityType
      <4> QED
        BY <4>1, <4>2, <4>3, LostFinite
    <3>4. Cardinality((Lost \ {Head(batch)})') \in Nat
      BY LostFinite, FS_RemoveElement, FS_CardinalityType
    <3> QED
      BY <2>5, <3>1, <3>2, <3>3, <3>4, LostFinite DEF Accept
  <2>6. CASE ActOn
    <3>1. Lost' = Lost \ {Head(batch)}
      BY <2>6 DEF ActOn, inboxVars, Lost
    <3> QED
      BY <2>6, <3>1, LostFinite DEF ActOn, inboxVars
  <2>7. CASE UNCHANGED listenVars
    BY <2>7 DEF listenVars, inboxVars, Lost
  <2> QED
    BY <2>1, <2>2, <2>3, <2>4, <2>5, <2>6, <2>7 DEF ListenNext
<1> QED
  BY <1>1, <1>2, PTL DEF ListenSpec

\* listen acknowledges a message before it acts on it (handle_listen): each start loses
\* at most the one it was at, however many it pulls and however often it is killed.
THEOREM AtMostOnePerStart == ListenSpec => []AcceptedHandled
<1>1. ListenInv => AcceptedHandled
  BY DEF ListenInv, LostInv, Lost, AcceptedHandled
<1> QED
  BY <1>1, ListenInvariance, PTL

-----------------------------------------------------------------------------
\* The proxy.  The ids seen cover what waits to be typed and what was typed.

ProxyType ==
  /\ inbox \in Seq(Mail)
  /\ response = <<>> \/ \E m \in Mail : response = <<m>>
  /\ message_queue \in Seq(Mail)
  /\ typed \in [Mail -> Nat]

\* What waits is seen, waits once, and has not been typed
QueueInv ==
  \A i \in DOMAIN message_queue :
    /\ message_queue[i] \in seen_ids \ OwnMail /\ typed[message_queue[i]] = 0
    /\ \A j \in DOMAIN message_queue : message_queue[i] = message_queue[j] => i = j

TypedInv == \A m \in Mail : typed[m] <= 1 /\ (typed[m] = 1 => m \in seen_ids \ OwnMail)

ProxyInv == ProxyType /\ QueueInv /\ TypedInv

-----------------------------------------------------------------------------
\* The Router's own steps change nothing of the proxy's.
LEMMA RouterAlone ==
  ASSUME ProxyInv, RouterStep,
         UNCHANGED <<proxies, response, seen_ids, message_queue, typing, typed>>
  PROVE  ProxyInv'
<1> PICK m \in Mail : Post(m) \/ Redeliver(m) \/ Undeliverable(m)
  BY DEF RouterStep
<1>1. inbox' \in Seq(Mail)
  <2>1. inbox \in Seq(Mail)
    BY DEF ProxyInv, ProxyType
  <2>2. inbox' = Append(inbox, m) \/ inbox' = inbox
    BY DEF Post, Redeliver, Undeliverable, Enqueue
  <2> QED
    BY <2>1, <2>2
<1>2. ProxyType'
  BY <1>1 DEF ProxyInv, ProxyType
<1>3. QueueInv' /\ TypedInv'
  BY DEF ProxyInv, QueueInv, TypedInv
<1> QED
  BY <1>2, <1>3 DEF ProxyInv

\* A message nobody has seen goes to the end of the queue.
LEMMA QueueKeeps == ASSUME ProxyInv, Queue PROVE ProxyInv'
<1>1. PICK m \in Mail : response = <<m>>
  BY DEF Queue, Nothing, ProxyInv, ProxyType
<1>2. CASE ~New(m)
  BY <1>1, <1>2 DEF Queue, Nothing, inboxVars, ProxyInv, ProxyType, QueueInv, TypedInv
<1>3. CASE New(m)
  <2>1. /\ message_queue' = Append(message_queue, m) /\ seen_ids' = seen_ids \cup {m}
        /\ response' = <<>> /\ UNCHANGED <<inbox, typed>>
    BY <1>1, <1>3 DEF Queue, Nothing, inboxVars, ProxyInv, ProxyType
  <2>2. typed[m] = 0 /\ m \notin OwnMail /\ m \notin seen_ids
    BY <1>3 DEF New, ProxyInv, ProxyType, TypedInv
  <2> QED
    BY <2>1, <2>2 DEF ProxyInv, ProxyType, QueueInv, TypedInv
<1> QED
  BY <1>2, <1>3

\* What is typed leaves the queue, and what is left is still to be typed.
LEMMA InjectKeeps == ASSUME ProxyInv, Inject PROVE ProxyInv'
<1> DEFINE h == Head(message_queue)
<1>1. /\ message_queue # <<>> /\ h \in Mail /\ h \in seen_ids \ OwnMail /\ typed[h] = 0
      /\ \A i \in DOMAIN Tail(message_queue) : Tail(message_queue)[i] # h
  BY DEF Inject, ProxyInv, ProxyType, QueueInv
<1>2. Tail(message_queue) \in Seq(Mail)
  BY <1>1 DEF ProxyInv, ProxyType
<1>3. \A i \in DOMAIN Tail(message_queue) :
        i + 1 \in DOMAIN message_queue /\ Tail(message_queue)[i] = message_queue[i + 1]
  BY <1>1 DEF ProxyInv, ProxyType
<1>4. /\ message_queue' = Tail(message_queue) /\ UNCHANGED <<inbox, response, seen_ids>>
      /\ typed' = [typed EXCEPT ![h] = @ + 1] \/ typed' = typed
  BY DEF Inject, inboxVars
<1> HIDE DEF h
<1>5. ProxyType'
  <2>0. typed \in [Mail -> Nat]
    BY DEF ProxyInv, ProxyType
  <2>1. typed' \in [Mail -> Nat]
    BY <1>1, <1>4, <2>0
  <2> QED BY <1>2, <1>4, <2>1 DEF ProxyInv, ProxyType
<1>6. QueueInv'
  <2> PICK rest : rest = Tail(message_queue)
    OBVIOUS
  <2>1. \A i \in DOMAIN rest : i + 1 \in DOMAIN message_queue /\ rest[i] = message_queue[i + 1] /\ rest[i] # h
    BY <1>1, <1>3
  <2>2. \A i \in DOMAIN rest : rest[i] \in seen_ids \ OwnMail /\ typed[rest[i]] = 0 /\ rest[i] \in Mail
    BY <1>2, <2>1, LenProperties, ElementOfSeq DEF ProxyInv, QueueInv
  <2>3. \A i \in DOMAIN rest : typed'[rest[i]] = 0
    BY <1>4, <2>1, <2>2 DEF ProxyInv, ProxyType
  <2>4. \A i, j \in DOMAIN rest : rest[i] = rest[j] => i = j
    <3> SUFFICES ASSUME NEW i \in DOMAIN rest, NEW j \in DOMAIN rest, rest[i] = rest[j] PROVE i = j
      OBVIOUS
    <3>1. i + 1 = j + 1
      BY <2>1 DEF ProxyInv, QueueInv
    <3>2. i \in Nat /\ j \in Nat
      BY <1>2, LenProperties
    <3> QED BY <3>1, <3>2
  <2> QED BY <1>4, <2>2, <2>3, <2>4 DEF QueueInv
<1>7. TypedInv'
  BY <1>1, <1>4 DEF ProxyInv, ProxyType, TypedInv
<1> QED
  BY <1>5, <1>6, <1>7 DEF ProxyInv

\* The invariant holds in every reachable state.
THEOREM ProxyInvariance == ProxySpec => []ProxyInv
<1>1. ProxyInit => ProxyInv
  BY DEF ProxyInit, InboxInit, Nothing, ProxyInv, ProxyType, QueueInv, TypedInv
<1>2. ProxyInv /\ [ProxyNext]_proxyVars => ProxyInv'
  <2> SUFFICES ASSUME ProxyInv, [ProxyNext]_proxyVars PROVE ProxyInv'
    OBVIOUS
  <2> USE DEF ProxyInv, ProxyType, QueueInv, TypedInv
  <2>1. CASE Fetch
    <3>1. inbox' \in Seq(Mail) /\ Head(inbox) \in Mail
      BY <2>1 DEF Fetch, Popped
    <3> QED
      BY <2>1, <3>1 DEF Fetch, Popped
  <2>2. CASE InboxUnreachable
    BY <2>2 DEF InboxUnreachable, inboxVars, Nothing
  <2>3. CASE SendAck
    BY <2>3 DEF SendAck, PostAck, inboxVars
  <2>4. CASE RestartProxy
    BY <2>4 DEF RestartProxy, inboxVars, Nothing
  <2>5. CASE UNCHANGED proxyVars
    BY <2>5 DEF proxyVars, inboxVars
  <2> QED
    BY <2>1, <2>2, <2>3, <2>4, <2>5, RouterAlone, QueueKeeps, InjectKeeps DEF ProxyNext
<1> QED
  BY <1>1, <1>2, PTL DEF ProxySpec

\* However often the Router delivers a message again, a proxy types it into the terminal
\* once at most, and never a message of its own role (shell_proxy.py).
THEOREM NeverTypedTwice == ProxySpec => []TypedOnce
<1>1. ProxyInv => TypedOnce
  BY DEF ProxyInv, ProxyType, TypedInv, TypedOnce
<1> QED
  BY <1>1, ProxyInvariance, PTL

-----------------------------------------------------------------------------
\* The commands that wait.  The invariant relates the task table to the log: its status is
\* the one of the last message that gives one, but for a Router killed between the two.

\* The status a logged message leaves its task in is one it may leave it in, or none
Agrees(m) == IF MayLeave(m) = {} THEN StatusFor(m) = NoStatus ELSE StatusFor(m) \in MayLeave(m)

LogEntry == {m \in [type : {"ask", "send", "report", "done", "fail"}, task : WorkItems,
                    action : {NoAction, "assign", "verify", "verified"}] : Agrees(m)}

Running == [at : {"sending", "waiting", "answered"}, msg : LogEntry, sent : Nat, result : Nat]

CommandsType ==
  /\ log \in Seq(LogEntry) /\ DOMAIN taskTable = WorkItems /\ tableFile \in {{}, {taskTable}}
  /\ halfway \in BOOLEAN /\ halfway => Len(log) > 0
  /\ torn \subseteq WorkItems /\ replayed \in 0..Len(log) /\ (halfway => replayed < Len(log))

\* The command that runs has its message in the log, and has been told of the first
\* message that closes the task
CmdInv ==
  cmd # Idle =>
    /\ cmd \in Running /\ cmd.sent \in DOMAIN log /\ log[cmd.sent] = cmd.msg
    /\ cmd.result # 0 => cmd.at = "answered" /\ cmd.result \in FirstClosing

\* The messages the table has been told of that say a status of t
Told(t) == {i \in DOMAIN log : log[i].task = t /\ LogSays(i) # {} /\ (halfway => i < Len(log))}

LastTold(t, i) == i \in Told(t) /\ \A j \in Told(t) : j <= i

TableInv ==
  \A t \in WorkItems \ torn :
    IF Told(t) = {} THEN taskTable[t] = NoStatus
    ELSE \E i \in DOMAIN log : LastTold(t, i) /\ taskTable[t] \in LogSays(i)

CommandsInv == CommandsType /\ CmdInv /\ TableInv

-----------------------------------------------------------------------------
(* The messages *)

Kinds == {<<"ask", "review">>, <<"ask", "assign">>, <<"ask", "clarify">>, <<"ask", "verify">>, <<"send", "answer">>,
          <<"done", NoAction>>, <<"done", "verify">>, <<"done", "verified">>, <<"fail", NoAction>>,
          <<"report", "review_feedback">>}

\* What the commands and the other agents build
Built(m, t) == m.task = t /\ <<m.type, m.action>> \in Kinds

LEMMA CommandIs ==
  ASSUME NEW type, NEW action, NEW t, NEW corr, NEW owner, NEW keys, <<type, action>> \in Kinds
  PROVE  Built(CommandMessage(type, action, t, corr, owner, keys), t)
BY DEF CommandMessage, Built

LEMMA OpeningsBuilt ==
  ASSUME NEW t, NEW m \in Openings(t)
  PROVE  Built(m, t)
<1>1. PICK action \in {"review", "assign", "clarify", "verify"} :
        m = CommandMessage("ask", action, t, 0, TRUE, KeysFor[action])
  BY DEF Openings, Opening, ReviewCommand, AssignCommand, AskCommand, SayCommand
<1>2. <<"ask", action>> \in Kinds
  BY DEF Kinds
<1> QED
  BY <1>1, <1>2, CommandIs

LEMMA AnswersBuilt ==
  ASSUME NEW t, NEW c, NEW m \in Answers(t, c)
  PROVE  Built(m, t)
<1>1. CASE m \in SendCommand(t, c) \cup ReplyCommand(t, c)
  <2>1. PICK keys : m = CommandMessage("send", "answer", t, c, FALSE, keys)
    BY <1>1 DEF SendCommand, ReplyCommand
  <2>2. <<"send", "answer">> \in Kinds
    BY DEF Kinds
  <2> QED
    BY <2>1, <2>2, CommandIs
<1>2. CASE m \in FailCommand(t, c)
  <2>1. PICK keys : m = CommandMessage("fail", NoAction, t, c, FALSE, keys)
    BY <1>2 DEF FailCommand
  <2>2. <<"fail", NoAction>> \in Kinds
    BY DEF Kinds
  <2> QED
    BY <2>1, <2>2, CommandIs
<1>3. CASE m \in DoneCommand(t, c)
  <2>1. PICK action \in {NoAction, "verify", "verified"} :
          \E keys : m = CommandMessage("done", action, t, c, FALSE, keys)
    BY <1>3 DEF DoneCommand
  <2>2. <<"done", action>> \in Kinds
    BY DEF Kinds
  <2> QED
    BY <2>1, <2>2, CommandIs
<1>4. CASE m \in ReportCommand(t, c)
  <2>1. PICK h, n, k : m = FeedbackMessage(t, c, h, n, k)
    BY <1>4 DEF ReportCommand
  <2>2. <<"report", "review_feedback">> \in Kinds
    BY DEF Kinds
  <2> QED
    BY <2>1, <2>2 DEF Built, FeedbackMessage, CommandMessage
<1> QED
  BY <1>1, <1>2, <1>3, <1>4 DEF Answers

LEMMA KeptIsEntry ==
  ASSUME NEW t \in WorkItems, NEW m, Built(m, t), Valid(m)
  PROVE  Kept(m) \in LogEntry
<1>1. ~(m.type = "done" /\ m.action = "verify")
  BY DEF Valid, ActionValid, TypeFor
<1>2. m.type \in {"ask", "send", "report", "done", "fail"}
      /\ m.action \in {"review", "assign", "clarify", "verify", "answer", NoAction, "verified", "review_feedback"}
  BY DEF Built, Kinds
<1>3. PICK k : k = Kept(m)
  OBVIOUS
<1>4. k \in [type : {"ask", "send", "report", "done", "fail"}, task : WorkItems,
             action : {NoAction, "assign", "verify", "verified"}]
  BY <1>2, <1>3 DEF Kept, Built, StatusByAction, NoStatus, NoAction
<1>5. k.type = m.type /\ k.action = IF m.action \in {"assign", "verify", "verified"} THEN m.action ELSE NoAction
  BY <1>2, <1>3 DEF Kept, StatusByAction, NoStatus, NoAction
<1>6. Agrees(k)
  BY <1>1, <1>5 DEF Agrees, MayLeave, StatusFor, StatusByAction, NoAction, NoStatus, Built, Kinds
<1> QED
  BY <1>3, <1>4, <1>6 DEF LogEntry

LEMMA CommandsStart == TeamCmdInit => CommandsInv
<1> SUFFICES ASSUME TeamCmdInit PROVE CommandsInv
  OBVIOUS
<1>1. log = <<>> /\ log \in Seq(LogEntry) /\ DOMAIN log = {}
  BY EmptySeq DEF TeamCmdInit
<1>2. CommandsType
  BY <1>1 DEF TeamCmdInit, CommandsType
<1> QED
  BY <1>1, <1>2 DEF TeamCmdInit, CommandsInv, CmdInv, TableInv, Told

-----------------------------------------------------------------------------
(* The log *)

LEMMA LogMore ==
  ASSUME log \in Seq(LogEntry), NEW e \in LogEntry, log' = Append(log, e)
  PROVE  /\ log' \in Seq(LogEntry) /\ Len(log) \in Nat /\ Len(log') = Len(log) + 1
         /\ Len(log) + 1 \in DOMAIN log' /\ log'[Len(log) + 1] = e
         /\ DOMAIN log = 1..Len(log) /\ DOMAIN log' = 1..(Len(log) + 1)
         /\ \A i \in DOMAIN log : i \in DOMAIN log' /\ log'[i] = log[i] /\ i < Len(log')
<1>1. /\ log' \in Seq(LogEntry) /\ Len(log') = Len(log) + 1 /\ log'[Len(log) + 1] = e
      /\ \A k \in 1..Len(log) : log'[k] = log[k]
  BY AppendProperties
<1>2. Len(log) \in Nat /\ DOMAIN log = 1..Len(log) /\ DOMAIN log' = 1..Len(log')
  BY <1>1, LenProperties
<1>3. Len(log) + 1 \in DOMAIN log'
  BY <1>1, <1>2
<1>4. \A i \in DOMAIN log : i \in DOMAIN log' /\ log'[i] = log[i] /\ i < Len(log')
  BY <1>1, <1>2
<1> QED
  BY <1>1, <1>2, <1>3, <1>4

\* The first message that closes the command's task remains the first
LEMMA FirstClosingStays ==
  ASSUME log \in Seq(LogEntry), NEW e \in LogEntry, log' = Append(log, e), cmd' = cmd, NEW i \in FirstClosing
  PROVE  i \in FirstClosing'
<1>1. /\ DOMAIN log = 1..Len(log) /\ Len(log) \in Nat
      /\ \A j \in DOMAIN log : j \in DOMAIN log' /\ log'[j] = log[j]
  BY LogMore
<1>2. \A j \in DOMAIN log : Closing(j)' <=> Closing(j)
  BY <1>1 DEF Closing
<1>3. i \in DOMAIN log /\ Closing(i) /\ \A j \in 1..(i - 1) : ~Closing(j) /\ j \in DOMAIN log
  BY <1>1 DEF FirstClosing
<1> QED
  BY <1>1, <1>2, <1>3 DEF FirstClosing

\* What a message in the log says is what it goes on to say
LEMMA SaysStays ==
  ASSUME CommandsType, NEW i \in DOMAIN log, log'[i] = log[i], replayed' = replayed
  PROVE  LogSays(i)' = LogSays(i)
BY DEF LogSays, MayLeave

\* The Router accepts a message: it is logged, and the table is not told yet
LEMMA AcceptKeeps ==
  ASSUME CommandsInv, NEW m, RouterAccepts(m), Kept(m) \in LogEntry,
         UNCHANGED <<taskTable, tableFile, torn, replayed>>
  PROVE  CommandsType' /\ TableInv'
<1>1. PICK e \in LogEntry : e = Kept(m) /\ log' = Append(log, e)
  BY DEF RouterAccepts
<1>2. halfway = FALSE /\ halfway' = TRUE
  BY DEF RouterAccepts, CommandsInv, CommandsType
<1>3. log \in Seq(LogEntry)
  BY DEF CommandsInv, CommandsType
<1>4. /\ log' \in Seq(LogEntry) /\ Len(log) \in Nat /\ Len(log') = Len(log) + 1
      /\ Len(log) + 1 \in DOMAIN log' /\ log'[Len(log) + 1] = e
      /\ DOMAIN log = 1..Len(log) /\ DOMAIN log' = 1..(Len(log) + 1)
      /\ \A i \in DOMAIN log : i \in DOMAIN log' /\ log'[i] = log[i] /\ i < Len(log')
  BY <1>1, <1>3, LogMore
<1>5. CommandsType'
  <2>1. Len(log') > 0 /\ replayed' \in 0..Len(log') /\ replayed' < Len(log')
    BY <1>4 DEF CommandsInv, CommandsType
  <2> QED
    BY <1>2, <1>4, <2>1 DEF CommandsInv, CommandsType
<1>6. \A i \in DOMAIN log : LogSays(i)' = LogSays(i)
  BY <1>4, SaysStays DEF CommandsInv
<1>7. \A t : Told(t)' = Told(t)
  <2>1. ASSUME NEW i \in DOMAIN log', i < Len(log') PROVE i \in DOMAIN log
    BY <1>4, <2>1
  <2>2. \A t : \A i : i \in Told(t)' <=> i \in Told(t)
    BY <1>2, <1>4, <1>6, <2>1 DEF Told
  <2> QED
    BY <2>2 DEF Told
<1>8. TableInv'
  <2> SUFFICES ASSUME NEW t \in WorkItems \ torn
               PROVE  IF Told(t)' = {} THEN taskTable[t] = NoStatus
                      ELSE \E i \in DOMAIN log' : LastTold(t, i)' /\ taskTable[t] \in LogSays(i)'
    BY DEF TableInv
  <2>1. CASE Told(t) = {}
    BY <1>7, <2>1 DEF CommandsInv, TableInv
  <2>2. CASE Told(t) # {}
    <3>1. PICK i \in DOMAIN log : LastTold(t, i) /\ taskTable[t] \in LogSays(i)
      BY <2>2 DEF CommandsInv, TableInv
    <3>2. LastTold(t, i)'
      BY <1>7, <3>1 DEF LastTold
    <3> QED
      BY <1>4, <1>6, <1>7, <2>2, <3>1, <3>2
  <2> QED
    BY <2>1, <2>2
<1> QED
  BY <1>5, <1>8

\* The commands keep what only the Router changes
LEMMA RouterSame ==
  ASSUME CommandsInv, UNCHANGED routerVars, CmdInv'
  PROVE  CommandsInv'
<1> USE DEF routerVars
<1>1. CommandsType'
  BY DEF CommandsInv, CommandsType
<1>2. \A i : LogSays(i)' = LogSays(i)
  BY DEF LogSays, MayLeave
<1>3. \A t : Told(t)' = Told(t)
  BY <1>2 DEF Told
<1>4. \A t, i : LastTold(t, i)' <=> LastTold(t, i)
  BY <1>3 DEF LastTold
<1>5. TableInv'
  BY <1>2, <1>3, <1>4 DEF CommandsInv, TableInv
<1> QED
  BY <1>1, <1>5 DEF CommandsInv

-----------------------------------------------------------------------------
LEMMA RunKeeps ==
  ASSUME CommandsInv, NEW t \in WorkItems, NEW m, Built(m, t), Run(m)
  PROVE  CommandsInv'
<1>1. /\ RouterAccepts(m) /\ UNCHANGED <<taskTable, tableFile, kills, torn, replayed>>
      /\ cmd' = [at |-> "sending", msg |-> Kept(m), sent |-> Len(log) + 1, result |-> 0]
      /\ Valid(m) /\ log' = Append(log, Kept(m))
  BY DEF Run, RouterAccepts
<1>2. Kept(m) \in LogEntry
  BY <1>1, KeptIsEntry
<1>3. CommandsType' /\ TableInv'
  BY <1>1, <1>2, AcceptKeeps
<1>4. PICK e \in LogEntry : e = Kept(m)
  BY <1>2
<1>5. Len(log) \in Nat /\ Len(log) + 1 \in DOMAIN log' /\ log'[Len(log) + 1] = e
  <2>1. log \in Seq(LogEntry)
    BY DEF CommandsInv, CommandsType
  <2> QED
    BY <1>1, <1>4, <2>1, LogMore
<1>6. CmdInv'
  BY <1>1, <1>2, <1>4, <1>5 DEF CmdInv, Running
<1> QED
  BY <1>3, <1>6 DEF CommandsInv

LEMMA OtherSendsKeeps ==
  ASSUME CommandsInv, NEW t \in WorkItems, NEW m, Built(m, t), OtherSends(m)
  PROVE  CommandsInv'
<1>1. /\ RouterAccepts(m) /\ UNCHANGED <<taskTable, tableFile, kills, cmd, torn, replayed>>
      /\ Valid(m) /\ log' = Append(log, Kept(m))
  BY DEF OtherSends, RouterAccepts
<1>2. Kept(m) \in LogEntry
  BY <1>1, KeptIsEntry
<1>3. CommandsType' /\ TableInv'
  BY <1>1, <1>2, AcceptKeeps
<1>4. CmdInv'
  <2>1. PICK e \in LogEntry : e = Kept(m)
    BY <1>2
  <2>2. log \in Seq(LogEntry) /\ log' = Append(log, e) /\ cmd' = cmd
    BY <1>1, <2>1 DEF CommandsInv, CommandsType
  <2>3. \A i \in DOMAIN log : i \in DOMAIN log' /\ log'[i] = log[i]
    BY <2>2, LogMore
  <2>4. \A i \in FirstClosing : i \in FirstClosing'
    BY <2>2, FirstClosingStays
  <2> QED
    BY <2>2, <2>3, <2>4 DEF CommandsInv, CmdInv
<1> QED
  BY <1>3, <1>4 DEF CommandsInv

\* The table is told of the last message
LEMMA UpdateTaskKeeps == ASSUME CommandsInv, UpdateTask PROVE CommandsInv'
<1>1. PICK m : m = LastLogged
  OBVIOUS
<1>2. /\ halfway = TRUE /\ halfway' = FALSE /\ taskTable' = Updated(taskTable, m.task, StatusFor(m))
      /\ tableFile' = {taskTable'} /\ UNCHANGED <<log, kills, cmd, torn, replayed>>
  BY <1>1 DEF UpdateTask, CommandsInv, CommandsType
<1>3. log \in Seq(LogEntry) /\ Len(log) > 0 /\ DOMAIN taskTable = WorkItems
  BY <1>2 DEF CommandsInv, CommandsType
<1>4. PICK n \in Nat : n = Len(log) /\ n > 0 /\ DOMAIN log = 1..n
  BY <1>3, LenProperties
<1>5. n \in DOMAIN log /\ m = log[n] /\ m \in LogEntry
  BY <1>1, <1>3, <1>4, ElementOfSeq DEF LastLogged
<1>6. m.task \in WorkItems /\ Agrees(m)
  BY <1>5 DEF LogEntry
<1>7. /\ DOMAIN taskTable' = WorkItems
      /\ \A t \in WorkItems : taskTable'[t] = IF t = m.task /\ MayLeave(m) # {} THEN StatusFor(m) ELSE taskTable[t]
      /\ MayLeave(m) # {} => StatusFor(m) \in MayLeave(m)
  <2>1. CASE MayLeave(m) = {}
    BY <1>2, <1>3, <1>6, <2>1 DEF Agrees, Updated
  <2>2. CASE MayLeave(m) # {}
    <3>1. StatusFor(m) \in MayLeave(m)
      BY <1>6, <2>2 DEF Agrees
    <3>2. NoStatus \notin MayLeave(m)
      BY DEF MayLeave, NoStatus
    <3>3. taskTable' = [taskTable EXCEPT ![m.task] = StatusFor(m)]
      BY <1>2, <3>1, <3>2 DEF Updated
    <3> QED
      BY <1>3, <1>6, <2>2, <3>1, <3>3
  <2> QED
    BY <2>1, <2>2
<1>8. CommandsType'
  BY <1>2, <1>3, <1>7 DEF CommandsInv, CommandsType
<1>9. CmdInv'
  BY <1>2 DEF CommandsInv, CmdInv, FirstClosing, Closing
<1>10. \A i : LogSays(i)' = LogSays(i)
  BY <1>2 DEF LogSays, MayLeave
<1>11. LogSays(n) = MayLeave(m)
  <2>1. ASSUME n <= replayed PROVE FALSE
    BY <1>2, <1>4, <2>1 DEF CommandsInv, CommandsType
  <2> QED
    BY <1>5, <2>1 DEF LogSays
<1>12. \A t : \A i : i \in Told(t)' <=> i \in Told(t) \/ (i = n /\ m.task = t /\ MayLeave(m) # {})
  <2>1. \A i \in DOMAIN log : i < n \/ i = n
    BY <1>4
  <2> QED
    BY <1>2, <1>4, <1>5, <1>10, <1>11, <2>1 DEF Told
<1>13. \A t : \A i \in Told(t)' : i <= n
  BY <1>2, <1>4 DEF Told
<1>14. TableInv'
  <2> SUFFICES ASSUME NEW t \in WorkItems \ torn
               PROVE  IF Told(t)' = {} THEN taskTable'[t] = NoStatus
                      ELSE \E i \in DOMAIN log : LastTold(t, i)' /\ taskTable'[t] \in LogSays(i)
    BY <1>2, <1>10 DEF TableInv
  <2>1. CASE t = m.task /\ MayLeave(m) # {}
    <3>1. n \in Told(t)' /\ LastTold(t, n)'
      BY <1>12, <1>13, <2>1 DEF LastTold
    <3>2. taskTable'[t] \in LogSays(n)
      BY <1>7, <1>11, <2>1
    <3> QED
      BY <1>5, <3>1, <3>2
  <2>2. CASE ~(t = m.task /\ MayLeave(m) # {})
    <3>1. \A i : i \in Told(t)' <=> i \in Told(t)
      BY <1>12, <2>2
    <3>2. taskTable'[t] = taskTable[t]
      BY <1>7, <2>2
    <3>3. \A i : LastTold(t, i)' <=> LastTold(t, i)
      BY <3>1 DEF LastTold
    <3>4. Told(t)' = {} <=> Told(t) = {}
      BY <3>1
    <3>5. IF Told(t) = {} THEN taskTable[t] = NoStatus
          ELSE \E i \in DOMAIN log : LastTold(t, i) /\ taskTable[t] \in LogSays(i)
      BY DEF CommandsInv, TableInv
    <3> QED
      BY <3>2, <3>3, <3>4, <3>5
  <2> QED
    BY <2>1, <2>2
<1> QED
  BY <1>8, <1>9, <1>14 DEF CommandsInv

\* What a table says that is rebuilt from the log
LEMMA ReplayedSays ==
  ASSUME CommandsType, NEW t \in WorkItems, replayed' = Len(log), halfway' = FALSE, log' = log
  PROVE  IF Told(t)' = {} THEN Replayed[t] = NoStatus
         ELSE \E i \in DOMAIN log : LastTold(t, i)' /\ Replayed[t] \in LogSays(i)'
<1> DEFINE S == {i \in DOMAIN log : log[i].task = t /\ StatusByAction(log[i]) # NoStatus}
<1>1. PICK n \in Nat : n = Len(log) /\ DOMAIN log = 1..n /\ log \in Seq(LogEntry)
  BY LenProperties DEF CommandsType
<1>2. ASSUME NEW i \in DOMAIN log
      PROVE  /\ LogSays(i)' # {} <=> StatusByAction(log[i]) # NoStatus
             /\ LogSays(i)' # {} => StatusByAction(log[i]) \in LogSays(i)'
  <2>1. log[i] \in LogEntry /\ i <= Len(log)
    BY <1>1, ElementOfSeq
  <2>2. LogSays(i)' = IF log[i].action = NoAction THEN {} ELSE MayLeave(log[i])
    BY <2>1 DEF LogSays, MayLeave
  <2>3. PICK m \in LogEntry : m = log[i]
    BY <2>1
  <2>4. m.action = NoAction => StatusByAction(m) = NoStatus
    BY DEF StatusByAction, NoAction, NoStatus
  <2>5. m.action # NoAction => StatusFor(m) = StatusByAction(m)
    BY DEF StatusFor
  <2>6. NoStatus \notin MayLeave(m)
    BY DEF MayLeave, NoStatus
  <2>7. Agrees(m)
    BY DEF LogEntry
  <2> QED
    BY <2>2, <2>3, <2>4, <2>5, <2>6, <2>7 DEF Agrees
<1>3. Told(t)' = S
  BY <1>2 DEF Told
<1>4. Replayed[t] = IF S = {} THEN NoStatus
                    ELSE StatusByAction(log[CHOOSE i \in S : \A j \in S : j <= i])
  BY DEF Replayed
<1>5. CASE S = {}
  BY <1>3, <1>4, <1>5
<1>6. CASE S # {}
  <2>1. PICK i : i = CHOOSE k \in S : \A j \in S : j <= k
    OBVIOUS
  <2>2. S \subseteq 0..n
    BY <1>1
  <2>3. i \in S /\ \A j \in S : j <= i
    <3>1. \E k \in S : \A j \in S : j <= k
      <4> HIDE DEF S
      <4> QED
        BY <1>6, <2>2, GreatestOf
    <3> HIDE DEF S
    <3> QED
      BY <2>1, <3>1
  <2>4. LastTold(t, i)'
    BY <1>3, <2>3 DEF LastTold
  <2>5. i \in DOMAIN log /\ Replayed[t] = StatusByAction(log[i]) /\ StatusByAction(log[i]) # NoStatus
    BY <1>4, <1>6, <2>1, <2>3
  <2>6. Told(t)' # {} /\ Replayed[t] \in LogSays(i)'
    BY <1>2, <1>3, <1>6, <2>5
  <2> QED
    BY <2>4, <2>5, <2>6
<1> QED
  BY <1>5, <1>6

LEMMA KillRouterKeeps == ASSUME CommandsInv, KillRouter PROVE CommandsInv'
<1>1. halfway' = FALSE /\ cmd' \in {cmd, Idle} /\ UNCHANGED log
  BY DEF KillRouter
<1>2. CommandsType /\ TableInv
  BY DEF CommandsInv
<1>3. PICK n \in Nat : n = Len(log) /\ DOMAIN log = 1..n
  BY <1>2, LenProperties DEF CommandsType
<1>4. CmdInv'
  BY <1>1 DEF CommandsInv, CmdInv, FirstClosing, Closing
<1>5. CASE tableFile' = {} /\ taskTable' = Replayed /\ torn' = {} /\ replayed' = Len(log)
  <2>1. DOMAIN taskTable' = WorkItems
    BY <1>5 DEF Replayed
  <2>2. CommandsType'
    BY <1>1, <1>2, <1>3, <1>5, <2>1 DEF CommandsType
  <2>3. TableInv'
    BY <1>1, <1>2, <1>5, ReplayedSays DEF TableInv
  <2> QED
    BY <1>4, <2>2, <2>3 DEF CommandsInv
<1>6. CASE /\ tableFile # {} /\ taskTable' = CHOOSE saved \in tableFile : TRUE
           /\ torn' = IF halfway THEN torn \cup {LastLogged.task} ELSE torn
           /\ UNCHANGED <<tableFile, replayed>>
  <2>1. taskTable' = taskTable
    BY <1>2, <1>6 DEF CommandsType
  <2>2. halfway => n \in DOMAIN log /\ LastLogged = log[n] /\ log[n] \in LogEntry
    <3>1. ASSUME halfway PROVE n \in DOMAIN log
      BY <1>2, <1>3, <3>1 DEF CommandsType
    <3> QED
      BY <1>2, <1>3, <3>1, ElementOfSeq DEF LastLogged, CommandsType
  <2>3. CommandsType'
    <3>1. torn' \subseteq WorkItems
      BY <1>2, <1>6, <2>2 DEF CommandsType, LogEntry
    <3> QED
      BY <1>1, <1>2, <1>6, <2>1, <3>1 DEF CommandsType
  <2>4. \A i : LogSays(i)' = LogSays(i)
    BY <1>1, <1>6 DEF LogSays, MayLeave
  <2>5. \A t \in WorkItems \ torn' : \A i : i \in Told(t)' <=> i \in Told(t)
    <3>1. \A i \in DOMAIN log : i < n \/ i = n
      BY <1>3
    <3> QED
      BY <1>1, <1>3, <1>6, <2>2, <2>4, <3>1 DEF Told
  <2>6. TableInv'
    <3> SUFFICES ASSUME NEW t \in WorkItems \ torn'
                 PROVE  IF Told(t)' = {} THEN taskTable[t] = NoStatus
                        ELSE \E i \in DOMAIN log : LastTold(t, i)' /\ taskTable[t] \in LogSays(i)
      BY <1>1, <2>1, <2>4 DEF TableInv
    <3>1. t \in WorkItems \ torn
      BY <1>6
    <3>2. (Told(t)' = {} <=> Told(t) = {}) /\ \A i : LastTold(t, i)' <=> LastTold(t, i)
      BY <2>5 DEF LastTold
    <3> QED
      BY <1>2, <3>1, <3>2 DEF TableInv
  <2> QED
    BY <1>4, <2>3, <2>6 DEF CommandsInv
<1> QED
  BY <1>5, <1>6 DEF KillRouter

LEMMA CommandStepKeeps ==
  ASSUME CommandsInv,
         RouterReplies \/ WaitForDone \/ WaitTimesOut \/ CommandDies \/ CommandEnds
  PROVE  CommandsInv'
<1>1. CASE RouterReplies
  <2>1. PICK next \in {"waiting", "answered"} : cmd' = [cmd EXCEPT !.at = next]
    BY <1>1 DEF RouterReplies
  <2>2. cmd # Idle /\ cmd.result = 0 /\ UNCHANGED routerVars
    BY <1>1 DEF RouterReplies, Idle, CommandsInv, CmdInv
  <2>3. CmdInv'
    BY <2>1, <2>2 DEF CommandsInv, CmdInv, Running, routerVars
  <2> QED
    BY <2>2, <2>3, RouterSame
<1>2. CASE WaitForDone
  <2>1. PICK i \in FirstClosing : cmd' = [cmd EXCEPT !.at = "answered", !.result = i]
    BY <1>2, Zenon DEF WaitForDone
  <2>2. cmd # Idle /\ UNCHANGED routerVars
    <3>1. cmd.at = "waiting" /\ UNCHANGED routerVars
      BY <1>2, Zenon DEF WaitForDone
    <3> QED
      BY <3>1 DEF Idle
  <2>3. cmd \in Running /\ log' = log
    BY <2>2 DEF CommandsInv, CmdInv, routerVars
  <2>4. cmd'.msg = cmd.msg /\ cmd'.result = i /\ cmd'.at = "answered" /\ cmd'.sent = cmd.sent
    BY <2>1, <2>3 DEF Running
  <2>5. i \in Nat
    <3>1. log \in Seq(LogEntry) /\ i \in DOMAIN log
      BY <2>1 DEF CommandsInv, CommandsType, FirstClosing
    <3> QED
      BY <3>1, LenProperties
  <2>6. cmd' \in Running
    BY <2>1, <2>3, <2>5 DEF Running
  <2>7. i \in FirstClosing'
    BY <2>1, <2>3, <2>4 DEF FirstClosing, Closing
  <2>8. CmdInv'
    BY <2>2, <2>3, <2>4, <2>6, <2>7 DEF CommandsInv, CmdInv
  <2> QED
    BY <2>2, <2>8, RouterSame
<1>3. CASE WaitTimesOut
  <2>1. cmd # Idle /\ cmd.result = 0 /\ cmd' = [cmd EXCEPT !.at = "answered"]
        /\ UNCHANGED routerVars
    BY <1>3 DEF WaitTimesOut, Idle, CommandsInv, CmdInv
  <2>2. CmdInv'
    BY <2>1 DEF CommandsInv, CmdInv, Running, routerVars
  <2> QED
    BY <2>1, <2>2, RouterSame
<1>4. CASE CommandDies
  <2>1. cmd' = Idle /\ UNCHANGED routerVars
    BY <1>4 DEF CommandDies
  <2>2. CmdInv'
    BY <2>1 DEF CmdInv
  <2> QED
    BY <2>1, <2>2, RouterSame
<1>5. CASE CommandEnds
  <2>1. cmd' = Idle /\ UNCHANGED routerVars
    BY <1>5 DEF CommandEnds
  <2>2. CmdInv'
    BY <2>1 DEF CmdInv
  <2> QED
    BY <2>1, <2>2, RouterSame
<1> QED
  BY <1>1, <1>2, <1>3, <1>4, <1>5

\* The inductive invariant says what is promised
LEMMA CommandsShow == CommandsInv => CommandsSound
<1> SUFFICES ASSUME CommandsInv PROVE CommandsSound
  OBVIOUS
<1>1. TeamCmdTypeOK
  BY DEF CommandsInv, CommandsType, CmdInv, Running, Idle, TeamCmdTypeOK
<1>2. WaitIsForTheTask
  <2> SUFFICES ASSUME cmd.at = "answered", cmd.result # 0 PROVE WaitIsForTheTask
    BY DEF WaitIsForTheTask
  <2>1. cmd # Idle
    BY DEF Idle
  <2>2. cmd.result \in FirstClosing
    BY <2>1 DEF CommandsInv, CmdInv
  <2> QED
    BY <2>2 DEF WaitIsForTheTask, FirstClosing, Closing
<1>3. TableFollowsLog
  <2> SUFFICES ASSUME NEW t \in WorkItems \ torn
               PROVE  IF Told(t) = {} THEN taskTable[t] = NoStatus
                      ELSE taskTable[t] \in LogSays(CHOOSE i \in Told(t) : \A j \in Told(t) : j <= i)
    BY DEF TableFollowsLog, Told
  <2>0. CASE Told(t) = {}
    BY <2>0 DEF CommandsInv, TableInv
  <2> SUFFICES ASSUME Told(t) # {}
               PROVE  taskTable[t] \in LogSays(CHOOSE i \in Told(t) : \A j \in Told(t) : j <= i)
    BY <2>0
  <2>1. PICK i \in DOMAIN log : LastTold(t, i) /\ taskTable[t] \in LogSays(i)
    BY DEF CommandsInv, TableInv
  <2>2. \A k \in Told(t) : k \in Nat
    <3>1. DOMAIN log \subseteq Nat
      BY LenProperties DEF CommandsInv, CommandsType
    <3> QED
      BY <3>1 DEF Told
  <2>3. PICK k : k = CHOOSE l \in Told(t) : \A j \in Told(t) : j <= l
    OBVIOUS
  <2>4. k \in Told(t) /\ \A j \in Told(t) : j <= k
    BY <2>1, <2>3 DEF LastTold
  <2>5. k = i
    BY <2>1, <2>2, <2>4 DEF LastTold
  <2> QED
    BY <2>1, <2>3, <2>5
<1> QED
  BY <1>1, <1>2, <1>3 DEF CommandsInv, CommandsSound

-----------------------------------------------------------------------------
\* The inductive invariant holds for any tasks, number of messages and of kills.
THEOREM CommandsInvariance == TeamCmdSpec => []CommandsInv
<1>1. CommandsInv /\ [TeamCmdNext]_teamCmdVars => CommandsInv'
  <2> SUFFICES ASSUME CommandsInv, [TeamCmdNext]_teamCmdVars PROVE CommandsInv'
    OBVIOUS
  <2>1. CASE UNCHANGED teamCmdVars
    <3>1. UNCHANGED routerVars /\ cmd' = cmd /\ log' = log
      BY <2>1 DEF teamCmdVars, routerVars
    <3>2. CmdInv'
      BY <3>1 DEF CommandsInv, CmdInv, FirstClosing, Closing
    <3> QED
      BY <3>1, <3>2, RouterSame
  <2>2. ASSUME NEW t \in WorkItems, NEW m \in Openings(t) \cup Answers(t, Len(log)), Run(m) \/ OtherSends(m)
        PROVE CommandsInv'
    BY <2>2, OpeningsBuilt, AnswersBuilt, RunKeeps, OtherSendsKeeps
  <2> QED
    BY <2>1, <2>2, UpdateTaskKeeps, KillRouterKeeps, CommandStepKeeps DEF TeamCmdNext
<1> QED
  BY <1>1, CommandsStart, PTL DEF TeamCmdSpec

\* A command that waits is told of its own task, and the table has the status the last message
\* said, after any kills of the Router between its log and its table and after any rebuilding
\* of a table that is gone; a rebuilt table knows of a done or a fail by its action only.
THEOREM CommandsAreSound == TeamCmdSpec => []CommandsSound
BY CommandsInvariance, CommandsShow, PTL

-----------------------------------------------------------------------------
\* Locks and dependencies.  Who was promised a file has its lock until the instant it was
\* promised, so that nobody else can be promised it before.

HubType ==
  /\ clock \in Nat
  /\ \A f \in DOMAIN locks : locks[f].until \in Nat
  /\ DOMAIN believes \subseteq Agents \X Files
  /\ \A b \in DOMAIN believes : believes[b] \in Nat

\* Who was promised a file has its lock, until the instant it was promised
PromiseInv ==
  \A b \in DOMAIN believes :
    /\ clock <= believes[b]
    /\ b[2] \in DOMAIN locks /\ locks[b[2]].by = b[1] /\ locks[b[2]].until = believes[b]

Dependency == [from : Tasks, to : Tasks, status : {"waiting", "ready"}]

HubInv == HubType /\ dependencies \subseteq Dependency /\ PromiseInv /\ WaitersReleased

-----------------------------------------------------------------------------
\* Nobody else can have a file that is promised
LEMMA PromisedIsKept ==
  ASSUME HubInv, NEW b \in DOMAIN believes, NEW a, MayLock(locks, b[2], a)
  PROVE  a = b[1]
BY DEF HubInv, HubType, PromiseInv, MayLock, Expired

\* A step gives the files won, each to the first who could have it, until one instant
Gives(won, first, had, d) ==
  /\ DOMAIN locks' = DOMAIN locks \cup won /\ DOMAIN believes' = DOMAIN believes \cup had
  /\ had = {<<first[f], f>> : f \in won}
  /\ \A f \in won : first[f] \in Agents /\ f \in Files /\ MayLock(locks, f, first[f])
  /\ \A f \in won : locks'[f].by = first[f] /\ locks'[f].until = clock + d
  /\ \A f \in DOMAIN locks \ won : locks'[f] = locks[f]
  /\ \A b \in had : believes'[b] = clock + d
  /\ \A b \in DOMAIN believes \ had : believes'[b] = believes[b]

LEMMA GivenKeeps ==
  ASSUME HubInv, clock' = clock, NEW won, NEW first, NEW had, NEW d \in Nat, Gives(won, first, had, d)
  PROVE  HubType' /\ PromiseInv'
<1> USE DEF HubInv, Gives
<1>1. clock \in Nat /\ clock + d \in Nat /\ clock <= clock + d
  BY DEF HubType
<1>2. \A f \in won : f \in DOMAIN locks' /\ locks'[f].by = first[f] /\ locks'[f].until = clock + d
  OBVIOUS
<1>3. \A f \in DOMAIN locks \ won : f \in DOMAIN locks' /\ locks'[f] = locks[f]
  OBVIOUS
<1>4. \A b \in had : b \in Agents \X Files /\ b[2] \in won /\ b[1] = first[b[2]]
  OBVIOUS
<1>5. \A b \in DOMAIN believes : b[2] \in won => b \in had
  <2>1. ASSUME NEW b \in DOMAIN believes, b[2] \in won PROVE b \in had
    <3>1. first[b[2]] = b[1]
      BY <2>1, PromisedIsKept
    <3>2. b = <<b[1], b[2]>>
      BY DEF HubType
    <3>3. b = <<first[b[2]], b[2]>>
      BY <3>1, <3>2
    <3> QED BY <2>1, <3>3
  <2> QED BY <2>1
<1>6. HubType'
  <2>1. \A f \in DOMAIN locks' : locks'[f].until \in Nat
    BY <1>1, <1>2, <1>3 DEF HubType
  <2>2. DOMAIN believes' \subseteq Agents \X Files /\ \A b \in DOMAIN believes' : believes'[b] \in Nat
    BY <1>1, <1>4 DEF HubType
  <2> QED BY <1>1, <2>1, <2>2 DEF HubType
<1>7. PromiseInv'
  <2>1. ASSUME NEW b \in had
        PROVE  clock <= believes'[b] /\ b[2] \in DOMAIN locks' /\ locks'[b[2]].by = b[1] /\ locks'[b[2]].until = believes'[b]
    BY <1>1, <1>2, <1>4
  <2>2. ASSUME NEW b \in DOMAIN believes \ had
        PROVE  clock <= believes'[b] /\ b[2] \in DOMAIN locks' /\ locks'[b[2]].by = b[1] /\ locks'[b[2]].until = believes'[b]
    BY <1>3, <1>5 DEF PromiseInv
  <2>3. DOMAIN believes' = DOMAIN believes \cup had
    OBVIOUS
  <2> QED BY <2>1, <2>2, <2>3 DEF PromiseInv
<1> QED BY <1>6, <1>7

\* The locks that go, with the promises that go with them
LEMMA DroppedKeeps ==
  ASSUME HubInv, NEW fs, NEW bs, locks' = DropEntries(locks, fs), believes' = DropEntries(believes, bs),
         \A b \in DOMAIN believes : b[2] \in fs => b \in bs, clock' = clock
  PROVE  HubType' /\ PromiseInv'
<1>1. HubType'
  BY DEF HubInv, HubType, DropEntries
<1>2. PromiseInv'
  BY DEF HubInv, PromiseInv, DropEntries
<1> QED BY <1>1, <1>2

LEMMA TickKeeps == ASSUME HubInv, Tick PROVE HubInv'
<1> USE DEF HubInv, Tick
<1>1. HubType'
  BY DEF HubType, DropEntries
<1>2. PromiseInv'
  BY DEF HubType, PromiseInv, DropEntries
<1>3. WaitersReleased'
  BY DEF WaitersReleased
<1> QED BY <1>1, <1>2, <1>3

LEMMA LockKeeps ==
  ASSUME HubInv, NEW a \in Agents, NEW f \in Files, NEW t \in Tasks, NEW d \in Durations, Lock(a, f, t, d)
  PROVE  HubInv'
<1>1. WaitersReleased' /\ clock' = clock /\ dependencies' = dependencies
  BY DEF HubInv, Lock, WaitersReleased
<1>2. CASE ~ MayLock(locks, f, a)
  BY <1>1, <1>2 DEF HubInv, Lock, HubType, PromiseInv
<1>3. CASE MayLock(locks, f, a)
  <2>1. PICK won, first, had : won = {f} /\ first = [x \in {f} |-> a] /\ had = {<<a, f>>}
    OBVIOUS
  <2>2. d \in Nat /\ first[f] = a
    BY <2>1, HubAssumption
  <2>3. Gives(won, first, had, d)
    BY <1>3, <2>1, <2>2 DEF Gives, Lock, SetEntry, NewLock
  <2>4. HubType' /\ PromiseInv'
    BY <1>1, <2>2, <2>3, GivenKeeps
  <2> QED BY <1>1, <2>4 DEF HubInv
<1> QED BY <1>2, <1>3

LEMMA UnlockKeeps == ASSUME HubInv, NEW a \in Agents, NEW f \in Files, Unlock(a, f) PROVE HubInv'
<1>1. WaitersReleased' /\ clock' = clock /\ dependencies' = dependencies
  BY DEF HubInv, Unlock, WaitersReleased
<1>3. CASE f \in DOMAIN locks /\ locks[f].by = a
  <2>1. \A b \in DOMAIN believes : b[2] \in {f} => b \in {<<a, f>>}
    <3>1. ASSUME NEW b \in DOMAIN believes, b[2] = f PROVE b = <<a, f>>
      BY <1>3, <3>1 DEF HubInv, HubType, PromiseInv
    <3> QED BY <3>1
  <2>2. locks' = DropEntries(locks, {f}) /\ believes' = DropEntries(believes, {<<a, f>>})
    BY <1>3 DEF Unlock
  <2>3. HubType' /\ PromiseInv'
    BY <1>1, <2>1, <2>2, DroppedKeeps
  <2> QED BY <1>1, <2>3 DEF HubInv
<1>4. CASE ~ (f \in DOMAIN locks /\ locks[f].by = a)
  <2>1. locks' = locks /\ believes' = DropEntries(believes, {<<a, f>>})
    BY <1>4 DEF Unlock
  <2>2. HubType' /\ PromiseInv'
    BY <1>1, <2>1 DEF HubInv, HubType, PromiseInv, DropEntries
  <2> QED BY <1>1, <2>2 DEF HubInv
<1> QED BY <1>3, <1>4

LEMMA SetupKeeps ==
  ASSUME HubInv, NEW t \in Tasks, NEW d \in Durations, NEW wanted \in SUBSET (Agents \X Files),
         NEW e \in Tasks \X Tasks, SetupTask(t, {e}, wanted, d)
  PROVE  HubInv'
<1>1. clock' = clock /\ completed_tasks' = completed_tasks
  BY DEF SetupTask
<1>2. WaitersReleased'
  <2>1. dependencies' = dependencies \cup {[from |-> e[1], to |-> e[2], status |-> "waiting"]}
    BY DEF SetupTask
  <2>2. late \subseteq late' /\ (e[2] \in completed_tasks => <<e[1], e[2]>> \in late')
    <3>1. e = <<e[1], e[2]>>
      OBVIOUS
    <3> QED BY <3>1 DEF SetupTask
  <2>3. ASSUME NEW w \in dependencies'
        PROVE  IF w.status = "ready" THEN w.to \in completed_tasks'
               ELSE w.to \in completed_tasks' => <<w.from, w.to>> \in late'
    <3>1. CASE w \in dependencies
      BY <3>1, <1>1, <2>2 DEF HubInv, WaitersReleased
    <3>2. CASE w = [from |-> e[1], to |-> e[2], status |-> "waiting"]
      BY <3>2, <1>1, <2>2
    <3> QED BY <2>1, <3>1, <3>2
  <2> QED BY <2>3 DEF WaitersReleased
<1>3. HubType' /\ PromiseInv'
  <2> DEFINE all == {f \in Files : Takers(f, wanted) # {}}
  <2>1. PICK first \in [all -> Agents] :
          /\ \A f \in all : first[f] \in Takers(f, wanted)
          /\ locks' = [f \in DOMAIN locks \cup all |-> IF f \in all THEN NewLock(first[f], t, d) ELSE locks[f]]
          /\ LET had == {<<first[f], f>> : f \in all} IN
               believes' = [b \in DOMAIN believes \cup had |-> IF b \in had THEN clock + d ELSE believes[b]]
    BY DEF SetupTask, LockAll
  <2>2. PICK won, had : won = all /\ had = {<<first[f], f>> : f \in all}
    OBVIOUS
  <2>3. d \in Nat
    BY HubAssumption
  <2>4. \A f \in all : first[f] \in Agents /\ f \in Files /\ MayLock(locks, f, first[f])
    BY <2>1 DEF Takers
  <2>5. DOMAIN locks' = DOMAIN locks \cup all /\ (\A f \in all : locks'[f] = NewLock(first[f], t, d))
        /\ \A f \in DOMAIN locks \ all : locks'[f] = locks[f]
    BY <2>1
  <2>6. DOMAIN believes' = DOMAIN believes \cup had /\ (\A b \in had : believes'[b] = clock + d)
        /\ \A b \in DOMAIN believes \ had : believes'[b] = believes[b]
    BY <2>1, <2>2
  <2> HIDE DEF all
  <2>7. Gives(won, first, had, d)
    BY <2>2, <2>4, <2>5, <2>6 DEF Gives, NewLock
  <2> QED BY <1>1, <2>3, <2>7, GivenKeeps
<1>4. dependencies' \subseteq Dependency
  BY DEF SetupTask, HubInv, Dependency
<1> QED BY <1>2, <1>3, <1>4 DEF HubInv

LEMMA CompleteTaskKeeps == ASSUME HubInv, NEW a \in Agents, NEW t \in Tasks, CompleteTask(a, t) PROVE HubInv'
<1>m. PICK mine : mine = {f \in DOMAIN locks : locks[f].by = a /\ locks[f].task = t}
  OBVIOUS
<1>t. PICK theirs : theirs = {<<a, f>> : f \in mine}
  OBVIOUS
<1>1. clock' = clock /\ locks' = DropEntries(locks, mine) /\ believes' = DropEntries(believes, theirs)
  BY <1>m, <1>t DEF CompleteTask
<1>2. \A b \in DOMAIN believes : b[2] \in mine => b \in theirs
  <2>1. ASSUME NEW b \in DOMAIN believes, b[2] \in mine PROVE b \in theirs
    <3>1. b[1] = a /\ b = <<b[1], b[2]>>
      BY <2>1, <1>m DEF HubInv, HubType, PromiseInv
    <3> QED BY <2>1, <3>1, <1>t
  <2> QED BY <2>1
<1>3. HubType' /\ PromiseInv'
  BY <1>1, <1>2, DroppedKeeps
<1>4. WaitersReleased'
  <2>1. completed_tasks' = completed_tasks \cup {t} /\ late' = late
        /\ dependencies' = (dependencies \ Released(t)) \cup {[d EXCEPT !.status = "ready"] : d \in Released(t)}
    BY DEF CompleteTask
  <2>2. ASSUME NEW d \in dependencies'
        PROVE  IF d.status = "ready" THEN d.to \in completed_tasks'
               ELSE d.to \in completed_tasks' => <<d.from, d.to>> \in late'
    <3>1. CASE d \in dependencies \ Released(t)
      BY <3>1, <2>1 DEF HubInv, WaitersReleased, Released, Dependency
    <3>2. ASSUME NEW w \in Released(t), d = [w EXCEPT !.status = "ready"] PROVE d.status = "ready" /\ d.to = t
      BY <3>2 DEF Released, HubInv, Dependency
    <3> QED BY <2>1, <3>1, <3>2
  <2> QED BY <2>2 DEF WaitersReleased
<1>5. dependencies' \subseteq Dependency
  <2>1. ASSUME NEW w \in Released(t) PROVE [w EXCEPT !.status = "ready"] \in Dependency
    BY DEF HubInv, Dependency, Released
  <2> QED BY <2>1 DEF CompleteTask, HubInv
<1> QED BY <1>3, <1>4, <1>5 DEF HubInv

-----------------------------------------------------------------------------
\* The hub keeps its invariant
THEOREM HubInvariance == HubSpec => []HubInv
<1>1. HubInit => HubInv
  BY DEF HubInit, HubInv, HubType, PromiseInv, WaitersReleased, NoEntries
<1>2. HubInv /\ [HubNext]_hubVars => HubInv'
  <2> SUFFICES ASSUME HubInv, [HubNext]_hubVars PROVE HubInv'
    OBVIOUS
  <2>1. CASE UNCHANGED hubVars
    BY <2>1 DEF hubVars, HubInv, HubType, PromiseInv, WaitersReleased
  <2> QED BY <2>1, TickKeeps, LockKeeps, UnlockKeeps, SetupKeeps, CompleteTaskKeeps DEF HubNext
<1> QED BY <1>1, <1>2, PTL DEF HubSpec

\* HubSound, for any agents, tasks, files, durations and clock: an agent that was told
\* it has a file has it, alone, until the instant it was promised, and a task waits for
\* no completed one but those that were completed before it was set up.
THEOREM HubIsSound == HubSpec => []HubSound
<1>1. HubInv => HubSound
  <2> SUFFICES ASSUME HubInv PROVE LocksExclusive
    BY DEF HubSound, HubInv
  <2>1. ASSUME NEW b \in DOMAIN believes, NEW a \in Agents \ {b[1]}
        PROVE  ~MayLock(locks, b[2], a) /\ Conflicting(b[2], a)
    <3>1. ~MayLock(locks, b[2], a)
      BY PromisedIsKept
    <3>2. Conflicting(b[2], a)
      BY DEF HubInv, HubType, PromiseInv, Conflicting
    <3> QED BY <3>1, <3>2
  <2> QED BY <2>1 DEF LocksExclusive, HubInv, PromiseInv
<1> QED BY <1>1, HubInvariance, PTL

-----------------------------------------------------------------------------
\* The stages.  A stage that is left behind was settled by a final word of the user's, by
\* the absence of a question, or by rounds that ran out.

Settled == {"completed", "skipped"}

\* What the stage that returns was given: a final word of the user's, or none was
\* asked for, or the rounds ran out
RightlyReturned ==
  /\ returned \in {"completed", "skipped", "failed"}
  /\ Def.needs_confirmation =>
       /\ returned = "completed" => last_word = "pass" \/ Stage \in worn_out
       /\ returned = "skipped" => last_word = "skip"

\* The stage that execute leaves has the result it returned
RightlyLeft == RightlyReturned /\ Stage \in DOMAIN stages /\ stages[Stage] = returned
               /\ (Flow.stop_on_failure => returned # "failed")

\* The stages that execute has left behind
LeftBehind(i) == i < place \/ (i = place /\ step \in {"next", "over"})

PipelineInv ==
  /\ place \in Nat
  /\ step # "over" => pipeline = "running"
  /\ step = "return" => RightlyReturned
  /\ step = "next" /\ place > 0 => RightlyLeft
  /\ Flow.stop_on_failure /\ pipeline # "failed" =>
       \A i \in Nat \ {0} : LeftBehind(i) =>
         ExecutionOrder[i] \in DOMAIN stages /\ stages[ExecutionOrder[i]] \in Settled
  /\ pipeline = "success" => step = "over" /\ place = Len(ExecutionOrder)

LEMMA PipelineStarts == PipeInit => PipelineInv
BY DEF PipeInit, PipelineInv, LeftBehind, RightlyReturned, RightlyLeft

LEMMA PipelineShows == PipelineInv => StagesConfirmed
<1> SUFFICES ASSUME PipelineInv PROVE StagesConfirmed
  OBVIOUS
<1>1. ASSUME step = "next", place > 0, Def.needs_confirmation
      PROVE CASE stages[Stage] = "completed" -> last_word = "pass" \/ Stage \in worn_out
              [] stages[Stage] = "skipped"   -> last_word = "skip"
              [] OTHER                       -> ~Flow.stop_on_failure
  BY <1>1 DEF PipelineInv, RightlyLeft, RightlyReturned
<1>2. ASSUME pipeline = "success", Flow.stop_on_failure, NEW i \in 1..Len(ExecutionOrder)
      PROVE stages[ExecutionOrder[i]] \in {"completed", "skipped"}
  <2>1. place \in Nat /\ place = Len(ExecutionOrder) /\ step = "over"
    BY <1>2 DEF PipelineInv
  <2>2. i \in Nat \ {0} /\ LeftBehind(i)
    BY <2>1 DEF LeftBehind
  <2> QED
    BY <1>2, <2>2 DEF PipelineInv, Settled
<1> QED
  BY <1>1, <1>2 DEF StagesConfirmed

LEMMA ConfirmedKeeps ==
  ASSUME PipelineInv, step \in {"act", "review"}, Completed,
         UNCHANGED <<place, stages, pipeline, last_word, worn_out>>
  PROVE  PipelineInv'
BY DEF Completed, PipelineInv, LeftBehind, RightlyReturned, RightlyLeft, Def, Stage
LEMMA NextStageKeeps == ASSUME PipelineInv, NextStage PROVE PipelineInv'
<1>1. CASE place < Len(ExecutionOrder) /\ place' = place + 1 /\ step' = "act" /\ pipeline' = pipeline
  <2>1. ASSUME Flow.stop_on_failure, pipeline' # "failed", NEW i \in Nat \ {0}, LeftBehind(i)'
        PROVE ExecutionOrder[i] \in DOMAIN stages' /\ stages'[ExecutionOrder[i]] \in Settled
    <3>1. LeftBehind(i)
      BY <1>1, <2>1 DEF NextStage, PipelineInv, LeftBehind
    <3> QED
      BY <1>1, <2>1, <3>1 DEF NextStage, PipelineInv
  <2>2. place' \in Nat /\ step' = "act" /\ pipeline' = "running"
    BY <1>1 DEF NextStage, PipelineInv
  <2> QED
    BY <2>1, <2>2 DEF PipelineInv
<1>2. CASE step' = "over" /\ place' = place /\ pipeline' \in {"raised", "success"}
           /\ (pipeline' = "success" => place = Len(ExecutionOrder))
  <2>2. ASSUME Flow.stop_on_failure, NEW i \in Nat \ {0}, LeftBehind(i)'
        PROVE ExecutionOrder[i] \in DOMAIN stages /\ stages[ExecutionOrder[i]] \in Settled
    <3>1. LeftBehind(i)
      BY <1>2, <2>2 DEF NextStage, LeftBehind
    <3> QED
      BY <2>2, <3>1 DEF NextStage, PipelineInv
  <2> QED
    BY <1>2, <2>2 DEF PipelineInv, NextStage
<1> QED
  BY <1>1, <1>2 DEF NextStage

\* Steps that leave the stage where it is, between its start and its return
LEMMA WithinKeeps ==
  ASSUME PipelineInv, step \notin {"next", "over"}, step' \notin {"next", "over"},
         UNCHANGED <<place, stages, pipeline>>, step' = "return" => RightlyReturned'
  PROVE  PipelineInv'
BY DEF PipelineInv, LeftBehind

LEMMA AskKeeps == ASSUME PipelineInv, NEW word, Ask(word) PROVE PipelineInv'
<1>1. step = "ask" /\ step' \in {"ask", "act", "return"} /\ last_word' = word
      /\ UNCHANGED <<place, stages, pipeline>>
  BY DEF Ask, FinalWords, NextRound, Answered
<1>2. ASSUME step' = "return"
      PROVE \/ returned' = "completed" /\ (word = "pass" \/ Stage \in worn_out')
            \/ returned' = "skipped" /\ word = "skip"
            \/ returned' = "failed"
  BY <1>2 DEF Ask, FinalWords, NextRound, Answered
<1>3. step' = "return" => RightlyReturned'
  BY <1>1, <1>2 DEF RightlyReturned, Def, Stage
<1> QED
  BY <1>1, <1>3, WithinKeeps

LEMMA ReturnToConfirmationKeeps == ASSUME PipelineInv, ReturnToConfirmation PROVE PipelineInv'
<1>1. step = "return" /\ step' \in {"ask", "return"} /\ UNCHANGED <<place, stages, pipeline, last_word>>
  BY DEF ReturnToConfirmation, NextRound, Answered
<1>2. ASSUME step' = "return"
      PROVE \/ returned' = "completed" /\ Stage \in worn_out'
            \/ returned' = returned /\ worn_out' = worn_out
  BY <1>2 DEF ReturnToConfirmation, NextRound, Answered
<1>3. RightlyReturned
  BY <1>1 DEF PipelineInv
<1>4. step' = "return" => RightlyReturned'
  BY <1>1, <1>2, <1>3 DEF RightlyReturned, Def, Stage
<1> QED
  BY <1>1, <1>4, WithinKeeps

LEMMA ReturnToExecuteKeeps == ASSUME PipelineInv, ReturnToExecute PROVE PipelineInv'
<1>1. step = "return" /\ RightlyReturned /\ pipeline = "running"
      /\ UNCHANGED <<place, returned, last_word, worn_out>>
  BY DEF ReturnToExecute, PipelineInv
<1>2. CASE step' = "act" /\ UNCHANGED <<stages, pipeline>>
  BY <1>1, <1>2, WithinKeeps
<1>3. CASE /\ stages' = [s \in DOMAIN stages \cup {Stage} |-> IF s = Stage THEN returned ELSE stages[s]]
           /\ step' = "over" /\ pipeline' = "failed"
  BY <1>1, <1>3 DEF PipelineInv
<1>4. CASE /\ stages' = [s \in DOMAIN stages \cup {Stage} |-> IF s = Stage THEN returned ELSE stages[s]]
           /\ step' = "next" /\ pipeline' = pipeline
           /\ (Flow.stop_on_failure => returned # "failed")
  <2>1. stages'[Stage] = returned /\ Stage \in DOMAIN stages'
    BY <1>4
  <2>2. RightlyLeft'
    BY <1>1, <1>4, <2>1 DEF RightlyLeft, RightlyReturned, Def, Stage
  <2>3. ASSUME Flow.stop_on_failure, NEW i \in Nat \ {0}, LeftBehind(i)'
        PROVE ExecutionOrder[i] \in DOMAIN stages' /\ stages'[ExecutionOrder[i]] \in Settled
    <3>1. CASE ExecutionOrder[i] = Stage
      BY <1>1, <1>4, <2>1, <2>3, <3>1 DEF RightlyReturned, Settled
    <3>2. CASE ExecutionOrder[i] # Stage
      <4>1. LeftBehind(i)
        BY <1>1, <2>3, <3>2 DEF LeftBehind, Stage
      <4>2. ExecutionOrder[i] \in DOMAIN stages /\ stages[ExecutionOrder[i]] \in Settled
        BY <1>1, <2>3, <4>1 DEF PipelineInv
      <4> QED
        BY <1>4, <3>2, <4>2
    <3> QED
      BY <3>1, <3>2
  <2> QED
    BY <1>1, <1>4, <2>2, <2>3 DEF PipelineInv
<1> QED
  BY <1>2, <1>3, <1>4 DEF ReturnToExecute

\* PipelineInv is an invariant of the pipeline, over any flow.
THEOREM PipelineInvariance == PipeSpec => []PipelineInv
<1>1. PipelineInv /\ [PipeNext]_pipeVars => PipelineInv'
  <2> SUFFICES ASSUME PipelineInv, [PipeNext]_pipeVars PROVE PipelineInv'
    OBVIOUS
  <2>1. CASE NextStage
    BY <2>1, NextStageKeeps
  <2>2. CASE Act
    <3>1. CASE Completed
      BY <2>2, <3>1, ConfirmedKeeps DEF Act
    <3>2. CASE step' = "review"
      BY <2>2, <3>2, WithinKeeps DEF Act
    <3> QED
      BY <2>2, <3>1, <3>2 DEF Act
  <2>3. CASE Review
    <3>1. CASE Completed
      BY <2>3, <3>1, ConfirmedKeeps DEF Review
    <3>2. CASE step' = "act"
      BY <2>3, <3>2, WithinKeeps DEF Review
    <3> QED
      BY <2>3, <3>1, <3>2 DEF Review
  <2>4. ASSUME NEW word, Ask(word) PROVE PipelineInv'
    BY <2>4, AskKeeps
  <2>5. CASE ReturnToConfirmation
    BY <2>5, ReturnToConfirmationKeeps
  <2>6. CASE ReturnToExecute
    BY <2>6, ReturnToExecuteKeeps
  <2>7. CASE UNCHANGED pipeVars
    BY <2>7 DEF pipeVars, PipelineInv, LeftBehind, RightlyReturned, RightlyLeft, Def, Stage
  <2> QED
    BY <2>1, <2>2, <2>3, <2>4, <2>5, <2>6, <2>7 DEF PipeNext
<1> QED
  BY PipelineStarts, <1>1, PTL DEF PipeSpec

\* StagesConfirmed holds of any flow, with critics or without, however many rounds of
\* feedback its confirmations have and however deep versions are asked for.
THEOREM StagesAreConfirmed == PipeSpec => []StagesConfirmed
BY PipelineInvariance, PipelineShows, PTL

-----------------------------------------------------------------------------
\* The subtasks of a task.  A plan's layers are what the rounds of _compute_execution_order
\* take, one after the other: each takes something, and what a subtask depends on and has
\* not been taken yet is what its degree counts, as long as it is listed once.

\* What is left when a list of lists is flattened
FlatRun(ss, g) == g = [i \in 1..Len(ss) |-> IF i = 1 THEN ss[1] ELSE g[i - 1] \o ss[i]]

LEMMA FlatRuns ==
  ASSUME NEW T, NEW ss \in Seq(Seq(T)), ss # <<>>
  PROVE  /\ Len(ss) \in Nat \ {0} /\ DOMAIN ss = 1..Len(ss) /\ \A i \in 1..Len(ss) : ss[i] \in Seq(T)
         /\ \E f : FlatRun(ss, f) /\ FlattenSeq(ss) = f[Len(ss)]
<1> DEFINE N == Len(ss)
           X == Seq(T)
           turn == [nx \in (1..(N - 1)) \X X |-> nx[2] \o ss[nx[1] + 1]]
<1>1. N \in Nat \ {0} /\ DOMAIN ss = 1..N /\ \A i \in 1..N : ss[i] \in X
  BY LenProperties, ElementOfSeq, EmptySeq
<1>2. turn \in [(1..(N - 1)) \X X -> X]
  <2> SUFFICES ASSUME NEW n \in 1..(N - 1), NEW x \in X PROVE x \o ss[n + 1] \in X
    OBVIOUS
  <2>1. n + 1 \in 1..N
    BY <1>1
  <2> QED BY <1>1, <2>1, ConcatProperties
<1>3. \E g : FlatRun(ss, g)
  <2>1. PICK h \in [0..(N - 1) -> X] : h = [n \in 0..(N - 1) |-> IF n = 0 THEN ss[1] ELSE turn[<<n, h[n - 1]>>]]
    <3>1. N - 1 \in Nat /\ ss[1] \in X
      BY <1>1
    <3> HIDE DEF N, X, turn
    <3> PICK Y : Y = X
      OBVIOUS
    <3> PICK b \in Y, n \in Nat : b = ss[1] /\ n = N - 1
      BY <3>1
    <3> PICK s \in [(1..n) \X Y -> Y] : s = turn
      BY <1>2
    <3> PICK h : Recursion(n, Y, b, s, h)
      BY RecursionTheorem
    <3> QED BY DEF Recursion
  <2> DEFINE g == [i \in 1..N |-> h[i - 1]]
  <2>2. \A i \in 1..N : g[i] = IF i = 1 THEN ss[1] ELSE g[i - 1] \o ss[i]
    <3> SUFFICES ASSUME NEW i \in 1..N PROVE g[i] = IF i = 1 THEN ss[1] ELSE g[i - 1] \o ss[i]
      OBVIOUS
    <3>1. CASE i = 1
      <4>1. 0 \in 0..(N - 1) /\ i - 1 = 0
        BY <1>1, <3>1
      <4> QED BY <2>1, <3>1, <4>1
    <3>2. CASE i # 1
      <4>1. /\ i - 1 \in 1..(N - 1) /\ i - 1 \in 0..(N - 1) /\ i - 1 # 0 /\ (i - 1) - 1 \in 0..(N - 1)
            /\ i - 1 \in 1..N /\ (i - 1) + 1 = i
        BY <1>1, <3>2
      <4>2. h[i - 1] = turn[<<i - 1, h[(i - 1) - 1]>>]
        BY <2>1, <4>1
      <4>3. h[(i - 1) - 1] \in X
        BY <2>1, <4>1
      <4>4. turn[<<i - 1, h[(i - 1) - 1]>>] = h[(i - 1) - 1] \o ss[i]
        BY <4>1, <4>3
      <4>5. g[i] = h[i - 1] /\ g[i - 1] = h[(i - 1) - 1]
        BY <4>1
      <4> QED BY <3>2, <4>2, <4>4, <4>5
    <3> QED BY <3>1, <3>2
  <2>3. FlatRun(ss, g)
    BY <2>2 DEF FlatRun
  <2> QED BY <2>3
<1>4. FlattenSeq(ss) = (CHOOSE f : FlatRun(ss, f))[N]
  <2>1. Len(ss) # 0
    BY <1>1
  <2> QED BY <2>1, Zenon DEF FlattenSeq, FlatRun
<1> QED BY <1>1, <1>3, <1>4

LEMMA FlattenDoes ==
  ASSUME NEW T, NEW ss \in Seq(Seq(T))
  PROVE  /\ FlattenSeq(ss) \in Seq(T)
         /\ \A x : x \in Range(FlattenSeq(ss)) <=> \E i \in DOMAIN ss : x \in Range(ss[i])
<1>1. CASE ss = <<>>
  <2>1. Len(ss) = 0 /\ FlattenSeq(ss) = ss /\ ss \in Seq(T) /\ DOMAIN ss = {}
    BY <1>1 DEF FlattenSeq
  <2> QED BY <2>1 DEF Range
<1>2. CASE ss # <<>>
  <2> DEFINE N == Len(ss)
  <2>1. N \in Nat \ {0} /\ DOMAIN ss = 1..N /\ \A i \in 1..N : ss[i] \in Seq(T)
    BY <1>2, FlatRuns
  <2> PICK f : FlatRun(ss, f) /\ FlattenSeq(ss) = f[N]
    BY <1>2, FlatRuns
  <2> DEFINE Has(k) == \A x : x \in Range(f[k]) <=> \E i \in 1..k : x \in Range(ss[i])
             P == {k \in Nat : k + 1 <= N => f[k + 1] \in Seq(T) /\ Has(k + 1)}
  <2>2. 0 \in P
    <3>1. f[1] = ss[1] /\ 1 \in 1..N /\ 1..1 = {1} /\ 0 + 1 = 1
      BY <2>1 DEF FlatRun
    <3>2. f[1] \in Seq(T) /\ Has(1)
      BY <2>1, <3>1
    <3> HIDE DEF Has, N
    <3> QED BY <3>1, <3>2
  <2>3. ASSUME NEW k \in P PROVE k + 1 \in P
    <3> SUFFICES ASSUME k + 1 + 1 <= N PROVE f[k + 1 + 1] \in Seq(T) /\ Has(k + 1 + 1)
      OBVIOUS
    <3> PICK n \in Nat \ {0} : n = k + 1
      OBVIOUS
    <3>0. k \in Nat /\ k + 1 <= N /\ n <= N /\ n + 1 <= N
      BY <2>1
    <3>1. n \in 1..N /\ n + 1 \in 1..N /\ f[n] \in Seq(T) /\ Has(n) /\ (n + 1) - 1 = n /\ n + 1 # 1
      <4>1. n \in 1..N /\ n + 1 \in 1..N /\ (n + 1) - 1 = n /\ n + 1 # 1
        BY <2>1, <3>0
      <4>2. f[k + 1] \in Seq(T) /\ Has(k + 1)
        <5> HIDE DEF Has
        <5> QED BY <3>0
      <4> HIDE DEF Has
      <4> QED BY <4>1, <4>2
    <3>2. f[n + 1] = f[n] \o ss[n + 1]
      BY <3>1 DEF FlatRun
    <3>3. ss[n + 1] \in Seq(T)
      BY <2>1, <3>1
    <3>4. f[n + 1] \in Seq(T) /\ Range(f[n + 1]) = Range(f[n]) \cup Range(ss[n + 1])
      BY <3>1, <3>2, <3>3, ConcatProperties, RangeConcatenation
    <3>5. 1..(n + 1) = 1..n \cup {n + 1}
      OBVIOUS
    <3>6. Has(n + 1)
      BY <3>1, <3>4, <3>5
    <3> QED BY <3>4, <3>6
  <2>4. P = Nat
    <3> HIDE DEF P
    <3>1. P \subseteq Nat
      BY DEF P
    <3> QED BY <2>2, <2>3, <3>1, Inductive
  <2>5. f[N] \in Seq(T) /\ Has(N)
    <3>0. \A m \in Nat \ {0} : \E n \in Nat : n = m - 1
      OBVIOUS
    <3> PICK n \in Nat : n = N - 1
      <4> HIDE DEF N
      <4> QED BY <2>1, <3>0
    <3>1. n + 1 = N /\ n + 1 <= N
      <4> PICK m \in Nat \ {0} : m = N
        BY <2>1
      <4> HIDE DEF N
      <4>1. n + 1 = m /\ n + 1 <= m
        OBVIOUS
      <4> QED BY <4>1
    <3>2. n \in P
      BY <2>4
    <3> HIDE DEF N, Has
    <3>3. f[n + 1] \in Seq(T) /\ Has(n + 1)
      BY <3>1, <3>2
    <3> QED BY <3>1, <3>3
  <2> QED BY <2>1, <2>5
<1> QED BY <1>1, <1>2

\* A list in which nothing is twice, after one that has nothing of it
LEMMA ConcatOnce ==
  ASSUME NEW T, NEW r \in Seq(T), NEW t \in Seq(T), IsInjective(r), IsInjective(t), Range(r) \cap Range(t) = {}
  PROVE  IsInjective(r \o t)
<1> DEFINE rt == r \o t
<1>1. /\ Len(r) \in Nat /\ Len(t) \in Nat /\ DOMAIN r = 1..Len(r) /\ DOMAIN t = 1..Len(t)
      /\ DOMAIN rt = 1..(Len(r) + Len(t))
      /\ \A i \in 1..(Len(r) + Len(t)) : rt[i] = IF i <= Len(r) THEN r[i] ELSE t[i - Len(r)]
  BY ConcatProperties, LenProperties
<1>2. \A i \in 1..Len(r), j \in 1..Len(t) : r[i] # t[j]
  BY <1>1 DEF Range
<1> PICK n \in Nat, m \in Nat : n = Len(r) /\ m = Len(t)
  BY <1>1
<1> HIDE DEF rt
<1>3. ASSUME NEW i \in 1..(n + m), NEW j \in 1..(n + m), rt[i] = rt[j] PROVE i = j
  <2>1. CASE i <= n /\ j <= n
    <3>1. i \in DOMAIN r /\ j \in DOMAIN r /\ r[i] = r[j]
      BY <1>1, <1>3, <2>1
    <3> QED BY <3>1 DEF IsInjective
  <2>2. CASE ~(i <= n) /\ ~(j <= n)
    <3>1. i - n \in 1..m /\ j - n \in 1..m
      BY <2>2
    <3>2. i - n \in DOMAIN t /\ j - n \in DOMAIN t /\ t[i - n] = t[j - n]
      BY <1>1, <1>3, <2>2, <3>1
    <3>3. i - n = j - n
      BY <3>2 DEF IsInjective
    <3> QED BY <3>3
  <2>3. CASE i <= n /\ ~(j <= n)
    <3>1. i \in 1..n /\ j - n \in 1..m
      BY <2>3
    <3>2. r[i] = t[j - n]
      BY <1>1, <1>3, <2>3
    <3> QED BY <1>2, <3>1, <3>2
  <2>4. CASE ~(i <= n) /\ j <= n
    <3>1. j \in 1..n /\ i - n \in 1..m
      BY <2>4
    <3>2. r[j] = t[i - n]
      BY <1>1, <1>3, <2>4
    <3> QED BY <1>2, <3>1, <3>2
  <2> QED BY <2>1, <2>2, <2>3, <2>4
<1>4. IsInjective(rt)
  BY <1>1, <1>3 DEF IsInjective
<1> QED BY <1>4 DEF rt

\* Nothing is twice in a list of lists that is flattened, when nothing is in two of them
\* or twice in one.
LEMMA FlattenOnce ==
  ASSUME NEW T, NEW ss \in Seq(Seq(T)),
         \A i \in DOMAIN ss : IsInjective(ss[i]),
         \A i, j \in DOMAIN ss : i # j => Range(ss[i]) \cap Range(ss[j]) = {}
  PROVE  IsInjective(FlattenSeq(ss))
<1>1. CASE ss = <<>>
  <2>1. Len(ss) = 0 /\ FlattenSeq(ss) = ss /\ DOMAIN ss = {}
    BY <1>1 DEF FlattenSeq
  <2> QED BY <2>1 DEF IsInjective
<1>2. CASE ss # <<>>
  <2> DEFINE N == Len(ss)
  <2>1. N \in Nat \ {0} /\ DOMAIN ss = 1..N /\ \A i \in 1..N : ss[i] \in Seq(T)
    BY <1>2, FlatRuns
  <2> PICK f : FlatRun(ss, f) /\ FlattenSeq(ss) = f[N]
    BY <1>2, FlatRuns
  <2> DEFINE Has(k) == \A x : x \in Range(f[k]) <=> \E i \in 1..k : x \in Range(ss[i])
             Once(k) == f[k] \in Seq(T) /\ Has(k) /\ IsInjective(f[k])
             P == {k \in Nat : k + 1 <= N => Once(k + 1)}
  <2>2. 0 \in P
    <3>1. f[1] = ss[1] /\ 1 \in 1..N /\ 1..1 = {1} /\ 0 + 1 = 1
      BY <2>1 DEF FlatRun
    <3>2. f[1] \in Seq(T) /\ Has(1) /\ IsInjective(f[1])
      BY <2>1, <3>1
    <3> HIDE DEF Has, N
    <3> QED BY <3>1, <3>2
  <2>3. ASSUME NEW k \in P PROVE k + 1 \in P
    <3> SUFFICES ASSUME k + 1 + 1 <= N PROVE Once(k + 1 + 1)
      OBVIOUS
    <3> PICK n \in Nat \ {0} : n = k + 1
      OBVIOUS
    <3>0. k \in Nat /\ k + 1 <= N /\ n <= N /\ n + 1 <= N
      BY <2>1
    <3>1. n \in 1..N /\ n + 1 \in 1..N /\ (n + 1) - 1 = n /\ n + 1 # 1 /\ 1..(n + 1) = 1..n \cup {n + 1}
      BY <2>1, <3>0
    <3>2. Once(n)
      <4> HIDE DEF Once
      <4> QED BY <3>0
    <3>3. f[n + 1] = f[n] \o ss[n + 1]
      BY <3>1 DEF FlatRun
    <3>4. ss[n + 1] \in Seq(T) /\ IsInjective(ss[n + 1])
      BY <2>1, <3>1
    <3>5. Range(f[n]) \cap Range(ss[n + 1]) = {}
      <4>1. \A i \in 1..n : i \in DOMAIN ss /\ i # n + 1
        BY <2>1, <3>1
      <4>2. \A i \in 1..n : Range(ss[i]) \cap Range(ss[n + 1]) = {}
        BY <2>1, <3>1, <4>1
      <4> QED BY <3>2, <4>2
    <3>6. f[n + 1] \in Seq(T) /\ Range(f[n + 1]) = Range(f[n]) \cup Range(ss[n + 1])
      BY <3>2, <3>3, <3>4, ConcatProperties, RangeConcatenation
    <3>7. IsInjective(f[n + 1])
      BY <3>2, <3>3, <3>4, <3>5, ConcatOnce
    <3>8. Has(n + 1)
      BY <3>1, <3>2, <3>6
    <3> QED BY <3>6, <3>7, <3>8
  <2>4. P = Nat
    <3> HIDE DEF P
    <3>1. P \subseteq Nat
      BY DEF P
    <3> QED BY <2>2, <2>3, <3>1, Inductive
  <2>5. Once(N)
    <3> PICK m \in Nat \ {0} : m = N
      BY <2>1
    <3>1. m - 1 \in Nat /\ (m - 1) + 1 = m /\ m <= m
      OBVIOUS
    <3> HIDE DEF Once, N
    <3> QED BY <2>4, <3>1
  <2> QED BY <2>5
<1> QED BY <1>1, <1>2

-----------------------------------------------------------------------------
(* The rounds of _compute_execution_order *)

Rounds(V) == [layers : Seq(SUBSET V), remaining : SUBSET V, in_degree : [V -> Int]]

FirstRound(graph) ==
  [layers |-> <<>>, remaining |-> DOMAIN graph, in_degree |-> [x \in DOMAIN graph |-> Len(graph[x])]]

RoundAfter(graph, acc) == IF acc.remaining = {} THEN acc ELSE NextLayer(graph, acc)

RoundRun(graph, g) ==
  g = [n \in 0..Cardinality(DOMAIN graph) |->
        IF n = 0 THEN FirstRound(graph) ELSE RoundAfter(graph, g[n - 1])]

\* A round takes some of what remains, and it is the next layer.
Takes(V, graph, acc, new, layer, n) ==
  /\ new \in Rounds(V) /\ layer # {} /\ layer \subseteq acc.remaining /\ new.remaining = acc.remaining \ layer
  /\ n \in Nat /\ DOMAIN acc.layers = 1..n /\ DOMAIN new.layers = 1..(n + 1)
  /\ new.layers[n + 1] = layer /\ \A k \in 1..n : new.layers[k] = acc.layers[k]
  /\ \A x \in new.remaining : new.in_degree[x] = acc.in_degree[x] - Cardinality(layer \cap Range(graph[x]))

LEMMA RoundDoes ==
  ASSUME NEW V, IsFiniteSet(V), NEW graph \in [V -> Seq(V)], NEW acc \in Rounds(V), acc.remaining # {},
         NEW new, new = RoundAfter(graph, acc)
  PROVE  Takes(V, graph, acc, new, CurrentLayer(acc), Len(acc.layers))
<1> PICK layer : layer = CurrentLayer(acc)
  OBVIOUS
<1> PICK n : n = Len(acc.layers)
  OBVIOUS
<1>1. layer # {} /\ layer \subseteq acc.remaining
  BY DEF CurrentLayer, ZeroDegree
<1>2. acc.layers \in Seq(SUBSET V) /\ acc.remaining \subseteq V /\ acc.in_degree \in [V -> Int]
  BY DEF Rounds
<1>3. layer \in SUBSET V
  BY <1>1, <1>2
<1>4. \A x \in V : Cardinality(layer \cap Range(graph[x])) \in Int
  <2> SUFFICES ASSUME NEW x \in V PROVE Cardinality(layer \cap Range(graph[x])) \in Int
    OBVIOUS
  <2>1. IsFiniteSet(layer \cap Range(graph[x]))
    BY <1>3, FS_Subset
  <2> QED BY <2>1, FS_CardinalityType
<1>5. new = [layers |-> Append(acc.layers, layer), remaining |-> acc.remaining \ layer,
             in_degree |-> [x \in DOMAIN acc.in_degree |->
                             IF x \in layer THEN 0 ELSE acc.in_degree[x] - Cardinality(layer \cap Range(graph[x]))]]
  BY DEF RoundAfter, NextLayer
<1>6. /\ new.layers = Append(acc.layers, layer) /\ new.remaining = acc.remaining \ layer
      /\ new.in_degree = [x \in V |->
           IF x \in layer THEN 0 ELSE acc.in_degree[x] - Cardinality(layer \cap Range(graph[x]))]
  BY <1>2, <1>5
<1>7. new.in_degree \in [V -> Int]
  <2>1. \A x \in V : acc.in_degree[x] - Cardinality(layer \cap Range(graph[x])) \in Int
    <3>1. \A a, b \in Int : a - b \in Int
      OBVIOUS
    <3>2. \A x \in V : acc.in_degree[x] \in Int
      BY <1>2
    <3> QED BY <1>4, <3>1, <3>2, Zenon
  <2> DEFINE left(x) == acc.in_degree[x] - Cardinality(layer \cap Range(graph[x]))
  <2>2. new.in_degree = [x \in V |-> IF x \in layer THEN 0 ELSE left(x)]
    BY <1>6
  <2> HIDE DEF left
  <2>3. \A x \in V : left(x) \in Int
    BY <2>1 DEF left
  <2> QED BY <2>2, <2>3
<1>8. /\ new.layers \in Seq(SUBSET V) /\ Len(new.layers) = n + 1
      /\ new.layers[n + 1] = layer /\ \A k \in 1..n : new.layers[k] = acc.layers[k]
  BY <1>2, <1>3, <1>6, AppendProperties
<1>9. n \in Nat /\ DOMAIN acc.layers = 1..n /\ DOMAIN new.layers = 1..(n + 1)
  BY <1>2, <1>8, LenProperties
<1>10. new \in Rounds(V)
  BY <1>2, <1>5, <1>6, <1>7, <1>8 DEF Rounds
<1>11. \A x \in new.remaining : x \in V /\ x \notin layer
  BY <1>2, <1>6
<1>12. \A x \in new.remaining : new.in_degree[x] = acc.in_degree[x] - Cardinality(layer \cap Range(graph[x]))
  BY <1>6, <1>11
<1> QED BY <1>1, <1>6, <1>8, <1>9, <1>10, <1>12 DEF Takes

LEMMA RoundStays ==
  ASSUME NEW V, IsFiniteSet(V), NEW graph \in [V -> Seq(V)], NEW acc \in Rounds(V)
  PROVE  RoundAfter(graph, acc) \in Rounds(V)
<1>1. CASE acc.remaining = {}
  BY <1>1 DEF RoundAfter
<1>2. CASE acc.remaining # {}
  BY <1>2, RoundDoes DEF Takes
<1> QED BY <1>1, <1>2

LEMMA RoundRuns ==
  ASSUME NEW V, IsFiniteSet(V), NEW graph \in [V -> Seq(V)]
  PROVE  /\ Cardinality(V) \in Nat /\ FirstRound(graph) \in Rounds(V)
         /\ \E f \in [0..Cardinality(V) -> Rounds(V)] :
              RoundRun(graph, f) /\ Layers(graph) = f[Cardinality(V)].layers
<1> DEFINE N == Cardinality(V)
           X == Rounds(V)
           start == FirstRound(graph)
           turn == [nx \in (1..N) \X X |-> RoundAfter(graph, nx[2])]
<1>1. N \in Nat /\ DOMAIN graph = V
  BY FS_CardinalityType
<1>2. start \in X
  <2>1. \A x \in V : Len(graph[x]) \in Int
    BY LenProperties
  <2>2. <<>> \in Seq(SUBSET V)
    BY EmptySeq
  <2> QED BY <1>1, <2>1, <2>2 DEF FirstRound, Rounds
<1>3. turn \in [(1..N) \X X -> X]
  <2>1. \A acc \in X : RoundAfter(graph, acc) \in X
    BY RoundStays
  <2> HIDE DEF X
  <2> QED BY <2>1
<1>4. PICK h \in [0..N -> X] : h = [n \in 0..N |-> IF n = 0 THEN start ELSE turn[<<n, h[n - 1]>>]]
  <2> HIDE DEF start, N, turn, X
  <2> PICK Y : Y = X
    OBVIOUS
  <2> PICK b \in Y, n \in Nat : b = start /\ n = N
    BY <1>1, <1>2
  <2> PICK s \in [(1..n) \X Y -> Y] : s = turn
    BY <1>3
  <2> PICK h : Recursion(n, Y, b, s, h)
    BY RecursionTheorem
  <2> QED BY DEF Recursion
<1>5. \A n \in 0..N : n # 0 => turn[<<n, h[n - 1]>>] = RoundAfter(graph, h[n - 1])
  <2>1. \A n \in 0..N : n # 0 => <<n, h[n - 1]>> \in (1..N) \X X
    <3> HIDE DEF X
    <3> QED BY <1>1
  <2> QED BY <2>1
<1>6. RoundRun(graph, h)
  <2> HIDE DEF turn
  <2> QED BY <1>1, <1>4, <1>5 DEF RoundRun
<1>7. Layers(graph) = (CHOOSE f : RoundRun(graph, f))[N].layers
  BY <1>1, Zenon DEF Layers, RoundRun, RoundAfter, FirstRound
<1> PICK f : RoundRun(graph, f) /\ Layers(graph) = f[N].layers
  BY <1>6, <1>7
<1> DEFINE P == {n \in Nat : n <= N => f[n] \in X}
<1>8. 0 \in P
  BY <1>1, <1>2 DEF RoundRun
<1>9. ASSUME NEW n \in P PROVE n + 1 \in P
  <2> SUFFICES ASSUME n + 1 <= N PROVE f[n + 1] \in X
    OBVIOUS
  <2>1. n + 1 \in 0..N /\ n + 1 # 0 /\ (n + 1) - 1 = n /\ f[n] \in X
    BY <1>1
  <2>2. f[n + 1] = RoundAfter(graph, f[n])
    BY <1>1, <2>1 DEF RoundRun
  <2> QED BY <2>1, <2>2, RoundStays
<1>10. P = Nat
  <2> HIDE DEF P
  <2>1. P \subseteq Nat
    BY DEF P
  <2> QED BY <1>8, <1>9, <2>1, Inductive
<1>11. f \in [0..N -> X]
  <2>1. \A n \in 0..N : f[n] \in X
    BY <1>1, <1>10
  <2>2. f = [n \in 0..N |-> f[n]]
    BY <1>1 DEF RoundRun
  <2> HIDE DEF X
  <2> QED BY <2>1, <2>2
<1> QED BY <1>1, <1>2, <1>11

\* What the rounds have settled: each that does not remain is in one layer, and what
\* remains waits for as many as of it remain.  Without a cycle nobody is in a layer
\* before all it depends on are in earlier ones.
NothingTwice(graph) == \A x \in DOMAIN graph : IsInjective(graph[x])
NoCircle(graph) == \A S \in SUBSET DOMAIN graph : S # {} => \E x \in S : Range(graph[x]) \cap S = {}

Layered(V, acc) ==
  /\ \A x : (\E k \in DOMAIN acc.layers : x \in acc.layers[k]) <=> x \in V \ acc.remaining
  /\ \A i, j \in DOMAIN acc.layers : i # j => acc.layers[i] \cap acc.layers[j] = {}

Counted(graph, acc) ==
  NothingTwice(graph) => \A x \in acc.remaining : acc.in_degree[x] = Cardinality(acc.remaining \cap Range(graph[x]))

InTurn(graph, acc) ==
  NothingTwice(graph) /\ NoCircle(graph) =>
    \A k \in DOMAIN acc.layers : \A x \in acc.layers[k] : \A y \in Range(graph[x]) :
      \E j \in 1..(k - 1) : y \in acc.layers[j]

LEMMA FirstIsLayered ==
  ASSUME NEW V, IsFiniteSet(V), NEW graph \in [V -> Seq(V)]
  PROVE  LET acc == FirstRound(graph) IN Layered(V, acc) /\ Counted(graph, acc) /\ InTurn(graph, acc)
<1> DEFINE acc == FirstRound(graph)
<1>1. /\ acc.layers = <<>> /\ DOMAIN acc.layers = {} /\ acc.remaining = V
      /\ acc.in_degree = [x \in V |-> Len(graph[x])]
  BY DEF FirstRound
<1>2. Layered(V, acc) /\ InTurn(graph, acc)
  BY <1>1 DEF Layered, InTurn
<1>3. ASSUME NEW x \in V, IsInjective(graph[x]) PROVE Len(graph[x]) = Cardinality(V \cap Range(graph[x]))
  <2> PICK s \in Seq(V) : s = graph[x]
    OBVIOUS
  <2>1. Len(s) \in Nat /\ s \in [1..Len(s) -> V] /\ DOMAIN s = 1..Len(s)
    BY LenProperties
  <2>2. Range(s) \subseteq V /\ V \cap Range(s) = Range(s)
    BY <2>1 DEF Range
  <2>3. s \in Bijection(1..Len(s), Range(s))
    BY <1>3, <2>1 DEF Bijection, Injection, Surjection, Range, IsInjective
  <2>4. ExistsBijection(1..Len(s), Range(s))
    BY <2>3 DEF ExistsBijection
  <2> QED BY <2>1, <2>2, <2>4, FS_CountingElements
<1>4. Counted(graph, acc)
  BY <1>1, <1>3 DEF Counted, NothingTwice
<1> QED BY <1>2, <1>4

LEMMA RoundKeeps ==
  ASSUME NEW V, IsFiniteSet(V), NEW graph \in [V -> Seq(V)], NEW acc \in Rounds(V), acc.remaining # {},
         Layered(V, acc), Counted(graph, acc), InTurn(graph, acc), NEW new, new = RoundAfter(graph, acc)
  PROVE  /\ new \in Rounds(V) /\ Layered(V, new) /\ Counted(graph, new) /\ InTurn(graph, new)
         /\ Cardinality(new.remaining) < Cardinality(acc.remaining)
<1> PICK layer : layer = CurrentLayer(acc)
  OBVIOUS
<1> PICK n : n = Len(acc.layers)
  OBVIOUS
<1>0. Takes(V, graph, acc, new, layer, n)
  BY RoundDoes
<1>1. /\ new \in Rounds(V) /\ layer # {} /\ layer \subseteq acc.remaining /\ new.remaining = acc.remaining \ layer
      /\ n \in Nat /\ DOMAIN acc.layers = 1..n /\ DOMAIN new.layers = 1..(n + 1)
      /\ new.layers[n + 1] = layer /\ \A k \in 1..n : new.layers[k] = acc.layers[k]
      /\ \A x \in new.remaining : new.in_degree[x] = acc.in_degree[x] - Cardinality(layer \cap Range(graph[x]))
  BY <1>0 DEF Takes
<1>2. acc.remaining \subseteq V /\ IsFiniteSet(acc.remaining)
  <2>1. acc.remaining \in SUBSET V
    BY DEF Rounds
  <2> QED BY <2>1, FS_Subset
<1>3. \A k \in 1..(n + 1) : k = n + 1 \/ k \in 1..n
  BY <1>1
<1>4. n + 1 \in 1..(n + 1) /\ \A k \in 1..n : k \in 1..(n + 1) /\ k # n + 1
  BY <1>1
<1>5. Layered(V, new)
  <2>1. ASSUME NEW x PROVE (\E k \in 1..(n + 1) : x \in new.layers[k]) <=> x \in V \ new.remaining
    <3>1. (\E k \in 1..(n + 1) : x \in new.layers[k]) <=> x \in layer \/ \E k \in 1..n : x \in acc.layers[k]
      BY <1>1, <1>3, <1>4
    <3> QED BY <1>1, <1>2, <3>1 DEF Layered
  <2>2. \A k \in 1..n : acc.layers[k] \cap layer = {}
    BY <1>1 DEF Layered
  <2>3. ASSUME NEW i \in 1..(n + 1), NEW j \in 1..(n + 1), i # j PROVE new.layers[i] \cap new.layers[j] = {}
    <3>1. CASE i \in 1..n /\ j \in 1..n
      BY <1>1, <2>3, <3>1 DEF Layered
    <3>2. CASE i = n + 1
      <4>1. j \in 1..n
        BY <1>3, <2>3, <3>2
      <4> QED BY <1>1, <2>2, <3>2, <4>1
    <3>3. CASE j = n + 1
      <4>1. i \in 1..n
        BY <1>3, <2>3, <3>3
      <4> QED BY <1>1, <2>2, <3>3, <4>1
    <3> QED BY <1>3, <3>1, <3>2, <3>3
  <2>4. DOMAIN new.layers = 1..(n + 1)
    BY <1>1
  <2> QED BY <2>1, <2>3, <2>4 DEF Layered
<1>6. Counted(graph, new)
  <2> SUFFICES ASSUME NothingTwice(graph), NEW x \in new.remaining
               PROVE  new.in_degree[x] = Cardinality(new.remaining \cap Range(graph[x]))
    BY DEF Counted
  <2> DEFINE old == acc.remaining \cap Range(graph[x])
  <2>1. IsFiniteSet(old)
    BY <1>2, FS_Subset
  <2>2. old \cap layer = layer \cap Range(graph[x]) /\ old \ layer = new.remaining \cap Range(graph[x])
    BY <1>1
  <2>3. Cardinality(old \ layer) = Cardinality(old) - Cardinality(old \cap layer)
    <3> HIDE DEF old
    <3> QED BY <2>1, FS_Difference
  <2>4. acc.in_degree[x] = Cardinality(old)
    BY <1>1 DEF Counted
  <2> HIDE DEF old
  <2> QED BY <1>1, <2>2, <2>3, <2>4
<1>7. InTurn(graph, new)
  <2> SUFFICES ASSUME NothingTwice(graph), NoCircle(graph), NEW k \in 1..(n + 1), NEW x \in new.layers[k],
                      NEW y \in Range(graph[x])
               PROVE  \E j \in 1..(k - 1) : y \in new.layers[j]
    BY <1>1 DEF InTurn
  <2>1. CASE k \in 1..n
    <3>1. \E j \in 1..(k - 1) : y \in acc.layers[j]
      BY <1>1, <2>1 DEF InTurn
    <3>2. 1..(k - 1) \subseteq 1..n
      BY <1>1, <2>1
    <3> QED BY <1>1, <3>1, <3>2
  <2>2. CASE k = n + 1
    <3>1. ZeroDegree(acc) # {}
      <4>1. PICK z \in acc.remaining : Range(graph[z]) \cap acc.remaining = {}
        BY <1>2 DEF NoCircle
      <4>2. acc.in_degree[z] = 0
        BY <4>1, FS_EmptySet DEF Counted
      <4> QED BY <4>1, <4>2 DEF ZeroDegree
    <3>2. x \in acc.remaining /\ acc.in_degree[x] = 0
      BY <1>1, <2>2, <3>1 DEF CurrentLayer, ZeroDegree
    <3>3. acc.remaining \cap Range(graph[x]) = {}
      <4>1. IsFiniteSet(acc.remaining \cap Range(graph[x]))
        BY <1>2, FS_Subset
      <4>2. Cardinality(acc.remaining \cap Range(graph[x])) = 0
        BY <3>2 DEF Counted
      <4> QED BY <4>1, <4>2, FS_EmptySet
    <3>4. y \in V
      <4>1. x \in V /\ graph[x] \in Seq(V)
        BY <1>2, <3>2
      <4> QED BY <4>1, RangeOfSeq
    <3>5. PICK j \in 1..n : y \in acc.layers[j]
      BY <1>1, <3>3, <3>4 DEF Layered
    <3>6. j \in 1..(k - 1)
      BY <1>1, <2>2
    <3> QED BY <1>1, <3>5, <3>6
  <2> QED BY <1>3, <2>1, <2>2
<1>8. Cardinality(new.remaining) < Cardinality(acc.remaining)
  <2>1. new.remaining \in SUBSET acc.remaining /\ new.remaining # acc.remaining
    BY <1>1
  <2>2. /\ IsFiniteSet(new.remaining) /\ Cardinality(new.remaining) <= Cardinality(acc.remaining)
        /\ Cardinality(new.remaining) # Cardinality(acc.remaining)
    BY <1>2, <2>1, FS_Subset
  <2>3. Cardinality(new.remaining) \in Nat /\ Cardinality(acc.remaining) \in Nat
    BY <1>2, <2>2, FS_CardinalityType
  <2> QED BY <2>2, <2>3
<1> QED BY <1>1, <1>5, <1>6, <1>7, <1>8

\* The layers are those of a plan in which nobody remains.
LEMMA LayersAre ==
  ASSUME NEW V, IsFiniteSet(V), NEW graph \in [V -> Seq(V)]
  PROVE  \E acc \in Rounds(V) : /\ acc.layers = Layers(graph) /\ acc.remaining = {}
                                /\ Layered(V, acc) /\ InTurn(graph, acc)
<1> DEFINE N == Cardinality(V)
<1>1. N \in Nat /\ FirstRound(graph) \in Rounds(V) /\ DOMAIN graph = V
  BY RoundRuns
<1> PICK f \in [0..N -> Rounds(V)] : RoundRun(graph, f) /\ Layers(graph) = f[N].layers
  BY RoundRuns
<1> DEFINE Good(acc) == Layered(V, acc) /\ Counted(graph, acc) /\ InTurn(graph, acc)
           P == {n \in Nat : n <= N => Good(f[n]) /\ Cardinality(f[n].remaining) <= N - n}
<1>2. 0 \in P
  <2>1. 0 \in 0..N /\ f[0] = FirstRound(graph)
    BY <1>1 DEF RoundRun
  <2>2. f[0].remaining = V
    BY <1>1, <2>1 DEF FirstRound
  <2>3. Good(f[0])
    BY <2>1, FirstIsLayered
  <2> QED BY <1>1, <2>2, <2>3
<1>3. ASSUME NEW n \in P PROVE n + 1 \in P
  <2> SUFFICES ASSUME n + 1 <= N PROVE Good(f[n + 1]) /\ Cardinality(f[n + 1].remaining) <= N - (n + 1)
    OBVIOUS
  <2>1. /\ n \in 0..N /\ n + 1 \in 0..N /\ n + 1 # 0 /\ (n + 1) - 1 = n /\ Good(f[n])
        /\ Cardinality(f[n].remaining) <= N - n
    <3>1. n \in Nat /\ n <= N /\ (n <= N => Good(f[n]) /\ Cardinality(f[n].remaining) <= N - n)
      BY <1>1
    <3> HIDE DEF Good, N
    <3> QED BY <1>1, <3>1
  <2> PICK acc \in Rounds(V) : acc = f[n]
    BY <2>1
  <2>2. f[n + 1] = RoundAfter(graph, acc)
    BY <1>1, <2>1 DEF RoundRun
  <2> HIDE DEF P
  <2>3. CASE acc.remaining = {}
    <3>1. f[n + 1] = acc
      BY <2>2, <2>3 DEF RoundAfter
    <3>2. Cardinality(acc.remaining) = 0
      BY <2>3, FS_EmptySet
    <3> HIDE DEF Good
    <3> QED BY <1>1, <2>1, <3>1, <3>2
  <2>4. CASE acc.remaining # {}
    <3>1. Good(f[n + 1]) /\ Cardinality(f[n + 1].remaining) < Cardinality(acc.remaining) /\ f[n + 1] \in Rounds(V)
      BY <2>1, <2>2, <2>4, RoundKeeps
    <3>2. f[n + 1].remaining \in SUBSET V /\ acc.remaining \in SUBSET V
      BY <3>1 DEF Rounds
    <3>3. Cardinality(f[n + 1].remaining) \in Nat /\ Cardinality(acc.remaining) \in Nat
      BY <3>2, FS_Subset, FS_CardinalityType
    <3> HIDE DEF Good
    <3> QED BY <1>1, <2>1, <3>1, <3>3
  <2> QED BY <2>3, <2>4
<1>4. P = Nat
  <2> HIDE DEF P
  <2>1. P \subseteq Nat
    BY DEF P
  <2> QED BY <1>2, <1>3, <2>1, Inductive
<1>5. Good(f[N]) /\ Cardinality(f[N].remaining) <= 0 /\ f[N] \in Rounds(V)
  <2>1. N \in P /\ N <= N /\ N - N = 0 /\ N \in 0..N
    BY <1>1, <1>4
  <2> HIDE DEF Good
  <2> QED BY <2>1
<1>6. f[N].remaining = {}
  <2>1. f[N].remaining \in SUBSET V
    BY <1>5 DEF Rounds
  <2>2. IsFiniteSet(f[N].remaining) /\ Cardinality(f[N].remaining) \in Nat
    BY <2>1, FS_Subset, FS_CardinalityType
  <2>3. Cardinality(f[N].remaining) = 0
    BY <1>5, <2>2
  <2> QED BY <2>2, <2>3, FS_EmptySet
<1> QED BY <1>5, <1>6

-----------------------------------------------------------------------------
(* The plans                                                               *)

\* The graph has the subtasks, finitely many, for its nodes, and the order is its layers.
LayersInv ==
  /\ IsFiniteSet(Ids(subtasks))
  /\ dependency_graph \in [Ids(subtasks) -> Seq(Ids(subtasks))]
  /\ execution_order = Layers(dependency_graph)

LEMMA LayersShow == LayersInv => LayersSound
<1> SUFFICES ASSUME LayersInv PROVE LayersSound
  OBVIOUS
<1> PICK V : V = Ids(subtasks)
  OBVIOUS
<1> PICK graph \in [V -> Seq(V)] : graph = dependency_graph
  BY DEF LayersInv
<1>1. IsFiniteSet(V)
  BY DEF LayersInv
<1> PICK acc \in Rounds(V) : /\ acc.layers = Layers(graph) /\ acc.remaining = {}
                             /\ Layered(V, acc) /\ InTurn(graph, acc)
  BY <1>1, LayersAre
<1> PICK order \in Seq(SUBSET V) : order = execution_order /\ order = acc.layers
  BY DEF LayersInv, Rounds
<1>2. DOMAIN order = 1..Len(order) /\ Len(order) \in Nat
  BY LenProperties
<1>3. /\ \A x : (\E k \in DOMAIN order : x \in order[k]) <=> x \in V
      /\ \A i, j \in DOMAIN order : i # j => order[i] \cap order[j] = {}
  BY DEF Layered
<1>4. UNION Range(order) = V
  BY <1>3 DEF Range
<1>5. ASSUME ~Cyclic, ~Doubled, NEW x \in V, NEW y \in Range(graph[x]) PROVE Place(y) < Place(x)
  <2>1. NothingTwice(graph) /\ NoCircle(graph)
    BY <1>5 DEF Cyclic, Doubled, NothingTwice, NoCircle
  <2>2. PICK k \in DOMAIN order : x \in order[k]
    BY <1>3
  <2>3. PICK j \in 1..(k - 1) : y \in order[j]
    BY <2>1, <2>2 DEF InTurn
  <2>4. j \in DOMAIN order /\ j < k /\ j \in Nat /\ k \in Nat
    BY <1>2
  <2>5. Place(x) = k
    BY <1>3, <2>2 DEF Place
  <2>6. Place(y) = j
    BY <1>3, <2>3, <2>4 DEF Place
  <2> QED BY <2>4, <2>5, <2>6
<1> QED BY <1>3, <1>4, <1>5 DEF LayersSound

LEMMA IdsFinite ==
  ASSUME NEW T, NEW sts \in Seq(T)
  PROVE  IsFiniteSet(Ids(sts))
<1> DEFINE f == [i \in DOMAIN sts |-> sts[i].id]
<1>1. DOMAIN sts = 1..Len(sts) /\ Len(sts) \in Nat
  BY LenProperties
<1>2. IsFiniteSet(DOMAIN sts)
  BY <1>1, FS_Interval
<1>3. f \in Surjection(DOMAIN sts, Ids(sts))
  BY DEF Surjection, Ids
<1> HIDE DEF f
<1> QED BY <1>2, <1>3, FS_Surjection

LEMMA PlannedKeeps ==
  ASSUME NEW T, NEW sts \in Seq(T), NEW order, NEW graph \in [Ids(sts) -> Seq(Ids(sts))], Planned(order, sts, graph)
  PROVE  LayersInv'
<1>1. subtasks' = sts /\ dependency_graph' = graph /\ execution_order' = Layers(graph)
  BY DEF Planned
<1>2. Ids(subtasks)' = Ids(sts)
  BY <1>1 DEF Ids
<1>3. Layers(dependency_graph)' = Layers(dependency_graph')
  OBVIOUS
<1>4. IsFiniteSet(Ids(sts))
  BY IdsFinite
<1> QED BY <1>1, <1>2, <1>3, <1>4 DEF LayersInv

LEMMA DomainIdsAre ==
  ASSUME NEW T, NEW sts \in Seq(T), NEW st, NEW D, NEW asked \in Seq(D)
  PROVE  DomainIds(sts, st, asked) \in Seq(Ids(sts))
<1> DEFINE at(i) == {j \in DOMAIN sts : sts[j].domain = asked[i] /\ sts[j].id # st.id}
           found(i) == Picked(sts, at(i))
           ids(i) == [j \in DOMAIN found(i) |-> found(i)[j].id]
           lists == [i \in DOMAIN asked |-> ids(i)]
<1>1. DOMAIN asked = 1..Len(asked) /\ Len(asked) \in Nat
  BY LenProperties
<1>2. ASSUME NEW i \in DOMAIN asked PROVE ids(i) \in Seq(Ids(sts))
  <2> PICK P \in SUBSET DOMAIN sts : P = at(i)
    OBVIOUS
  <2> DEFINE s == Picked(sts, P)
  <2>1. IsFiniteSet(P) /\ DOMAIN s = 1..Cardinality(P) /\ \A k \in DOMAIN s : \E j \in P : s[k] = sts[j]
    <3> HIDE DEF at, found, ids, lists
    <3> QED BY PickedDoes
  <2> HIDE DEF s
  <2>2. Cardinality(P) \in Nat
    BY <2>1, FS_CardinalityType
  <2>3. \A k \in DOMAIN s : s[k].id \in Ids(sts)
    BY <2>1 DEF Ids
  <2> DEFINE list == [k \in DOMAIN s |-> s[k].id]
  <2>4. list \in [1..Cardinality(P) -> Ids(sts)]
    BY <2>1, <2>3
  <2>5. list \in Seq(Ids(sts))
    <3> HIDE DEF list, ids, lists, found, at
    <3> PICK X : X = Ids(sts)
      OBVIOUS
    <3> QED BY <2>2, <2>4, ListOf
  <2>6. ids(i) = list
    BY DEF s
  <2> HIDE DEF list, ids
  <2> QED BY <2>5, <2>6
<1>3. lists \in [1..Len(asked) -> Seq(Ids(sts))]
  <2> HIDE DEF ids
  <2> QED BY <1>1, <1>2
<1>4. lists \in Seq(Seq(Ids(sts)))
  <2> HIDE DEF lists
  <2> QED BY <1>1, <1>3, SeqDef
<1>5. FlattenSeq(lists) \in Seq(Ids(sts))
  <2> HIDE DEF lists
  <2> QED BY <1>4, FlattenDoes
<1> QED BY <1>5, Zenon DEF DomainIds

LEMMA GraphIs ==
  ASSUME NEW T, NEW sts \in Seq(T), NEW D, NEW listed \in [Ids(sts) -> Seq(D)]
  PROVE  GraphOf(sts, listed) \in [Ids(sts) -> Seq(Ids(sts))]
<1>1. ASSUME NEW x \in Ids(sts) PROVE DomainIds(sts, SubtaskOf(sts, x), listed[x]) \in Seq(Ids(sts))
  BY DomainIdsAre
<1> QED BY <1>1 DEF GraphOf

Needed == {"frontend", "backend", "database"}

LEMMA Dependencies == \A d : Listed(DOMAIN_DEPENDENCIES, d) \in Seq(Needed)
<1> SUFFICES ASSUME NEW d PROVE Listed(DOMAIN_DEPENDENCIES, d) \in Seq(Needed)
  OBVIOUS
<1>1. /\ <<>> \in Seq(Needed) /\ <<"backend">> \in Seq(Needed) /\ <<"database">> \in Seq(Needed)
      /\ <<"frontend", "backend", "database">> \in Seq(Needed)
  BY DEF Needed
<1>2. CASE d \in {"frontend", "devops"}
  <2>1. Listed(DOMAIN_DEPENDENCIES, d) = <<"backend">>
    BY <1>2 DEF Listed, DOMAIN_DEPENDENCIES
  <2> QED BY <1>1, <2>1
<1>3. CASE d = "backend"
  <2>1. Listed(DOMAIN_DEPENDENCIES, d) = <<"database">>
    BY <1>3 DEF Listed, DOMAIN_DEPENDENCIES
  <2> QED BY <1>1, <2>1
<1>4. CASE d \in {"test", "docs"}
  <2>1. Listed(DOMAIN_DEPENDENCIES, d) = <<"frontend", "backend", "database">>
    BY <1>4 DEF Listed, DOMAIN_DEPENDENCIES
  <2> QED BY <1>1, <2>1
<1>5. CASE d \notin {"frontend", "devops", "backend", "test", "docs"}
  <2>1. Listed(DOMAIN_DEPENDENCIES, d) = <<>>
    BY <1>5 DEF Listed, DOMAIN_DEPENDENCIES
  <2> QED BY <1>1, <2>1
<1> QED BY <1>2, <1>3, <1>4, <1>5

LEMMA OneEach ==
  ASSUME NEW D, NEW order \in Seq(D)
  PROVE  OnePerDomain(order) \in Seq(Range(OnePerDomain(order)))
<1>1. DOMAIN order = 1..Len(order) /\ Len(order) \in Nat
  BY LenProperties
<1>2. DOMAIN OnePerDomain(order) = 1..Len(order)
  BY <1>1 DEF OnePerDomain
<1>3. OnePerDomain(order) = [i \in DOMAIN OnePerDomain(order) |-> OnePerDomain(order)[i]]
  BY DEF OnePerDomain
<1> HIDE DEF OnePerDomain
<1> QED BY <1>1, <1>2, <1>3, IsList

LEMMA DecomposeKeeps == ASSUME NEW D, NEW order \in Seq(D), Decompose(order) PROVE LayersInv'
<1> PICK sts : sts = OnePerDomain(order)
  OBVIOUS
<1> PICK T : T = Range(sts)
  OBVIOUS
<1>1. sts \in Seq(T)
  BY OneEach
<1> DEFINE listed == [x \in Ids(sts) |-> Listed(DOMAIN_DEPENDENCIES, SubtaskOf(sts, x).domain)]
<1>2. listed \in [Ids(sts) -> Seq(Needed)]
  BY Dependencies
<1>3. Planned(order, sts, GraphOf(sts, listed))
  BY DEF Decompose
<1> HIDE DEF listed
<1>4. GraphOf(sts, listed) \in [Ids(sts) -> Seq(Ids(sts))]
  BY <1>1, <1>2, GraphIs
<1> QED BY <1>1, <1>3, <1>4, PlannedKeeps

LEMMA ContractKeeps == ASSUME NEW D, NEW order \in Seq(D), DecomposeWithContract(order) PROVE LayersInv'
<1> PICK sts : sts = OnePerDomain(order)
  OBVIOUS
<1> PICK T : T = Range(sts)
  OBVIOUS
<1>1. sts \in Seq(T)
  BY OneEach
<1> DEFINE graph == [x \in Ids(sts) |-> <<>>]
<1>2. graph \in [Ids(sts) -> Seq(Ids(sts))]
  BY EmptySeq
<1>3. Planned(order, sts, graph)
  BY DEF DecomposeWithContract
<1> HIDE DEF graph
<1> QED BY <1>1, <1>2, <1>3, PlannedKeeps

LEMMA BoundedIsSeq == ASSUME NEW S, NEW n, NEW s \in BoundedSeq(S, n) PROVE s \in Seq(S)
<1> PICK m \in 0..n : s \in [1..m -> S]
  BY DEF BoundedSeq, SeqOf
<1>1. m \in Nat
  OBVIOUS
<1> QED BY <1>1, SeqDef

Items(C) == [domain : C, deps : Seq(C)]
Parsed(C) == [id : C \X Nat, domain : C, deps : Seq(C)]

\* What is taken of the model's list: subtasks in the domains asked for, the domain
\* being the first part of the id.
LEMMA ParsedAre ==
  ASSUME NEW C, NEW order, NEW items \in Seq(Items(C))
  PROVE  /\ ParsedItems(order, items) \in Seq(Parsed(C))
         /\ \A k \in DOMAIN ParsedItems(order, items) :
              LET st == ParsedItems(order, items)[k] IN st.domain \in Range(order) /\ st.id[1] = st.domain
<1> DEFINE twice(i) == \E j \in 1..(i - 1) : items[j].domain = items[i].domain
           one(i) == [id |-> <<items[i].domain, IF twice(i) THEN i ELSE 0>>,
                      domain |-> items[i].domain, deps |-> items[i].deps]
           numbered == [i \in DOMAIN items |-> one(i)]
           asked == {i \in DOMAIN numbered : numbered[i].domain \in Range(order)}
<1>1. DOMAIN items = 1..Len(items) /\ Len(items) \in Nat /\ \A i \in DOMAIN items : items[i] \in Items(C)
  BY LenProperties, ElementOfSeq
<1>2. ASSUME NEW i \in DOMAIN items PROVE one(i) \in Parsed(C) /\ one(i).id[1] = one(i).domain
  <2>1. items[i].domain \in C /\ items[i].deps \in Seq(C)
    BY <1>1 DEF Items
  <2>2. i \in Nat
    BY <1>1
  <2> PICK n \in Nat : n = IF twice(i) THEN i ELSE 0
    BY <2>2
  <2>3. one(i) = [id |-> <<items[i].domain, n>>, domain |-> items[i].domain, deps |-> items[i].deps]
    OBVIOUS
  <2> HIDE DEF one
  <2> QED BY <2>1, <2>3 DEF Parsed
<1> HIDE DEF one
<1>3. numbered \in [1..Len(items) -> Parsed(C)]
  BY <1>1, <1>2
<1>4. numbered \in Seq(Parsed(C)) /\ DOMAIN numbered = DOMAIN items
  <2> HIDE DEF numbered
  <2> QED BY <1>1, <1>3, SeqDef
<1>5. asked \in SUBSET DOMAIN numbered
  OBVIOUS
<1>6. \A i \in asked : numbered[i].domain \in Range(order) /\ numbered[i].id[1] = numbered[i].domain
  BY <1>2, <1>4
<1>7. ParsedItems(order, items) = Picked(numbered, asked)
  BY Zenon DEF ParsedItems, one
<1> HIDE DEF numbered, asked
<1>8. /\ Picked(numbered, asked) \in Seq(Parsed(C))
      /\ \A k \in DOMAIN Picked(numbered, asked) : \E i \in asked : Picked(numbered, asked)[k] = numbered[i]
  BY <1>4, <1>5, PickedDoes
<1> QED BY <1>6, <1>7, <1>8

\* The list that is kept has the same ids.
Stripped(sts) == [i \in DOMAIN sts |-> [id |-> sts[i].id, domain |-> sts[i].domain]]

LEMMA StrippedSame ==
  ASSUME NEW T, NEW sts \in Seq(T)
  PROVE  /\ Stripped(sts) \in Seq(Range(Stripped(sts))) /\ Ids(Stripped(sts)) = Ids(sts)
         /\ DOMAIN Stripped(sts) = DOMAIN sts
         /\ \A i \in DOMAIN sts : Stripped(sts)[i].domain = sts[i].domain /\ Stripped(sts)[i].id = sts[i].id
<1> DEFINE list == Stripped(sts)
<1>1. DOMAIN sts = 1..Len(sts) /\ Len(sts) \in Nat
  BY LenProperties
<1>2. DOMAIN list = DOMAIN sts /\ \A i \in DOMAIN sts : list[i].domain = sts[i].domain /\ list[i].id = sts[i].id
  BY DEF Stripped
<1>3. list = [i \in DOMAIN list |-> list[i]]
  BY DEF Stripped
<1>4. Ids(list) = Ids(sts)
  <2> HIDE DEF list
  <2> QED BY <1>2 DEF Ids
<1>5. list \in Seq(Range(list))
  <2> HIDE DEF list
  <2> QED BY <1>1, <1>2, <1>3, IsList
<1> QED BY <1>2, <1>4, <1>5

LEMMA LlmKeeps ==
  ASSUME NEW C, NEW order \in Seq(C), NEW items \in Seq(Items(C)), DecomposeWithLlm(order, items)
  PROVE  LayersInv'
<1> DEFINE sts == ParsedItems(order, items)
<1>1. CASE sts = <<>>
  BY <1>1, ContractKeeps DEF DecomposeWithLlm
<1>2. CASE sts # <<>>
  <2>1. sts \in Seq(Parsed(C))
    BY ParsedAre
  <2>2. DecomposeWithLlm(order, items) <=>
          IF sts = <<>> THEN DecomposeWithContract(order)
          ELSE Planned(order, Stripped(sts), GraphOf(sts, [x \in Ids(sts) |-> SubtaskOf(sts, x).deps]))
    BY Zenon DEF DecomposeWithLlm, Stripped
  <2> HIDE DEF sts
  <2> DEFINE listed == [x \in Ids(sts) |-> SubtaskOf(sts, x).deps]
  <2>3. Planned(order, Stripped(sts), GraphOf(sts, listed))
    BY <1>2, <2>2
  <2>4. listed \in [Ids(sts) -> Seq(C)]
    <3> SUFFICES ASSUME NEW x \in Ids(sts) PROVE SubtaskOf(sts, x).deps \in Seq(C)
      OBVIOUS
    <3>1. SubtaskOf(sts, x) \in Range(sts)
      BY DEF SubtaskOf, Ids, Range
    <3>2. SubtaskOf(sts, x) \in Parsed(C)
      BY <2>1, <3>1, RangeOfSeq
    <3> QED BY <3>2 DEF Parsed
  <2> HIDE DEF listed
  <2>5. GraphOf(sts, listed) \in [Ids(sts) -> Seq(Ids(sts))]
    BY <2>1, <2>4, GraphIs
  <2>6. Stripped(sts) \in Seq(Range(Stripped(sts))) /\ Ids(Stripped(sts)) = Ids(sts)
    BY <2>1, StrippedSame
  <2> QED BY <2>3, <2>5, <2>6, PlannedKeeps
<1> QED BY <1>1, <1>2

LEMMA ResolveKeeps ==
  ASSUME LayersInv, NEW answer \in [Ids(subtasks) -> BoundedSeq(Ids(subtasks), MaxDeps)], ResolveDependencies(answer)
  PROVE  LayersInv'
<1> DEFINE listed(x) == Listed(answer, x)
           known(x) == {i \in DOMAIN listed(x) : listed(x)[i] \in Ids(subtasks)}
           kept(x) == Picked(listed(x), known(x))
<1>1. ASSUME NEW x \in Ids(subtasks) PROVE kept(x) \in Seq(Ids(subtasks))
  <2>1. listed(x) \in Seq(Ids(subtasks))
    BY BoundedIsSeq DEF Listed
  <2>2. known(x) \in SUBSET DOMAIN listed(x)
    OBVIOUS
  <2> HIDE DEF listed, known
  <2> QED BY <2>1, <2>2, PickedDoes
<1>2. dependency_graph' = [x \in Ids(subtasks) |-> kept(x)]
  BY Zenon DEF ResolveDependencies
<1> HIDE DEF kept
<1>3. dependency_graph' \in [Ids(subtasks) -> Seq(Ids(subtasks))]
  BY <1>1, <1>2
<1>4. execution_order' = Layers(dependency_graph)' /\ Ids(subtasks)' = Ids(subtasks)
  BY DEF ResolveDependencies
<1> QED BY <1>3, <1>4 DEF LayersInv

LEMMA PlanStarts == PlanInit => LayersInv
<1> SUFFICES ASSUME PlanInit PROVE LayersInv
  OBVIOUS
<1>1. subtasks = <<>> /\ dependency_graph = [x \in {} |-> <<>>] /\ execution_order = <<>>
  BY DEF PlanInit
<1>2. Ids(subtasks) = {}
  BY <1>1 DEF Ids
<1>3. dependency_graph \in [{} -> Seq({})]
  BY <1>1
<1>4. IsFiniteSet({}) /\ Cardinality({}) = 0
  BY FS_EmptySet
<1> PICK graph \in [{} -> Seq({})] : graph = dependency_graph
  BY <1>3
<1> PICK f \in [0..Cardinality({}) -> Rounds({})] : RoundRun(graph, f) /\ Layers(graph) = f[Cardinality({})].layers
  BY <1>4, RoundRuns
<1>5. f[0] = FirstRound(graph)
  BY <1>4 DEF RoundRun
<1>6. Layers(graph) = <<>>
  BY <1>4, <1>5 DEF FirstRound
<1> QED BY <1>1, <1>2, <1>3, <1>4, <1>6 DEF LayersInv

LEMMA OrderIsList ==
  ASSUME NEW order \in Orders
  PROVE  order \in Seq(Chosen) /\ Range(order) \subseteq Chosen /\ order # <<>> /\ IsInjective(order)
<1> PICK ds \in SUBSET Chosen : ds # {} /\ order \in SetToSeqs(ds)
  BY DEF Orders
<1>1. IsFiniteSet(Chosen)
  <2> DEFINE all == {"frontend", "backend", "test", "docs", "database", "devops", "product"}
  <2>1. Chosen \in SUBSET all
    BY ChosenAssumption DEF DOMAIN_DEPENDENCIES
  <2>2. IsFiniteSet(all)
    <3>1. IsFiniteSet({}) /\ \A S, x : IsFiniteSet(S) => IsFiniteSet(S \cup {x})
      BY FS_EmptySet, FS_AddElement
    <3>2. IsFiniteSet({} \cup {"frontend"} \cup {"backend"} \cup {"test"} \cup {"docs"})
      BY <3>1, Zenon
    <3>3. IsFiniteSet({} \cup {"frontend"} \cup {"backend"} \cup {"test"} \cup {"docs"}
                      \cup {"database"} \cup {"devops"} \cup {"product"})
      BY <3>1, <3>2, Zenon
    <3>4. all = {} \cup {"frontend"} \cup {"backend"} \cup {"test"} \cup {"docs"}
                   \cup {"database"} \cup {"devops"} \cup {"product"}
      OBVIOUS
    <3> QED BY <3>3, <3>4
  <2> HIDE DEF all
  <2> QED BY <2>1, <2>2, FS_Subset
<1>2. Cardinality(ds) \in Nat
  BY <1>1, FS_Subset, FS_CardinalityType
<1>3. order \in [1..Cardinality(ds) -> ds] /\ IsInjective(order)
  BY DEF SetToSeqs, IsInjective
<1>4. order \in [1..Cardinality(ds) -> Chosen]
  BY <1>3
<1>5. order \in Seq(Chosen)
  BY <1>2, <1>4, SeqDef
<1>6. DOMAIN order # {}
  <2>1. Cardinality(ds) # 0
    BY <1>1, FS_Subset, FS_EmptySet
  <2> QED BY <1>2, <1>3, <2>1
<1>7. order # <<>>
  BY <1>6
<1> QED BY <1>3, <1>5, <1>7, RangeOfSeq

LEMMA SamePlan == ASSUME LayersInv, UNCHANGED planVars PROVE LayersInv'
<1>1. subtasks' = subtasks /\ dependency_graph' = dependency_graph /\ execution_order' = execution_order
  BY DEF planVars
<1>2. Ids(subtasks)' = Ids(subtasks)
  BY <1>1 DEF Ids
<1>3. Layers(dependency_graph)' = Layers(dependency_graph')
  OBVIOUS
<1> QED BY <1>1, <1>2, <1>3 DEF LayersInv

LEMMA PlanStep == LayersInv /\ [PlanNext]_planVars => LayersInv'
<1> SUFFICES ASSUME LayersInv, [PlanNext]_planVars PROVE LayersInv'
  OBVIOUS
<1>1. ASSUME NEW order \in Orders, Decompose(order) PROVE LayersInv'
  BY <1>1, OrderIsList, DecomposeKeeps
<1>2. ASSUME NEW order \in Orders, DecomposeWithContract(order) PROVE LayersInv'
  BY <1>2, OrderIsList, ContractKeeps
<1>3. ASSUME NEW order \in Orders,
             NEW items \in BoundedSeq([domain : Chosen, deps : BoundedSeq(Chosen, 1)], MaxItems),
             DecomposeWithLlm(order, items)
      PROVE  LayersInv'
  <2>1. [domain : Chosen, deps : BoundedSeq(Chosen, 1)] \subseteq Items(Chosen)
    <3>1. \A s \in BoundedSeq(Chosen, 1) : s \in Seq(Chosen)
      BY BoundedIsSeq
    <3> QED BY <3>1 DEF Items
  <2>2. items \in Seq(Items(Chosen))
    <3>1. items \in Seq([domain : Chosen, deps : BoundedSeq(Chosen, 1)])
      BY BoundedIsSeq
    <3> QED BY <2>1, <3>1, SeqMonotonic
  <2>3. order \in Seq(Chosen)
    BY OrderIsList
  <2> QED BY <1>3, <2>2, <2>3, LlmKeeps
<1>4. CASE UNCHANGED planVars
  BY <1>4, SamePlan
<1> QED BY <1>1, <1>2, <1>3, <1>4, ResolveKeeps DEF PlanNext

\* Whatever way a plan is made and its dependencies are resolved, its order is the
\* layers of a graph of its subtasks.
THEOREM PlanInvariance == PlanSpec => []LayersInv
<1>1. PlanInit => LayersInv
  BY PlanStarts
<1>2. LayersInv /\ [PlanNext]_planVars => LayersInv'
  BY PlanStep
<1> QED
  BY <1>1, <1>2, PTL DEF PlanSpec

\* Every subtask of a plan is in one layer, after all it depends on if that can be, for
\* any domains, any answer of the model and any dependencies.
THEOREM LayersAreSound == PlanSpec => []LayersSound
<1>1. LayersInv => LayersSound
  BY LayersShow
<1> QED
  BY <1>1, PlanInvariance, PTL

-----------------------------------------------------------------------------
\* What the orchestrator files of a plan.  The rows that are filed and the subtasks that
\* have none yet are, at every moment, what the request was cut into.

KnownDomains == Chosen \cup ValidDomains
FiledTasks == [id : KnownDomains \X Nat, domain : KnownDomains]

\* Subtasks in the domains of a set, each with its domain in its id
TasksIn(list, ds) ==
  /\ list \in Seq(FiledTasks)
  /\ \A i \in DOMAIN list : list[i].domain \in ds /\ list[i].id[1] = list[i].domain

DomainsOf(list) == {list[i].domain : i \in DOMAIN list}

\* Nothing is filed before the request is cut; from then on the rows and the subtasks
\* without one are what it was cut into.
PlanningInv ==
  /\ \A x : Listed(dependency_graph, x) = <<>>
  /\ orch_at \in {"new", "analysed"} => plan_at = "none" /\ parent_domains = {} /\ DOMAIN task_rows = {}
  /\ orch_at = "analysed" => ~by_model /\ domains # {} /\ domains \subseteq KnownDomains
  /\ orch_at \in {"split", "filed"} =>
       /\ domains # {} /\ TasksIn(unfiled, domains)
       /\ unfiled = <<>> <=> orch_at = "filed"
       /\ \/ parent_domains = domains
          \/ parent_domains = {} /\ DOMAIN task_rows = {} /\ orch_at = "split"
       /\ orch_at = "filed" => DOMAIN task_rows # {}
       /\ \A x \in DOMAIN task_rows :
            /\ task_rows[x].domain \in domains /\ task_rows[x].domain = x[1]
            /\ members # {} => task_rows[x].agent \in members
            /\ task_rows[x].deps = <<>>
       /\ plan_at # "none" => DOMAIN task_rows \cup Ids(unfiled) = Ids(subtasks)
       /\ plan_at # "none" /\ ~by_model =>
            {task_rows[x].domain : x \in DOMAIN task_rows} \cup DomainsOf(unfiled) = domains

-----------------------------------------------------------------------------
LEMMA PlanningStarts == OrchInit => PlanningInv
BY DEF OrchInit, PlanInit, PlanningInv, Listed

LEMMA PlanningShows == PlanningInv => PlanFiled
<1> SUFFICES ASSUME PlanningInv, orch_at = "filed" PROVE PlanFiled
  BY DEF PlanFiled
<1>1. /\ unfiled = <<>> /\ parent_domains = domains /\ domains # {} /\ DOMAIN task_rows # {}
      /\ \A x \in DOMAIN task_rows :
            /\ task_rows[x].domain \in domains
            /\ members # {} => task_rows[x].agent \in members
            /\ task_rows[x].deps = <<>>
      /\ plan_at # "none" => DOMAIN task_rows \cup Ids(unfiled) = Ids(subtasks)
      /\ plan_at # "none" /\ ~by_model =>
            {task_rows[x].domain : x \in DOMAIN task_rows} \cup DomainsOf(unfiled) = domains
  BY DEF PlanningInv
<1>2. Ids(<<>>) = {} /\ DomainsOf(<<>>) = {} /\ Range(<<>>) = {}
  BY DEF Ids, DomainsOf, Range
<1> QED BY <1>1, <1>2 DEF PlanFiled

LEMMA KnownFinite == IsFiniteSet(KnownDomains)
<1> DEFINE all == {"frontend", "backend", "test", "docs", "database", "devops", "product", "code"}
<1>1. KnownDomains \in SUBSET all
  BY ChosenAssumption DEF KnownDomains, DOMAIN_DEPENDENCIES, ValidDomains
<1>2. IsFiniteSet({}) /\ \A S, x : IsFiniteSet(S) => IsFiniteSet(S \cup {x})
  BY FS_EmptySet, FS_AddElement
<1>3. IsFiniteSet({} \cup {"frontend"} \cup {"backend"} \cup {"test"} \cup {"docs"})
  BY <1>2, Zenon
<1>4. IsFiniteSet({} \cup {"frontend"} \cup {"backend"} \cup {"test"} \cup {"docs"}
                  \cup {"database"} \cup {"devops"} \cup {"product"} \cup {"code"})
  BY <1>2, <1>3, Zenon
<1>5. all = {} \cup {"frontend"} \cup {"backend"} \cup {"test"} \cup {"docs"}
                 \cup {"database"} \cup {"devops"} \cup {"product"} \cup {"code"}
  OBVIOUS
<1>6. IsFiniteSet(all)
  BY <1>4, <1>5
<1> HIDE DEF all
<1> QED BY <1>1, <1>6, FS_Subset

\* The domains of a set in a list
LEMMA SetListed ==
  ASSUME NEW ds \in SUBSET KnownDomains
  PROVE  SetToSeq(ds) \in Seq(KnownDomains) /\ Range(SetToSeq(ds)) = ds
<1>1. /\ Cardinality(ds) \in Nat /\ SetToSeq(ds) \in [1..Cardinality(ds) -> ds]
      /\ \A x \in ds : \E i \in 1..Cardinality(ds) : SetToSeq(ds)[i] = x
  <2>1. IsFiniteSet(ds)
    BY KnownFinite, FS_Subset
  <2> QED BY <2>1, SetAsSeq
<1>2. SetToSeq(ds) \in [1..Cardinality(ds) -> KnownDomains]
  BY <1>1
<1>3. Range(SetToSeq(ds)) = ds
  BY <1>1 DEF Range
<1> QED BY <1>1, <1>2, <1>3, SeqDef

\* A subtask for each domain of a list
LEMMA OneEachIn ==
  ASSUME NEW order \in Seq(KnownDomains)
  PROVE  /\ TasksIn(OnePerDomain(order), Range(order)) /\ DomainsOf(OnePerDomain(order)) = Range(order)
         /\ order # <<>> => OnePerDomain(order) # <<>>
<1> DEFINE list == OnePerDomain(order)
<1>1. DOMAIN order = 1..Len(order) /\ Len(order) \in Nat /\ order \in [1..Len(order) -> KnownDomains]
  BY LenProperties
<1>2. DOMAIN list = DOMAIN order /\ \A i \in DOMAIN order : list[i] = [id |-> <<order[i], 0>>, domain |-> order[i]]
  BY DEF OnePerDomain
<1>3. list \in [1..Len(order) -> FiledTasks]
  BY <1>1 DEF FiledTasks, OnePerDomain
<1>4. list \in Seq(FiledTasks)
  <2> HIDE DEF list
  <2> QED BY <1>1, <1>3, SeqDef
<1>5. \A i \in DOMAIN order : list[i].domain = order[i] /\ list[i].id[1] = order[i]
  BY <1>2
<1>6. DomainsOf(list) = Range(order)
  <2> HIDE DEF list
  <2> QED BY <1>2, <1>5 DEF DomainsOf, Range
<1>7. order # <<>> => list # <<>>
  <2> SUFFICES ASSUME order # <<>> PROVE list # <<>>
    OBVIOUS
  <2>1. Len(order) # 0
    BY EmptySeq
  <2>2. 1 \in DOMAIN list
    BY <1>1, <1>2, <2>1
  <2> HIDE DEF list
  <2> QED BY <2>2
<1> HIDE DEF list
<1> QED BY <1>2, <1>4, <1>5, <1>6, <1>7 DEF TasksIn, Range, list

-----------------------------------------------------------------------------
LEMMA RequestWords == ASSUME NEW r \in Requests PROVE r.keywords \subseteq Chosen /\ r.deploy \in BOOLEAN
BY DEF Requests

LEMMA EnsuredIn ==
  ASSUME NEW r, NEW wants, NEW ds \in SUBSET KnownDomains
  PROVE  LET es == WithDeploy(r, Ensured(wants, ds)) IN es \subseteq KnownDomains /\ es # {} /\ ds \subseteq es
BY DEF WithDeploy, Ensured, KnownDomains, ValidDomains

LEMMA DeployKeeps == ASSUME PlanningInv, DeployAtOnce PROVE PlanningInv'
<1>1. orch_at' = "deployed" /\ dependency_graph' = dependency_graph
  BY DEF DeployAtOnce, planVars
<1> QED BY <1>1 DEF PlanningInv, Listed

\* The request is cut without a plan
LEMMA CutKeeps ==
  ASSUME PlanningInv, orch_at = "new", orch_at' = "split", UNCHANGED <<planVars, parent_domains, task_rows>>,
         TasksIn(unfiled', domains'), unfiled' # <<>>, domains' # {}
  PROVE  PlanningInv'
<1>1. plan_at' = "none" /\ parent_domains' = {} /\ DOMAIN task_rows' = {} /\ dependency_graph' = dependency_graph
  BY DEF PlanningInv, planVars
<1>2. TasksIn(unfiled, domains)' <=> TasksIn(unfiled', domains')
  BY DEF TasksIn
<1> QED BY <1>1, <1>2 DEF PlanningInv, Listed

LEMMA AnalyseDemoKeeps ==
  ASSUME PlanningInv, NEW r \in Requests, AnalyseDemo(r), orch_at = "new", UNCHANGED <<parent_domains, task_rows>>
  PROVE  PlanningInv'
<1>1. DemoDomains \in Seq(KnownDomains) /\ DemoDomains # <<>> /\ DOMAIN DemoDomains = 1..4
  BY DEF DemoDomains, KnownDomains, ValidDomains
<1>2. unfiled' = OnePerDomain(DemoDomains) /\ domains' = WithDeploy(r, Range(DemoDomains))
  BY DEF AnalyseDemo, OnePerDomain
<1> PICK order \in Seq(KnownDomains) : order = DemoDomains
  BY <1>1
<1>3. TasksIn(unfiled', Range(order)) /\ unfiled' # <<>>
  BY <1>1, <1>2, OneEachIn
<1>4. Range(order) \subseteq domains' /\ Range(order) # {}
  BY <1>1, <1>2 DEF WithDeploy, Range
<1>5. TasksIn(unfiled', domains')
  BY <1>3, <1>4 DEF TasksIn
<1> QED BY <1>3, <1>4, <1>5, CutKeeps DEF AnalyseDemo

LEMMA AnalyseOtherKeeps ==
  ASSUME PlanningInv, NEW r \in Requests, AnalyseOther(r), orch_at = "new", UNCHANGED <<parent_domains, task_rows>>
  PROVE  PlanningInv'
<1> PICK st : st = [id |-> <<"code", 0>>, domain |-> "code"]
  OBVIOUS
<1>1. st \in FiledTasks /\ st.domain = "code" /\ st.id[1] = "code"
  BY DEF FiledTasks, KnownDomains, ValidDomains
<1>2. unfiled' = <<st>> /\ "code" \in domains'
  BY DEF AnalyseOther, WithDeploy
<1>3. <<st>> \in Seq(FiledTasks) /\ DOMAIN <<st>> = {1} /\ <<st>>[1] = st /\ <<st>> # <<>>
  BY <1>1
<1>4. TasksIn(unfiled', domains')
  BY <1>1, <1>2, <1>3 DEF TasksIn
<1> QED BY <1>2, <1>3, <1>4, CutKeeps DEF AnalyseOther

LEMMA AnalyseByKeywordsKeeps ==
  ASSUME PlanningInv, NEW r \in Requests, AnalyseByKeywords(r), orch_at = "new", UNCHANGED <<parent_domains, task_rows>>
  PROVE  PlanningInv'
<1>1. r.keywords \in SUBSET KnownDomains
  BY RequestWords DEF KnownDomains
<1>2. domains' \subseteq KnownDomains /\ domains' # {} /\ ~by_model' /\ orch_at' = "analysed"
  BY <1>1, EnsuredIn DEF AnalyseByKeywords
<1>3. dependency_graph' = dependency_graph /\ plan_at' = plan_at
  BY DEF AnalyseByKeywords, planVars
<1> QED BY <1>2, <1>3 DEF PlanningInv, Listed

\* A list of subtasks is planned and is to be filed, in the domains found or some of them.
LEMMA PlanToFile ==
  ASSUME PlanningInv, orch_at \in {"new", "analysed"}, orch_at' = "split", UNCHANGED <<parent_domains, task_rows>>,
         NEW order, NEW list, Planned(order, list, [x \in Ids(list) |-> <<>>]), unfiled' = list, list # <<>>,
         TasksIn(list, domains'), domains' # {}, ~by_model' => DomainsOf(list) = domains'
  PROVE  PlanningInv'
<1>1. parent_domains' = {} /\ DOMAIN task_rows' = {}
  BY DEF PlanningInv
<1>2. subtasks' = list /\ dependency_graph' = [x \in Ids(list) |-> <<>>]
  BY DEF Planned
<1>3. TasksIn(unfiled, domains)' /\ Ids(unfiled)' = Ids(list) /\ Ids(subtasks)' = Ids(list)
      /\ DomainsOf(unfiled)' = DomainsOf(list)
  BY <1>2 DEF TasksIn, Ids, DomainsOf
<1>4. \A x : Listed(dependency_graph, x)' = <<>>
  BY <1>2 DEF Listed
<1>5. {task_rows[x].domain : x \in DOMAIN task_rows}' = {}
  BY <1>1
<1> QED BY <1>1, <1>3, <1>4, <1>5 DEF PlanningInv

LEMMA AnalyseByModelKeeps ==
  ASSUME PlanningInv, NEW r \in Requests, NEW named \in SUBSET Offered,
         NEW items \in BoundedSeq([domain : Offered, deps : {<<>>}], MaxItems),
         AnalyseByModel(r, named, items), orch_at = "new", UNCHANGED <<parent_domains, task_rows>>
  PROVE  PlanningInv'
<1> DEFINE known == named \cap ValidDomains
           sts == ParsedItems(SetToSeq(known), items)
<1>1. known \in SUBSET KnownDomains
  BY DEF KnownDomains
<1>2. Range(SetToSeq(known)) = known
  <2> HIDE DEF known
  <2> QED BY <1>1, SetListed
<1>3. items \in Seq(Items(Offered))
  <2>1. items \in Seq([domain : Offered, deps : {<<>>}])
    BY BoundedIsSeq
  <2>2. [domain : Offered, deps : {<<>>}] \subseteq Items(Offered)
    <3>1. <<>> \in Seq(Offered)
      BY EmptySeq
    <3> QED BY <3>1 DEF Items
  <2> QED BY <2>1, <2>2, SeqMonotonic
<1>4. /\ sts \in Seq(Parsed(Offered))
      /\ \A k \in DOMAIN sts : sts[k].domain \in known /\ sts[k].id[1] = sts[k].domain
  <2> PICK order : order = SetToSeq(known)
    OBVIOUS
  <2> DEFINE list == ParsedItems(order, items)
  <2>1. list \in Seq(Parsed(Offered)) /\ \A k \in DOMAIN list : list[k].domain \in Range(order) /\ list[k].id[1] = list[k].domain
    BY <1>3, ParsedAre
  <2>2. sts = list /\ Range(order) = known
    BY <1>2
  <2> HIDE DEF known, list, sts
  <2> QED BY <2>1, <2>2
<1>5. /\ sts # <<>> /\ domains' = WithDeploy(r, Ensured(r.wants, known)) /\ by_model' = TRUE
      /\ Planned(SetToSeq(known), Stripped(sts), [x \in Ids(Stripped(sts)) |-> <<>>])
      /\ unfiled' = Stripped(sts) /\ orch_at' = "split"
  BY Zenon DEF AnalyseByModel, Stripped
<1>6. known \subseteq domains' /\ domains' # {}
  <2> HIDE DEF known
  <2> QED BY <1>1, <1>5, EnsuredIn
<1> HIDE DEF sts
<1>7. Len(sts) \in Nat /\ DOMAIN sts = 1..Len(sts) /\ Len(sts) # 0 /\ \A k \in DOMAIN sts : sts[k] \in Parsed(Offered)
  BY <1>4, <1>5, LenProperties, ElementOfSeq, EmptySeq
<1> DEFINE list == Stripped(sts)
<1>8. /\ DOMAIN list = DOMAIN sts
      /\ \A k \in DOMAIN sts : list[k] = [id |-> sts[k].id, domain |-> sts[k].domain]
  BY DEF Stripped
<1>9. ASSUME NEW k \in DOMAIN sts PROVE list[k] \in FiledTasks /\ list[k].domain \in domains' /\ list[k].id[1] = list[k].domain
  <2>1. sts[k].domain \in KnownDomains /\ sts[k].domain \in domains'
    BY <1>1, <1>4, <1>6
  <2>2. PICK n \in Nat : sts[k].id = <<sts[k].id[1], n>>
    BY <1>7 DEF Parsed
  <2>3. sts[k].id = <<sts[k].domain, n>>
    BY <1>4, <2>2
  <2>4. list[k] = [id |-> <<sts[k].domain, n>>, domain |-> sts[k].domain]
    BY <1>8, <2>3
  <2> HIDE DEF list
  <2> QED BY <2>1, <2>4 DEF FiledTasks
<1>10. list = [k \in 1..Len(sts) |-> list[k]]
  BY <1>7 DEF Stripped
<1> HIDE DEF list
<1>11. list \in Seq(FiledTasks)
  <2>1. list \in [1..Len(sts) -> FiledTasks]
    BY <1>7, <1>9, <1>10
  <2> QED BY <1>7, <2>1, SeqDef
<1>12. TasksIn(list, domains')
  BY <1>8, <1>9, <1>11 DEF TasksIn
<1>13. list # <<>>
  BY <1>7, <1>8
<1>14. /\ domains' # {} /\ by_model' = TRUE /\ Planned(SetToSeq(known), list, [x \in Ids(list) |-> <<>>])
       /\ unfiled' = list /\ orch_at' = "split"
  BY <1>5, <1>6 DEF list
<1> QED BY <1>12, <1>13, <1>14, PlanToFile

LEMMA SplitKeeps == ASSUME PlanningInv, SplitByContract PROVE PlanningInv'
<1> PICK order : order = SetToSeq(domains)
  OBVIOUS
<1>1. orch_at = "analysed" /\ ~by_model /\ domains # {} /\ domains \in SUBSET KnownDomains
  BY DEF SplitByContract, PlanningInv
<1>2. order \in Seq(KnownDomains) /\ Range(order) = domains
  BY <1>1, SetListed
<1>3. order # <<>>
  BY <1>1, <1>2 DEF Range
<1> PICK list : list = OnePerDomain(order)
  OBVIOUS
<1>4. TasksIn(list, domains) /\ DomainsOf(list) = domains /\ list # <<>>
  BY <1>2, <1>3, OneEachIn
<1>5. Planned(order, list, [x \in Ids(list) |-> <<>>])
  BY DEF SplitByContract, DecomposeWithContract
<1>6. unfiled' = list
  BY <1>5 DEF SplitByContract, Planned
<1>7. domains' = domains /\ by_model' = by_model /\ orch_at' = "split" /\ UNCHANGED <<parent_domains, task_rows>>
  BY DEF SplitByContract
<1> QED BY <1>1, <1>4, <1>5, <1>6, <1>7, PlanToFile

LEMMA FileParentKeeps == ASSUME PlanningInv, FileParentRow PROVE PlanningInv'
<1>1. /\ orch_at = "split" /\ parent_domains' = domains
      /\ UNCHANGED <<orch_at, members, domains, by_model, unfiled, task_rows>>
  BY DEF FileParentRow
<1>2. UNCHANGED <<subtasks, dependency_graph, plan_at>>
  BY DEF FileParentRow, planVars
<1>3. /\ TasksIn(unfiled, domains)' <=> TasksIn(unfiled, domains) 
      /\ Ids(unfiled)' = Ids(unfiled) /\ Ids(subtasks)' = Ids(subtasks) /\ DomainsOf(unfiled)' = DomainsOf(unfiled)
  BY <1>1, <1>2 DEF TasksIn, Ids, DomainsOf
<1> QED BY <1>1, <1>2, <1>3 DEF PlanningInv, Listed

\* The domains with one row more, and the subtasks without the first
LEMMA OneMoreRow ==
  ASSUME NEW f, NEW g, NEW x, NEW d, DOMAIN g = DOMAIN f \cup {x}, g[x].domain = d,
         \A y \in DOMAIN f : g[y].domain = f[y].domain
  PROVE  DomainsOf(g) = DomainsOf(f) \cup {d}
<1>1. \A e : e \in DomainsOf(g) <=> \E y \in DOMAIN g : e = g[y].domain
  BY DEF DomainsOf
<1>2. \A e : e \in DomainsOf(f) <=> \E y \in DOMAIN f : e = f[y].domain
  BY DEF DomainsOf
<1>3. ASSUME NEW e PROVE e \in DomainsOf(g) <=> e \in DomainsOf(f) \/ e = d
  BY <1>1, <1>2
<1> QED BY <1>3

LEMMA FirstTaken ==
  ASSUME NEW T, NEW sts \in Seq(T), sts # <<>>
  PROVE  /\ Ids(sts) = {Head(sts).id} \cup Ids(Tail(sts))
         /\ DomainsOf(sts) = {Head(sts).domain} \cup DomainsOf(Tail(sts))
<1> PICK n \in Nat : n = Len(sts)
  BY LenProperties
<1> PICK rest, st : rest = Tail(sts) /\ st = Head(sts)
  OBVIOUS
<1>1. /\ DOMAIN sts = 1..n /\ n # 0 /\ st = sts[1] /\ DOMAIN rest = 1..(n - 1)
      /\ \A i \in 1..(n - 1) : rest[i] = sts[i + 1]
  BY LenProperties, EmptySeq, HeadTailProperties
<1>2. ASSUME NEW i \in DOMAIN sts PROVE sts[i] = st \/ \E j \in DOMAIN rest : rest[j] = sts[i]
  <2>1. i = 1 \/ i - 1 \in 1..(n - 1)
    BY <1>1
  <2> QED BY <1>1, <2>1
<1>3. ASSUME NEW j \in DOMAIN rest PROVE \E i \in DOMAIN sts : sts[i] = rest[j]
  <2>1. j + 1 \in DOMAIN sts
    BY <1>1
  <2> QED BY <1>1, <2>1
<1>4. \E i \in DOMAIN sts : sts[i] = st
  <2>1. 1 \in DOMAIN sts
    BY <1>1
  <2> QED BY <1>1, <2>1
<1>5. ASSUME NEW e PROVE e \in DomainsOf(sts) <=> e = st.domain \/ e \in DomainsOf(rest)
  BY <1>2, <1>3, <1>4 DEF DomainsOf
<1>6. ASSUME NEW e PROVE e \in Ids(sts) <=> e = st.id \/ e \in Ids(rest)
  BY <1>2, <1>3, <1>4 DEF Ids
<1> QED BY <1>5, <1>6

LEMMA RowFiled ==
  ASSUME FileRow, NEW st, st = Head(unfiled)
  PROVE  \E a \in Candidates :
           /\ DOMAIN task_rows' = DOMAIN task_rows \cup {st.id}
           /\ task_rows'[st.id] = [domain |-> st.domain, agent |-> a, deps |-> Listed(dependency_graph, st.id)]
           /\ \A x \in DOMAIN task_rows : x # st.id => task_rows'[x] = task_rows[x]
<1> PICK a \in Candidates :
      task_rows' = [x \in DOMAIN task_rows \cup {st.id} |->
                      IF x = st.id
                      THEN [domain |-> st.domain, agent |-> a, deps |-> Listed(dependency_graph, st.id)]
                      ELSE task_rows[x]]
  BY DEF FileRow
<1> QED OBVIOUS

LEMMA FileRowKeeps == ASSUME PlanningInv, FileRow PROVE PlanningInv'
<1>1. /\ orch_at = "split" /\ parent_domains = domains /\ unfiled # <<>> /\ domains # {}
      /\ unfiled \in Seq(FiledTasks) /\ TasksIn(unfiled, domains)
  BY DEF FileRow, PlanningInv, TasksIn
<1>a. PICK st : st = Head(unfiled)
  OBVIOUS
<1>b. PICK a \in Candidates :
      /\ DOMAIN task_rows' = DOMAIN task_rows \cup {st.id}
      /\ task_rows'[st.id] = [domain |-> st.domain, agent |-> a, deps |-> Listed(dependency_graph, st.id)]
      /\ \A x \in DOMAIN task_rows : x # st.id => task_rows'[x] = task_rows[x]
  BY <1>a, RowFiled
<1>2. /\ UNCHANGED <<members, domains, by_model, parent_domains, subtasks, dependency_graph, plan_at>>
      /\ unfiled' = Tail(unfiled) /\ orch_at' = IF unfiled' = <<>> THEN "filed" ELSE "split"
  BY DEF FileRow, planVars
<1> PICK n \in Nat : n = Len(unfiled)
  BY <1>1, LenProperties
<1>3. /\ DOMAIN unfiled = 1..n /\ n # 0 /\ st = unfiled[1] /\ Tail(unfiled) \in Seq(FiledTasks)
      /\ DOMAIN Tail(unfiled) = 1..(n - 1) /\ \A i \in 1..(n - 1) : Tail(unfiled)[i] = unfiled[i + 1]
  BY <1>1, <1>a, LenProperties, EmptySeq, HeadTailProperties
<1>c. PICK rest \in Seq(FiledTasks) : rest = Tail(unfiled)
  BY <1>3
<1>4. st.domain \in domains /\ st.id[1] = st.domain
  BY <1>1, <1>3 DEF TasksIn
<1>5. /\ \A i \in 1..n : i = 1 \/ (i - 1 \in 1..(n - 1) /\ rest[i - 1] = unfiled[i])
      /\ \A i \in 1..(n - 1) : i + 1 \in 1..n /\ rest[i] = unfiled[i + 1]
  BY <1>3, <1>c
<1>6. TasksIn(rest, domains)
  BY <1>1, <1>3, <1>5, <1>c DEF TasksIn
<1>7. Ids(unfiled) = {st.id} \cup Ids(rest) /\ DomainsOf(unfiled) = {st.domain} \cup DomainsOf(rest)
  BY <1>1, <1>a, <1>c, FirstTaken
<1>8. /\ DOMAIN task_rows' = DOMAIN task_rows \cup {st.id}
      /\ task_rows'[st.id] = [domain |-> st.domain, agent |-> a, deps |-> Listed(dependency_graph, st.id)]
      /\ \A x \in DOMAIN task_rows : x # st.id => task_rows'[x] = task_rows[x]
  BY <1>b
<1>9. /\ task_rows'[st.id].domain = st.domain /\ task_rows'[st.id].agent = a /\ task_rows'[st.id].deps = <<>>
      /\ members # {} => a \in members
  BY <1>8 DEF PlanningInv, Candidates
<1>10. \A x \in DOMAIN task_rows :
         /\ task_rows[x].domain \in domains /\ task_rows[x].domain = x[1]
         /\ members # {} => task_rows[x].agent \in members
         /\ task_rows[x].deps = <<>>
  BY <1>1 DEF PlanningInv
<1>11. ASSUME NEW x \in DOMAIN task_rows'
       PROVE  /\ task_rows'[x].domain \in domains /\ task_rows'[x].domain = x[1]
              /\ members # {} => task_rows'[x].agent \in members
              /\ task_rows'[x].deps = <<>>
  BY <1>4, <1>8, <1>9, <1>10
<1>12. {task_rows'[x].domain : x \in DOMAIN task_rows'} = {task_rows[x].domain : x \in DOMAIN task_rows} \cup {st.domain}
  <2>1. \A x \in DOMAIN task_rows : task_rows'[x].domain = task_rows[x].domain
    <3> SUFFICES ASSUME NEW x \in DOMAIN task_rows PROVE task_rows'[x].domain = task_rows[x].domain
      OBVIOUS
    <3>1. x \in DOMAIN task_rows'
      BY <1>8
    <3>2. task_rows'[x].domain = x[1] /\ task_rows[x].domain = x[1]
      BY <1>10, <1>11, <3>1
    <3> QED BY <3>2
  <2>2. DomainsOf(task_rows') = DomainsOf(task_rows) \cup {st.domain}
    BY <1>8, <1>9, <2>1, OneMoreRow
  <2> QED BY <2>2 DEF DomainsOf
<1>13. /\ plan_at # "none" => DOMAIN task_rows \cup Ids(unfiled) = Ids(subtasks)
       /\ plan_at # "none" /\ ~by_model =>
            {task_rows[x].domain : x \in DOMAIN task_rows} \cup DomainsOf(unfiled) = domains
  BY <1>1 DEF PlanningInv
<1>14. /\ plan_at # "none" => DOMAIN task_rows' \cup Ids(rest) = Ids(subtasks)
       /\ plan_at # "none" /\ ~by_model =>
            {task_rows'[x].domain : x \in DOMAIN task_rows'} \cup DomainsOf(rest) = domains
  BY <1>7, <1>8, <1>12, <1>13
<1>15. /\ TasksIn(unfiled, domains)' /\ Ids(unfiled)' = Ids(rest) /\ DomainsOf(unfiled)' = DomainsOf(rest)
       /\ Ids(subtasks)' = Ids(subtasks) /\ \A x : Listed(dependency_graph, x)' = Listed(dependency_graph, x)
  BY <1>2, <1>6, <1>c DEF TasksIn, Ids, DomainsOf, Listed
<1>16. DOMAIN task_rows' # {}
  BY <1>8
<1>17. orch_at' \in {"split", "filed"} /\ (unfiled' = <<>> <=> orch_at' = "filed") /\ parent_domains' = domains'
       /\ domains' # {}
  BY <1>1, <1>2
<1>18. \A x : Listed(dependency_graph, x)' = <<>>
  BY <1>15 DEF PlanningInv
<1> QED BY <1>2, <1>11, <1>14, <1>15, <1>16, <1>17, <1>18 DEF PlanningInv

LEMMA PlanningStep == PlanningInv /\ [PlanningNext]_planningVars => PlanningInv'
<1> SUFFICES ASSUME PlanningInv, [PlanningNext]_planningVars PROVE PlanningInv'
  OBVIOUS
<1>1. CASE DeployAtOnce
  BY <1>1, DeployKeeps
<1>2. CASE Analyse
  <2>1. orch_at = "new" /\ UNCHANGED <<parent_domains, task_rows>>
    BY <1>2 DEF Analyse
  <2> PICK r \in Requests :
        \/ AnalyseDemo(r) \/ AnalyseOther(r) \/ AnalyseByKeywords(r)
        \/ \E named \in SUBSET Offered, items \in BoundedSeq([domain : Offered, deps : {<<>>}], MaxItems) :
             AnalyseByModel(r, named, items)
    BY <1>2 DEF Analyse
  <2> QED BY <2>1, AnalyseDemoKeeps, AnalyseOtherKeeps, AnalyseByKeywordsKeeps, AnalyseByModelKeeps
<1>3. CASE SplitByContract
  BY <1>3, SplitKeeps
<1>4. CASE FileParentRow
  BY <1>4, FileParentKeeps
<1>5. CASE FileRow
  BY <1>5, FileRowKeeps
<1>6. CASE UNCHANGED planningVars
  <2>1. /\ UNCHANGED <<orch_at, members, domains, by_model, unfiled, parent_domains, task_rows>>
        /\ UNCHANGED <<subtasks, dependency_graph, plan_at>>
    BY <1>6 DEF planningVars, planVars, orchVars
  <2>2. /\ TasksIn(unfiled, domains)' <=> TasksIn(unfiled, domains)
        /\ Ids(unfiled)' = Ids(unfiled) /\ Ids(subtasks)' = Ids(subtasks) /\ DomainsOf(unfiled)' = DomainsOf(unfiled)
    BY <2>1 DEF TasksIn, Ids, DomainsOf
  <2> QED BY <2>1, <2>2 DEF PlanningInv, Listed
<1> QED BY <1>1, <1>2, <1>3, <1>4, <1>5, <1>6 DEF PlanningNext

\* The rows that are filed and the subtasks that have none yet are what the request
\* was cut into, whichever way that was.
THEOREM PlanningInvariance == PlanningSpec => []PlanningInv
<1>1. OrchInit => PlanningInv
  BY PlanningStarts
<1>2. PlanningInv /\ [PlanningNext]_planningVars => PlanningInv'
  BY PlanningStep
<1> QED
  BY <1>1, <1>2, PTL DEF PlanningSpec

\* Whatever is asked and whatever the model answers, one row for each subtask is filed,
\* done by a member if there is one, and waiting for nothing that does not run.
THEOREM PlansAreFiled == PlanningSpec => []PlanFiled
<1>1. PlanningInv => PlanFiled
  BY PlanningShows
<1> QED
  BY <1>1, PlanningInvariance, PTL

-----------------------------------------------------------------------------
\* A run of a team.  The invariant says of each result that it is the first answer of
\* somebody who was sent his part, or that the time ran out, and that the agents and the
\* files of the assignments stay what the schedule made them.

LEMMA FourListed == ASSUME NEW X, NEW f \in [1..4 -> X] PROVE f \in Seq(X)
<1>1. \A n \in Nat : f \in [1..n -> X] => f \in Seq(X)
  BY SeqDef
<1> QED BY <1>1

\* A list of domains by priority is the list in another order.
LEMMA PriorityOrder ==
  ASSUME NEW order \in Seq(Chosen), IsInjective(order), NEW list, list = ByPriority(order)
  PROVE  list \in Seq(Chosen) /\ Range(list) = Range(order) /\ IsInjective(list)
<1> DEFINE at(i) == {j \in DOMAIN order : DomainPriority[order[j]] = 4 - i}
           ss == [i \in 1..4 |-> Picked(order, at(i))]
<1>1. \A i \in 1..4 : at(i) \in SUBSET DOMAIN order
  OBVIOUS
<1>2. DOMAIN order = 1..Len(order) /\ Len(order) \in Nat /\ \A j \in DOMAIN order : order[j] \in Chosen
  BY LenProperties, ElementOfSeq
<1>3. \A j \in DOMAIN order : \E i \in 1..4 : j \in at(i)
  <2> SUFFICES ASSUME NEW j \in DOMAIN order PROVE \E i \in 1..4 : j \in at(i)
    OBVIOUS
  <2>1. order[j] \in {"frontend", "backend", "test", "docs", "database", "devops", "product"}
    BY <1>2, ChosenAssumption DEF DOMAIN_DEPENDENCIES
  <2>2. DomainPriority[order[j]] \in {0, 1, 2, 3}
    BY <2>1 DEF DomainPriority
  <2> PICK p \in {0, 1, 2, 3} : p = DomainPriority[order[j]]
    BY <2>2
  <2>3. 4 - p \in 1..4 /\ p = 4 - (4 - p)
    OBVIOUS
  <2>4. j \in at(4 - p)
    BY <2>3
  <2> HIDE DEF at
  <2> QED BY <2>3, <2>4
<1>4. ASSUME NEW i \in 1..4, NEW k \in 1..4, i # k PROVE at(i) \cap at(k) = {}
  <2>1. 4 - i # 4 - k
    BY <1>4
  <2> QED BY <2>1
<1> HIDE DEF at
<1>5. ASSUME NEW i \in 1..4
      PROVE  /\ Picked(order, at(i)) \in Seq(Chosen) /\ IsInjective(Picked(order, at(i)))
             /\ \A x : x \in Range(Picked(order, at(i))) <=> \E j \in at(i) : x = order[j]
  <2> PICK P \in SUBSET DOMAIN order : P = at(i)
    BY <1>1
  <2>1. /\ Picked(order, P) \in Seq(Chosen) /\ IsInjective(Picked(order, P))
        /\ \A k \in DOMAIN Picked(order, P) : \E j \in P : Picked(order, P)[k] = order[j]
        /\ \A j \in P : \E k \in DOMAIN Picked(order, P) : Picked(order, P)[k] = order[j]
    BY PickedDoes
  <2> QED BY <2>1 DEF Range
<1>6. ss \in Seq(Seq(Chosen)) /\ DOMAIN ss = 1..4
  <2>1. ss \in [1..4 -> Seq(Chosen)]
    BY <1>5
  <2> HIDE DEF ss
  <2> QED BY <2>1, FourListed
<1>7. \A i \in 1..4 : ss[i] = Picked(order, at(i))
  OBVIOUS
<1>8. list = FlattenSeq(ss)
  BY DEF ByPriority, at
<1> HIDE DEF ss
<1>9. list \in Seq(Chosen) /\ \A x : x \in Range(list) <=> \E i \in DOMAIN ss : x \in Range(ss[i])
  BY <1>6, <1>8, FlattenDoes
<1>10. \A i \in DOMAIN ss : IsInjective(ss[i])
  BY <1>5, <1>6, <1>7
<1>11. ASSUME NEW i \in DOMAIN ss, NEW k \in DOMAIN ss, i # k PROVE Range(ss[i]) \cap Range(ss[k]) = {}
  <2> SUFFICES ASSUME NEW x \in Range(ss[i]), x \in Range(ss[k]) PROVE FALSE
    OBVIOUS
  <2>1. PICK j \in at(i), m \in at(k) : x = order[j] /\ x = order[m]
    BY <1>5, <1>6, <1>7
  <2>2. j \in DOMAIN order /\ m \in DOMAIN order
    BY <1>1, <1>6
  <2>3. j = m
    BY <2>1, <2>2 DEF IsInjective
  <2> QED BY <1>4, <1>6, <1>11, <2>3
<1>12. IsInjective(list)
  BY <1>6, <1>8, <1>10, <1>11, FlattenOnce
<1>13. ASSUME NEW x PROVE x \in Range(list) <=> x \in Range(order)
  <2>0. x \in Range(list) <=> \E i \in 1..4 : x \in Range(ss[i])
    BY <1>6, <1>9
  <2>4. ASSUME NEW i \in 1..4 PROVE x \in Range(ss[i]) <=> \E j \in at(i) : x = order[j]
    BY <1>5, <1>7
  <2>1. x \in Range(list) <=> \E i \in 1..4 : \E j \in at(i) : x = order[j]
    BY <2>0, <2>4
  <2>2. x \in Range(order) <=> \E j \in DOMAIN order : x = order[j]
    BY DEF Range
  <2>3. \A i \in 1..4 : \A j \in at(i) : j \in DOMAIN order
    BY <1>1
  <2> QED BY <1>3, <2>1, <2>2, <2>3
<1>14. Range(list) = Range(order)
  BY <1>13
<1> QED BY <1>9, <1>12, <1>14

-----------------------------------------------------------------------------
(* match_agents_for_domains *)

\* What is known when some domains have agents: product has E, the others have the
\* other four, and nobody has two as long as no more than four other domains are to come.
Matched(ds, acc) ==
  /\ acc.used \subseteq {"A", "B", "C", "D", "E"} /\ DOMAIN acc.of \subseteq ds
  /\ acc.used = {acc.of[d] : d \in DOMAIN acc.of}
  /\ \A d \in DOMAIN acc.of : IF d = "product" THEN acc.of[d] = "E" ELSE acc.of[d] \in {"A", "B", "C", "D"}
  /\ Cardinality(ds \ {"product"}) <= 4 => IsInjective(acc.of)

\* Five things are more than four.
LEMMA FiveAreMore ==
  ASSUME NEW S, IsFiniteSet(S), NEW a \in S, NEW b \in S, NEW c \in S, NEW d \in S, NEW e \in S,
         a \notin {b, c, d, e}, b \notin {c, d, e}, c \notin {d, e}, d # e
  PROVE  ~(Cardinality(S) <= 4)
<1>1. IsFiniteSet({}) /\ Cardinality({}) = 0
  BY FS_EmptySet
<1>2. IsFiniteSet({e}) /\ Cardinality({e}) = 1
  BY FS_Singleton
<1>3. IsFiniteSet({e} \cup {d}) /\ Cardinality({e} \cup {d}) = 2
  <2>1. d \notin {e}
    OBVIOUS
  <2> PICK X : X = {e}
    OBVIOUS
  <2>2. Cardinality(X \cup {d}) = Cardinality(X) + 1 /\ IsFiniteSet(X \cup {d})
    BY <1>2, <2>1, FS_AddElement
  <2> QED BY <1>2, <2>2
<1>4. IsFiniteSet({e, d} \cup {c}) /\ Cardinality({e, d} \cup {c}) = 3
  <2>1. {e} \cup {d} = {e, d} /\ c \notin {e, d}
    OBVIOUS
  <2> PICK X : X = {e, d}
    OBVIOUS
  <2>2. IsFiniteSet(X) /\ Cardinality(X) = 2 /\ c \notin X
    BY <1>3, <2>1
  <2>3. Cardinality(X \cup {c}) = Cardinality(X) + 1 /\ IsFiniteSet(X \cup {c})
    BY <2>2, FS_AddElement
  <2> QED BY <2>2, <2>3
<1>5. IsFiniteSet({e, d, c} \cup {b}) /\ Cardinality({e, d, c} \cup {b}) = 4
  <2>1. {e, d} \cup {c} = {e, d, c} /\ b \notin {e, d, c}
    OBVIOUS
  <2> PICK X : X = {e, d, c}
    OBVIOUS
  <2>2. IsFiniteSet(X) /\ Cardinality(X) = 3 /\ b \notin X
    BY <1>4, <2>1
  <2>3. Cardinality(X \cup {b}) = Cardinality(X) + 1 /\ IsFiniteSet(X \cup {b})
    BY <2>2, FS_AddElement
  <2> QED BY <2>2, <2>3
<1>6. IsFiniteSet({e, d, c, b} \cup {a}) /\ Cardinality({e, d, c, b} \cup {a}) = 5
  <2>1. {e, d, c} \cup {b} = {e, d, c, b} /\ a \notin {e, d, c, b}
    OBVIOUS
  <2> PICK X : X = {e, d, c, b}
    OBVIOUS
  <2>2. IsFiniteSet(X) /\ Cardinality(X) = 4 /\ a \notin X
    BY <1>5, <2>1
  <2>3. Cardinality(X \cup {a}) = Cardinality(X) + 1 /\ IsFiniteSet(X \cup {a})
    BY <2>2, FS_AddElement
  <2> QED BY <2>2, <2>3
<1>7. {e, d, c, b} \cup {a} \in SUBSET S
  OBVIOUS
<1>8. Cardinality({e, d, c, b} \cup {a}) <= Cardinality(S)
  BY <1>7, FS_Subset
<1>9. Cardinality(S) \in Nat
  BY FS_CardinalityType
<1> QED BY <1>6, <1>8, <1>9

LEMMA MatchKeeps ==
  ASSUME NEW ds \in SUBSET Chosen, IsFiniteSet(ds), NEW acc, Matched(ds, acc), NEW d \in ds, d \notin DOMAIN acc.of
  PROVE  Matched(ds, MatchNext(acc, d)) /\ DOMAIN MatchNext(acc, d).of = DOMAIN acc.of \cup {d}
<1> DEFINE own == DOMAIN_TO_AGENT[d]
           a == PickAgent(acc.used, own)
           new == MatchNext(acc, d)
<1>1. d \in {"frontend", "backend", "test", "docs", "database", "devops", "product"}
  BY ChosenAssumption DEF DOMAIN_DEPENDENCIES
<1>2. IF d = "product" THEN own = "E" ELSE own \in {"A", "B", "C", "D"}
  BY <1>1 DEF DOMAIN_TO_AGENT
<1> HIDE DEF own
<1>3. /\ new.used = acc.used \cup {a} /\ DOMAIN new.of = DOMAIN acc.of \cup {d}
      /\ new.of[d] = a /\ \A e \in DOMAIN acc.of : new.of[e] = acc.of[e]
  BY DEF MatchNext, own
<1>4. DOMAIN Roles = 1..4 /\ \A i \in 1..4 : Roles[i] \in {"A", "B", "C", "D"}
  BY DEF Roles
\* Nobody has what is given, or there are too many
<1>8. ASSUME IF d = "product" THEN a = "E" ELSE a \in {"A", "B", "C", "D"},
             a \notin acc.used \/ ~(Cardinality(ds \ {"product"}) <= 4)
      PROVE  Matched(ds, new)
  <2> HIDE DEF a, new
  <2>1. a \in {"A", "B", "C", "D", "E"}
    BY <1>8
  <2>2. new.used = {new.of[e] : e \in DOMAIN new.of}
    BY <1>3 DEF Matched
  <2>3. \A e \in DOMAIN new.of : IF e = "product" THEN new.of[e] = "E" ELSE new.of[e] \in {"A", "B", "C", "D"}
    BY <1>3, <1>8 DEF Matched
  <2>4. Cardinality(ds \ {"product"}) <= 4 => IsInjective(new.of)
    <3> SUFFICES ASSUME Cardinality(ds \ {"product"}) <= 4, NEW e \in DOMAIN new.of, NEW g \in DOMAIN new.of,
                        new.of[e] = new.of[g]
                 PROVE  e = g
      BY DEF IsInjective
    <3>1. a \notin acc.used
      BY <1>8
    <3>2. \A h \in DOMAIN acc.of : acc.of[h] # a
      BY <3>1 DEF Matched
    <3>3. \A h, k \in DOMAIN acc.of : acc.of[h] = acc.of[k] => h = k
      BY DEF Matched, IsInjective
    <3> QED BY <1>3, <3>2, <3>3
  <2>5. new.used \subseteq {"A", "B", "C", "D", "E"} /\ DOMAIN new.of \subseteq ds
    BY <1>3, <2>1 DEF Matched
  <2> QED BY <2>2, <2>3, <2>4, <2>5 DEF Matched
<1>5. CASE own \notin acc.used
  <2>1. a = own
    BY <1>5 DEF PickAgent
  <2> QED BY <1>2, <1>3, <1>5, <1>8, <2>1
<1>6. CASE own \in acc.used
  <2>1. d # "product"
    <3>1. \A e \in DOMAIN acc.of : e # "product" => acc.of[e] # "E"
      BY DEF Matched
    <3> QED BY <1>2, <1>6, <3>1 DEF Matched
  <2>2. CASE Unused(acc.used, own) # {}
    <3>1. a = Roles[Min(Unused(acc.used, own))]
      BY <1>6, <2>2 DEF PickAgent
    <3>2. Unused(acc.used, own) \subseteq Nat
      BY <1>4 DEF Unused
    <3>3. Min(Unused(acc.used, own)) \in Unused(acc.used, own)
      BY <2>2, <3>2, LeastOf
    <3>4. a \in {"A", "B", "C", "D"} /\ a \notin acc.used
      BY <1>4, <3>1, <3>3 DEF Unused
    <3> QED BY <1>3, <1>8, <2>1, <3>4
  <2>3. CASE Unused(acc.used, own) = {}
    <3>1. a = "D"
      BY <1>6, <2>3 DEF PickAgent
    <3>2. {"A", "B", "C", "D"} \subseteq acc.used
      <4>1. \A i \in 1..4 : Roles[i] \in acc.used
        BY <1>4, <2>3 DEF Unused
      <4>2. Roles[1] = "A" /\ Roles[2] = "B" /\ Roles[3] = "C" /\ Roles[4] = "D"
        BY DEF Roles
      <4> QED BY <4>1, <4>2
    <3>3. PICK p \in DOMAIN acc.of, q \in DOMAIN acc.of, r \in DOMAIN acc.of, s \in DOMAIN acc.of :
            acc.of[p] = "A" /\ acc.of[q] = "B" /\ acc.of[r] = "C" /\ acc.of[s] = "D"
      BY <3>2 DEF Matched
    <3>4. {p, q, r, s, d} \subseteq ds \ {"product"}
      <4>1. p # "product" /\ q # "product" /\ r # "product" /\ s # "product"
        BY <3>3 DEF Matched
      <4> QED BY <2>1, <4>1 DEF Matched
    <3>5. d \notin {p, q, r, s} /\ p \notin {q, r, s} /\ q \notin {r, s} /\ r # s
      BY <3>3
    <3>6. IsFiniteSet(ds \ {"product"})
      BY FS_Subset
    <3>7. ~(Cardinality(ds \ {"product"}) <= 4)
      BY <3>4, <3>5, <3>6, FiveAreMore
    <3> QED BY <1>3, <1>8, <2>1, <3>1, <3>7
  <2> QED BY <2>2, <2>3
<1> QED BY <1>3, <1>5, <1>6


Workers == {"A", "B", "C", "D", "E"}
Nobody == [used |-> {}, of |-> NoResults]
Matches(ds) == [used : SUBSET Workers, of : UNION {[S -> Workers] : S \in SUBSET ds}]

MatchRun(list, f) ==
  f = [k \in 0..Len(list) |-> IF k = 0 THEN Nobody ELSE MatchNext(f[k - 1], list[k])]

LEMMA OwnAgent == \A d \in Chosen : DOMAIN_TO_AGENT[d] \in Workers
<1> SUFFICES ASSUME NEW d \in Chosen PROVE DOMAIN_TO_AGENT[d] \in Workers
  OBVIOUS
<1>1. d \in {"frontend", "backend", "test", "docs", "database", "devops", "product"}
  BY ChosenAssumption DEF DOMAIN_DEPENDENCIES
<1> QED BY <1>1 DEF DOMAIN_TO_AGENT, Workers

LEMMA MatchStays ==
  ASSUME NEW ds \in SUBSET Chosen, NEW acc \in Matches(ds), NEW d \in ds
  PROVE  MatchNext(acc, d) \in Matches(ds)
<1> DEFINE own == DOMAIN_TO_AGENT[d]
           a == PickAgent(acc.used, own)
<1>1. own \in Workers
  BY OwnAgent
<1>2. DOMAIN Roles = 1..4 /\ \A i \in 1..4 : Roles[i] \in Workers
  BY DEF Roles, Workers
<1>3. a \in Workers
  <2>1. CASE Unused(acc.used, own) # {}
    <3>1. Unused(acc.used, own) \subseteq 1..4
      BY <1>2 DEF Unused
    <3>2. Min(Unused(acc.used, own)) \in 1..4
      BY <2>1, <3>1, LeastOf
    <3> HIDE DEF own
    <3> QED BY <1>1, <1>2, <3>2 DEF PickAgent, Workers
  <2>2. CASE Unused(acc.used, own) = {}
    BY <1>1, <2>2 DEF PickAgent, Workers
  <2> QED BY <2>1, <2>2
<1> PICK S \in SUBSET ds : acc.of \in [S -> Workers]
  BY DEF Matches
<1> DEFINE of == [e \in DOMAIN acc.of \cup {d} |-> IF e = d THEN a ELSE acc.of[e]]
<1>4. MatchNext(acc, d) = [used |-> acc.used \cup {a}, of |-> of]
  BY DEF MatchNext
<1>5. acc.used \cup {a} \in SUBSET Workers
  BY <1>3 DEF Matches
<1>6. of \in [S \cup {d} -> Workers] /\ S \cup {d} \in SUBSET ds
  <2> HIDE DEF a
  <2> QED BY <1>3
<1> HIDE DEF of, a
<1> QED BY <1>4, <1>5, <1>6 DEF Matches

LEMMA MatchRuns ==
  ASSUME NEW ds \in SUBSET Chosen, NEW list \in Seq(ds), NEW order, list = ByPriority(order)
  PROVE  \E f : MatchRun(list, f) /\ MatchAgents(order) = f[Len(list)].of
<1> DEFINE N == Len(list)
           X == Matches(ds)
           turn == [nx \in (1..N) \X X |-> MatchNext(nx[2], list[nx[1]])]
<1>1. N \in Nat /\ \A k \in 1..N : list[k] \in ds
  BY LenProperties, ElementOfSeq
<1>2. Nobody \in X
  <2>1. NoResults \in [{} -> Workers] /\ {} \in SUBSET ds
    BY DEF NoResults
  <2> QED BY <2>1 DEF Nobody, Matches
<1>3. turn \in [(1..N) \X X -> X]
  <2>1. \A k \in 1..N, acc \in X : MatchNext(acc, list[k]) \in X
    BY <1>1, MatchStays
  <2> HIDE DEF X
  <2> QED BY <2>1
<1>4. PICK h \in [0..N -> X] : h = [n \in 0..N |-> IF n = 0 THEN Nobody ELSE turn[<<n, h[n - 1]>>]]
  <2> HIDE DEF N, turn, X
  <2> PICK Y : Y = X
    OBVIOUS
  <2> PICK b \in Y, n \in Nat : b = Nobody /\ n = N
    BY <1>1, <1>2
  <2> PICK s \in [(1..n) \X Y -> Y] : s = turn
    BY <1>3
  <2> PICK h : Recursion(n, Y, b, s, h)
    BY RecursionTheorem
  <2> QED BY DEF Recursion
<1>5. \A n \in 0..N : n # 0 => turn[<<n, h[n - 1]>>] = MatchNext(h[n - 1], list[n])
  <2>1. \A n \in 0..N : n # 0 => <<n, h[n - 1]>> \in (1..N) \X X
    <3> HIDE DEF X
    <3> QED BY <1>1
  <2> QED BY <2>1
<1>6. MatchRun(list, h)
  <2> HIDE DEF turn
  <2> QED BY <1>1, <1>4, <1>5 DEF MatchRun
<1>7. MatchAgents(order) = (CHOOSE f : MatchRun(list, f))[N].of
  BY Zenon DEF MatchAgents, MatchRun, Nobody
<1> QED BY <1>6, <1>7

\* Whatever is asked for, each domain has an agent, and one of its own as long as there
\* are no more than four besides product.
LEMMA AgentsMatched ==
  ASSUME NEW order \in Seq(Chosen), IsInjective(order), IsFiniteSet(Range(order)), NEW of, of = MatchAgents(order)
  PROVE  Matched(Range(order), [used |-> {of[d] : d \in DOMAIN of}, of |-> of]) /\ DOMAIN of = Range(order)
<1> PICK list : list = ByPriority(order)
  OBVIOUS
<1> PICK ds : ds = Range(order)
  OBVIOUS
<1>1. list \in Seq(Chosen) /\ Range(list) = ds /\ IsInjective(list)
  BY PriorityOrder
<1>2. DOMAIN list = 1..Len(list) /\ Len(list) \in Nat /\ \A k \in DOMAIN list : list[k] \in ds
  BY <1>1, LenProperties DEF Range
<1>3. list \in Seq(ds) /\ ds \in SUBSET Chosen /\ IsFiniteSet(ds)
  <2>1. list \in [1..Len(list) -> Chosen]
    BY <1>1, LenProperties
  <2>2. list \in [1..Len(list) -> ds]
    BY <1>2, <2>1
  <2>3. list \in Seq(ds)
    BY <1>2, <2>2, SeqDef
  <2> QED BY <2>3, RangeOfSeq
<1> PICK f : MatchRun(list, f) /\ of = f[Len(list)].of
  BY <1>3, MatchRuns
<1> PICK N \in Nat : N = Len(list)
  BY <1>2
<1> DEFINE At(k) == Matched(ds, f[k]) /\ \A x : x \in DOMAIN f[k].of <=> \E i \in 1..k : list[i] = x
           P == {k \in Nat : k <= N => At(k)}
<1>4. 0 \in P
  <2>1. f[0] = Nobody
    BY DEF MatchRun
  <2>2. DOMAIN NoResults = {} /\ Nobody.used = {} /\ Nobody.of = NoResults
    BY DEF NoResults, Nobody
  <2>3. Matched(ds, Nobody)
    BY <2>2 DEF Matched, IsInjective
  <2> QED BY <2>1, <2>2, <2>3
<1>5. ASSUME NEW k \in P PROVE k + 1 \in P
  <2> SUFFICES ASSUME k + 1 <= N PROVE At(k + 1)
    OBVIOUS
  <2>0. k \in Nat /\ k <= N /\ (k <= N => At(k))
    OBVIOUS
  <2>1. At(k)
    <3> HIDE DEF At
    <3> QED BY <2>0
  <2>2. k + 1 \in 1..N /\ k + 1 \in 0..N /\ k + 1 # 0 /\ (k + 1) - 1 = k /\ 1..(k + 1) = 1..k \cup {k + 1}
    BY <2>0
  <2>3. f[k + 1] = MatchNext(f[k], list[k + 1])
    BY <2>2 DEF MatchRun
  <2>4. \A i \in 1..k : i \in DOMAIN list /\ k + 1 \in DOMAIN list /\ i # k + 1
    BY <1>2, <2>0, <2>2
  <2>5. list[k + 1] \in ds /\ list[k + 1] \notin DOMAIN f[k].of
    BY <1>1, <1>2, <2>1, <2>2, <2>4 DEF IsInjective
  <2> PICK d \in ds : d = list[k + 1]
    BY <2>5
  <2> PICK acc : acc = f[k]
    OBVIOUS
  <2>6. Matched(ds, MatchNext(acc, d)) /\ DOMAIN MatchNext(acc, d).of = DOMAIN acc.of \cup {d}
    BY <1>3, <2>1, <2>5, MatchKeeps
  <2> QED BY <2>1, <2>2, <2>3, <2>6
<1>6. P = Nat
  <2> HIDE DEF P
  <2>1. P \subseteq Nat
    BY DEF P
  <2> QED BY <1>4, <1>5, <2>1, Inductive
<1>7. At(N)
  <2>1. N \in P /\ N <= N
    BY <1>6
  <2> HIDE DEF At
  <2> QED BY <2>1
<1>8. DOMAIN of = ds
  <2>1. \A x : x \in ds <=> \E i \in 1..N : list[i] = x
    BY <1>1, <1>2 DEF Range
  <2>2. \A x : x \in DOMAIN of <=> x \in ds
    BY <1>7, <2>1
  <2> QED BY <2>2
<1>9. Matched(ds, [used |-> {of[d] : d \in DOMAIN of}, of |-> of])
  <2> PICK acc : acc = f[N] /\ of = acc.of /\ Matched(ds, acc)
    BY <1>7
  <2>1. acc.used = {of[d] : d \in DOMAIN of}
    BY DEF Matched
  <2> PICK r : r = [used |-> {of[d] : d \in DOMAIN of}, of |-> of]
    OBVIOUS
  <2>2. r.used = acc.used /\ r.of = acc.of
    BY <2>1
  <2> QED BY <2>2 DEF Matched
<1> QED BY <1>8, <1>9


(* setup_task *)

\* What an assignment is made of
Places == Paths \cup Chosen
Jobs ==
  [agent : Workers, id : (Chosen \cup Workers) \X {0}, domain : Chosen, files : SUBSET Places,
   status : {"pending", "sent", "failed"}]

\* Each agent has one job as long as there are enough, and a file of two is reported
WorkApart(jobs, ds, cs) ==
  /\ Cardinality(ds \ {"product"}) <= 4 => \A i, j \in DOMAIN jobs : jobs[i].agent = jobs[j].agent => i = j
  /\ \A i, j \in DOMAIN jobs : jobs[i].agent # jobs[j].agent =>
       \A f \in jobs[i].files \cap jobs[j].files : \E c \in cs : c.file = f /\ c.agent \in {jobs[i].agent, jobs[j].agent}

\* Whatever is in a list is there for the first time somewhere, so who picks at least
\* the first of each misses nothing.
LEMMA FirstsPicked ==
  ASSUME NEW T, NEW a \in Seq(T), NEW P \in SUBSET DOMAIN a,
         \A k \in DOMAIN a : (\A j \in 1..(k - 1) : a[j] # a[k]) => k \in P,
         NEW i \in DOMAIN a
  PROVE  \E p \in DOMAIN Picked(a, P) : Picked(a, P)[p] = a[i]
<1> DEFINE same == {k \in DOMAIN a : a[k] = a[i]}
<1>1. DOMAIN a = 1..Len(a) /\ Len(a) \in Nat
  BY LenProperties
<1>2. same \subseteq Nat /\ i \in same
  BY <1>1
<1> PICK m \in same : \A k \in same : m <= k
  BY <1>2, Least
<1>3. m \in DOMAIN a /\ a[m] = a[i]
  OBVIOUS
<1>4. ASSUME NEW j \in 1..(m - 1), a[j] = a[m] PROVE FALSE
  <2>1. j \in same /\ ~(m <= j)
    BY <1>1, <1>3, <1>4
  <2> HIDE DEF same
  <2> QED BY <2>1
<1>5. m \in P
  BY <1>3, <1>4
<1>6. \E p \in DOMAIN Picked(a, P) : Picked(a, P)[p] = a[m]
  <2> HIDE DEF same
  <2>1. \A j \in P : \E k \in DOMAIN Picked(a, P) : Picked(a, P)[k] = a[j]
    BY PickedDoes
  <2> QED BY <1>5, <2>1
<1> QED BY <1>3, <1>6

\* Everyone who has a job sets up his files in turn.
LEMMA EveryAgent ==
  ASSUME NEW jobs \in Seq(Jobs), NEW agents, agents = AgentOrder(jobs)
  PROVE  /\ \A i \in DOMAIN jobs : \E p \in DOMAIN agents : agents[p] = jobs[i].agent
         /\ DOMAIN agents \subseteq Nat \ {0}
<1> DEFINE all == [i \in DOMAIN jobs |-> jobs[i].agent]
           P == {i \in DOMAIN jobs : \A j \in 1..(i - 1) : jobs[j].agent # jobs[i].agent}
<1>1. DOMAIN jobs = 1..Len(jobs) /\ Len(jobs) \in Nat /\ \A i \in DOMAIN jobs : jobs[i] \in Jobs
  BY LenProperties, ElementOfSeq
<1>2. \A i \in DOMAIN jobs : jobs[i].agent \in Workers
  BY <1>1 DEF Jobs
<1>3. all \in [1..Len(jobs) -> Workers]
  BY <1>1, <1>2
<1>4. DOMAIN all = DOMAIN jobs /\ \A i \in DOMAIN jobs : all[i] = jobs[i].agent
  OBVIOUS
<1>5. agents = Picked(all, P)
  BY DEF AgentOrder
<1>6. P \in SUBSET DOMAIN all
  BY <1>4
<1>7. ASSUME NEW k \in DOMAIN all, \A j \in 1..(k - 1) : all[j] # all[k] PROVE k \in P
  <2>1. \A j \in 1..(k - 1) : j \in DOMAIN jobs
    BY <1>1, <1>4
  <2> QED BY <1>4, <1>7, <2>1
<1> HIDE DEF all, P
<1>8. all \in Seq(Workers)
  BY <1>1, <1>3, SeqDef
<1>9. \A i \in DOMAIN all : \E p \in DOMAIN Picked(all, P) : Picked(all, P)[p] = all[i]
  BY <1>6, <1>7, <1>8, FirstsPicked
<1>10. DOMAIN Picked(all, P) \subseteq Nat \ {0}
  <2>1. IsFiniteSet(P) /\ DOMAIN Picked(all, P) = 1..Cardinality(P)
    BY <1>6, <1>8, PickedDoes
  <2>2. Cardinality(P) \in Nat
    BY <2>1, FS_CardinalityType
  <2> QED BY <2>1, <2>2
<1> QED BY <1>4, <1>5, <1>9, <1>10

LEMMA RefusedAll ==
  ASSUME NEW jobs \in Seq(Jobs), NEW i \in DOMAIN jobs, NEW j \in DOMAIN jobs, jobs[i].agent # jobs[j].agent,
         NEW f \in jobs[i].files \cap jobs[j].files
  PROVE  \E c \in Refused(jobs) : c.file = f /\ c.agent \in {jobs[i].agent, jobs[j].agent}
<1> PICK agents : agents = AgentOrder(jobs)
  OBVIOUS
<1>1. PICK p \in DOMAIN agents, q \in DOMAIN agents : agents[p] = jobs[i].agent /\ agents[q] = jobs[j].agent
  BY EveryAgent
<1>2. p \in Nat /\ q \in Nat /\ p # q /\ DOMAIN agents \subseteq Nat
  BY <1>1, EveryAgent
<1>3. \A k \in DOMAIN jobs : f \in jobs[k].files => f \in FilesOf(jobs, jobs[k].agent)
  BY DEF FilesOf, Range
<1>4. ASSUME NEW m \in DOMAIN agents, NEW n \in DOMAIN agents, n < m,
             f \in FilesOf(jobs, agents[m]), f \in FilesOf(jobs, agents[n])
      PROVE  [file |-> f, agent |-> agents[m]] \in Refused(jobs)
  <2>1. n \in 1..(m - 1) \/ n = 0
    BY <1>2, <1>4
  <2>2. n # 0
    <3>1. DOMAIN agents \subseteq Nat \ {0}
      BY EveryAgent
    <3> QED BY <3>1
  <2>3. f \in FilesOf(jobs, agents[m]) \cap UNION {FilesOf(jobs, agents[k]) : k \in 1..(m - 1)}
    BY <1>4, <2>1, <2>2
  <2> QED BY <2>3 DEF Refused
<1>5. f \in FilesOf(jobs, agents[p]) /\ f \in FilesOf(jobs, agents[q])
  BY <1>1, <1>3
<1>6. CASE p < q
  BY <1>1, <1>4, <1>5, <1>6
<1>7. CASE q < p
  BY <1>1, <1>4, <1>5, <1>7
<1> QED BY <1>2, <1>6, <1>7


Answer == [status : {"done", "fail"}, changes : SUBSET Places]
NoAnswer == [status |-> "timeout", changes |-> {}]

\* Whoever was sent something may answer, and a result is the first answer of one who
\* was, or that there was none in time.  They are complete when they are counted.
RunInv ==
  /\ assignments \in Seq(Jobs)
  /\ run_at = "new" => mode = "none" /\ assignments = <<>>
  /\ mode = "parallel" => WorkApart(assignments, asked_domains, conflicts)
  /\ answers \in [SentIds -> Seq(Answer)]
  /\ round \subseteq SentIds
  /\ DOMAIN results \subseteq SentIds
  /\ \A x \in DOMAIN results :
       \/ answers[x] # <<>> /\ results[x] = Head(answers[x])
       \/ run_at \in {"counting", "over"} /\ results[x] = NoAnswer
  /\ run_at \in {"polling", "counting"} => \A s \in Range(assignments) : s.status = "sent"
  /\ run_at = "counting" => DOMAIN results = SentIds
  /\ run_at # "over" => final = NoFinal
  /\ FinalTrue

LEMMA RunStarts == RunInit => RunInv
<1> SUFFICES ASSUME RunInit PROVE RunInv
  OBVIOUS
<1>1. Range(assignments) = {} /\ assignments \in Seq(Jobs) /\ SentIds = {}
  <2>1. assignments = <<>> /\ DOMAIN <<>> = {}
    BY DEF RunInit
  <2> QED BY <2>1, EmptySeq DEF Range, SentIds
<1>2. DOMAIN NoResults = {} /\ NoResults \in [SentIds -> Seq(Answer)]
  BY <1>1 DEF NoResults
<1> QED BY <1>1, <1>2 DEF RunInit, RunInv, FinalTrue

LEMMA RunShows == RunInv => RunTruthful
<1> SUFFICES ASSUME RunInv PROVE RunTruthful
  OBVIOUS
<1>1. ASSUME mode = "parallel"
      PROVE  /\ Cardinality(asked_domains \ {"product"}) <= 4 =>
                  IsInjective([i \in DOMAIN assignments |-> assignments[i].agent])
             /\ \A s, t \in Range(assignments) : s.agent # t.agent =>
                  \A f \in s.files \cap t.files : \E c \in conflicts : c.file = f /\ c.agent \in {s.agent, t.agent}
  <2>1. WorkApart(assignments, asked_domains, conflicts)
    BY <1>1 DEF RunInv
  <2>2. Cardinality(asked_domains \ {"product"}) <= 4 =>
          IsInjective([i \in DOMAIN assignments |-> assignments[i].agent])
    BY <2>1 DEF WorkApart, IsInjective
  <2>3. ASSUME NEW s \in Range(assignments), NEW t \in Range(assignments), s.agent # t.agent
        PROVE  \A f \in s.files \cap t.files : \E c \in conflicts : c.file = f /\ c.agent \in {s.agent, t.agent}
    <3> PICK i \in DOMAIN assignments, j \in DOMAIN assignments : s = assignments[i] /\ t = assignments[j]
      BY DEF Range
    <3> QED BY <2>1, <2>3 DEF WorkApart
  <2> QED BY <2>2, <2>3
<1>2. AgentsApart
  BY <1>1 DEF AgentsApart
<1> QED BY <1>2 DEF RunTruthful, RunInv

\* What does not concern the files and the agents leaves them apart.
LEMMA SameWork ==
  ASSUME NEW jobs, NEW others, NEW ds, NEW cs, WorkApart(jobs, ds, cs), DOMAIN others = DOMAIN jobs,
         \A i \in DOMAIN jobs : others[i].agent = jobs[i].agent /\ others[i].files = jobs[i].files
  PROVE  WorkApart(others, ds, cs)
<1>1. \A i, j \in DOMAIN others : i \in DOMAIN jobs /\ j \in DOMAIN jobs
  OBVIOUS
<1>2. ASSUME Cardinality(ds \ {"product"}) <= 4, NEW i \in DOMAIN others, NEW j \in DOMAIN others,
             others[i].agent = others[j].agent
      PROVE  i = j
  BY <1>1, <1>2 DEF WorkApart
<1>3. ASSUME NEW i \in DOMAIN others, NEW j \in DOMAIN others, others[i].agent # others[j].agent,
             NEW f \in others[i].files \cap others[j].files
      PROVE  \E c \in cs : c.file = f /\ c.agent \in {others[i].agent, others[j].agent}
  <2>1. jobs[i].agent # jobs[j].agent /\ f \in jobs[i].files \cap jobs[j].files
    BY <1>1, <1>3
  <2>2. \E c \in cs : c.file = f /\ c.agent \in {jobs[i].agent, jobs[j].agent}
    BY <1>1, <2>1 DEF WorkApart
  <2> QED BY <1>1, <2>2
<1> QED BY <1>2, <1>3 DEF WorkApart

LEMMA FilesInferred ==
  ASSUME NEW task, task.files \in SUBSET Paths, NEW d \in Chosen
  PROVE  InferFiles(task, d) \in SUBSET Places
BY DEF InferFiles, Places

LEMMA OrderFinite ==
  ASSUME NEW order \in Orders
  PROVE  /\ order \in Seq(Chosen) /\ IsInjective(order) /\ IsFiniteSet(Range(order))
         /\ DOMAIN order = 1..Len(order) /\ Len(order) \in Nat
         /\ \A i \in DOMAIN order : order[i] \in Chosen /\ order[i] \in Range(order)
<1>1. order \in Seq(Chosen) /\ IsInjective(order)
  BY OrderIsList
<1>2. DOMAIN order = 1..Len(order) /\ Len(order) \in Nat /\ \A i \in DOMAIN order : order[i] \in Chosen
  BY <1>1, LenProperties, ElementOfSeq
<1>3. IsFiniteSet(DOMAIN order)
  BY <1>2, FS_Interval
<1>4. order \in [DOMAIN order -> Range(order)]
  BY <1>1, LenProperties DEF Range
<1>5. order \in Surjection(DOMAIN order, Range(order))
  BY <1>4 DEF Surjection, Range
<1>6. IsFiniteSet(Range(order))
  BY <1>3, <1>5, FS_Surjection
<1> QED BY <1>1, <1>2, <1>4, <1>6

LEMMA AgentsOf ==
  ASSUME NEW order \in Orders, NEW of, of = MatchAgents(order)
  PROVE  /\ DOMAIN of = Range(order) /\ \A d \in Range(order) : of[d] \in Workers
         /\ Cardinality(Range(order) \ {"product"}) <= 4 => IsInjective(of)
<1> PICK acc : acc = [used |-> {of[d] : d \in DOMAIN of}, of |-> of]
  OBVIOUS
<1>1. Matched(Range(order), acc) /\ DOMAIN of = Range(order)
  BY OrderFinite, AgentsMatched
<1>2. acc.of = of
  OBVIOUS
<1>3. \A d \in Range(order) : of[d] \in Workers
  BY <1>1, <1>2 DEF Matched, Workers
<1> QED BY <1>1, <1>2, <1>3 DEF Matched

\* The assignments of a task that is cut
JobsIn(jobs, order, of) ==
  /\ DOMAIN jobs = DOMAIN order
  /\ \A i \in DOMAIN order :
       /\ jobs[i].agent = of[order[i]] /\ jobs[i].status = "pending"
       /\ jobs[i] \in [agent : {of[order[i]]}, id : (Chosen \cup Workers) \X {0}, domain : Chosen,
                       files : SUBSET Places, status : {"pending"}]

LEMMA JobsAre ==
  ASSUME NEW order \in Orders, NEW task, task.order = order, task.files \in SUBSET Paths,
         NEW sts, sts = OnePerDomain(order), NEW jobs,
         jobs = [i \in DOMAIN sts |->
                  Assigned(MatchAgents(order)[sts[i].domain], sts[i].id, sts[i].domain, InferFiles(task, sts[i].domain))]
  PROVE  JobsIn(jobs, order, MatchAgents(order))
<1> PICK of : of = MatchAgents(order)
  OBVIOUS
<1>1. DOMAIN sts = DOMAIN order /\ \A i \in DOMAIN order : sts[i].domain = order[i] /\ sts[i].id = <<order[i], 0>>
  BY DEF OnePerDomain
<1>2. DOMAIN jobs = DOMAIN order
  BY <1>1
<1>3. ASSUME NEW i \in DOMAIN order
      PROVE  /\ jobs[i].agent = of[order[i]] /\ jobs[i].status = "pending"
             /\ jobs[i] \in [agent : {of[order[i]]}, id : (Chosen \cup Workers) \X {0}, domain : Chosen,
                             files : SUBSET Places, status : {"pending"}]
  <2> PICK d \in Chosen : d = order[i]
    BY OrderFinite
  <2> PICK fs \in SUBSET Places : fs = InferFiles(task, d)
    BY FilesInferred
  <2>1. jobs[i] = [agent |-> of[d], id |-> <<d, 0>>, domain |-> d, files |-> fs, status |-> "pending"]
    BY <1>1 DEF Assigned
  <2> QED BY <2>1
<1> QED BY <1>2, <1>3 DEF JobsIn

LEMMA JobsOf ==
  ASSUME NEW order \in Orders, NEW jobs, JobsIn(jobs, order, MatchAgents(order)), jobs = [i \in DOMAIN jobs |-> jobs[i]]
  PROVE  /\ jobs \in Seq(Jobs) /\ WorkApart(jobs, Range(order), Refused(jobs))
         /\ \A i \in DOMAIN jobs : jobs[i].status = "pending"
<1> DEFINE of == MatchAgents(order)
<1>1. /\ DOMAIN of = Range(order) /\ \A d \in Range(order) : of[d] \in Workers
      /\ Cardinality(Range(order) \ {"product"}) <= 4 => IsInjective(of)
  BY AgentsOf
<1>2. JobsIn(jobs, order, of)
  OBVIOUS
<1> HIDE DEF of
<1>3. \A i \in DOMAIN order : jobs[i] \in Jobs
  BY <1>1, <1>2, OrderFinite DEF JobsIn, Jobs
<1>4. jobs \in Seq(Jobs)
  <2>1. jobs \in [1..Len(order) -> Jobs]
    BY <1>2, <1>3, OrderFinite DEF JobsIn
  <2>2. Len(order) \in Nat
    BY OrderFinite
  <2> QED BY <2>1, <2>2, SeqDef
<1>5. ASSUME Cardinality(Range(order) \ {"product"}) <= 4, NEW i \in DOMAIN jobs, NEW j \in DOMAIN jobs,
             jobs[i].agent = jobs[j].agent
      PROVE  i = j
  <2>1. of[order[i]] = of[order[j]] /\ order[i] \in DOMAIN of /\ order[j] \in DOMAIN of
    BY <1>1, <1>2, <1>5, OrderFinite DEF JobsIn
  <2>2. order[i] = order[j]
    BY <1>1, <1>5, <2>1 DEF IsInjective
  <2> QED BY <1>2, <2>2, OrderFinite DEF JobsIn, IsInjective
<1>6. WorkApart(jobs, Range(order), Refused(jobs))
  BY <1>4, <1>5, RefusedAll DEF WorkApart
<1> QED BY <1>2, <1>4, <1>6 DEF JobsIn


LEMMA SentAre ==
  \A x : x \in SentIds <=> \E i \in DOMAIN assignments : assignments[i].status = "sent" /\ assignments[i].id = x
BY DEF SentIds, Range

\* A change of what was reported, not of what was assigned
LEMMA SameJobs ==
  ASSUME RunInv, UNCHANGED <<planVars, mode, assignments, conflicts>>
  PROVE  /\ (assignments \in Seq(Jobs))' /\ SentIds' = SentIds /\ Range(assignments)' = Range(assignments)
         /\ mode' = "parallel" => WorkApart(assignments, asked_domains, conflicts)'
<1>1. /\ assignments' = assignments /\ mode' = mode /\ conflicts' = conflicts /\ asked_domains' = asked_domains
  BY DEF planVars
<1>2. SentIds' = SentIds /\ Range(assignments)' = Range(assignments)
  BY <1>1 DEF SentIds, Range
<1>3. mode' = "parallel" => WorkApart(assignments', asked_domains', conflicts')
  BY <1>1 DEF RunInv
<1> QED BY <1>1, <1>2, <1>3 DEF RunInv

LEMMA ScheduleKeeps ==
  ASSUME RunInv, NEW task \in TaskInputs(Orders), Schedule(task)
  PROVE  RunInv'
<1>1. task.order \in Orders /\ task.files \in SUBSET Paths
  BY DEF TaskInputs
<1>2. /\ run_at = "new" /\ run_at' = "scheduled" /\ assignments = <<>>
      /\ UNCHANGED <<sender, answers, round, results, final>>
  BY DEF Schedule, RunInv
<1>3. SentIds = {} /\ final = NoFinal
  <2>1. DOMAIN assignments = {}
    BY <1>2
  <2> QED BY <1>2, <2>1, SentAre DEF RunInv
<1>4. answers \in [{} -> Seq(Answer)] /\ round = {} /\ DOMAIN results = {}
  BY <1>3 DEF RunInv
<1>5. SUFFICES /\ assignments' \in Seq(Jobs) /\ \A i \in DOMAIN assignments' : assignments'[i].status = "pending"
               /\ mode' = "parallel" => WorkApart(assignments, asked_domains, conflicts)'
  <2>1. SentIds' = {}
    <3>1. \A s \in Range(assignments') : s.status # "sent"
      BY <1>5 DEF Range
    <3> QED BY <3>1 DEF SentIds
  <2>2. FinalTrue'
    BY <1>2 DEF FinalTrue
  <2> QED BY <1>2, <1>3, <1>4, <1>5, <2>1, <2>2 DEF RunInv
<1>6. CASE IsComplex(task)
  <2> PICK order \in Orders : order = task.order
    BY <1>1
  <2>1. subtasks' = OnePerDomain(order) /\ asked_domains' = Range(order)
    <3>1. Decompose(order) \/ DecomposeWithContract(order)
      BY <1>6 DEF Schedule
    <3> QED BY <3>1 DEF Decompose, DecomposeWithContract, Planned
  <2> PICK jobs, sts : jobs = assignments' /\ sts = subtasks'
    OBVIOUS
  <2>2. /\ jobs = [i \in DOMAIN sts |->
                    Assigned(MatchAgents(order)[sts[i].domain], sts[i].id, sts[i].domain, InferFiles(task, sts[i].domain))]
        /\ conflicts' = Refused(jobs)
    BY <1>6 DEF Schedule
  <2>3. JobsIn(jobs, order, MatchAgents(order))
    BY <1>1, <2>1, <2>2, JobsAre
  <2>4. jobs = [i \in DOMAIN jobs |-> jobs[i]]
    BY <2>2
  <2>5. /\ jobs \in Seq(Jobs) /\ WorkApart(jobs, Range(order), Refused(jobs))
        /\ \A i \in DOMAIN jobs : jobs[i].status = "pending"
    BY <2>3, <2>4, JobsOf
  <2>6. WorkApart(assignments', asked_domains', conflicts')
    BY <2>1, <2>2, <2>5
  <2> QED BY <2>5, <2>6
<1>7. CASE ~IsComplex(task)
  <2> PICK order \in Orders : order = task.order
    BY <1>1
  <2> PICK d : d = Head(order)
    OBVIOUS
  <2>1. d \in Chosen
    <3>1. order \in Seq(Chosen) /\ order # <<>>
      BY OrderIsList
    <3> QED BY <3>1, HeadTailProperties
  <2> PICK a : a = AgentForDomain(d)
    OBVIOUS
  <2>2. a \in Workers
    BY <2>1, OwnAgent DEF AgentForDomain, Workers
  <2>3. mode' = "single" /\ assignments' = <<Assigned(a, <<a, 0>>, d, task.files)>>
    BY <1>7 DEF Schedule
  <2> PICK fs \in SUBSET Places : fs = task.files
    BY <1>1 DEF Places
  <2> PICK job : job = [agent |-> a, id |-> <<a, 0>>, domain |-> d, files |-> fs, status |-> "pending"]
    OBVIOUS
  <2>4. job \in Jobs /\ job.status = "pending"
    BY <2>1, <2>2 DEF Jobs
  <2>5. assignments' = <<job>>
    BY <2>3 DEF Assigned
  <2>6. assignments' \in Seq(Jobs) /\ \A i \in DOMAIN assignments' : assignments'[i] = job
    BY <2>4, <2>5
  <2> QED BY <2>3, <2>4, <2>6
<1> QED BY <1>6, <1>7

\* An assignment is sent, or is not
LEMMA SendKeeps == ASSUME RunInv, SendAssignments PROVE RunInv'
<1> DEFINE unsent == {i \in DOMAIN assignments : assignments[i].status = "pending"}
           m == Min(unsent)
<1>1. /\ run_at = "scheduled" /\ UNCHANGED <<sender, planVars, mode, conflicts, round, results, final>>
  BY DEF SendAssignments
<1>2. DOMAIN assignments = 1..Len(assignments) /\ Len(assignments) \in Nat
      /\ \A i \in DOMAIN assignments : assignments[i] \in Jobs
  BY LenProperties, ElementOfSeq DEF RunInv
<1>3. CASE unsent # {}
  <2>1. unsent \subseteq Nat
    BY <1>2
  <2>2. m \in unsent
    <3> HIDE DEF unsent
    <3> QED BY <1>3, <2>1, LeastOf
  <2> PICK k \in DOMAIN assignments : k = m /\ assignments[k].status = "pending"
    BY <2>2
  <2> PICK status \in SendEnds :
        /\ assignments' = [assignments EXCEPT ![k].status = status]
        /\ answers' = IF status = "sent"
                      THEN [x \in DOMAIN answers \cup {assignments[k].id} |-> IF x \in DOMAIN answers THEN answers[x] ELSE <<>>]
                      ELSE answers
        /\ run_at' = run_at
    BY <1>3 DEF SendAssignments
  <2> HIDE DEF m, unsent
  <2>3. status \in {"sent", "failed"}
    BY DEF SendEnds
  <2>4. /\ DOMAIN assignments' = DOMAIN assignments
        /\ \A i \in DOMAIN assignments : i # k => assignments'[i] = assignments[i]
        /\ assignments'[k] = [assignments[k] EXCEPT !.status = status]
    BY <1>2
  <2>5. \A i \in DOMAIN assignments :
          /\ assignments'[i] \in Jobs /\ assignments'[i].agent = assignments[i].agent
          /\ assignments'[i].files = assignments[i].files /\ assignments'[i].id = assignments[i].id
          /\ assignments'[i].status = IF i = k THEN status ELSE assignments[i].status
    BY <1>2, <2>3, <2>4 DEF Jobs
  <2>6. assignments' \in Seq(Jobs)
    <3> PICK jobs : jobs = assignments'
      OBVIOUS
    <3> PICK n \in Nat : n = Len(assignments)
      BY <1>2
    <3>1. jobs = [i \in 1..n |-> jobs[i]]
      BY <1>2
    <3>2. \A i \in 1..n : jobs[i] \in Jobs
      BY <1>2, <2>5
    <3> PICK X : X = Jobs
      OBVIOUS
    <3>3. jobs \in [1..n -> X]
      BY <3>1, <3>2
    <3>4. jobs \in Seq(X)
      BY <3>3, ListOf
    <3> QED BY <3>4
  <2>7. mode' = "parallel" => WorkApart(assignments', asked_domains', conflicts')
    <3> SUFFICES ASSUME mode' = "parallel" PROVE WorkApart(assignments', asked_domains', conflicts')
      OBVIOUS
    <3>1. WorkApart(assignments, asked_domains, conflicts) /\ asked_domains' = asked_domains /\ conflicts' = conflicts
      BY <1>1 DEF RunInv, planVars
    <3>2. WorkApart(assignments', asked_domains, conflicts)
      BY <2>4, <2>5, <3>1, SameWork
    <3> QED BY <3>1, <3>2
  <2>8. \A x : x \in SentIds' <=> (x \in SentIds \/ (status = "sent" /\ x = assignments[k].id))
    <3>1. \A x : x \in SentIds' <=> \E i \in DOMAIN assignments' : assignments'[i].status = "sent" /\ assignments'[i].id = x
      BY DEF SentIds, Range
    <3> QED BY <2>4, <2>5, <3>1, SentAre
  <2>9. answers \in [SentIds -> Seq(Answer)]
    BY DEF RunInv
  <2>10. answers' \in [SentIds' -> Seq(Answer)] /\ \A x \in SentIds : answers'[x] = answers[x]
    <3>1. CASE status = "sent"
      <4>1. SentIds' = SentIds \cup {assignments[k].id}
        BY <2>8, <3>1
      <4>2. answers' = [x \in SentIds' |-> IF x \in SentIds THEN answers[x] ELSE <<>>]
        BY <2>9, <3>1, <4>1
      <4>3. <<>> \in Seq(Answer)
        BY EmptySeq
      <4> QED BY <2>9, <4>1, <4>2, <4>3
    <3>2. CASE status # "sent"
      <4>1. SentIds' = SentIds
        BY <2>8, <3>2
      <4> QED BY <2>9, <3>2, <4>1
    <3> QED BY <3>1, <3>2
  <2>11. run_at' = "scheduled" /\ results' = results /\ round' = round /\ final' = final
    BY <1>1
  <2>12. FinalTrue'
    BY <2>11 DEF FinalTrue
  <2>13. \A x \in DOMAIN results : answers'[x] # <<>> /\ results[x] = Head(answers'[x])
    BY <1>1, <2>10 DEF RunInv
  <2> QED BY <1>1, <2>6, <2>7, <2>8, <2>10, <2>11, <2>12, <2>13 DEF RunInv
<1>4. CASE unsent = {}
  <2>1. run_at' = "sent" /\ UNCHANGED <<assignments, answers, results, round, final, planVars, mode, conflicts>>
    BY <1>1, <1>4 DEF SendAssignments
  <2>2. FinalTrue'
    BY <2>1 DEF FinalTrue
  <2> QED BY <1>1, <2>1, <2>2, SameJobs DEF RunInv
<1> QED BY <1>3, <1>4


\* An answer more leaves the first as it is.
LEMMA FirstStays ==
  ASSUME NEW q \in Seq(Answer), NEW e \in Answer
  PROVE  /\ Append(q, e) \in Seq(Answer) /\ Append(q, e) # <<>>
         /\ q # <<>> => Head(Append(q, e)) = Head(q)
BY AppendProperties, HeadTailProperties, LenProperties

LEMMA ReportKeeps ==
  ASSUME RunInv, NEW x \in DOMAIN answers, NEW s \in Range(assignments),
         Report(x, "fail", {}) \/ Report(x, "done", s.files)
  PROVE  RunInv'
<1>1. s.files \in SUBSET Places
  <2> PICK i \in DOMAIN assignments : s = assignments[i]
    BY DEF Range
  <2>1. assignments[i] \in Jobs
    BY ElementOfSeq, LenProperties DEF RunInv
  <2> QED BY <2>1 DEF Jobs
<1>2. PICK e \in Answer : answers' = [answers EXCEPT ![x] = Append(@, e)]
  <2>1. CASE Report(x, "fail", {})
    BY <2>1 DEF Report, Answer
  <2>2. CASE Report(x, "done", s.files)
    BY <1>1, <2>2 DEF Report, Answer
  <2> QED BY <2>1, <2>2
<1>3. UNCHANGED <<planVars, run_at, mode, assignments, conflicts, round, results, final>>
  BY DEF Report
<1>4. answers \in [SentIds -> Seq(Answer)]
  BY DEF RunInv
<1>5. /\ answers' \in [SentIds -> Seq(Answer)]
      /\ \A y \in SentIds : answers[y] # <<>> => answers'[y] # <<>> /\ Head(answers'[y]) = Head(answers[y])
  BY <1>2, <1>4, FirstStays
<1>6. SentIds' = SentIds
  BY <1>3, SameJobs
<1>7. FinalTrue'
  BY <1>3, <1>4, <1>5 DEF FinalTrue, RunInv
<1>8. \A y \in DOMAIN results :
        \/ answers'[y] # <<>> /\ results[y] = Head(answers'[y])
        \/ run_at \in {"counting", "over"} /\ results[y] = NoAnswer
  BY <1>5 DEF RunInv
<1> QED BY <1>3, <1>5, <1>6, <1>7, <1>8, SameJobs DEF RunInv

LEMMA WaitKeeps == ASSUME RunInv, Wait PROVE RunInv'
<1>1. /\ run_at = "sent" /\ UNCHANGED <<planVars, mode, assignments, conflicts, answers, results, final>>
      /\ \/ /\ run_at' = "polling" /\ round' = SentIds
            /\ \A s \in Range(assignments) : s.status = "sent"
         \/ run_at' = "over" /\ round' = {}
  BY DEF Wait
<1>2. final' = NoFinal
  BY <1>1 DEF RunInv
<1>3. FinalTrue'
  BY <1>2 DEF FinalTrue
<1> QED BY <1>1, <1>2, <1>3, SameJobs DEF RunInv

LEMMA PollKeeps == ASSUME RunInv, NEW x, Poll(x) PROVE RunInv'
<1>1. /\ run_at = "polling" /\ x \in round /\ round' = round \ {x}
      /\ UNCHANGED <<planVars, run_at, mode, assignments, conflicts, answers, final>>
      /\ \/ results' = results
         \/ /\ answers[x] # <<>>
            /\ results' = [y \in DOMAIN results \cup {x} |-> IF y = x THEN Head(answers[x]) ELSE results[y]]
  BY DEF Poll
<1>2. FinalTrue'
  BY <1>1 DEF FinalTrue
<1>3. x \in SentIds
  BY <1>1 DEF RunInv
<1>4. /\ DOMAIN results' \subseteq SentIds
      /\ \A y \in DOMAIN results' : answers[y] # <<>> /\ results'[y] = Head(answers[y])
  BY <1>1, <1>3 DEF RunInv
<1> QED BY <1>1, <1>2, <1>4, SameJobs DEF RunInv

LEMMA PollAgainKeeps == ASSUME RunInv, PollAgain PROVE RunInv'
<1>1. /\ run_at = "polling"
      /\ UNCHANGED <<planVars, mode, assignments, conflicts, answers, results, final>>
      /\ \/ PendingIds = {} /\ run_at' = "counting" /\ round' = round
         \/ round' = PendingIds /\ run_at' = run_at
  BY DEF PollAgain
<1>2. FinalTrue'
  BY <1>1 DEF FinalTrue
<1>3. PendingIds \subseteq SentIds /\ (PendingIds = {} => DOMAIN results = SentIds)
  BY DEF PendingIds, RunInv
<1> QED BY <1>1, <1>2, <1>3, SameJobs DEF RunInv

LEMMA TimedOutKeeps == ASSUME RunInv, TimedOut PROVE RunInv'
<1>1. /\ run_at = "polling" /\ run_at' = "counting"
      /\ results' = [x \in SentIds |-> IF x \in DOMAIN results THEN results[x] ELSE NoAnswer]
      /\ UNCHANGED <<planVars, mode, assignments, conflicts, answers, round, final>>
  BY DEF TimedOut, NoAnswer
<1>2. FinalTrue'
  BY <1>1 DEF FinalTrue
<1>3. /\ DOMAIN results' = SentIds
      /\ \A x \in DOMAIN results' : (answers[x] # <<>> /\ results'[x] = Head(answers[x])) \/ results'[x] = NoAnswer
  BY <1>1 DEF RunInv
<1> QED BY <1>1, <1>2, <1>3, SameJobs DEF RunInv


LEMMA ResultsFinite == RunInv => IsFiniteSet(DOMAIN results)
<1> SUFFICES ASSUME RunInv PROVE IsFiniteSet(DOMAIN results)
  OBVIOUS
<1>1. IsFiniteSet(Ids(assignments))
  BY IdsFinite DEF RunInv
<1>2. SentIds \subseteq Ids(assignments)
  BY SentAre DEF Ids
<1>3. DOMAIN results \in SUBSET Ids(assignments)
  BY <1>2 DEF RunInv
<1> QED BY <1>1, <1>3, FS_Subset

\* A count says whether there is one, and whether there are two.
LEMMA CountsTell ==
  ASSUME NEW D, IsFiniteSet(D), NEW S \in SUBSET D
  PROVE  /\ Cardinality(S) \in Nat /\ (Cardinality(S) = 0 <=> S = {})
         /\ \A x, y \in S : x # y => Cardinality(S) > 1
<1>1. IsFiniteSet(S)
  BY FS_Subset
<1>2. Cardinality(S) \in Nat /\ (Cardinality(S) = 0 <=> S = {}) /\ (Cardinality(S) = 1 <=> \E x : S = {x})
  BY <1>1, FS_CardinalityType, FS_EmptySet, FS_Singleton
<1> QED BY <1>2

LEMMA AggregateKeeps == ASSUME RunInv, Aggregate PROVE RunInv'
<1>1. /\ run_at = "counting" /\ run_at' = "over"
      /\ UNCHANGED <<planVars, mode, assignments, conflicts, answers, round, results>>
      /\ final'.status = FinalStatus(Count("done"), Count("fail"), Count("timeout")) /\ final'.conflicts = ChangedTwice
  BY DEF Aggregate
<1>2. /\ DOMAIN results = SentIds /\ DOMAIN answers = SentIds
      /\ \A s \in Range(assignments) : s.status = "sent"
  BY <1>1 DEF RunInv
<1>3. DOMAIN results = {s.id : s \in Range(assignments)}
  BY <1>2 DEF SentIds
<1>4. \A x \in DOMAIN results : \/ answers[x] # <<>> /\ results[x] = Head(answers[x]) /\ results[x] \in Answer
                                \/ results[x] = NoAnswer
  BY <1>2, HeadTailProperties DEF RunInv
<1>5. ASSUME NEW status
      PROVE  /\ Count(status) \in Nat
             /\ Count(status) = 0 <=> \A x \in DOMAIN results : results[x].status # status
  <2> DEFINE S == {x \in DOMAIN results : results[x].status = status}
  <2>1. Cardinality(S) \in Nat /\ (Cardinality(S) = 0 <=> S = {})
    BY ResultsFinite, CountsTell
  <2> QED BY <2>1 DEF Count
<1>6. final'.status = "success" => \A x \in DOMAIN answers : answers[x] # <<>> /\ Head(answers[x]).status = "done"
  <2> SUFFICES ASSUME final'.status = "success", NEW x \in DOMAIN answers
               PROVE  answers[x] # <<>> /\ Head(answers[x]).status = "done"
    OBVIOUS
  <2>1. Count("fail") = 0 /\ Count("timeout") = 0
    BY <1>1 DEF FinalStatus
  <2>2. results[x].status # "fail" /\ results[x].status # "timeout"
    BY <1>2, <1>5, <2>1
  <2> QED BY <1>2, <1>4, <2>2 DEF Answer, NoAnswer
<1>7. final'.status = "failed" => \A x \in DOMAIN results : results[x].status # "done"
  <2> SUFFICES ASSUME final'.status = "failed" PROVE \A x \in DOMAIN results : results[x].status # "done"
    OBVIOUS
  <2>1. Count("done") = 0
    BY <1>1, <1>5 DEF FinalStatus
  <2> QED BY <1>5, <2>1
<1>8. ASSUME NEW x \in DOMAIN results, NEW y \in DOMAIN results, x # y, NEW f \in results[x].changes \cap results[y].changes
      PROVE  f \in ChangedTwice
  <2> DEFINE S == {z \in DOMAIN results : f \in results[z].changes}
  <2>1. Cardinality(S) > 1
    <3>1. x \in S /\ y \in S
      OBVIOUS
    <3>2. S \in SUBSET DOMAIN results
      OBVIOUS
    <3> HIDE DEF S
    <3> QED BY <1>8, <3>1, <3>2, ResultsFinite, CountsTell
  <2> QED BY <2>1 DEF ChangedTwice
<1>9. FinalTrue'
  <2>1. DOMAIN results' = {s.id : s \in Range(assignments)'}
    BY <1>1, <1>3 DEF Range
  <2> QED BY <1>1, <1>6, <1>7, <1>8, <2>1 DEF FinalTrue
<1> QED BY <1>1, <1>9, SameJobs DEF RunInv

LEMMA RunStep == RunInv /\ [RunNext]_everything => RunInv'
<1> SUFFICES ASSUME RunInv, [RunNext]_everything PROVE RunInv'
  OBVIOUS
<1>1. ASSUME NEW task \in TaskInputs(Orders), Schedule(task) PROVE RunInv'
  BY <1>1, ScheduleKeeps
<1>2. CASE SendAssignments
  BY <1>2, SendKeeps
<1>3. CASE Wait
  BY <1>3, WaitKeeps
<1>4. CASE PollAgain
  BY <1>4, PollAgainKeeps
<1>5. CASE TimedOut
  BY <1>5, TimedOutKeeps
<1>6. CASE Aggregate
  BY <1>6, AggregateKeeps
<1>7. ASSUME NEW x \in DOMAIN answers, Poll(x) PROVE RunInv'
  BY <1>7, PollKeeps
<1>8. ASSUME NEW x \in DOMAIN answers, NEW s \in Range(assignments), Report(x, "fail", {}) \/ Report(x, "done", s.files)
      PROVE  RunInv'
  BY <1>8, ReportKeeps
<1>9. CASE UNCHANGED everything
  <2>1. UNCHANGED <<planVars, run_at, mode, assignments, conflicts, answers, round, results, final>>
    BY <1>9 DEF everything, runVars
  <2>2. FinalTrue'
    BY <2>1 DEF FinalTrue, Range, RunInv
  <2> QED BY <2>1, <2>2, SameJobs DEF RunInv
<1> QED BY <1>1, <1>2, <1>3, <1>4, <1>5, <1>6, <1>7, <1>8, <1>9 DEF RunNext

THEOREM RunInvariance == RunSpec => []RunInv
<1> QED BY RunStarts, RunStep, PTL DEF RunSpec

THEOREM RunsAreTruthful == RunSpec => []RunTruthful
<1>1. RunInv => RunTruthful
  BY RunShows
<1> QED BY <1>1, RunInvariance, PTL
=============================================================================
