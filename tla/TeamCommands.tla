---------------------------- MODULE TeamCommands ----------------------------
(***************************************************************************)
(* The commands of the team command line that send a message (cli/team.py),*)
(* the builders and the validator they share with the Router               *)
(* (protocol/builders.py, validation/validator.py), and the task table the *)
(* Router keeps from the messages (state/tasks.py): one agent that runs one*)
(* command at a time, others that send, and a Router that may be killed    *)
(* between its log and its task table, or find the saved table gone.       *)
(*                                                                         *)
(* A message is the record of the fields the checks and the table look at; *)
(* `keys` are the fields of its body that are there and well formed.       *)
(***************************************************************************)
EXTENDS Naturals, Sequences, FiniteSets

CONSTANTS
  WorkItems,   (* task ids                                                 *)
  MaxLog,      (* bound: messages the Router accepts                       *)
  MaxKills     (* bound: kills of the Router                               *)

ASSUME TeamAssumption == MaxLog \in Nat /\ MaxKills \in Nat

VARIABLES
  log,         (* message events, the file                                 *)
  taskTable,   (* task -> its status, in memory                            *)
  tableFile,   (* the table saved, if any: a set of at most one            *)
  halfway,     (* a message is logged and its task not updated             *)
  kills,
  cmd,         (* the command that runs                                    *)
  torn,        (* history: tasks a kill took a message of                  *)
  replayed     (* history: the messages the table was last rebuilt from    *)

teamCmdVars == <<log, taskTable, tableFile, halfway, kills, cmd, torn, replayed>>
routerVars == <<log, taskTable, tableFile, halfway, kills, torn, replayed>>

NoAction == "-"
NoStatus == "-"
Idle == [at |-> "idle"]

-----------------------------------------------------------------------------
(* The validator                                                          *)

TypeFor == [review |-> "ask", assign |-> "ask", clarify |-> "ask", verify |-> "ask",
            review_feedback |-> "report", answer |-> "send"]
KeysFor == [review |-> {"doc_path", "review_deadline", "reviewers"},
            assign |-> {"task_type", "files", "success_criteria"},
            clarify |-> {"code_path", "question", "context"},
            verify |-> {"doc_path", "question"},
            review_feedback |-> {"doc_path", "has_issues", "issue_count"},
            answer |-> {}]

\* has_issues, the count and the list of a feedback must agree
FeedbackAgrees(m) ==
  /\ m.listed # 0 => m.count = m.listed
  /\ IF m.has THEN m.count > 0 /\ m.listed > 0 ELSE m.count = 0 /\ m.listed = 0

ActionValid(m) ==
  IF m.action \in DOMAIN TypeFor
  THEN /\ m.type = TypeFor[m.action]
       /\ KeysFor[m.action] \subseteq m.keys
       /\ m.action = "answer" => m.keys # {}
       /\ m.action = "review_feedback" => FeedbackAgrees(m)
       /\ m.action \in {"assign", "clarify", "verify"} => m.owner
  ELSE m.action \in {NoAction, "verified"}

TypeValid(m) ==
  /\ m.type = "done" /\ m.action = "verified" => "has_new_issues" \in m.keys
  /\ m.type = "fail" => "reason" \in m.keys

Valid(m) == (m.type # "ask" => m.corr # 0) /\ ActionValid(m) /\ TypeValid(m)

-----------------------------------------------------------------------------
(* The builders: what each command makes of its arguments                 *)

CommandMessage(type, action, task, corr, owner, keys) ==
  [type |-> type, action |-> action, task |-> task, corr |-> corr, owner |-> owner,
   keys |-> keys, has |-> FALSE, count |-> 0, listed |-> 0]

\* Commands that start something.  The owner is the sender unless the user names
\* another one; a message that lacks an argument is not built, and say fills the
\* arguments of a clarify itself.
Opening(action, t) == {CommandMessage("ask", action, t, 0, TRUE, KeysFor[action])}
ReviewCommand(t) == Opening("review", t)
AssignCommand(t) == Opening("assign", t)
AskCommand(t) == Opening("clarify", t) \cup Opening("verify", t)
SayCommand(t) == Opening("clarify", t)

\* Commands that answer the ask c, most with a body of the user's
SendCommand(t, c) == {CommandMessage("send", "answer", t, c, FALSE, ks) : ks \in {{}, {"message"}}}
ReplyCommand(t, c) == {CommandMessage("send", "answer", t, c, FALSE, {"message"})}
FailCommand(t, c) == {CommandMessage("fail", NoAction, t, c, FALSE, ks) : ks \in {{}, {"reason"}}}

DoneCommand(t, c) ==
  {CommandMessage("done", a, t, c, FALSE, {"status"}) : a \in {NoAction, "verify"}}
  \cup {CommandMessage("done", "verified", t, c, FALSE, ks) : ks \in {{}, {"has_new_issues"}}}

FeedbackMessage(t, c, has, count, listed) ==
  [CommandMessage("report", "review_feedback", t, c, FALSE, KeysFor["review_feedback"])
     EXCEPT !.has = has, !.count = count, !.listed = listed]
ReportCommand(t, c) == {FeedbackMessage(t, c, h, n, k) : h \in BOOLEAN, n \in 0..1, k \in 0..1}

Openings(t) == ReviewCommand(t) \cup AssignCommand(t) \cup AskCommand(t) \cup SayCommand(t)

Answers(t, c) ==
  SendCommand(t, c) \cup ReplyCommand(t, c) \cup DoneCommand(t, c) \cup FailCommand(t, c)
  \cup ReportCommand(t, c)

-----------------------------------------------------------------------------
(* The Router                                                             *)

\* _status_for_action, which is all the replay of the log goes by
StatusByAction(m) ==
  CASE m.action = "assign"   -> "open"
    [] m.action = "verify"   -> "verify_pending"
    [] m.action = "verified" -> "verified"
    [] OTHER                 -> NoStatus

\* _update_task gives a done or a fail without an action one of its own
StatusFor(m) ==
  IF m.action = NoAction /\ m.type \in {"done", "fail"}
  THEN IF m.type = "done" THEN "done" ELSE "failed"
  ELSE StatusByAction(m)

Updated(tab, t, st) == IF st = NoStatus THEN tab ELSE [tab EXCEPT ![t] = st]

\* What the table and the traces look at afterwards: of the actions, those that have
\* a status
Kept(m) == [type |-> m.type, task |-> m.task,
            action |-> IF StatusByAction(m) = NoStatus THEN NoAction ELSE m.action]

RouterAccepts(m) ==
  /\ ~halfway /\ Len(log) < MaxLog
  /\ Valid(m)
  /\ log' = Append(log, Kept(m)) /\ halfway' = TRUE

LastLogged == log[Len(log)]

UpdateTask ==
  /\ halfway /\ halfway' = FALSE
  /\ taskTable' = Updated(taskTable, LastLogged.task, StatusFor(LastLogged))
  /\ tableFile' = {taskTable'}
  /\ UNCHANGED <<log, kills, cmd, torn, replayed>>

\* The statuses of a replay of the log, which tells by the action alone
Replayed == [t \in WorkItems |->
  LET told == {i \in DOMAIN log : log[i].task = t /\ StatusByAction(log[i]) # NoStatus}
  IN IF told = {} THEN NoStatus
     ELSE StatusByAction(log[CHOOSE i \in told : \A j \in told : j <= i])]

\* A kill, and the next start: the saved table is loaded if there is one.  It may be
\* gone, as recover_tasks and docs/design.md:495 expect; the table that is rebuilt
\* from the log then stays in memory until the next message is told to it.
KillRouter ==
  /\ kills < MaxKills /\ kills' = kills + 1
  /\ halfway' = FALSE
  /\ \/ /\ tableFile # {}
        /\ taskTable' = CHOOSE saved \in tableFile : TRUE
        /\ torn' = IF halfway THEN torn \cup {LastLogged.task} ELSE torn
        /\ UNCHANGED <<tableFile, replayed>>
     \/ /\ tableFile' = {} /\ taskTable' = Replayed
        /\ torn' = {} /\ replayed' = Len(log)
  /\ cmd' = IF cmd.at = "sending" THEN Idle ELSE cmd      \* its connection breaks
  /\ UNCHANGED log

-----------------------------------------------------------------------------
(* The commands                                                           *)

\* An invalid message is refused by the client, and by the Router if it were not
Run(m) ==
  /\ cmd.at = "idle" /\ RouterAccepts(m)
  /\ cmd' = [at |-> "sending", msg |-> Kept(m), sent |-> Len(log) + 1, result |-> 0]
  /\ UNCHANGED <<taskTable, tableFile, kills, torn, replayed>>

\* What is left of the command is to wait, if it was told to
RouterReplies ==
  /\ cmd.at = "sending" /\ ~halfway
  /\ \E next \in {"waiting", "answered"} : cmd' = [cmd EXCEPT !.at = next]
  /\ UNCHANGED routerVars

\* Mutant: any message of the task ends the wait
AnyOfTask(i) == log[i].task = cmd.msg.task

Closing(i) == log[i].task = cmd.msg.task /\ log[i].type \in {"done", "fail"}

\* _wait_for_done takes the first message of the task's trace that closes it
FirstClosing == {i \in DOMAIN log : Closing(i) /\ \A j \in 1..(i - 1) : ~Closing(j)}

WaitForDone ==
  /\ cmd.at = "waiting"
  /\ \E i \in FirstClosing : cmd' = [cmd EXCEPT !.at = "answered", !.result = i]
  /\ UNCHANGED routerVars

\* The wait, for an acceptance or a done, is over without one
WaitTimesOut ==
  /\ cmd.at = "waiting"
  /\ cmd' = [cmd EXCEPT !.at = "answered"]
  /\ UNCHANGED routerVars

\* Interrupted, or a poll that fails
CommandDies ==
  /\ cmd.at \in {"waiting", "answered"}
  /\ cmd' = Idle
  /\ UNCHANGED routerVars

\* _mark_pending_resolved, last, finds nothing to take out: no listener has saved a
\* question (cli/team.py:1177 fails first)
CommandEnds ==
  /\ cmd.at = "answered"
  /\ cmd' = Idle
  /\ UNCHANGED routerVars

-----------------------------------------------------------------------------
(* The other agents                                                       *)

OtherSends(m) ==
  /\ RouterAccepts(m)
  /\ UNCHANGED <<taskTable, tableFile, kills, cmd, torn, replayed>>

TeamCmdInit ==
  /\ log = <<>> /\ taskTable = [t \in WorkItems |-> NoStatus] /\ tableFile = {}
  /\ halfway = FALSE /\ kills = 0 /\ cmd = Idle /\ torn = {} /\ replayed = 0

TeamCmdNext ==
  \/ \E t \in WorkItems : \E m \in Openings(t) \cup Answers(t, Len(log)) : Run(m) \/ OtherSends(m)
  \/ UpdateTask \/ KillRouter \/ RouterReplies \/ WaitForDone \/ WaitTimesOut
  \/ CommandDies \/ CommandEnds

TeamCmdSpec == TeamCmdInit /\ [][TeamCmdNext]_teamCmdVars

-----------------------------------------------------------------------------
(* Properties                                                             *)

TeamCmdTypeOK ==
  /\ replayed \in 0..Len(log) /\ torn \subseteq WorkItems
  /\ cmd.at \in {"idle", "sending", "waiting", "answered"}

\* A command that waited for its task to be done is told of a message that closes the
\* task, and of one from after its own unless the task had been closed before.
WaitIsForTheTask ==
  cmd.at = "answered" /\ cmd.result # 0 =>
    /\ log[cmd.result].type \in {"done", "fail"} /\ log[cmd.result].task = cmd.msg.task
    /\ \/ cmd.result >= cmd.sent
       \/ \A j \in 1..(cmd.result - 1) : log[j].task = cmd.msg.task => log[j].type \notin {"done", "fail"}

\* The statuses a message may leave its task in, by its type (docs/design.md:495)
MayLeave(m) ==
  CASE m.type = "ask" /\ m.action = "assign"    -> {"open"}
    [] m.type = "ask" /\ m.action = "verify"    -> {"verify_pending"}
    [] m.type = "done"                          -> {IF m.action = "verified" THEN "verified" ELSE "done"}
    [] m.type = "fail"                          -> {"failed"}
    [] OTHER                                    -> {}

\* What a message says of its task: a done or a fail without an action says nothing
\* to a table that is rebuilt from the log
LogSays(i) == IF i <= replayed /\ log[i].action = NoAction THEN {} ELSE MayLeave(log[i])

\* The status of a task is that of the last message that says one, in the order of
\* the log and whatever it was before, after restarts and a rebuilt table too; but
\* for a task of which the Router was killed between the log and the table it loads.
TableFollowsLog ==
  \A t \in WorkItems \ torn :
    LET told == {i \in DOMAIN log : log[i].task = t /\ LogSays(i) # {} /\ (halfway => i < Len(log))}
    IN IF told = {} THEN taskTable[t] = NoStatus
       ELSE taskTable[t] \in LogSays(CHOOSE i \in told : \A j \in told : j <= i)

CommandsSound == TeamCmdTypeOK /\ WaitIsForTheTask /\ TableFollowsLog
=============================================================================
