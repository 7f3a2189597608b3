------------------------------ MODULE Listener ------------------------------
(***************************************************************************)
(* `team listen` (handle_listen in src/src/cli/team.py): pulls messages    *)
(* from the Router, acknowledges and acts on each, and keeps a table of    *)
(* the questions that have no answer, in memory and in a file which the    *)
(* other commands of the same agent (send, done, fail, report, reply) take *)
(* resolved questions out of.                                              *)
(*                                                                         *)
(* pull_once assigns pending_dirty without declaring it nonlocal, as the   *)
(* two functions before it do: it is a local variable there, and the test  *)
(* of it at the end of the first pull raises UnboundLocalError, whatever   *)
(* was pulled and with --follow as well.  The table is never saved, so the *)
(* file holds nothing a command could take out, and the reminders of that  *)
(* one pull, which are only printed or typed, leave no trace: both are     *)
(* left out.                                                               *)
(***************************************************************************)
EXTENDS RouterInbox

CONSTANTS
  Asks,          (* messages of type ask                                   *)
  Limit,         (* --limit                                                *)
  MaxStarts      (* bound: starts of the listener                          *)

ASSUME ListenAssumption == Asks \subseteq Mail /\ Limit \in Nat \ {0}

VARIABLES
  starts,        (* starts of the listener                                 *)
  options,       (* its options: acknowledge, and what to do with a message *)
  phase,         (* what it does to the first message of the batch         *)
  batch,         (* what it has pulled and not finished with               *)
  pending,       (* the questions without an answer, in memory             *)
  file,          (* those on disk                                          *)
  acted          (* history: messages some start is done with              *)

listenVars == <<inboxVars, starts, options, phase, batch, pending, file, acted>>

AllOptions == [ack : BOOLEAN, act : {"show", "auto_input", "auto_reply"}]

ListenInit ==
  /\ InboxInit
  /\ starts = 0 /\ options = [ack |-> TRUE, act |-> "show"] /\ phase = "down" /\ batch = <<>>
  /\ pending = {} /\ file = {} /\ acted = {}

-----------------------------------------------------------------------------
Start ==
  /\ phase \in {"down", "pulled"} /\ starts < MaxStarts
  /\ starts' = starts + 1
  /\ options' \in AllOptions
  /\ pending' = file
  /\ phase' = "pull" /\ batch' = <<>>
  /\ UNCHANGED <<inboxVars, file, acted>>

\* An interrupt, or a request that fails: what was pulled is gone with the process
Die ==
  /\ phase \notin {"down", "pulled"}
  /\ phase' = "down"
  /\ UNCHANGED <<inboxVars, starts, options, batch, pending, file, acted>>

\* pull_once
PullOnce ==
  /\ phase = "pull"
  /\ LET n == IF Limit < Len(inbox) THEN Limit ELSE Len(inbox) IN
       batch' = SubSeq(inbox, 1, n) /\ Popped(n)
  /\ phase' = "ack"
  /\ UNCHANGED <<starts, options, pending, file, acted>>

Accept ==
  /\ phase = "ack" /\ batch # <<>>
  /\ IF options.ack THEN PostAck("/acks", Head(batch)) ELSE UNCHANGED inboxVars
  /\ phase' = "act"
  /\ UNCHANGED <<starts, options, batch, pending, file, acted>>

\* track_pending, and then what the options say: show the message, type it into
\* the agent's window (an answer says so when that fails), or answer it.  An
\* answer takes the question out of the file; the table in memory keeps it.
ActOn ==
  /\ phase = "act"
  /\ LET m == Head(batch)
         keep == file' = file
         resolve == file' = file \ {m}
     IN /\ pending' = IF m \in Asks \ OwnMail THEN pending \cup {m} ELSE pending
        /\ CASE m \in OwnMail \/ options.act = "show" -> keep
             [] m \notin OwnMail /\ options.act = "auto_input" -> keep \/ resolve
             [] OTHER -> resolve
        /\ acted' = acted \cup {m}
  /\ batch' = Tail(batch) /\ phase' = "ack"
  /\ UNCHANGED <<inboxVars, starts, options>>

\* run_reminders drops the questions beyond --pending-max-age, and the exception ends
\* the process with the table unsaved
FinishPull ==
  /\ phase = "ack" /\ batch = <<>>
  /\ \E aged \in SUBSET pending : pending' = pending \ aged
  /\ phase' = "pulled"
  /\ UNCHANGED <<inboxVars, starts, options, batch, file, acted>>

ListenNext ==
  \/ RouterStep /\ UNCHANGED <<starts, options, phase, batch, pending, file, acted>>
  \/ Start \/ Die \/ PullOnce \/ Accept \/ ActOn \/ FinishPull

ListenSpec == ListenInit /\ [][ListenNext]_listenVars

-----------------------------------------------------------------------------
\* listen accepts a message before it acts on it and pulls several at once.  However
\* often it dies, and whatever copies the Router has delivered in the meantime, each
\* start loses at most the one message it was at: the rest of its batch is delivered
\* again.
AcceptedHandled == Cardinality({m \in Mail : delivery[m] = "accepted"} \ acted) <= starts

\* docs/design.md on listen: the questions without an answer are recorded in the
\* agent's file.  A pull that came to its end has recorded those it showed.
AsksRecorded == phase = "pulled" /\ options.act = "show" => pending \subseteq file
=============================================================================
