# Agentia: formal models

TLA+ models of the parts of Agentia that are hard to test, the TLC runs that check
them on small instances, and theorems about them that TLAPS proves for every
instance. Paths below are relative to the root of the repository.

## 1. The system

Two generations live in one repository.

* **v1, the Router** (`src/`). Agents in terminal windows exchange messages through
  one HTTP process. The Router numbers a message, logs it, appends it to each
  recipient's inbox file and in-memory queue, and delivers it again until the
  recipient acknowledges it as *accepted*, refuses it (*nack*), or retries or time
  run out. On a start it recovers from its files.
* **v2, the BFF** (`server/`). A FastAPI process talks to the browser over a
  WebSocket. A message to an agent starts an asyncio task that streams the agent's
  reply; a message to @Orchestrator starts one that decomposes the request, files
  tasks in SQLite, dispatches all subtasks through the DAG engine, and writes a
  summary. `web/` renders the events.

### Inventory

| Component | State it keeps | Operations | What is hard | What makes it correct | Modelled |
|---|---|---|---|---|---|
| Router (`src/router/router.py`) with its files (`src/storage`, `src/state`) | `router.json`, message and ack logs, inbox files, `tasks.json`; the delivery table, queues, lock | `receive_message`, `receive_ack`, `pop_inbox`, the retry thread, start | a kill between any two writes, late and repeated acks, retries of what was already popped | answered messages are never lost, settled ones never come back, retries are bounded, ids never repeat | `RouterDelivery`; task table in `TeamCommands` |
| Presence (`src/router/presence.py`) | agent -> last seen, role | register, heartbeat, expire | changed outside the lock | the recipients a role resolves to | no |
| Router HTTP API (`src/api`) | none of its own | inbox, message and ack routes | a response that is lost has popped the inbox | popping is not accepting | `RouterInbox` |
| Clients (`src/cli/team.py`, `src/launcher/shell_proxy.py`) | pending table, seen ids, typing queue | listen, ask, answer, accept, done, fail, run, the proxy | ack before the work is done, waits over old traces, a killed command | a consumed message was acted upon, a wait ends with its own task, nothing is typed twice | `Listener`, `ShellProxy`, `TeamCommands`, `TaskRun` |
| Protocol and validation (`src/protocol`, `src/validation`) | none | builders, `validate_message` | fields required by type and action | what the builders build is taken | `TeamCommands` |
| Scheduler library (`src/scheduler`) | subtasks, layers, locks, dependencies, stages | decompose, assign, run, aggregate; lock, complete; stages | cycles and doubled dependencies, lock expiry, late answers, nested feedback | layers respect dependencies, one holder per file, the verdict is true, nothing is left unconfirmed | `Decomposition`, `TaskRun`, `Collaboration`, `Pipeline` |
| DAG engine (`server/dag_engine.py`) | node status, in-flight tasks | `execute`, `_run_node`, `cancel_all` | several nodes ending between two passes, failed dependencies, cycles, cancellation | order, no barrier, every node accounted for, termination | `DagExecutor` |
| Orchestrator (`server/orchestrator.py`) | parent and subtask rows, one coroutine and one per dispatch | analyse, file, dispatch, retry, stream, preview, summarise | one of several failing, cancellation while waiting, exceptions half way | the plan is filed whole, the parent tells the truth, last, the bubble shows what is stored | `Planning`, `Orchestration`, `SubtaskStream`, `Preview` |
| Task rows (`server/services/task.py`) | status per row | create, update | a move the table refuses raises | final states are final | `TaskStatus` |
| Cancel handler (`server/handlers/cancel.py`) | registry of tasks | `handle` | check and act in two steps | no orchestrator is cancelled over active subtasks | `Orchestration`, `AgentReply` |
| WebSocket hub (`server/ws.py`, `server/main.py`) | bounded queue per connection, the rooms | send, writer, close, broadcast | a full queue with no reader | every final event arrives, nobody waits for ever | `WsConnection` |
| Agent replies (`server/handlers/send_message.py`, `join.py`) | in-flight tasks, fan-out, drafts of agents | `handle`, `run_agent_reply`, auto-continue, the creation dialogue, deploy requests | cancellation at any await, shared drafts | one final event per bubble, `fan_out_done` last, one agent per draft | `AgentReply`, `AgentWizard`, `DeployRequest` |
| Adapters and client pool (`server/adapters`) | clients by conversation and agent, LRU order | `send`; get or create, evict | creation outside the lock, eviction, mixed call fragments | at most `max_size`, no leak, each call heard whole yielded once | `SdkClientPool`, `Adapters` |
| ReAct loop and tools (`server/services/react_loop.py`) | history | run | timeouts, a consumer that leaves, limits | every call answered, every tool finished, one done | `ReactLoop` |
| Context (`server/services/context_manager.py`) | a cache of built contexts | load, build, prune | one list for several agents, trimming | the newest of what is read stays, contexts are apart | `ContextManager` |
| Artifacts and deployment (`server/services/artifact.py`, `deploy.py`) | versions, cards | create, save, fork, revert, deploy | two requests on one base, a service that raises | a diff is of its base, deployed means served | `Artifacts`, `DeployRequest`, `Preview` |
| Web client (`web/src/stores`, `web/src/ws`, editor) | slices, tabs, caches, socket | reduce, open, switch, close, reconnect | fetches that come back late, background events | the tab shows what the connection was told of, nothing is mixed or lost | `ChatSlice`, `ChatTabs`, `Artifacts` |
| Storage, animation bus, single-row services | files, a ring buffer, rows | | | | no, see section 6 |

`PROJECT.json` has the same list with the reason for each part left out, and under
`hazards` the places where the code could go wrong in a way a test hardly reaches.

## 2. The modules

| Module | What it is |
|---|---|
| `RouterDelivery` | the Router, its files, its clients and a kill at any step |
| `RouterInbox` | what a client sees of the Router over HTTP; used by `Listener` and `ShellProxy` |
| `TeamCommands` | commands that send and wait, the builders, the validator, the Router's task table |
| `Lists` | what a comprehension with a condition keeps of a list, for `Decomposition` and `ContextManager` |
| `TaskRun` on `Decomposition` | `team run --wait` from the text of the task to the printed verdict |
| `Collaboration`, `Pipeline` | file locks and dependencies; stages with critics and confirmations |
| `TaskSchedule` | abstract specification: what running tasks with dependencies promises |
| `DagExecutor` | the DAG engine; implements `TaskSchedule` |
| `TaskStatus` | the table of status moves of a task row |
| `Planning` on `Decomposition` | what the orchestrator makes of a request before dispatching |
| `Orchestration` | rows, dispatches, retries, settlement, the cancel handler; implements `TaskSchedule` without dependencies |
| `SubtaskStream`, `Preview` | the stream of one subtask; the page and the closing of the turn |
| `WsConnection`, `ChatSlice`, `AgentReply` | connections, the reducer, and their composition with the replies of a turn |
| `ChatTabs`, `Artifacts` | tabs and socket of the browser; versions with editor and panel |
| `AgentWizard`, `DeployRequest` | what a message leads to before any agent is asked |
| `SdkClientPool`, `Adapters`, `ReactLoop`, `ContextManager` | what stands between a reply and its model |
| `...Proofs` | inductive invariants and theorems (section 4) |
| `MC...` | the instances TLC checks; `MCParts` puts the components side by side that share no state |

Definitions marked *Mutant* change the definition below them the way a plausible bug
would. They are not part of the specification; each property of a passing run is
violated by one of them, which shows that the property can fail.

### RouterDelivery

*Grain.* One lock serialises the handlers and the sweep, so the only thing that can
happen inside a handler is a kill. A handler is cut into one step for each file it
writes, in the order of the code: number saved (`PrepareMessage`), message logged
(`RecordMessage`), for each recipient inbox event then ack event (`DeliverToInbox`,
`LogDelivered`), task file and answer (`AnswerMessage`); for an ack, state and inbox
event (`ReceiveAccepted`, `ReceiveNack`, `ReceiveDelivered`), then the acks log
(`LogAck`). `op`, `current`, `left`, `at` and `stage` are where the handler that holds
the lock is. `PopInbox` writes nothing.

*State.* A delivery is a key `<<message, agent>>`; `status`, `retries`, `armed`
(`next_retry_at` is set and ahead) and `dated` (`expires_at` is set) are the fields of
`DeliveryState`. `pending` is what `pending_ids_from_events` makes of an inbox file.
`ackLog` and `lastAck` are what recovery reads of the acks logs. `inbox` counts copies,
as retries enqueue an id again.

*Recovery.* `Restart` is a kill and the next start: an inbox from its file, or else
rebuilt from the logs (`Rebuilt`), tasks from the file or replayed, the last logged
stage of each key as its status, then every owed id tracked afresh (`LoadHistory`).

*Abstractions.* Clock values: a timer that runs may lapse and a deadline may pass at
any moment. Bodies and senders: a message is its number, its recipients and whether it
changes a task, all chosen freely. Recipients are agent names; a role that presence
resolves to a different name than the logged `to` is not modelled. The order within an
inbox is left out: a pop takes any copy. Acks are sent for messages that were popped.
A sweep over several keys is several sweeps over one, which the keys' independence
allows. Each append or atomic replace is one step: torn writes are not modelled, and
neither are acks for ids the Router never issued. `router.json` is written by the
first start, so the scan of the logs for the largest number is not reached.

### DagExecutor

The event loop switches at awaits only and `execute` has one, `asyncio.wait`; a pass
of its loop is one step (`DispatchReady`, `Deadlock` or `ReturnComplete`, after
`Collect`). The nodes' tasks run in between: they take the semaphore (`Acquire`), end
well, with an error or cancelled (`Finish`), or end because `cancel_all` doomed them
(`EndCancelled`). `Interrupt` is the cancellation of the task that awaits `execute`:
it leaves the nodes' tasks running, as `asyncio.wait` does. The graph is any function
from nodes to sets of names, names of no node and cycles included.

`TaskSchedule` has a node wait, start when all it depends on has succeeded, and end
once; what waits may be given up only when none of it can start. `Progress` maps the
status of a node to it: a pass is a `Start` or a `GiveUp`, a collection is an `End`,
everything else stutters.

### Orchestration

A step ends at a database commit or where a coroutine ends. `FileParent`,
`FileSubtask`, `StartParent`, `StartSubtask` and `Execute` follow
`handle_orchestrator_mention` up to the wait for the engine; the DAG built there has
no dependencies and room for all nodes, so `Execute` starts every dispatch. Each
dispatch is `_dispatch_subtask_with_retry`: an attempt is done (row, then result),
fails (row, then exception), raises out of the adapter (row untouched), or is
cancelled. `HandleException` is the except clause with its status move. `Collected`,
`SettleParent` and `Report` are the rest; `Crash` is an exception, which
`_run_orchestrator` turns into text and nothing else. The cancel handler checks
(`CancelCheck`) and cancels (`CancelFire`) in two steps.

Left out: prompts, artifacts and events, which `Planning`, `SubtaskStream` and `Preview`
have, and the branch for blocked subtasks, which cannot be reached because completed and
failed together are all nodes (`ResultPartition` of the engine).

### Planning, SubtaskStream and Preview

`Planning` is the first half of `handle_orchestrator_mention`: a request to deploy is
filed at once (`DeployAtOnce`); otherwise the domains come of the model or of keywords
(`Analyse`), the subtasks of `Decomposition` (`SplitByContract`), and each subtask is
filed with its dependencies (`FileRow`). Words, scores and the model's answers are
inputs. `SubtaskStream` is `_dispatch_subtask_with_result`: chunks, tool notes, pages and
errors become the text of the bubble and the status of the row, and the browser reduces
the events. `Preview` is the rest of the turn, cut at every await by a cancellation:
where the page for the request comes from, whether it is stored and shown, the status of
the parent, the summary. A subtask's text is `html` or `other` there; a page is named
after its source.

### WsConnection, ChatSlice, AgentReply

A send suspends its task only when the event must not be dropped and the queue is full,
so a batch of sends is one step up to the first event that has to wait (`Produce`);
the rest is what the producer still owes (`Resume`). `AgentReply` composes one turn: the user's
connection, a task per reply, the database rows, cancel and join, and the reducer of the
browser at the other end. A cancel can hit at every await that suspends; a database call
takes effect and its caller goes on in different steps. The text of a bubble is the set
of its chunks and the note appended to it.

### ChatTabs and Artifacts

`ChatTabs` has the flat fields of the store, the cache per tab, the fetches on their way
and the socket. Of the BFF it has what one connection meets: its requests are handled one
after the other; a join subscribes, reads the newest rows (`JoinRead`) and sends them as a
history two queries later (`HistorySent`), with rows of the turns that run stored in
between; the messages of a turn go to the connection the turn was asked over and to no
other (`TextTaken`, `TurnMessage`), those of an artifact or a deployment to every one that
joined (`BroadcastMessage`), and those of a turn that another connection asked for, or this
browser's own before it was lost, are stored and not heard (`MessageFromElsewhere`).
`Artifacts` has the rows with parents, the requests that create one (each of a
few steps, as the check and the insert await in between), the editor and the panel. The
code walks up along `parent` for as long as there is one; in the model both walks are
recursive functions over the steps taken, as many as there are rows, which is enough as
a row is older than what is made from it.

### AgentWizard and DeployRequest

The draft of an agent is shared by the connections of its conversation; a confirmation
holds on to a draft over its awaits (`Confirm`, `CreateAgent`, `FinishConfirm`). `DeployRequest` is one
card after another: Netlify may refuse or raise at each of its three calls.

### SdkClientPool, Adapters, ReactLoop, ContextManager

In the pool a step is what runs between two awaits: `_evict` and the connect outside the
lock, eviction and insertion under it; a client is named after the call that made it.
`Adapters` turns each API's events into chunks, and has what gets lost on the way: a delta
that is skipped because reasoning came with it (`HiddenDelta`, `HiddenReason`), a body that
is one JSON answer (`WholeAnswer`), and one that is neither and raises (`BodyRaises`); `ReactLoop` has the three ways a model
calls tools, and may be closed at any yield. `ContextManager` is `load` over the newest `RowLimit` rows, the strategies
by length and the cache, over messages that have a number, a size and a pin; sums of
sizes and the loop that keeps pins are recursive functions over positions.

### RouterInbox, Listener, ShellProxy, TeamCommands, TaskRun

`Listener` is `team listen`, killed at any step: pull, acknowledge, act. `ShellProxy` is
the thread that fetches and the one that types; its acknowledgement goes to a path the
API does not have. `TeamCommands` runs one command at a time with its wait, which reads
the task's trace from the start, and a Router that is killed between its log and its table
or starts without the saved table and rebuilds it from the log. Its reminders are left out:
they go by the file of pending questions, which nothing ever fills (`AsksRecorded`).
`TaskRun` chooses agents by score, sends every subtask and counts the first answer of
each; through the Router the assign messages have none of the fields the Router requires
and are refused, which the model has too (`sender`).

### Collaboration and Pipeline

Locks are keyed by file with the clock at which they expire; completing a task releases
its locks and what waits for it. `Pipeline` follows `_execute_stage` through retries,
critic rounds and confirmations within confirmations (`rounds`).

## 3. The runs

| Run | Instance | Result |
|---|---|---|
| `router_messages` | one agent, two messages, two starts, one retry, all ack stages | passes, 1.16 million states |
| `router_recipients` | two agents, one task message, three starts, one retry, fairness | passes, 290,000 states |
| `router_ack_crash` | one agent, two messages, three starts | finding |
| `dag_executor` | every graph over three nodes and one unknown id, two at a time, fairness | passes, 53,000 states |
| `orchestration` | three subtasks, one retry, fairness | passes, 2,300 states |
| `orchestration_retry` | two subtasks | finding |
| `orchestration_cancel` | two subtasks | finding |
| `chat_turn` | an agent and the orchestrator, two connections with queues of two, one cancel | passes, 1.06 million states |
| `chat_rejoin` | one reply, two connections, no cancel | finding |
| `parts` | eighteen components side by side | passes, 628,000 states |
| `context_shared` | two agents, three messages | finding |
| `listen_pending` | two messages, two starts | finding |

`parts` is one state space of eighteen components that share no state and so need not
be interleaved: `part` is chosen at the start, and only that component moves. Each is
explored in all its interleavings, and each of its properties is about one component.

| Component | Instance | States (about) | Property |
|---|---|---|---|
| `ChatTabs` | two conversations, a page of one, two messages, two openings, one lost connection | 216,000 | `TabsSound` |
| `Artifacts` | three artifacts, a requester besides the editor, two views | 9,000 | `VersionsSound` |
| `SdkClientPool` | three calls, two keys, room for one | 20,000 | `PoolSound` |
| `ReactLoop` | two steps, two calls a step | 47,000 | `ReactSound` |
| `SubtaskStream` | two chunks | 10,000 | `SubtaskShown` |
| `ContextManager` | two agents with different windows, three messages of two sizes, three rows read | 69,000 | `ContextSound` |
| `Adapters` | four events, two calls, four APIs | 6,000 | `AdapterSound` |
| `Collaboration` | two agents, two tasks, one file, clock to three | 3,000 | `HubSound` |
| `TaskRun` | two members, three domains, two paths | 27,000 | `RunTruthful` |
| `Pipeline` | the quick flow, two feedback rounds, nesting of three | 3,000 | `StagesConfirmed` |
| `ShellProxy` | two messages (one its own), two deliveries, two proxies | 1,000 | `TypedOnce` |
| `Listener` | two messages (one its own, one a question), two starts | 22,000 | `AcceptedHandled` |
| `Decomposition` | three domains, two listed items, two dependencies each | 15,000 | `LayersSound` |
| `Planning` | two members, the same | 57,000 | `PlanFiled` |
| `Preview` | two subtasks, up to two agents to ask | 50,000 | `PreviewSound` |
| `TeamCommands` | one task, three messages, two kills | 39,000 | `CommandsSound` |
| `AgentWizard` | two connections, two drafts, three agents | 5,000 | `IntakeSound` |
| `DeployRequest` | three pages, every configuration | 32,000 | `DeploySound` |

### What the passing runs show

* **Router.** A message whose post was answered is owed by each recipient's inbox file
  until that recipient accepts it, over any kills (`AnsweredDurable`), and the running
  router always tracks it (`AnsweredTracked`), so it is in the end accepted or reported
  (`EventuallySettled`). Settled deliveries are not enqueued again in that start
  (`SettledNotResent`) and an accepted one has no copy left (`AcceptedNotQueued`). A
  start sends at most `1 + max_retries` copies (`RetryBudget`). Numbers only grow
  (`SeqMonotone`).
* **Clients.** Each start of `listen` loses at most the one message it was at
  (`AcceptedHandled`). The proxy types nothing twice though the Router never hears its
  acknowledgement (`TypedOnce`). A wait ends with a message that closes its own task, and
  the task table follows the log over restarts; one that had to be rebuilt from the log
  follows it by the actions only, so that a *done* or a *fail* without an action is
  forgotten there (`CommandsSound`). A run that prints success has heard *done*
  from every subtask first (`RunTruthful`).
* **Scheduler library.** Layers put a subtask behind all it depends on, unless the
  dependencies are cyclic or one is listed twice (`LayersSound`). A file promised to an
  agent is given to nobody else until it expires, and waiters are released by what they
  wait for (`HubSound`). A stage that needs the user is left on the user's last word,
  however deep versions were asked for within versions (`StagesConfirmed`).
* **DAG engine.** `DependenciesFirst` (no node before its dependencies), `NoBarrier`
  (nothing that could start is held back while `execute` waits), `ResultPartition` (the
  two result sets account for each node once unless `cancel_all` was called),
  `FailedForAReason`, `Terminates`, and the refinement `ImplementsSchedule`.
* **Orchestrator.** Every subtask is filed, for a member of the conversation, with
  dependencies that are filed too (`PlanFiled`). The parent is settled after the last
  dispatch (`ParentSettledLast`), a parent that is done without a recovered preview has
  all rows done (`DoneMeansAllDone`), final rows are never written again
  (`FinalRowsStay`), everything ends (`EverythingEnds`). The bubble of a subtask ends as
  its row (`SubtaskShown`). A parent is done over failed subtasks only with a page the
  user was shown, and no model is asked for a page that an agent has written
  (`PreviewSound`).
* **Chat.** What the browser shows of a reply that was reported is what the row holds,
  though chunks are dropped (`ShownIsStored`); no reply that got to its `try` ends
  without a verdict, but one cancelled while it reports (`NoSilentEnd`); `fan_out_done`
  comes last (`FanOutLast`); and the system rests only when every reply has ended,
  unless somebody waits on a queue whose writer is gone (`NobodyWaitsInVain`). Tabs hold
  their own messages and, at rest, all that this connection was told of since the last
  history it was sent, and that history (`TabsSound`), but for an answer that comes back
  under another tab.
* **Requests.** A draft makes one complete agent and a message reaches the members it
  mentions (`IntakeSound`); a card that says deployed is of a page Netlify has, the best
  there was (`DeploySound`).
* **Models.** The pool keeps to its size and leaks no client but on a timeout
  (`PoolSound`); every finished call the adapter has heard whole is yielded once and whole, and a
  stream that does not raise ends with a verdict (`AdapterSound`); the history of the tool loop answers every call
  (`ReactSound`); of the rows read, trimming keeps the newest messages and says how many pinned ones it
  cut (`ContextSound`).
* **Artifacts.** Diffs and comparisons are with the version a version was made from
  (`VersionsSound`).

Some of these name an exception. It is a state the code reaches and handles that way
(`mixed`, `overlapped`, `torn`, `lost`, `abandoned`, `reverted`, `late`, `Jammed`); the
property says that nothing else leads there.

### What the passing runs do not claim

* A tab on a second connection, or on one that came back in the middle of a turn, rests
  without the bubbles of that turn, and so does one whose history was read before a message
  was stored that the connection is not told of. They come with its next history. The
  reducer has no use for the chunks of a bubble it does not know.
* What is older than the 200 rows `load` reads is not in the context, pinned or not, and
  the notice does not count it.
* The OpenAI adapter skips the tool calls and the reason of a delta that has reasoning and
  no content: a call comes out of fewer fragments or never. Calls in a body that is one
  JSON answer are lost in both adapters. A body of Anthropic's that is neither a stream nor
  JSON raises out of `send`, where `server/adapters/codex.py:7` has "Errors yielded, never
  raised" for its sibling.
* A task table rebuilt from the log by `recover_tasks` differs from the one that was kept
  when a *done* or a *fail* came without an action, as every *fail* and a plain *done* do,
  though `docs/design.md:487` and `:495` have the log give the table back.
* A client that a reply still streams from may be disconnected by the pool when the pool is
  full. Two confirmations of one draft that overlap make two agents. A call to Netlify that
  raises leaves its card deploying. All three are reachable in the models, and the
  properties are about what remains true then.

### What the violated properties show

* `AcceptedStaysOut`: the accepted event goes to the inbox file and then to the acks
  log. After a kill in between, the acks log says *delivered* and the next start
  delivers the accepted message again (`docs/design.md:280` says the opposite).
* `RetriedOnce`: the retry of a subtask first sets its row to *running*. From *failed*
  and from *running* the table of moves refuses that, and the exception ends the
  dispatch: no subtask is ever tried twice (`docs/ARCHITECTURE.md:855`).
* `NotCancelledOverSubtasks`: subtasks filed between the check and the cancel leave
  rows that nothing settles (`server/handlers/cancel.py:55`).
* `ShownIsStoredAfterRejoin`: the history adds pending messages to those that stream
  and takes out none, so a reply that ended while the browser was away streams for ever
  (`ai-collab/SPEC.md:76`).
* `ContextsApart`: the cache of contexts is keyed without the agent and hands out the
  list itself, to which each ReAct loop appends (`ai-collab/SPEC.md:100`).
* `AsksRecorded`: `pull_once` tests a local it has not assigned and raises, so the table
  of pending questions is never saved (`docs/design.md:403`).

Two more facts the modules state in comments rather than as findings: the proxy's
acknowledgement goes to a path the Router does not have, and the assign messages of a
team run lack what the Router requires.

### Bounds

Two messages are needed for order and for an inbox file that exists before the second
one; two agents for a fan-out cut in half; one retry for a copy beside the original and
for the limit; two starts for recovery, three for recovery of what was recovered.
Three nodes have every shape that matters to the engine: a chain, a fork, a join, a
cycle, an unknown id beside known ones, and a node left waiting for the semaphore with
`MaxConcurrency = 2`. Three subtasks allow one to succeed, one to fail and one to be
active.

A turn of the chat needs an agent and the orchestrator, a connection that asks and one
that watches, a queue that fills with two events, and a cancel; `Budget` bounds the
connections opened and the agents mentioned, together. The pool needs room for one and three calls: one that
streams, one that is evicted for, one that comes in meanwhile. In `parts` each counter
has a bound named in its module (`MaxStored`, `MaxOpens`, `MaxDrops`, `MaxDeliveries`,
`MaxStarts`, `MaxProxies`, `MaxClock`, `MaxNesting`, `MaxChunks`, `MaxEvents`, `MaxRows`,
`MaxArtifacts`, `MaxViews`, `MaxLog`, `MaxKills`, `MaxDrafts`, `MaxCreated`, `MaxPages`).
Two constraints cut it: `MCShortWire` lets at most two things be under way for the
browser, requests, joins, events and fetches together, which has a history meet an event,
a fetch or another history; `MCFirstTab` lets the first tab be of one fixed conversation,
as conversations are interchangeable, and does not follow a state in which two conversations
were mixed up, of which the property claims nothing. `PageSize = 1` makes a history and a
fetch leave rows behind. `Flow`, `StartStage`, `RETRY_LIMIT` and the sizes of `ContextManager`
are parameters of the code, made small.

`CHECK_DEADLOCK FALSE` is set because each system may stop: a router whose messages are
settled, an `execute` that has returned, a turn that is over.

### Fairness

* Router: a handler that holds the lock finishes and time passes (weak fairness of
  `Proceed` and `Lapse`); the retry thread polls for as long as the process lives and a
  lock it waits for again and again is granted in the end (strong fairness of `Sweep`).
  Nothing is assumed of clients, deadlines or restarts.
* DAG engine and orchestrator: the event loop runs each callback that is ready, and
  each dispatch ends (weak fairness per task). The second part rests on the adapters'
  timeouts and on the browser's queue having room. Nothing is assumed of cancellation
  or crashes.
* Chat: no fairness. What the turn does of itself is bounded, so that it comes to rest;
  `NobodyWaitsInVain` says in which states it may, which is a property of states and
  holds whatever the scheduler does.

## 4. The proofs

All theorems hold for every value of the constants under the assumptions that the modules
declare, each named after its module: bounds are natural numbers, `RouterAssumption` (known
ack stages), `DagAssumption` (nodes are names, a positive concurrency),
`OrchestrationAssumption` (at least one subtask), `PoolAssumption` (a positive size,
finitely many keys), `InboxAssumption` and `ListenAssumption` (finite mail),
`DeployAssumption` (at most the 50 pages that the query of a deployment lists),
`WsAssumption` and `ReplyAssumption` (finitely many connections, which are numbered, and
finitely many replies, which are not connections; queues with room for something),
`TabsAssumption` (null names no conversation), `ArtifactsAssumption`, `ContextAssumption`
(windows and sizes are natural numbers, windows and the limit of rows positive, the head no longer than a
short conversation), `HubAssumption` (locks last a positive
time), `FlowAssumption` (the first stage is one of the flow), and `ChosenAssumption` and
`RunAssumption` (the domains of a task, and of its files, are ones the scheduler knows).

| Module | Components |
|---|---|
| `RouterDeliveryProofs` | the Router |
| `DagExecutorProofs`, `OrchestrationProofs` | the engine and the orchestrator, with their refinements of `TaskSchedule` |
| `AgentReplyProofs` | a turn of the chat |
| `ModelProofs` | `SdkClientPool`, `ReactLoop`, `Adapters`, `SubtaskStream`, `ContextManager` |
| `WebProofs` | `Preview`, `DeployRequest`, `AgentWizard`, `ChatTabs`, `Artifacts` |
| `TeamProofs` | `Listener`, `ShellProxy`, `TeamCommands`, `Collaboration`, `Pipeline`, `Decomposition`, `Planning`, `TaskRun` |
| `Induction` | induction and recursion over the natural numbers, least and greatest elements, what a comprehension keeps of a list; for the four above |

Each has the same plan: an inductive invariant, made of a type and of named parts; a lemma
that the initial states satisfy it; for each action, or each kind of change that several
actions make, a lemma that it preserves the parts; the invariance theorem; and a lemma
that the invariant implies the property.

* **Router** (`IInv`). The properties are not inductive alone. `SeqInv` ties the number
  in memory to `router.json` and says that a number not logged has left no trace
  anywhere; without it `DeliverToInbox` could meet a key that was settled before.
  `WorkInv` says what the handler in progress has already written, so that the last
  step can answer. `FileInv` says that an inbox that owes something has a file, which
  makes recovery read it. `SendInv` relates copies to retries. Proved:
  `TypeCorrect`, `DurableAfterAnswer`, `TrackedAfterAnswer`, `NoCopyAfterAccept`,
  `DeliveryBudget`, `NumbersIncrease`, `SettledStaysOut`.
* **DAG engine** (`DagInv`). `StatusInv` ties a node's status to its task and to the
  result sets, `FailureInv` says that before the last pass only dispatched nodes have
  failed, `ReturnInv` what is left at the end. Proved: `DependenciesRespected`,
  `Barrierless`, `EveryNodeAccounted`, `NoGroundlessFailure`, and
  `EngineImplementsSchedule`.
* **Orchestration** (`OrchInv`). `StageInv` says what each stage has written, also when
  it is left by a cancel or a crash; `RowInv` ties a row to the dispatch that works on
  it. The lemma `NoSecondAttempt` is the finding `RetriedOnce` from the other side: no
  failed attempt is followed by another, which is why final rows stay. Proved:
  `SettledAfterLast`, `DoneIsDone`, `FinalStays`, and `DispatchesAreASchedule`.
* **Replies** (`ReplyInv`). That no reply ends silently is a matter of counting: the
  exception is a second cancel while the first is reported, so the invariant `CountInv`
  bounds the cancels that have met a task, together with the handlers that are about to
  cancel it, by those that were asked for. Proved: `RepliesReport`.
* **What a turn sends.** A batch of sends is a recursive function over the batch
  (`PutAll`); `RecursionTheorem` and `Inductive` of `Induction` give what it leaves in
  the queues, the invariant of a loop in other words (`Adds`, `PutAllAdds`). From there a
  step is one of four things (`StepSends`): a producer sends, a writer takes, a cancel
  drops what a task owes, or nothing moves. Six invariants follow in turn.
  `VerdictInv` says what a task has reported at each place of it, `WireInv` what each
  producer may still owe and to whom, `ActiveInv` that the counter is the number of
  replies that run, `FanInv` that `fan_out_done` is in one place and only when that
  number is zero, `OrderInv` that the queue of the origin has history, bubbles and
  replies in this order, `SettledInv` that the last word of a reply is owed, queued or
  shown with nothing behind it that undoes it. Two cases made them what they are: a
  reply that is cancelled while its last word waits for room takes it back
  (`CancelReporting`), and a final event that finds no bubble is lost, so the bubbles
  have to be there first (`ShownFirst`). Proved: `FanOutEnds` and `ShownIsWhatIsStored`,
  for queues of any size and whatever chunks are dropped.
* **Rest** (`RestInv`). `RestsWhenDone` says of the guards (`Ready`) what
  `NobodyWaitsInVain` says of ENABLED; TLC checks that the two agree. Whoever cannot go on
  waits for room, and a full queue that has a writer is emptied. What takes an invariant
  is that nothing is ever queued for a connection that was never opened: events are sent
  to all connections, and what is owed keeps such sends behind others (`Due`,
  `ReachesAll`). Proved: `RestsOnlyWhenDone`.
* **Tabs** (`TabsInv`). "At rest everything told is shown" says nothing of other states.
  The invariant says where a message the connection was told of is before: a tab that waits
  for neither a fetch nor a history has it in its cache or in an event on its way
  (`ViewsInv`, `ToldAfter`), and the last history under way has all of them but those that
  are told after it (`HistoriesInv`). A tab waits from the request on, through the join
  that is being handled, to the history on the wire (`Waits`). `Mirrored` keeps the flat
  field and the cache together unless an answer came back under another tab. Proved:
  `TabsAreSound`.
* **Creation dialogue** (`WizardInv`). `OwnInv` says which connection holds on to which
  draft over an await, `AgentInv` where the agent of a draft is; both of drafts that were
  not touched in between. Proved: `IntakeIsSound`.
* **Preview** (`PreviewInv`). `PageInv` says which page is in hand, stored and asked for
  at each await; `ShownInv` that a recovered page has been shown, which needs that events
  are only added (`AnnouncedStays`). Proved: `PreviewIsSound`.
* **Subtask stream** (`SubInv`). Once announced, the final content is the last the bubble
  hears of, or what it shows (`ContentInv`); the status of the row is the last event
  (`CardInv`). Proved: `SubtaskIsShown`.
* **Tool loop** (`ReactInv`). While results are collected, an announced call is answered
  as far as the observations got (`Pending`), afterwards whole (`Answered`). What is
  yielded of a call runs, is observed and finishes, in this order (`RunningInv`,
  `FinishedInv`). Proved: `ReactIsSound`, for any number of steps.
* **Adapters** (`AdapterInv`). An open call has every fragment told so far, or fewer if one of
  them was skipped (`EntriesInv`); the sets of open, closed, missed and yielded calls fit
  (`YieldedInv`) for each of the four APIs.
  Proved: `AdaptersAreSound`.
* **Client pool** (`PoolInv`). Whoever evicts or inserts holds the lock, a client being
  disconnected has left the pool before, and one about to be inserted is connected and
  nobody's victim; the LRU order has the keys of the pool once each. Proved:
  `PoolIsSound`, with the size by cardinalities of finite sets.
* **Deployment** (`DeployInv`). The card is tied to the await the request is at, the
  page to what Netlify was told and sent; `FirstIsFirst` shows that the order of the
  pages has a first one. Proved: `DeployIsSound`.
* **Listener** (`ListenInv`). A start that runs has lost nothing yet but the message it
  is at. Proved: `AtMostOnePerStart`.
* **Proxy** (`ProxyInv`). What waits to be typed is seen, waits once and has not been
  typed. Proved: `NeverTypedTwice`.
* **Commands** (`CommandsInv`). The table has the status that the last message it was told
  of gives (`LastTold`), and the file, where there is one, is the table. A replay reads
  `log` by actions, which `replayed` remembers of each message.
  Proved: `CommandsAreSound`.
* **Collaboration** (`HubInv`). Whoever was promised a file has its lock until the instant
  it was promised (`PromiseInv`): what the property says of all others follows from it.
  Proved: `HubIsSound`.
* **Pipeline** (`PipelineInv`). What the stage that returns was told (`RightlyReturned`)
  and how the stages behind it ended. Proved: `StagesAreConfirmed`, for any flow and any
  depth of confirmations.
* **Decomposition** (`LayersInv`). The property is of a list that a loop makes, so the
  invariant only says that it is what the loop leaves, and the loop has an invariant of
  its own: what was taken is in the layers once (`Layered`), and the degree of what
  remains counts its dependencies that remain too (`InTurn`), as long as each is listed
  once. A round with nothing of degree zero takes all that is left, which needs a cycle:
  a set of subtasks each of which waits for one in the set. The models' items are lists
  of any length with any dependencies; `PickedDoes` says what a comprehension with a
  condition keeps of a list. Proved: `LayersAreSound`.
* **Planning** (`PlanningInv`). What is filed and what is not filed yet are together what
  the request was cut into, at every moment, and none of it has dependencies, whichever
  way it was cut. Proved: `PlansAreFiled`.
* **Run** (`RunInv`). Handing out the domains is a loop again: `MatchKeeps` shows that a
  round gives an agent nobody has, or that five domains want four agents
  (`FiveAreMore`); `RefusedAll` that of two agents with a file the later one is refused
  it. From there the invariant says of each result that it is the first answer of
  somebody who was sent his part, which later answers do not change (`FirstStays`), or
  that the time ran out. Proved: `RunsAreTruthful`.

* **Versions** (`ArtInv`). Three things have to hold before a comparison can be right.
  Every row is made from an older one and numbered one above it (`RowsInv`), so that
  going up from a version arrives at one without a parent in fewer steps than there are
  rows, and going down from there makes a chain (`RootIs`, `HistoryIs`, by
  `RecursionTheorem` and the invariants of the two walks). The panel sorts by version
  number, which turns the chain round (`PanelIs`), so that the entry behind a version is
  its parent. And of the answers the editor still waits for, the one to the newest load
  is of the artifact shown, and no other counts (`AsksInv`). Proved: `VersionsAreSound`.
* **Contexts** (`ContextInv`). What was loaded is, of the rows read, some pins, a count of
  those that are missing, and a head and a newest part of the rest (`LoadOK`). Every strategy leaves
  such a window (`PrunedIs`), also of a window (`WindowOfLast`): how much it leaves is a
  matter of sizes, of which the proof needs only that they are natural numbers
  (`SizeIs`) and some amount is the greatest that fits. The newest pin is taken
  first, whatever its size (`PinsKeptIs`). The conversation is only appended to, so
  that a load stays right while messages come in (`LoadStays`). A list says of the
  messages what its load has (`ListOK`, `BuiltIs`), and what the prompts and the tool
  loops add to it, wherever they put it, is of other kinds (`InsertIs`, `AddedIs`): that
  lists are shared, which is the finding `ContextsApart`, does not disturb the window.
  Proved: `ContextIsSound`.

Only model-checked: the liveness properties (`EventuallySettled`, `Terminates`,
`EverythingEnds`), since liveness under fairness is outside what the prover handles
here; and of `NobodyWaitsInVain` that the guards are all that the steps need, which is
about ENABLED. Every other property of a passing run is stated by a theorem.

## 5. What could come next

1. `chat_turn` with two browsers that both ask, which is beyond the time a run may take.
2. A model of the presence table with the Router, once the recipients of a role are
   resolved under the lock.

## 6. Not modelled

* **Presence registry, animation bus, storage layer, services for conversations,
  messages and agents**: each operation writes one table, row or buffer in one step, and
  what could go wrong is in the callers, which are modelled. Torn writes are not
  modelled: every append or replace is one step.
* **Texts**: prompts, summaries, contracts, diffs, keywords and scores are inputs or
  members of small sets.
* **Tools and adapters' requests**: what a tool does is external; of a request only
  its answer is modelled.
* **Code nothing calls**: `evict_all` of the pool, `delete_artifact`, reviews and
  integration checks of the collaboration hub. `cancel_all` of the engine has no caller
  either; it is a step of `DagExecutor` because `execute` reads what it changes.
* **Commands that only print** (status, trace, board, watch, analyze, design), the
  project analyzer, and the rendering of the web client.
* **Execution records**, which are written for observation and read by nothing else.
