# AxonCode in TLA+

AxonCode is a coding agent that runs as an editor extension: a chat view on one side, a
language model on the other, and between them a *task* that reads the model's stream, runs
the tools it calls, asks the user and keeps the conversation on disk. This directory holds
TLA+ models of its core, the TLC configurations that check them and TLAPS proofs about them.
Paths below are relative to the repository's root; `Task.ts` is `src/core/task/Task.ts`,
`ClineProvider.ts` is `src/core/webview/ClineProvider.ts`.

    tlc -config TaskTurns.cfg MCTaskConversation.tla       # check one run
    tlapm TaskConversationProofs.tla                       # check the proofs of one module

All of this program's concurrency is cooperative: one event loop per extension host, so code
between two `await`s runs alone and everything can happen at an `await`. Therefore **an action
is the code between two awaits**, in every module. The exception is the file system, which
several hosts (editor windows) share.

## 1. Inventory

| Component | State | Operations | Talks to | What is hard |
|---|---|---|---|---|
| Task conversation (`Task.ts`, `message-queue/`) | `messageQueueService.messages`, `askResponse*`, `isWaitingForAskResponse`, `lastMessageTs`, `taskRequestCount`, `taskRequestLock`, `apiConversationHistory` | start, resume, `ask`, `handleWebviewAskResponse`, queue/remove a message, drain the queue, run a turn, abort | presenter and tools (ask, result), webview (answers), persistence | two flows want turns; asks supersede each other; answers and queued messages race; polls every 100 ms |
| Presenter and stream loop (`presentAssistantMessage.ts`, `AssistantMessageParser.ts`, `Task.ts` 2600-3520) | `assistantMessageContent`, index, lock, pending flag, `userMessageContent(Ready)`, `didRejectTool`, executed signatures, `abort` | a chunk, the end of a stream, presenting a block, running a tool or a batch of reads, restart, cancellation, next request | provider stream, tools, conversation | the loop never awaits the presenter; blocks change while they are shown; a batch ends in any order |
| Task stacks (`ClineProvider.ts`) | `clineStack`, `taskStacks`, per task `abort`, `childTaskId`, `parentTask`, task history | create, subtask, plus button, activate, show, close, clear, finish a subtask, delete, cancel, reload after a failure | tasks, history, webview tabs | every operation awaits between looking at a stack and changing it |
| Task replacement (`ClineProvider.ts`, `webviewMessageHandler.ts`) | the snapshot of the queue in `cancelTask` and `onTaskAborted`, the poll of `forceSendQueuedMessage`, the resume prompt | cancel, force-send, reload after a failure, leave and return | conversation, stacks | a copy of the queue lives on while its messages are drained, answered and typed |
| Atomic JSON writes (`utils/safeWriteJson.ts`) | the file, `.new` and `.bak` files, lock file | one write: lock, write, rename, rename, unlink, roll back, unlock | every history file; other windows | any step fails; the host dies between two renames, or stalls until its lock is stolen |
| Persistence (`task-persistence/`, `taskHistory`) | `ui_messages.json`, `clineMessages`, history items | load and write back, save, delete | safeWriteJson, conversation, stacks | readers take no lock; saves are not always awaited; a save keeps the array it was given |
| Checkpoints (`core/checkpoints`, `services/checkpoints`) | shadow git repository and its index, `checkpointServiceInitializing` | initialise, save, restore | conversation, git | callers poll for an initialisation that may fail; saves share one index |
| MCP hub (`services/mcp/McpHub.ts`) | connections, `isConnecting`, watchers, the settings file | reload, restart, refresh, toggle, delete, import, authenticate | settings files, servers | nothing serialises the operations; the file is edited while one connects with what it read; a flag stays set after an error |
| Code index (`services/code-index`) | state, `_isProcessing`, `_cancelRequested`, hashes, points, accumulated events | start, cancel, clear, recover, batches of scan and watcher | watcher, embedder, vector store | a start after a cancellation revives the scan that was cancelled; clearing takes three awaits; batches that are tried again |
| Terminals (`integrations/terminal`) | terminals, `busy`, `running`, processes | get or create, run, complete, release, fall back | shell integration | events name a terminal, not a command; a command outlives its call, or runs twice |
| Configuration (`core/config`) | profiles, custom modes, context proxy | read-modify-write under a promise chain or a write queue | webview, stacks | one failing write among queued ones |
| Tools, API providers, prompts, search, webview, hosts | no protocol state of their own that outlives a call | | | |

`PROJECT.json` lists every part of the repository with its status, and every hazard found in
the code at its line. What makes the modelled parts correct:

* **Conversation**: one turn at a time; a typed message is never lost, doubled or reordered, is
  handed to the agent only at a completion ask or between turns, and is handed out eventually;
  an answer reaches the ask it was meant for; every turn ends; what was sent stays in the history.
* **Presenter**: one call of it works at a time; the lock is never left behind; the next request
  carries exactly one result per call, in order, leaves only when no tool is running, and leaves.
* **Stacks**: a task instance is in one place; every running task can be reached; no tab is dead;
  one running copy per task; a caller is resumed when its subtask ends.
* **Replacement**: what was queued when an instance is replaced reaches the next one, once.
* **Writes**: no committed document disappears, even with a lock that was stolen; the caller is told the
  truth; a write is atomic.
* **Persistence**: when nothing is under way, file and memory hold every message; a deleted task
  stays deleted.
* **Checkpoints**: one repository; a commit is a state the workspace had; no call waits for ever.
* **MCP hub**: one entry per server; no process without an entry; entries are those of the file.
* **Code index**: at rest the points are those of the files; a hash stands for points; runs end, also
  those that overlap.
* **Terminals**: one command per terminal; every call returns; what it returned stands.

## 2. Modules

| Module | Models | Abstract specification, proofs, composition |
|---|---|---|
| `TaskConversation` | turns, asks and the message queue of one task | `TaskConversationProofs`, `MCTaskConversation` |
| `StreamPresenter` | one agent turn from inside: stream loop and presenter | `StreamPresenterProofs`, `MCStreamPresenter` |
| `TaskStacks` | the provider's tasks and the operations on them | `TaskStacksProofs`, `MCTaskStacks` |
| `SafeWriteJson` | safeWriteJson on one path, several windows | implements `JsonDocument`; `SafeWriteJsonProofs`, `MCSafeWriteJson` |
| `JsonDocument` | what safeWriteJson promises: a document replaced as a whole | |
| `TaskReplacement` | the queue of a task while its instances are replaced | `TaskInstancesProofs`, `MCTaskServices` |
| `TaskPersistence` | saves, loads and the deletion of one task's history | `TaskInstancesProofs`, `MCTaskServices` |
| `Terminals` | commands in the pool of terminals | `TerminalsProofs`, `MCTaskServices` |
| `McpHub` | the connections of one MCP settings file | `McpHubProofs`, `MCServices` |
| `CodeIndexRun` | one run of startIndexing: files, hashes, points and its batches | |
| `CodeIndex` | two such runs (the older one is an instance), the watcher, cancelling and clearing | `WorkspaceProofs`, `MCServices` |
| `Checkpoints` | callers of getCheckpointService and the shadow repository | `WorkspaceProofs`, `MCServices` |

Definitions named `Mutant: ...` in a comment are not part of the specifications: each is a
plausible bug of the definition below it, and shows that a property notices that bug.

**Situations.** An `MC` module puts several instances of a specification, or several
specifications that share no state, in one run: a variable that never changes says which of them
a behaviour is in. `MCTaskConversation` has a new task with a patient user and a resumed task with
every race; `MCStreamPresenter` plain turns (`PlainEvents`) and turns with faults; `MCTaskStacks` operations that
overlap and operations that do not. A property named `Calm...`, `Plain...` or `Alone...` is the one
of the specification restricted to that situation, because in the other one the code breaks it
(section 4). `MCServices` and `MCTaskServices` extend the specifications of three services each,
and their properties are those of the specifications. A behaviour is of one service, and the others
stand still: nothing would come of interleaving models without common variables.

### TaskConversation

Two flows can run a turn: `main` (startTask or resumeTaskFromHistory, then initiateTaskLoop)
and `drain` (processManualMessageQueue with handleManualUserMessage). `tpc` says how far each
is; the code's `isStreaming` and `isProcessingManualMessages` are read off it. `lockQ` is the
promise chain of `acquireTaskRequestLock`, `count` is `taskRequestCount`. A third kind of actor,
`Outs`, are the `onLine` callbacks of a running command, which ask concurrently with the turn.

`Task#ask` is `BeginAsk` (the answer fields are cleared), `AskStamp` (the row is appended and
becomes the live one), `AutoApprove`, `AskWait` (saved; the ask blocks, or a completion ask takes
the head of the queue), and then `AskTake` (the 100 ms poll sees an answer) or `AskIgnored` (a
later row superseded it). `live` is the asker whose row `lastMessageTs` points to. An answer names no
ask; `meant` is the history of whom it was for: the ask whose row was up, or one at the await of its
stamp, which keeps a click on the row still shown as its own (section 4). `ProcessQueue`
is processManualMessageQueue up to its first await, and is part of every action whose code calls
it. User actions are what the chat view can send with what is on screen: queueing, answering,
picking, approving, rejecting with or without feedback, removing, aborting.

Abstracted: user messages are numbers in the order they are typed; a tool is an ask and a
result (tool asks other than commands are approved automatically, as `askApproval` does here);
tools are used once the stream has ended, since `taskRequestCount` hides the difference from the
queue; `Abort` stands for cancellation and for a failed stream. What a cancelled or reloaded task
does with its queue, and `forceSendQueuedMessage`, are in `TaskReplacement`. Not modelled:
`/compact`, `updateMessage`, partial asks, the asks after API failures and at the mistake limit,
rejection over the remote bridge.

### StreamPresenter

`loop` is how far makeClineRequestsUnlocked is: reading the stream, saving, waiting for results,
next request. Each chunk calls presentAssistantMessage and goes on, so `call` holds several calls
of it: entering (`Enter`: take the lock, or leave a pending update), a block's work (`Preview`,
`Refuse`, `Skip`, `Duplicate`, `Begin`, `FirstResult`, `Return`, `Reject`), a batch of read-only calls
(`RunBatch`, `CommitBatch`), and `Finish`, which frees the lock, moves the index and recurses.
`Finalized` is the end of the stream: repaired calls are appended, malformed ones dropped. What the
code filters out of the blocks is listed by position here: `Nth(P, n)` is the n-th of the positions
`P`, and `IdsAt(P)` the ids of the blocks there.
`AbortTask` is abortTask at any point: the stream is over at once (`TurnAborts`), a call of the
presenter that is entered throws, a batch throws before it commits (`BatchThrows`).
`Events` selects what can happen beyond the plain course:

| Event | In the code |
|---|---|
| `reject` | the user rejects a tool; the rest of the message is skipped |
| `open` | a call gets its arguments only at the end of the stream |
| `refuse` | the mode does not allow a tool: validateToolUse refuses it while it is still partial and a result is pushed |
| `malformed` | a call never gets valid arguments and is dropped |
| `early` | a tool pushes a result and goes on (approval with a comment) |
| `restart` | the connection breaks; `stream_restart` discards the message |
| `abort` | the task is cancelled |

Abstracted: a block is an id, a kind (text, read, act) and whether it is partial; a chunk carries
part of one block; whether two calls are duplicates is a choice; the mistake limit is a choice.
Calls under way are bounded by `Calls` (a chunk needs two free ones). Not modelled:
toolRepetitionAutoRetry, XML tool syntax, reasoning and usage chunks.

### TaskStacks

`active` is `clineStack`, `stashed` is `taskStacks`. An operation is a record in `op` that holds its
place and its local variables; between two of its steps another operation may run, so two slots in
`Ops` mean that any two interleave; `OneAtATime` of `MCTaskStacks` makes every click wait. Instances
are numbered as they are constructed; a fresh task's id is its first instance's number. A created
task is in the history until it is deleted (of a task in another tab after the await of `deleteState`), an
instance finishes as a subtask at most once, and
`ClearTask` stands for every caller of `removeClineFromStack` on the current task. Not modelled:
dispose, resetState, modes and profiles, the order of tabs (where it decides which of two stacks
survives, the model takes either), events to the webview.

### SafeWriteJson

A writer is one call slot of one extension host; each awaited file-system call is one action.
`MayFail` says which of them can raise, making the directory and the lock file included; `MayCrash` lets
hosts die between any two steps. The code takes a lock over whose file is 31 s old, whatever its
holder does: `AcquireLock` is that of a dead holder, `StealLock` that of one that stalls and goes on
afterwards, with two calls at work from then on (`robbed`). A rollback after that puts an old
backup over a newer document (`undone`). The refinement maps the pair target/backup to one document:
it is the target, or the lock holder's backup between the two renames; it holds until a lock is stolen.

### TaskReplacement

`shown` is getCurrentTask, `stashed` an instance that was left for another task, and `task` the
instances of one task with their resume prompt and turn, `used` of them made so far. `ops` are
cancelTask and the reload of onTaskAborted: each takes a snapshot of the queue before its first
await, removes the old instance and restores the snapshot into the new one. `poller` is
`checkAndSend` of forceSendQueuedMessage, which waits for the new instance's prompt. `hand` are
messages between the queue and the conversation, `answer` is `askResponse` until it is polled. The
history variable `gaps` collects messages that met one of the known holes, each named at the action
where it occurs (section 4); the properties are about all others. Messages are a set here: their
order is `TaskConversation`'s.

### TaskPersistence

A save is safeWriteJson without failures (that is `SafeWriteJson`), except that it may give up
waiting for the lock: `lock`, `backup`, `commit`, `unlock`, `item` are its awaits, and the last of them puts
the task's item into the history; a new message is shown first, which is one more (`shown`). It keeps
the *array* it was given (`mem[i][arr]`), as the code does:
loading, reloading and truncating assign new arrays to `clineMessages`, and `cur` is the one of now.
An instance that loads a history checks that the file exists, reads it, writes it back and reads it
again. The provider cancels, closes, switches and deletes. `said` is what ought to be in the file;
`exposed` becomes true when one of the holes of section 4 is met.

### Terminals

A command is a tool call (`call`) that has chosen a terminal (`chosen`; an await lies between
getOrCreateTerminal and `busy`) and whose process then waits in `integration`, `stream`, `reading` and
`draining`; `shell` is the queue of the shell behind a terminal, whose start and end events carry the
terminal only. `busy`, `running` and `proc` are the code's fields. A shell gives no sign of a command in
four ways, and the tool then runs it as a subprocess: no prompt in time (`IntegrationTimesOut`; it was
not sent), no stream in time (`StreamTimesOut`; it was), no start marker in the output (`Complete`), and
an integration without executeCommand (`TypesCommand`: the command is typed into the shell and
runs there, and the process counts it as not run, `TerminalProcess.ts:52-73`). `runs` counts the
starts. `tainted` are terminals in which the user or that path typed something, which two calls
chose at once, or which a late event has freed.

### McpHub

One settings file with its servers. Nothing serialises the operations of the hub, so each is a *flow*
(`flow`; `MaxFlows` bounds how many there are): the reload when the debounce `timer` fires, restart,
refresh, toggle, delete, import, the global switch, authentication. A flow closes and opens
connections with `wanted`, the configurations it has read, in `step`s that are the awaits of
deleteConnection and connectToServer; any other flow may run at each of them, while servers exit or
need authentication and the file is edited. An entry carries the number by which findConnection finds
the first. `crossed` are the servers that two flows were at, at once: closing or connecting it,
or about to with a configuration already read. `left` are those of which an entry was dropped while its
transport was up.

### CodeIndex

The content of a file and its hash are one version number; one of the versions has no block of code
(`Blank`), so that it has a hash and no points. `CodeIndexRun` is startIndexing from its first await:
`scan` is where the run is, `work` how far each file's batch is. Its other variables are shared with
everything else that runs. A start looks at `processing` and the state only, and a cancellation resets
both while its scan goes on; so `CodeIndex` has a second run, `Old!RunStep` on `oldScan` and
`oldWork`, which the flags that a start resets revive. `clearing` is where clearIndexData is, which a
start may meet as well. `overlapped` says that a run was started beside a run or a clear.
`batches` are the watcher's. Embedding, upserting and deleting may fail and are tried again; writing
the cache file may fail and is only logged. A batch whose watcher has been disposed goes on, but nobody
hears from it (`reports`), so it no longer sets the state. `failed` are files whose update was
reported as failed, `unseen` those that changed while nobody watched, `spoiled` those hit by a gap
(`Spoils` and section 4).

### Checkpoints

Callers of getCheckpointService (the start of the task, saves, a restore) with the polling of the
second one, its 15 s timeout, failing git, failing initialisation and the warning that stays open until
the user closes it; then `git add`, `commit`, and
`clean` and `reset` on one index (`index`) and one log. `seen` is, per save, what the workspace has
held since its `git add`.

## 3. Runs

| Run | Question | Bounds | States |
|---|---|---|---|
| `write_faults` | With failing steps, dying hosts and stolen locks: is a document lost, the caller lied to or a call left hanging? Until a lock is stolen: is the atomic document implemented? | 2 writers, 2 documents | 215 k |
| `task_turns` | Calm task: is every message kept, is the queue emptied, and do turns end? Races too: do exclusion, order, uniqueness, freshness of answers and the boundaries of the queue survive? | calm: 3 messages, 2 requests per turn, 2 tools, no output. Races: 1 restored of 2 messages, 1 output callback, 2 requests, 1 tool; eager and early user, YOLO, empty replies, command timeout | 815 k |
| `task_wiped_turn` | Finding: a turn that never ends | 1 message, early user | |
| `task_resume_race` | Finding: a message that leaves the history | 1 restored message | |
| `stacks` | Is an instance in one place however two operations interleave? One at a time: is every tab alive and every task single? | 2 operations, 3 instances, failures; alone: 4 instances | 1.4 M |
| `task_subtask_not_resumed` | Finding: the caller of a subtask stays paused | 3 instances | |
| `stream` | Plain turns: are results complete, in order, and is the next request sent exactly when it may be? Faults: is the lock ever left behind? | plain: 3 calls, 4 blocks, 2 requests, rejections; faults (`FaultyBlocks`, `FaultyRequests`): 3 blocks, 3 requests, all events | 2.9 M |
| `stream_tool_left_behind` | Finding: a request leaves while a tool runs | 3 calls, 3 blocks, 2 requests | |
| `stream_cancel_hangs` | Finding: a cancelled turn waits for ever | 2 calls, 2 blocks, 1 request | |
| `services` | Are connections those of the file, points those of the files, checkpoints those of the workspace, and does what is begun end? | hub: 1 server, 1 variant of its configuration, 2 flows, 6 entries made, 2 clicks or edits; index: 1 file of 3 versions, 2 runs, 2 tries, 2 watcher batches, 3 edits and presses together; checkpoints: 3 calls, 2 commits | 803 k |
| `task_services` | Do queued messages survive replacements once, is the history file whole at rest, do commands return, each in a terminal of its own, and does their answer stand? | replacement: 2 messages, 2 operations, 3 instances, 2 clicks; history: 1 message, 3 instances, 3 saves, 2 clicks; terminals: 2 commands, 3 terminals, 1 intrusion of the user | 1.0 M |
| `task_deleted_returns` | Finding: a deleted task is in the history again | 1 instance, 1 save, 2 clicks | |

**Why the bounds are enough.** Two writers make every pair of concurrent calls; a third only
waits. With three messages the queue holds one while one is on its way and one is an answer; the
two flows need one turn each. Two requests in a turn make a turn that goes on after its tools, two
tools a turn that asks again. Four instances make a task with a subtask in one tab, another task in
a second one, and a reloaded copy. Four blocks make text, a batch of two reads and a call after it,
three requests let a restart or a retry happen while something of the first is still running. Three
instances make a replacement that is itself replaced while the first one's saves or polls are under
way. Servers do not look at each other, files only share a batch: one of each meets every race with
the operations. Two flows are any pair of the hub's operations at each other's awaits, a third could
only cross a server that is crossed already; two clicks with the reload they arm make three flows
in turn. Two runs of the index are the one that was cancelled and the one that revives it; two watcher
batches overlap beside a scan. Three checkpoint calls are one that initialises and two that wait, or
two saves and a restore. `TaskPersistence` was also checked alone with two messages and with a third
click (1.7 M and 2.5 M states). What is proved (section 5) does not depend on the bounds.

**Deadlock** is not checked: every system here may really stop. A turn is over, an operation ended and
instances are used up, the requests or clicks are exhausted, every host died. What must not stop is
stated as a liveness property instead.

**Fairness.** The event loop runs every continuation that is due, hence weak fairness of each
flow, ask and operation step. `TaskConversation!FairSpec` also has the user pick an answer or press the
primary button when a question, a command or a resume prompt stays on the screen; that a user answers a
completion is not assumed (`TurnsFinish` counts standing there as the end) nor that they type. A
command that is not being waited for dies. `StreamPresenter!FairSpec` has streams end (the idle
timeout ends a silent one, an abort any) and tools return. `SafeWriteJson!FairSpec` has file-system
calls return and lock waits end, by the bounded retries of the lock; that a lock is stolen is never
assumed. The services have weak fairness
of what the host does by itself (`Hub`, `Indexer`, `Checkpointing`, `ReplaceHost`, `Host`) as a whole, never of the
user, the editing of files, or a server that exits. Closing the warning that git is missing is the
user's, so `CallsEnd` counts standing at it as the end.

## 4. Findings

Each is a disagreement between the code and what the repository says of it; the run's
counterexample shows the steps.

* **`task_wiped_turn`** (`Task.ts:1560`). handleManualUserMessage empties `userMessageContent` and
  clears `userMessageContentReady` before it waits for the request lock. The task was idle when
  the queue was looked at, but a checkpoint and a `say` were awaited since: a message typed while
  the task's first row is being saved wipes the main turn, whose wait "is guaranteed to resolve
  and cannot deadlock" (`Task.ts:3440`), and never does.
* **`stream_cancel_hangs`** (`Task.ts:3446`). The same wait after a cancellation: it needs
  `userMessageContentReady` also when `abort` is set, but the presenter throws on entry in an aborted
  task before it sets it. A task cancelled between two calls of a message polls for ever and
  keeps the request lock, against "`this.abort` short-circuits so a cancel never hangs here".
* **`task_resume_race`** (`Task.ts:1351`). Answering the resume prompt looks at the queue while no
  turn is counted yet; the queued message is recorded between resumeTaskFromHistory's read and its
  overwrite of the history.
* **`task_subtask_not_resumed`** (`ClineProvider.ts:3339`). createTask stashes the caller of a
  subtask with everything else on screen, so the stack is empty when the subtask finishes and its
  caller is not resumed, against the comment above createTask.
* **`stream_tool_left_behind`** (`presentAssistantMessage.ts:574`). A command that is approved with
  a comment has a result before it runs; the next request leaves and resets the presenter under it.
* **`task_deleted_returns`** (`ClineProvider.ts:2157`). A task in another tab that is deleted is only
  marked; a save of it that is under way puts its item into the history again.

The following were seen in the models. They have no run of their own because no line of the
repository contradicts them, but they bound what the passing runs claim:

* *Conversation.* An answer that arrives twice before the 100 ms poll overwrites the first
  (`Task.ts:1399`): `NothingDropped` needs `EagerUser = FALSE`. With `EmptyReplies` the main flow
  leaves and re-enters its turn, and the drain's idle check can fall between (`Task.ts:2489`). A
  superseded command_output ask clears `isWaitingForAskResponse` of the newer ask (`Task.ts:1318`). A click
  on a command_output that is still shown while the next command is at the await of its timestamp
  (`Task.ts:1026-1034`, `1199`) is taken as the answer to that command: `NoStaleAnswer` holds from the
  moment the new row is up.
* *Stacks.* With two overlapping operations an instance can be lost from every tab, and with
  `Failures` a task can have two copies or a dead tab (`ClineProvider.ts:253`). `InOnePlace` survives.
* *Presenter.* With `open` results can come in another order than the calls; with `open` and
  `reject` a wait can last for ever, as the index skips a call that was moved to the end. With
  `malformed` or `restart` the presenter can be running when its state is reset. With `refuse` a
  read-only call has a second result from its batch (`presentAssistantMessage.ts:649-652`). `LockIsHeld`
  holds under all events.
* *Replacement* (`gaps`). A force-send while a cancellation reads its history submits the message
  twice; what is typed between the snapshot and the abort, or was dequeued and not yet submitted, is
  lost; what is drained after the snapshot is sent twice; two reloads both restore their copy; a
  cancellation restores its copy into an instance that the next one has already looked at and will
  remove; a second response within 100 ms overwrites the first; a forced message waits for a later ask if the
  prompt was answered before it; if the history cannot be read, the snapshot and the forced
  message are dropped.
* *Persistence* (`exposed`). A task that is aborted while it loads saves an empty history; so does
  a reader between the two renames; a second stop during the second read; a save of a replaced
  array that takes the lock last; a save that gives up leaves the file stale.
* *Terminals* (`tainted`). The late completion of an earlier command clears `busy` of the
  next one (`TerminalProcess.ts:25`); two calls may choose one terminal (`executeCommandTool.ts:263`); a
  call whose terminal is closed waits for ever. A command runs twice when its stream starts late, when
  its output has no start marker, and when it is typed because the integration has no executeCommand
  (`TerminalProcess.ts:52-73`, then `executeCommandTool.ts:128`): `AnswerStands` says only that this does
  not happen to a call that has returned. A call that timed out while it waited for a prompt is
  started when the prompt comes.
* *MCP hub* (`crossed`). Two flows at one server can leave two entries of it (`McpHub.ts:652-902`), drop an
  entry whose transport stays up, or leave a disabled server connected when a toggle is closing it as the
  reload runs (`McpHub.ts:1784`); a switch to off while `isConnecting` is set lists nothing again. An
  unreadable settings file leaves `isConnecting` set until the next reload (`McpHub.ts:1583`); an
  authentication error drops an entry without closing its transport (`McpHub.ts:2163`).
* *Code index* (`overlapped`, `spoiled`). A start after a cancellation, or during a clear, lets two runs
  write the same files, and the state can stay Indexing (`orchestrator.ts:192`); of these only that runs
  end is claimed. A window that closes between clearCollection and clearCacheFile, or a cache file that
  cannot be written (`cache-manager.ts:75`), leaves hashes without points; a file that has no block any
  more gets a hash while its old points stay (`scanner.ts:280`); overlapping batches of one file, a
  touched file with the same content and a creation that overtakes a deletion leave points that are
  not the file's.
* *Checkpoints.* A failing `git add` is only logged; what is committed then may be older.
* *Writes* (`undone`). If the rollback rename fails, the catch block unlinks the backup, the only copy
  left: `NeverLost` is stated for `MayFail` without the rollback. A call that was robbed of its lock and
  then fails rolls back over what the thief has committed.

## 5. Proofs

All theorems hold for every value of the constants, from the named assumptions on the constants
that each module declares (`SWAssumption`, `TCAssumption`, `TSAssumption`, `SPAssumption`,
`HubAssumption`, `RunAssumption`, `IndexAssumption`, `SavesAssumption`, `ReplacementAssumption`, `HistoryAssumption`,
`TermsAssumption`), which the runs evaluate. The theorems about plain turns also need `PlainEvents`
of `MCStreamPresenter`: its base instance has no event but `reject`. Named below, for each, is the inductive invariant,
and what it says that the property alone does not.

**Writes** (`SafeWriteJsonProofs`)

* **`WritesTypeCorrect`, `NothingIsLost`, `MissingOnlyDuringWrites`.** The invariant `IInv` adds to the
  types that the new file is whole before it is renamed, that a path recorded as a backup is known to
  the catch block, that until a lock is stolen one call is at work and a backup between the two renames
  holds the committed document, and that until such a backup is put back the target is the committed
  document or missing. `NeverLost` is then preserved step by step if the rollback cannot fail; that
  the document is missing only inside a write, or after a crash in one, follows from it.
* **`WritesAreAtomic`** (`ImplementsDocument`). The same hypothesis, until a lock is stolen. `RInv` adds `SettledInv`, how far
  a call is tells what its caller has been told, and `OrphansAreCopies`, a backup that outlives its
  call lies beside a document. Then a step of a call maps to a stutter, unless it begins the call,
  makes it succeed or fail, or is a crash: those are `Begin`, `Install`, `Refuse` and `Die` of `JsonDocument`.

**Conversation** (`TaskConversationProofs`)

* **`TurnsExclude`, `IdleTestIsSound`.** `TurnInv`: the flows in `lockQ` are, without repeats, exactly
  those inside a turn; `count` is its length; a running flow is its head; an open ask belongs to a
  flow that stands at an ask. Exclusion alone is not inductive because it does not say who leaves the
  chain when a turn unwinds.
* **`TypeCorrect`**. The bound on `taskRequestCount` needs the lock's invariant: a chain without
  repeats over two flows is no longer than two.
* **`AnswersAreFresh`** (`NoStaleAnswer`). `AnswerInv`: while a response is held, it was meant for every
  ask that stands at its stamp and for the ask of a turn whose row is the live one, since an ask that
  begins clears what it finds, and a row is only taken by an ask that stood at its stamp.
* **`QueueIsOrdered`** (`QueueInOrder`). `OrderInv` adds that every handed-out or queued number is at
  most the last one typed, and that everything handed out precedes everything queued; three lemmas on
  sequences show that appending, dequeuing and removing keep it.
* **`MessagesAreUnique`** (`NothingTwice`). `PlacesInv`: the queue, the message on its way, the answer,
  what was taken and what is in the history have no message in common (`Placed`), the history and
  the copy of it that a resume overwrites it with have none twice (`SentOnce`), and a drain that runs
  its turn holds nothing any more (`DrainInv`). `NothingTwice` alone does not see the copy.
* **`QueueWaitsForBoundary`** (`QueueOnlyAtBoundary`). `TurnInv` again: a step that looks at the queue
  and hands something out sees `count` = 0, which means that no flow is in the chain.
* **`PatientUsersKeepMessages`** (`CalmNothingDropped`), about `MCSpec` and under `Patient`: a new task, whose
  user waits for the first turn, answers each ask once and gets no empty reply. `NothingDropped` is not
  inductive: an answer is overwritten if two asks can wait, or if one is given while none waits.
  `CalmInv` therefore says that one flow at a time is at work, as the queue is not drained before the main
  flow is through with its turn (`FlowInv`), and that its ask is the one on screen and an answer is
  there only while it waits (`OneAskInv`). Section 4 has what happens without each hypothesis.

**Stacks and presenter** (`TaskStacksProofs`, `StreamPresenterProofs`)

* **`EachInOnePlace`, `StacksTypeCorrect`**. `IInv` is `StackInv` (types; what is on a stack was
  constructed; position by position, no repeats and no common elements; a stack is under its root's
  id), `FieldInv`, and `OpInv` (an operation past its first step knows its task). Every operation is
  one of a few moves of stacks, each with a lemma (push, remove the top, stash, shuffle, drop).
* **`AloneTabsStayLive`, `AloneTasksAreSingle`** (`AloneTabsAreLive`, `AloneOneCopy`), about `MCSpec` and without
  failures. `AloneInv`: every stack is of one instance, as createTask stashes the caller of a
  subtask, it is in the slot of that one's taskId, and the slot of the task on screen is empty (`Tabs`);
  taskIds and the history are of constructed instances (`IdsInv`); the operation under way has
  emptied the screen and the slot it will construct into (`OpNow`); and apart from the one instance
  it has aborted and not yet taken off its stack, those that run are those on stacks (`LivesOnStack`).
* **`LockNeverLeftBehind`**. `LockInv`: a taken lock has a working call. One lemma each for the ways
  in and out of the presenter (`EnterKeepsLock`, `FinishFreesLock`); a call that is refused because its
  task was cancelled never had the lock, and a batch that throws gives it back.
* **`StreamPresenterTypes`**, under all events like the lock. `NthIsInOrder` and `RunIsComplete` say
  what the two CHOOSEs of the module choose: ranks of positions are a bijection, so there is an n-th
  one, and a run of reads has one end, which is inside the message.
* **`OneCallPresents`, `NothingStaysBehind`, `ResultsFollowCalls`** (`PlainOnePresenter`,
  `PlainNothingRunsBehind`, `PlainResultsMatch`), about `MCSpec` and its plain turns. `PlainInv` is the
  types and six parts. `Alone`: one call is at work exactly when the lock is taken, it is at the
  index, and it knows where its block is now (`AtWork`). `Answering`: the results are those of the
  first calls, in order; the calls before the index have one, and a later call has one only if the end of
  the stream moved it behind text that is not presented yet. `InOrder`: while the message is streamed only
  its last call can be open. `Readiness`: `userMessageContentReady` means that everything is
  presented, or that the workers of the last batch are through and will commit. `Course` and `Recorded`
  follow the loop: what is saved with the message is its calls. No property is inductive without
  the others: the hard case is a call that is being shown when the stream ends, which `Finalized` moves
  to the end (`PlainFinalized`) while its presenter still holds the old position; and readiness that
  a batch sets before its results are there, where the first call of the batch has no result and
  holds the request back (`ProceedIsDue`). That the results *are* the calls follows
  because increasing sequences with the same elements are equal (`IncreasingAreEqual`).

**One task and its instances** (`TaskInstancesProofs`)

* **`ReplacementTypes`, `MessagesSurvive`** (`TakenOnce`). `ReplaceInv`: nothing waits at an instance
  that is not alive (`RestInv`), a message that was not sent is nowhere (`SentInv`), and for one that
  met no gap (`PlacesInv`): it was taken once and is nowhere, or it was not taken and is somewhere; a
  queue with its copies, a hand, an answer, a forced cancellation and its poll exclude each other; it
  is in one queue; and what a cancellation will drop with its instance is in its snapshot. The
  last is what makes the property inductive, and where the model's list of gaps turned out too
  short: with three operations a copy can be restored into an instance that is already being replaced.
* **`PersistenceTypes`, `HistoryKeepsAll`** (`HistoryIsWhole`). `StageInv`, `PlaceInv` and `SaveInv` say
  which instance is the newest, where it can be shown and who holds the lock of the file. `WholeInv`
  is about the moments in between: unless a save that will write an old array still waits for the
  lock (`Doomed`), the newest instance holds all messages, and the file with the write under way does
  so, or a save that will bring it there waits.

**Terminals** (`TerminalsProofs`)

* **`TerminalTypes`, `TerminalsAreExclusive`, `AnswersStand`** (`OneCommandEach`, `AnswerStands`).
  `OwnInv` is, per terminal that is not tainted: one call at most has chosen it, what its shell holds is
  one command's, `proc` and `busy` are its, and a command whose process lives is that one. `CallInv` ties
  calls to terminals, and a process reads the output of another command only in a tainted terminal
  (`ReadsInv`). `RunsInv` counts starts by where a call is, and says that what may still start a command
  again (`new`, `chosen`, `fallback`) has no answer yet: that is what `AnswersStand` needs.

**MCP hub** (`McpHubProofs`)

* **`HubTypes`.** `IInv`: types; an entry that connects something is of a server that is enabled; a flow
  is at a server only while it deletes or connects (`StepInv`), with a configuration it has, and a
  restart is of the server whose entry it found (`AnnounceInv`).
* **`ConnectionsAreUnique`, `SettledIsCurrent`** (`OneConnection`, `SettledMatchesFile`). `ServerInv` is about
  a server that no two flows were at at once, whatever flows overlap elsewhere and before. At most one flow
  is at it (`Alone`), it has one entry (`Single`), and `StepOK` says what is true of that entry at each
  await of the flow: none when a transport starts, its own during the handshake. A watcher is of a
  server that is enabled or about to be deleted (`Watch`); while MCP is off nothing is connected that
  is not about to be (`Off`). Unless the file is still to be read (`Due`: the timer, an unreadable
  file, a flow on its way to reading it), the entry is that of the file, or the flow is replacing it by
  that (`Match`). Flows at other servers keep all of this (`Elsewhere`).

**Workspace** (`WorkspaceProofs`)

* **`IndexTypes`.** Types of both runs.
* **`IndexFollowsFiles`, `HashesHavePoints`** (`IndexedIsExact`, `HashMeansPoints`). `IndexInv` holds until
  a run is started beside a run or a clear; that this is never taken back is `OverlapStays`.
  `BatchInv`, `RunInv` and `ProcessedInv` say which of run, clear, watcher and batches can be under way
  together. Per file that no gap has hit, an event says whether the file is there (`EventInv`), one
  of events, batches and run has it (`HolderInv`), and a hash stands for points that are there
  or are being brought, unless the points are gone and the hashes about to be (`PointsInv`, `Void`);
  per file that was also never unseen, `TrackInv`: the hash is the file's, or the file has no block, or
  somebody will set it. Proving this showed that batches of a disposed watcher had set the state in
  the model, which they do not in the code.
* **`CheckpointTypes`, `ShadowRepositoryOnce`, `CommitsAreSnapshots`** (`OneShadowInit`,
  `CommitIsSnapshot`). `FlagInv`: while somebody builds the service and checkpoints are on, the flag is
  set. `SeenInv`: at a save's commit both the index and the files are among what the workspace has held
  since its `git add`.

**Services in one run** (`WorkspaceProofs`, `TaskInstancesProofs`)

* **`ServicesAreApart`, `TaskServicesAreApart`**. A behaviour of `MCServices` or `MCTaskServices` is one
  of each of its services: the chosen one steps, the others stutter. So the theorems about
  each service hold of the runs, and with them **`ServicesTypeCorrect`, `TaskServicesTypeCorrect`** (`TypesOK`).

`IdleMeansNoTurn`, `MissingOnlyMidWrite` and the type invariants of `TaskStacks` and
`StreamPresenter` are proved and are in no run.

**Only model-checked**: liveness (`EveryCallSettles`, `CalmQueueDrains`, `CalmTurnsFinish`,
`PlainWaitResolves`, `FlagClears`, `IndexingEnds`, `CallsEnd`, `ForcedArrives`, `CallsReturn`), which
is out of the prover's reach under fairness. Every invariant and every action property that a
passing run checks is proved.

## 6. Plan

The order follows how much of the program depends on a part. Done: writes, conversation, stacks,
presenter with cancellation, replacement, persistence, MCP hub, code index, checkpoints,
terminals. Next:

1. An abstract `Turn` (requested, running, results complete, over) that `StreamPresenter` implements
   and `TaskConversation` uses, so that a cancellation inside a turn has its consequence for the lock.
2. `TaskReplacement` on top of `TaskConversation`'s queue and asks instead of its own sets.
3. The promise chain of ProviderSettingsManager and the write queue of CustomModesManager as two
   implementations of one abstract serial queue; toolCallResultPairing and the sliding window as pure
   algorithms against reference definitions.

Runs are few on purpose, one per question; a new module joins the run of its kind as a situation.

## 7. Not modelled

Vendor adapters, prompts, search, the webview's rendering, hosts and tooling have no protocol
state of their own, or only inputs and outputs of the modelled parts; git, editors, browsers,
servers, embedders and vector stores are external. Of the modelled parts:

* *Persistence*: the file of API messages and its repair, rows that are stripped on resume, the saves
  of a reload after a failed stream, and updates of the task list by another window.
* *Writes*: the failing rollback (`safeWriteJson.ts:159`) and the rollback of a call that was robbed are in
  the model but outside `NeverLost`.
* *Code index*: more than two runs or one clear at a time, a second initialize that overtakes the first
  (`manager.ts:156`), the services that a run after an Error has for itself, files whose blocks fall
  into several batches, changed settings, search.
* *Checkpoints*: diffs, the truncation of the conversation after a restore.
* *Terminals*: retrieval and compression of output, working directories.
* *MCP hub*: project settings beside the global ones, the calls of tools.

Other components are listed in `PROJECT.json` with the reason for each.
