-------------------------- MODULE TaskConversation --------------------------
(***************************************************************************)
(* The conversation of one Task (src/core/task/Task.ts): the agent asks,   *)
(* the user answers or queues messages, and queued messages are handed to  *)
(* the agent when its turn is over.                                        *)
(*                                                                         *)
(* Two flows can run an agent turn: "main", started by startTask or        *)
(* resumeTaskFromHistory, and "drain", the loop of                         *)
(* processManualMessageQueue.  A turn asks through Task#ask, and so do the *)
(* output callbacks of a running command (Outs), concurrently.  An action  *)
(* is the code between two awaits.  User messages are numbered in the      *)
(* order they are typed.                                                   *)
(***************************************************************************)
EXTENDS Naturals, Sequences, FiniteSets

CONSTANTS
    Outs,            \* invocations of the onLine callback of execute_command
    MaxMsgs,         \* how many messages the user types
    MaxRequests,     \* how many provider requests one turn makes
    MaxTools,        \* how many tool calls one request makes
    AskTypes,        \* what the agent may ask in a turn
    Restored,        \* messages restoreMessages put in a resumed task's queue
    Resumed,         \* the task was created from a history item
    EagerUser,       \* the user may answer again before an answer is picked up
    EarlyUser,       \* the user may type before the first turn is counted
    Yolo,            \* follow-up questions are answered automatically
    EmptyReplies,    \* the provider may reply with nothing at all
    CommandTimeout   \* a command can be given up while it still prints

Turners == {"main", "drain"}
Askers == Turners \union Outs
Msgs == 1 .. MaxMsgs
NoMsg == 0
NoRow == "say"                  \* the latest interactive row is not an ask
NoResponse == [kind |-> "none", msg |-> NoMsg, meant |-> {}]

ASSUME TCAssumption ==
    /\ Outs \intersect (Turners \union {NoRow}) = {}
    /\ MaxMsgs \in Nat /\ MaxRequests \in Nat /\ MaxTools \in Nat
    /\ AskTypes \subseteq {"tool", "command", "followup", "completion_result"}
    /\ Restored \in 0 .. MaxMsgs
    /\ Resumed \in BOOLEAN /\ EagerUser \in BOOLEAN /\ EarlyUser \in BOOLEAN
    /\ Yolo \in BOOLEAN /\ EmptyReplies \in BOOLEAN /\ CommandTimeout \in BOOLEAN
    /\ ~Resumed => Restored = 0

VARIABLES
    aborted,         \* abort
    queue,           \* messageQueueService.messages
    response,        \* askResponse and askResponseText; `meant` is history
    waiting,         \* isWaitingForAskResponse
    live,            \* whose row lastMessageTs points to, or NoRow
    asks,            \* per asker: how far its Task#ask call is
    tpc,             \* per flow: how far it is; isStreaming and
                     \*   isProcessingManualMessages are read off it
    count,           \* taskRequestCount
    lockQ,           \* the taskRequestLock promise chain, holder first
    ready,           \* userMessageContentReady
    executed,        \* tool calls executed in the current request
    results,         \* their results present in userMessageContent
    requests,        \* provider requests of the current turn
    cmd,             \* the command in the terminal, as its onLine sees it
    held,            \* the message handleManualUserMessage is working on
    tick,            \* a setTimeout(processManualMessageQueue, 0) is pending
    history,         \* user messages in apiConversationHistory
    snapshot,        \* the history resumeTaskFromHistory has read
    typed,           \* history: how many messages were typed
    dispatched,      \* history: messages dequeued by the task, in order
    taken,           \* history: messages returned to a caller of Task#ask
    removed          \* history: messages the user took out of the queue

queueVars == <<queue, held, tick>>
askVars == <<response, waiting, live, asks>>
flowVars == <<tpc, count, lockQ>>
turnVars == <<ready, executed, results, requests, cmd>>
dataVars == <<history, snapshot>>
histVars == <<typed, dispatched, taken, removed>>
vars == <<aborted, queueVars, askVars, flowVars, turnVars, dataVars, histVars>>

NoAsk == [pc |-> "none", type |-> "none"]
AllAskTypes == AskTypes \union {"none", "resume_task", "command_output"}
MainPcs == {"start", "resume", "resumeAsk", "read", "overwrite", "enter", "ended"}
DrainPcs == {"idle", "checkpoint", "say"}
TurnPcs == {"lock", "prepare", "streaming", "tools", "asking", "command", "await"}

TypeOK ==
    /\ aborted \in BOOLEAN
    /\ queue \in Seq(Msgs)
    /\ response.kind \in {"none", "message", "yes", "no"}
    /\ response.msg \in Msgs \union {NoMsg}
    /\ response.meant \subseteq Askers
    /\ waiting \in BOOLEAN
    /\ live \in Askers \union {NoRow}
    /\ asks \in [Askers -> [pc : {"none", "stamp", "add", "shown", "wait"}, type : AllAskTypes]]
    /\ tpc \in [Turners -> MainPcs \union DrainPcs \union TurnPcs]
    /\ count \in 0 .. 2
    /\ lockQ \in Seq(Turners)
    /\ ready \in BOOLEAN
    /\ executed \in Nat /\ results \in Nat /\ requests \in Nat
    /\ cmd \in {"none", "running", "quiet"}
    /\ held \in Msgs \union {NoMsg}
    /\ tick \in BOOLEAN
    /\ history \in Seq(Msgs) /\ snapshot \in Seq(Msgs)
    /\ typed \in 0 .. MaxMsgs
    /\ dispatched \in Seq(Msgs)
    /\ taken \subseteq Msgs /\ removed \subseteq Msgs

Init ==
    /\ aborted = FALSE
    /\ queue = [i \in 1 .. Restored |-> i]
    /\ response = NoResponse
    /\ waiting = FALSE
    /\ live = NoRow
    /\ asks = [a \in Askers |-> NoAsk]
    /\ tpc = [main |-> IF Resumed THEN "resume" ELSE "start", drain |-> "idle"]
    /\ count = 0
    /\ lockQ = <<>>
    /\ ready = FALSE /\ executed = 0 /\ results = 0 /\ requests = 0
    /\ cmd = "none"
    /\ held = NoMsg
    /\ tick = FALSE
    /\ history = <<>> /\ snapshot = <<>>
    /\ typed = Restored
    /\ dispatched = <<>>
    /\ taken = {} /\ removed = {}

InTurn(t) == tpc[t] \in TurnPcs
Running(t) == tpc[t] \in TurnPcs \ {"lock"}
Moves(t, to) == tpc' = [tpc EXCEPT ![t] = to]

----------------------------------------------------------------------------
(* The message queue and its draining                                      *)

\* isTaskIdleForQueuedMessages, with the values its caller has just written.
IsIdle(n, w, tp) == /\ n = 0
                    /\ ~w
                    /\ \A t \in Turners : tp[t] # "streaming"

\* Mutant: the message is sent but stays in the visible queue.
DequeuePeek(q) == /\ queue' = q
                  /\ dispatched' = Append(dispatched, Head(q))

\* Mutant: pop() for shift().
DequeueLast(q) == /\ queue' = SubSeq(q, 1, Len(q) - 1)
                  /\ dispatched' = Append(dispatched, q[Len(q)])

Dequeue(q) == /\ queue' = Tail(q)
              /\ dispatched' = Append(dispatched, Head(q))

\* processManualMessageQueue up to its first await: nothing while it is
\* already draining, the queue is empty or the agent is not idle.
ProcessQueue(q, n, w, tp) ==
    \/ /\ tp["drain"] = "idle" /\ q # <<>> /\ IsIdle(n, w, tp)
       /\ Dequeue(q)
       /\ held' = dispatched'[Len(dispatched')]
       /\ tpc' = [tp EXCEPT !["drain"] = "checkpoint"]
    \/ /\ ~(tp["drain"] = "idle" /\ q # <<>> /\ IsIdle(n, w, tp))
       /\ queue' = q
       /\ tpc' = tp
       /\ UNCHANGED <<held, dispatched>>

\* checkpointSave has returned; say("user_feedback") starts.
DrainCheckpointed ==
    /\ tpc["drain"] = "checkpoint"
    /\ Moves("drain", "say")
    /\ live' = IF aborted THEN live ELSE NoRow
    /\ UNCHANGED <<aborted, queueVars, response, waiting, asks, count, lockQ, turnVars,
                   dataVars, histVars>>

\* The row is saved: the content of the last turn is dropped and a turn of its
\* own is requested for the message.
DrainSends ==
    /\ tpc["drain"] = "say"
    /\ ready' = FALSE /\ results' = 0
    /\ count' = count + 1
    /\ lockQ' = Append(lockQ, "drain")
    /\ Moves("drain", "lock")
    /\ UNCHANGED <<aborted, queueVars, askVars, executed, requests, cmd, dataVars,
                   histVars>>

\* The timer of processQueuedMessages fires.
QueueTick ==
    /\ tick
    /\ tick' = FALSE
    /\ ProcessQueue(queue, count, waiting, tpc)
    /\ UNCHANGED <<aborted, askVars, count, lockQ, turnVars, dataVars, typed, taken,
                   removed>>

----------------------------------------------------------------------------
(* Task#ask                                                                *)

\* An answer names no ask.  It is meant for the ask whose row is the latest; an ask
\* that has cleared the answer fields and awaits its timestamp keeps it too.
Stamping == {a \in Askers : asks[a].pc = "stamp"}
AnswerTo(kind, m, a) ==
    response' = [kind |-> kind, msg |-> m, meant |-> Stamping \union ({a} \ {NoRow})]
Respond(kind, m) == AnswerTo(kind, m, live)
HasResponse == response.kind # "none"
AskMoves(a, from, to) == asks[a].pc = from /\ asks' = [asks EXCEPT ![a].pc = to]

\* Mutant: what an earlier ask left behind is not cleared.
BeginAskUncleared(a, type) ==
    /\ ~aborted /\ asks[a].pc = "none"
    /\ asks' = [asks EXCEPT ![a] = [pc |-> "stamp", type |-> type]]
    /\ UNCHANGED response

\* ask() clears the previous response and awaits a fresh timestamp.
BeginAsk(a, type) ==
    /\ ~aborted /\ asks[a].pc = "none"
    /\ asks' = [asks EXCEPT ![a] = [pc |-> "stamp", type |-> type]]
    /\ response' = NoResponse

\* The timestamp is taken: the row is appended and supersedes any older ask.
AskStamp(a) ==
    /\ AskMoves(a, "stamp", "add")
    /\ live' = a
    /\ UNCHANGED <<aborted, queueVars, response, waiting, flowVars, turnVars, dataVars,
                   histVars>>

\* askApproval's setImmediate approves every tool that is not a command.
AutoApprove(a) ==
    /\ asks[a].type = "tool"
    /\ AskMoves(a, "add", "shown")
    /\ AnswerTo("yes", NoMsg, a)
    /\ UNCHANGED <<aborted, queueVars, waiting, live, flowVars, turnVars, dataVars,
                   histVars>>

\* Mutant: any ask that blocks takes the head of the queue for an answer.
IsCompletionAnyAsk(a) == asks[a].type # "none"

IsCompletion(a) == asks[a].type = "completion_result"   \* isCompletionQueueBoundary

\* The row is saved and ask() starts to wait.  A completion ask that would
\* block answers itself with the head of the queue.
AskWait(a) ==
    /\ AskMoves(a, IF asks[a].type = "tool" THEN "shown" ELSE "add", "wait")
    /\ waiting' = TRUE
    /\ \/ /\ IsCompletion(a) /\ ~HasResponse /\ live = a /\ queue # <<>>
          /\ Dequeue(queue)
          /\ Respond("message", Head(queue))
       \/ /\ ~(IsCompletion(a) /\ ~HasResponse /\ live = a /\ queue # <<>>)
          /\ UNCHANGED <<queue, response, dispatched>>
    /\ UNCHANGED <<aborted, held, tick, live, flowVars, turnVars, dataVars, typed, taken,
                   removed>>

\* Mutant: a rejected tool call gets no result.
AfterAskNoResult(t, kind) ==
    IF asks[t].type = "command" /\ kind = "yes"
    THEN /\ cmd' = "running"
         /\ UNCHANGED <<ready, executed, results, requests>>
    ELSE /\ executed' = executed + 1
         /\ results' = IF kind = "no" THEN results ELSE results + 1
         /\ UNCHANGED <<ready, requests, cmd>>

\* What a turn does with a settled ask: a tool result is pushed, or the
\* approved command is started.
AfterAsk(t, kind) ==
    IF asks[t].type = "command" /\ kind = "yes"
    THEN /\ cmd' = "running"
         /\ UNCHANGED <<ready, executed, results, requests>>
    ELSE /\ executed' = executed + 1 /\ results' = results + 1
         /\ UNCHANGED <<ready, requests, cmd>>

NextPc(t, kind) ==
    IF tpc[t] = "resumeAsk" THEN (IF kind = "none" THEN "ended" ELSE "read")
    ELSE IF asks[t].type = "command" /\ kind = "yes" THEN "command" ELSE "tools"

\* The caller goes on: a flow of the task, or the onLine callback, which asks
\* no more (runInBackground, process.continue()).
Resumes(a, kind) ==
    IF a \in Outs
    THEN /\ cmd' = IF kind # "none" /\ cmd = "running" THEN "quiet" ELSE cmd
         /\ UNCHANGED <<ready, executed, results, requests>>
    ELSE IF tpc[a] = "resumeAsk" THEN UNCHANGED turnVars
    ELSE AfterAsk(a, kind)

TpcAfter(a, kind) ==
    IF a \in Outs THEN tpc ELSE [tpc EXCEPT ![a] = NextPc(a, kind)]

\* "Current ask promise was ignored": a later row superseded this ask.  A tool
\* reports the error with a row of its own.
AskIgnored(a) ==
    /\ asks[a].pc = "wait" /\ live # a
    /\ asks' = [asks EXCEPT ![a] = NoAsk]
    /\ waiting' = FALSE
    /\ live' = IF a \in Outs \/ asks[a].type = "tool" \/ aborted THEN live ELSE NoRow
    /\ response' = [response EXCEPT !.meant = @ \ {a}]
    /\ tpc' = TpcAfter(a, "none")
    /\ Resumes(a, "none")
    /\ UNCHANGED <<aborted, queueVars, count, lockQ, dataVars, histVars>>

\* The poll sees the response: ask() returns it and looks at the queue.  A
\* message is echoed as user_feedback, which supersedes other asks.
AskTake(a) ==
    /\ asks[a].pc = "wait" /\ live = a /\ HasResponse
    /\ asks' = [asks EXCEPT ![a] = NoAsk]
    /\ waiting' = FALSE
    /\ response' = NoResponse
    /\ taken' = (taken \union {response.msg}) \ {NoMsg}
    /\ live' = IF response.kind = "message" /\ a \notin Outs /\ ~aborted THEN NoRow ELSE live
    /\ Resumes(a, response.kind)
    /\ ProcessQueue(queue, count, FALSE, TpcAfter(a, response.kind))
    /\ tick' = (tick \/ (asks[a].type = "command" /\ response.kind # "yes" /\ queue # <<>>))
    /\ UNCHANGED <<aborted, count, lockQ, dataVars, typed, removed>>

\* YOLO mode answers a follow-up question before it waits.
YoloAnswer(a) ==
    /\ Yolo /\ asks[a] = [pc |-> "add", type |-> "followup"]
    /\ asks' = [asks EXCEPT ![a] = NoAsk]
    /\ response' = NoResponse
    /\ live' = IF aborted THEN live ELSE NoRow
    /\ Resumes(a, "message")
    /\ tpc' = TpcAfter(a, "message")
    /\ UNCHANGED <<aborted, queueVars, waiting, count, lockQ, dataVars, histVars>>

AskStep(a) == AskStamp(a) \/ AutoApprove(a) \/ AskWait(a) \/ AskIgnored(a)
              \/ AskTake(a) \/ YoloAnswer(a)

----------------------------------------------------------------------------
(* The webview                                                             *)

\* Mutant: an answer that is already there is not respected.
CanDispatchAlways(q) == /\ waiting /\ q # <<>>
                        /\ live \in Askers
                        /\ IsCompletion(live) /\ asks[live].pc \in {"add", "wait"}

\* dispatchQueuedMessageToPendingCompletion may give the head of q to a
\* completion ask that is already on screen.
CanDispatch(q) == /\ waiting /\ ~HasResponse /\ q # <<>>
                  /\ live \in Askers
                  /\ IsCompletion(live) /\ asks[live].pc \in {"add", "wait"}

\* processQueuedMessages
ProcessQueuedMessages(q) ==
    \/ /\ CanDispatch(q)
       /\ Dequeue(q)
       /\ Respond("message", Head(q))
       /\ UNCHANGED tick
    \/ /\ ~CanDispatch(q)
       /\ queue' = q
       /\ tick' = (tick \/ q # <<>>)
       /\ UNCHANGED <<response, dispatched>>

\* The task is in the webview once its first row is posted; the turn is
\* counted a little later (the row is being saved).
Type(m) == /\ ~aborted
           /\ tpc["main"] # "start" /\ (EarlyUser \/ tpc["main"] # "enter")
           /\ typed < MaxMsgs /\ m = typed + 1
           /\ typed' = m

\* Case "queueMessage" of webviewMessageHandler.
UserQueues(m) ==
    /\ Type(m)
    /\ ProcessQueuedMessages(Append(queue, m))
    /\ UNCHANGED <<aborted, held, waiting, live, asks, flowVars, turnVars, dataVars, taken,
                   removed>>

\* Case "removeQueuedMessage".
UserRemoves(i) ==
    /\ ~aborted /\ i \in DOMAIN queue
    /\ queue' = SubSeq(queue, 1, i - 1) \o SubSeq(queue, i + 1, Len(queue))
    /\ removed' = removed \union {queue[i]}
    /\ UNCHANGED <<aborted, held, tick, askVars, flowVars, turnVars, dataVars, typed,
                   dispatched, taken>>

OnScreen(types) == /\ live \in Askers
                   /\ asks[live].pc \in {"add", "shown", "wait"}
                   /\ asks[live].type \in types

\* The webview answers the ask on screen, and once only unless EagerUser.
MayAnswer(types) == ~aborted /\ OnScreen(types) /\ (EagerUser \/ ~HasResponse)

\* With no ask on screen the text field starts a new message.
MayWrite == ~aborted /\ live = NoRow /\ (EagerUser \/ count = 0)

\* Case "askResponse" with messageResponse: an answer if an ask is waiting,
\* otherwise a queued message (handleWebviewAskResponse).
UserAnswers(m) ==
    /\ \/ MayAnswer({"followup", "command_output", "completion_result", "resume_task"})
       \/ MayWrite
    /\ Type(m)
    /\ \/ /\ waiting
          /\ Respond("message", m)
          /\ UNCHANGED <<queue, held, tpc, dispatched>>
       \/ /\ ~waiting
          /\ ProcessQueue(Append(queue, m), count, waiting, tpc)
          /\ UNCHANGED response
    /\ UNCHANGED <<aborted, tick, waiting, live, asks, count, lockQ, turnVars, dataVars,
                   taken, removed>>

\* A suggestion of a follow-up question is picked.
UserPicks ==
    /\ MayAnswer({"followup"}) /\ waiting
    /\ Respond("message", NoMsg)
    /\ UNCHANGED <<aborted, queueVars, waiting, live, asks, flowVars, turnVars, dataVars,
                   histVars>>

Approve(types) ==
    /\ MayAnswer(types)
    /\ Respond("yes", NoMsg)
    /\ UNCHANGED <<aborted, queueVars, waiting, live, asks, flowVars, turnVars, dataVars,
                   histVars>>

\* The primary button of the ask on screen.  (On a completion it closes the
\* task, on command output it lets the process go on by itself.)
UserApproves == Approve({"command", "resume_task"})

\* approveAsk from the remote bridge reaches the other asks as well.
BridgeApproves == Approve({"completion_result", "command_output"})

\* Rejecting a command, with or without feedback; the feedback is queued.
UserRejects(m) ==
    /\ MayAnswer({"command"})
    /\ Respond("no", NoMsg)
    /\ \/ m = NoMsg /\ UNCHANGED <<queue, held, tpc, typed, dispatched>>
       \/ Type(m) /\ ProcessQueue(Append(queue, m), count, waiting, tpc)
    /\ UNCHANGED <<aborted, tick, waiting, live, asks, count, lockQ, turnVars, dataVars,
                   taken, removed>>

\* abortTask: dispose() empties the queue.
Abort ==
    /\ ~aborted
    /\ aborted' = TRUE
    /\ queue' = <<>>
    /\ UNCHANGED <<held, tick, askVars, flowVars, turnVars, dataVars, histVars>>

User == \/ \E m \in Msgs : UserQueues(m) \/ UserAnswers(m)
        \/ \E m \in Msgs \union {NoMsg} : UserRejects(m)
        \/ \E i \in 1 .. MaxMsgs : UserRemoves(i)
        \/ UserPicks \/ UserApproves \/ BridgeApproves \/ Abort

----------------------------------------------------------------------------
(* How the main flow gets to its turn                                      *)

\* startTask: the task text is shown before the loop is entered.
StartTask ==
    /\ tpc["main"] = "start"
    /\ live' = IF aborted THEN live ELSE NoRow
    /\ Moves("main", IF aborted THEN "ended" ELSE "enter")
    /\ UNCHANGED <<aborted, queueVars, response, waiting, asks, count, lockQ, turnVars,
                   dataVars, histVars>>

\* resumeTaskFromHistory asks whether to resume.
ResumeAsk ==
    /\ tpc["main"] = "resume"
    /\ \/ BeginAsk("main", "resume_task") /\ Moves("main", "resumeAsk")
       \/ aborted /\ Moves("main", "ended") /\ UNCHANGED <<response, asks>>
    /\ UNCHANGED <<aborted, queueVars, waiting, live, count, lockQ, turnVars, dataVars,
                   histVars>>

ReadHistory ==
    /\ tpc["main"] = "read"
    /\ snapshot' = history
    /\ Moves("main", "overwrite")
    /\ UNCHANGED <<aborted, queueVars, askVars, count, lockQ, turnVars, history, histVars>>

\* overwriteApiConversationHistory with the repaired copy of what was read.
OverwriteHistory ==
    /\ tpc["main"] = "overwrite"
    /\ history' = snapshot
    /\ Moves("main", "enter")
    /\ UNCHANGED <<aborted, queueVars, askVars, count, lockQ, turnVars, snapshot, histVars>>

\* Mutant: the turn is not counted.
MainEntersUncounted ==
    /\ tpc["main"] = "enter"
    /\ Moves("main", "lock")
    /\ lockQ' = Append(lockQ, "main")
    /\ UNCHANGED <<aborted, queueVars, askVars, count, turnVars, dataVars, histVars>>

\* initiateTaskLoop: recursivelyMakeClineRequests counts and queues the turn.
MainEnters ==
    /\ tpc["main"] = "enter"
    /\ \/ /\ aborted /\ Moves("main", "ended") /\ UNCHANGED <<count, lockQ>>
       \/ /\ ~aborted /\ Moves("main", "lock")
          /\ count' = count + 1
          /\ lockQ' = Append(lockQ, "main")
    /\ UNCHANGED <<aborted, queueVars, askVars, turnVars, dataVars, histVars>>

----------------------------------------------------------------------------
(* An agent turn (makeClineRequestsUnlocked)                               *)

\* Mutant: the previous turn is not awaited.
HasLockAtOnce(t) == \E i \in DOMAIN lockQ : lockQ[i] = t

HasLock(t) == lockQ # <<>> /\ Head(lockQ) = t

\* The lock is granted; say("api_req_started") supersedes any ask.
TurnBegins(t) ==
    /\ tpc[t] = "lock" /\ HasLock(t) /\ ~aborted
    /\ live' = NoRow
    /\ requests' = 0
    /\ Moves(t, "prepare")
    /\ UNCHANGED <<aborted, queueVars, response, waiting, asks, count, lockQ, ready,
                   executed, results, cmd, dataVars, histVars>>

\* The context is gathered, the user content recorded, the streaming state
\* reset, and the request goes out.
RequestSent(t) ==
    /\ tpc[t] = "prepare" /\ ~aborted
    /\ history' = IF t = "drain" /\ held # NoMsg THEN Append(history, held) ELSE history
    /\ held' = IF t = "drain" THEN NoMsg ELSE held
    /\ ready' = FALSE /\ executed' = 0 /\ results' = 0
    /\ requests' = requests + 1
    /\ Moves(t, "streaming")
    /\ UNCHANGED <<aborted, queue, tick, askVars, count, lockQ, cmd, snapshot, histVars>>

\* The stream ends; processManualMessageQueue is called but the turn goes on.
StreamEnds(t) ==
    /\ tpc[t] = "streaming"
    /\ ProcessQueue(queue, count, waiting, [tpc EXCEPT ![t] = "tools"])
    /\ UNCHANGED <<aborted, tick, askVars, count, lockQ, turnVars, dataVars, typed, taken,
                   removed>>

\* presentAssistantMessage reaches a tool call, which asks.
UseTool(t) ==
    /\ tpc[t] = "tools" /\ executed < MaxTools /\ requests < MaxRequests
    /\ \E type \in AskTypes : BeginAsk(t, type)
    /\ Moves(t, "asking")
    /\ UNCHANGED <<aborted, queueVars, waiting, live, count, lockQ, turnVars, dataVars,
                   histVars>>

\* The running command prints: onLine asks to go on in the background.
CommandOutput(o) ==
    /\ cmd = "running"
    /\ BeginAsk(o, "command_output")
    /\ UNCHANGED <<aborted, queueVars, waiting, live, flowVars, turnVars, dataVars,
                   histVars>>

\* The command is over or is left to itself, and its result is pushed.  After a
\* timeout the process may print a little longer.
CommandReturns(t) ==
    /\ tpc[t] = "command"
    /\ cmd' \in IF CommandTimeout THEN {"none", cmd} ELSE {"none"}
    /\ executed' = executed + 1 /\ results' = results + 1
    /\ Moves(t, "tools")
    /\ UNCHANGED <<aborted, queueVars, askVars, count, lockQ, ready, requests, dataVars,
                   histVars>>

CommandDies ==
    /\ cmd # "none" /\ \A t \in Turners : tpc[t] # "command"
    /\ cmd' = "none"
    /\ UNCHANGED <<aborted, queueVars, askVars, flowVars, ready, executed, results,
                   requests, dataVars, histVars>>

\* The last content block is presented.
PresentationEnds(t) ==
    /\ tpc[t] = "tools"
    /\ ready' = TRUE
    /\ Moves(t, "await")
    /\ UNCHANGED <<aborted, queueVars, askVars, count, lockQ, executed, results, requests,
                   cmd, dataVars, histVars>>

\* The wait for all tool results is over and there are some to send.
NextRequest(t) ==
    /\ tpc[t] = "await" /\ ready /\ executed > 0 /\ results >= executed /\ ~aborted
    /\ Moves(t, "prepare")
    /\ live' = NoRow
    /\ UNCHANGED <<aborted, queueVars, response, waiting, asks, count, lockQ, turnVars,
                   dataVars, histVars>>

TurnIsOver(t) ==
    \/ tpc[t] = "await" /\ ready /\ (executed = 0 \/ aborted)
    \/ tpc[t] = "lock" /\ HasLock(t) /\ aborted
    \/ tpc[t] \in {"prepare", "tools"} /\ aborted

\* Mutant: the queue is not looked at when the turn ends.
TurnEndsQuietly(t) ==
    /\ TurnIsOver(t)
    /\ count' = count - 1
    /\ lockQ' = Tail(lockQ)
    /\ Moves(t, IF t = "main" THEN "ended" ELSE "idle")
    /\ held' = IF t = "drain" THEN NoMsg ELSE held
    /\ UNCHANGED <<aborted, queue, tick, askVars, turnVars, dataVars, histVars>>

\* finally: the turn is uncounted, the lock handed on and the queue looked at.
Unwinds(t, to) ==
    /\ count' = count - 1
    /\ lockQ' = Tail(lockQ)
    /\ ProcessQueue(queue, count - 1, waiting, [tpc EXCEPT ![t] = to])

TurnEnds(t) ==
    /\ TurnIsOver(t)
    /\ Unwinds(t, IF t = "main" THEN "ended" ELSE "idle")
    /\ UNCHANGED <<aborted, tick, askVars, turnVars, dataVars, typed, taken, removed>>

\* The provider replied nothing: say("error"), and `return false` makes
\* initiateTaskLoop request once more.
EmptyReply(t) ==
    /\ EmptyReplies /\ tpc[t] = "tools" /\ executed = 0 /\ ~aborted
    /\ live' = NoRow
    /\ Unwinds(t, IF t = "main" THEN "enter" ELSE "idle")
    /\ UNCHANGED <<aborted, tick, response, waiting, asks, turnVars, dataVars, typed, taken,
                   removed>>

TurnStep(t) == TurnBegins(t) \/ RequestSent(t) \/ StreamEnds(t) \/ UseTool(t)
               \/ CommandReturns(t) \/ PresentationEnds(t) \/ NextRequest(t) \/ TurnEnds(t)
               \/ EmptyReply(t)

Task == \/ StartTask \/ ResumeAsk \/ ReadHistory \/ OverwriteHistory \/ MainEnters
        \/ DrainCheckpointed \/ DrainSends \/ QueueTick
        \/ \E t \in Turners : TurnStep(t)
        \/ \E o \in Outs : CommandOutput(o)
        \/ CommandDies
        \/ \E a \in Askers : AskStep(a)

Next == Task \/ User

Spec == Init /\ [][Next]_vars

\* Every flow of the task goes on, and the user answers what is on screen.
FairSpec ==
    /\ Spec
    /\ WF_vars(StartTask) /\ WF_vars(ResumeAsk) /\ WF_vars(ReadHistory)
    /\ WF_vars(OverwriteHistory) /\ WF_vars(MainEnters)
    /\ WF_vars(DrainCheckpointed) /\ WF_vars(DrainSends) /\ WF_vars(QueueTick)
    /\ \A t \in Turners : WF_vars(TurnStep(t))
    /\ \A a \in Askers : WF_vars(AskStep(a))
    /\ WF_vars(CommandDies)
    /\ WF_vars(UserPicks \/ UserApproves)

----------------------------------------------------------------------------
(* Properties                                                              *)

\* makeClineRequestsUnlocked runs for one flow at a time (Task.ts:395-398).
OneTurnAtATime == \A t, u \in Turners : Running(t) /\ Running(u) => t = u

\* taskRequestCount spans the complete agent turn (queueLifecycle.ts:8): while
\* the queue may be drained no turn is under way or waiting for its lock.
IdleMeansNoTurn == IsIdle(count, waiting, tpc) => \A t \in Turners : ~InTurn(t)

\* Messages leave the queue in the order in which they were typed.
QueueInOrder == LET s == dispatched \o queue
                IN  \A i, j \in DOMAIN s : i < j => s[i] < s[j]

Items(s) == {s[i] : i \in DOMAIN s}
Held(m) == held = m /\ tpc["drain"] \in {"checkpoint", "say", "lock", "prepare"}

\* A message is in one place: queued, on its way, an answer, or sent.
NothingTwice ==
    /\ \A m \in Msgs :
          Cardinality({p \in {"queue", "held", "response", "taken", "history"} :
                          \/ p = "queue" /\ m \in Items(queue)
                          \/ p = "held" /\ Held(m)
                          \/ p = "response" /\ response.msg = m
                          \/ p = "taken" /\ m \in taken
                          \/ p = "history" /\ m \in Items(history)}) <= 1
    /\ \A i, j \in DOMAIN history : history[i] = history[j] => i = j

\* No message the user typed disappears while the task lives (Task.spec.ts:2209).
NothingDropped ==
    ~aborted => \A m \in 1 .. typed :
        \/ m \in Items(queue) \/ Held(m) \/ response.msg = m
        \/ m \in taken \/ m \in Items(history) \/ m \in removed

\* A queued message is handed out only at a completion ask or while no turn is
\* under way (queueLifecycle.ts:3-5, Task.ts:1250-1254).
QueueOnlyAtBoundary ==
    [][Len(dispatched') > Len(dispatched) =>
          \/ OnScreen({"completion_result"}) \/ OnScreen({"completion_result"})'
          \/ \A t \in Turners : ~InTurn(t)']_vars

\* What settles an ask of a turn was given to the row of that ask: neither a click
\* on command output nor the approval of a tool approves a command whose row is up.
\* The one gap is the await of the timestamp (Task.ts:1026-1034, 1199), when a click
\* on the row that is still shown is kept for the ask that is about to replace it.
NoStaleAnswer ==
    [][\A t \in Turners :
          (asks[t].pc = "wait" /\ asks'[t].pc = "none" /\ live = t /\ asks[t].type # "resume_task")
              => t \in response.meant]_vars

\* A message sent to the agent stays in the conversation history.
HistoryKept == [][\A i \in DOMAIN history : i \in DOMAIN history' /\ history'[i] = history[i]]_vars

\* The queue empties if the user answers what the agent asks.
QueueDrains == queue # <<>> ~> (queue = <<>> \/ aborted)

\* A turn comes to its end or stands at its completion ask: the wait for its
\* tool results resolves (Task.ts:3438-3441).
TurnsFinish ==
    \A t \in Turners : InTurn(t) ~> (~InTurn(t) \/ aborted \/ OnScreen({"completion_result"}))
=============================================================================
