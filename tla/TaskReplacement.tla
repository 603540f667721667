--------------------------- MODULE TaskReplacement ---------------------------
(***************************************************************************)
(* What becomes of the user's messages while the instance of a task is     *)
(* replaced: by cancelTask, by a queued message that is sent by force, or  *)
(* because its stream failed.  The order of the messages and the turns are *)
(* those of TaskConversation; the tabs are those of TaskStacks.            *)
(***************************************************************************)
EXTENDS Naturals, FiniteSets

CONSTANTS Texts, Ops, MaxInstances, Moves, NoMsg

ASSUME ReplacementAssumption ==
    MaxInstances \in Nat \ {0} /\ Moves \in Nat /\ NoMsg \notin Texts

VARIABLES
    shown,   \* getCurrentTask: an instance, Home for none, Other for another task
    stashed, \* the instance that was left for another task, or Home
    used,    \* instances made so far
    task,    \* per instance: whether it lives, its resume prompt, its turn
    queue,   \* messageQueueService, as a set
    hand,    \* messages taken out of the queue and not yet in the conversation
    answer,  \* askResponse, until the ask polls it
    ops,     \* cancellations and reloads under way
    poller,  \* checkAndSend: the instance a forced message waits for
    sent, taken, \* messages the user sent, and how often each was taken
    gaps,    \* history: messages that met one of the gaps named below
    moves

replaceVars == <<shown, stashed, used, task, queue, hand, answer, ops, poller, sent, taken,
                 gaps, moves>>

Instances == 1..MaxInstances
Home == 0
Other == MaxInstances + 1
Unborn == [alive |-> FALSE, resume |-> "loading", turn |-> "idle"]
NoOp == [kind |-> "none", at |-> "none", task |-> Home, snap |-> {}, msg |-> NoMsg]

ReplacementTypeOK ==
    /\ shown \in 0..Other /\ stashed \in 0..MaxInstances /\ used \in Instances
    /\ task \in [Instances -> [alive : BOOLEAN, resume : {"loading", "asking", "done"},
                           turn : {"idle", "submitting", "running"}]]
    /\ queue \in [Instances -> SUBSET Texts]
    /\ hand \in [Instances -> SUBSET Texts] /\ answer \in [Instances -> SUBSET Texts]
    /\ ops \in [Ops -> [kind : {"none", "cancel", "failure"}, at : {"none", "read", "wait", "create", "restore"},
                        task : 0..MaxInstances, snap : SUBSET Texts, msg : Texts \union {NoMsg}]]
    /\ poller \in [Texts -> 0..MaxInstances]
    /\ sent \subseteq Texts /\ taken \in [Texts -> Nat] /\ gaps \subseteq Texts
    /\ moves \in 0..Moves

\* A task whose first turn runs.
ReplaceInit == /\ shown = 1 /\ stashed = Home /\ used = 1
               /\ task = [i \in Instances |-> IF i = 1 THEN [alive |-> TRUE, resume |-> "done", turn |-> "running"]
                                          ELSE Unborn]
               /\ queue = [i \in Instances |-> {}]
               /\ hand = [i \in Instances |-> {}] /\ answer = [i \in Instances |-> {}]
               /\ ops = [o \in Ops |-> NoOp]
               /\ poller = [m \in Texts |-> Home]
               /\ sent = {} /\ taken = [m \in Texts |-> 0] /\ gaps = {}
               /\ moves = Moves

Snapshots == UNION {ops[o].snap : o \in Ops}
Waiting(i) == task[i].resume = "asking"
IsIdle(i) == task[i].turn = "idle" /\ ~Waiting(i)
Take(msgs) == taken' = [m \in Texts |-> IF m \in msgs THEN taken[m] + 1 ELSE taken[m]]
\* A snapshot has been taken, and the instance will be removed.
Replacing(i) == \E o \in Ops : ops[o].at = "read" /\ ops[o].task = i
\* One more replacement is within the bounds.
RoomForOne == used + Cardinality({o \in Ops : ops[o].at \in {"read", "wait", "create"}}) < MaxInstances

----------------------------------------------------------------------------
(* One instance                                                            *)

\* processManualMessageQueue of an idle instance: one message is submitted.
\* Gap: one that a snapshot holds too will be submitted twice.
Drain(i, q, late) == \E m \in q : /\ queue' = [queue EXCEPT ![i] = q \ {m}]
                                  /\ hand' = [hand EXCEPT ![i] = {m}]
                                  /\ task' = [task EXCEPT ![i].turn = "submitting"]
                                  /\ gaps' = gaps \union late \union ({m} \cap Snapshots)

\* What an abort leaves undone.  Gaps: what was between the queue and the
\* conversation, and what polls this instance.
Abort(i, lost) ==
    /\ task' = [task EXCEPT ![i].alive = FALSE]
    /\ queue' = [queue EXCEPT ![i] = {}]
    /\ hand' = [hand EXCEPT ![i] = {}] /\ answer' = [answer EXCEPT ![i] = {}]
    /\ poller' = [m \in Texts |-> IF poller[m] = i THEN Home ELSE poller[m]]
    /\ gaps' = gaps \union lost \union hand[i] \union answer[i] \union {m \in Texts : poller[m] = i}

\* queueMessage.  Gap: an instance that is dead, or about to be replaced.
QueueMessage(m) ==
    /\ m \notin sent /\ shown \in Instances
    /\ sent' = sent \union {m}
    /\ LET late == IF ~task[shown].alive \/ Replacing(shown) THEN {m} ELSE {} IN
       \/ ~task[shown].alive /\ gaps' = gaps \union late /\ UNCHANGED <<task, queue, hand>>
       \/ task[shown].alive /\ IsIdle(shown) /\ Drain(shown, queue[shown] \union {m}, late)
       \/ /\ task[shown].alive /\ ~IsIdle(shown)
          /\ queue' = [queue EXCEPT ![shown] = @ \union {m}]
          /\ gaps' = gaps \union late
          /\ UNCHANGED <<task, hand>>
    /\ UNCHANGED <<shown, stashed, used, answer, ops, poller, taken, moves>>

\* Gap: a second response replaces the first until the ask polls.
Respond(i, m) == /\ answer' = [answer EXCEPT ![i] = {m}]
                 /\ gaps' = gaps \union answer[i]

\* The resume prompt is answered with a message.
AnswerPrompt(m) ==
    /\ m \notin sent /\ shown \in Instances
    /\ task[shown].alive /\ Waiting(shown)
    /\ sent' = sent \union {m}
    /\ Respond(shown, m)
    /\ UNCHANGED <<shown, stashed, used, task, queue, hand, ops, poller, taken, moves>>

\* Mutant: a prompt of a state the ask does not know.
LoadedReady(i) == /\ task[i].alive /\ task[i].resume = "loading"
                  /\ task' = [task EXCEPT ![i].resume = "ready"]
                  /\ UNCHANGED <<shown, stashed, used, queue, hand, answer, ops, poller, sent,
                                 taken, gaps, moves>>

Loaded(i) == /\ task[i].alive /\ task[i].resume = "loading"
             /\ task' = [task EXCEPT ![i].resume = "asking"]
             /\ UNCHANGED <<shown, stashed, used, queue, hand, answer, ops, poller, sent, taken,
                            gaps, moves>>

\* The prompt returns, then drains the queue beside the loop it starts.  Gap: a
\* forced message that finds the prompt answered waits for some later ask.
PromptReturns(i) ==
    /\ task[i].alive /\ Waiting(i) /\ answer[i] # {}
    /\ Take(answer[i])
    /\ answer' = [answer EXCEPT ![i] = {}]
    /\ poller' = [m \in Texts |-> IF poller[m] = i THEN Home ELSE poller[m]]
    /\ LET late == {m \in Texts : poller[m] = i} IN
       \/ /\ task[i].turn = "idle"
          /\ \E m \in queue[i] : /\ queue' = [queue EXCEPT ![i] = @ \ {m}]
                                 /\ hand' = [hand EXCEPT ![i] = {m}]
                                 /\ gaps' = gaps \union late \union ({m} \cap Snapshots)
          /\ task' = [task EXCEPT ![i].resume = "done", ![i].turn = "submitting"]
       \/ /\ task[i].turn = "idle" => queue[i] = {}
          /\ task' = [task EXCEPT ![i].resume = "done",
                                  ![i].turn = IF @ = "idle" THEN "running" ELSE @]
          /\ gaps' = gaps \union late
          /\ UNCHANGED <<queue, hand>>
    /\ UNCHANGED <<shown, stashed, used, ops, sent, moves>>

\* After a checkpoint the message becomes part of the conversation.
Submitted(i) == /\ task[i].alive /\ task[i].turn = "submitting"
                /\ Take(hand[i])
                /\ hand' = [hand EXCEPT ![i] = {}]
                /\ task' = [task EXCEPT ![i].turn = "running"]
                /\ UNCHANGED <<shown, stashed, used, queue, answer, ops, poller, sent, gaps, moves>>

TurnEnds(i) == /\ task[i].alive /\ task[i].turn = "running"
               /\ IF queue[i] # {} /\ ~Waiting(i)
                  THEN Drain(i, queue[i], {})
                  ELSE task' = [task EXCEPT ![i].turn = "idle"] /\ UNCHANGED <<queue, hand, gaps>>
               /\ UNCHANGED <<shown, stashed, used, answer, ops, poller, sent, taken, moves>>

----------------------------------------------------------------------------
(* Replacing it                                                            *)

\* Mutant: a forced message stays in the queue.
BeginCancelKeeps(o, m) ==
    /\ shown \in Instances /\ moves > 0 /\ ops[o] = NoOp /\ RoomForOne
    /\ moves' = moves - 1
    /\ ops' = [ops EXCEPT ![o] = [kind |-> "cancel", at |-> "read", task |-> shown,
                                  snap |-> queue[shown], msg |-> m]]

\* cancelTask, up to its first await; m is the message to be sent by force.
BeginCancel(o, m) ==
    /\ shown \in Instances /\ moves > 0 /\ ops[o] = NoOp /\ RoomForOne
    /\ moves' = moves - 1
    /\ ops' = [ops EXCEPT ![o] = [kind |-> "cancel", at |-> "read", task |-> shown,
                                  snap |-> queue[shown] \ {m}, msg |-> m]]

Cancel(o) == /\ BeginCancel(o, NoMsg)
             /\ UNCHANGED <<shown, stashed, used, task, queue, hand, answer, poller, sent,
                            taken, gaps>>

\* Gap: a cancellation that reads its history has the message in its snapshot.
ForceSend(o, m) == /\ BeginCancel(o, m) /\ m \in queue[shown]
                   /\ queue' = [queue EXCEPT ![shown] = @ \ {m}]
                   /\ gaps' = gaps \union ({m} \cap Snapshots)
                   /\ UNCHANGED <<shown, stashed, used, task, hand, answer, poller, sent, taken>>

\* The stream fails: onTaskAborted takes its snapshot, then the instance is
\* disposed of.  Gap: that of an instance that is not on screen is not reloaded.
StreamFails(o, i) ==
    /\ task[i].alive /\ task[i].turn = "running" /\ ops[o] = NoOp /\ RoomForOne /\ moves > 0
    /\ moves' = moves - 1
    /\ IF shown \notin {Home, i} THEN ops' = ops
       ELSE ops' = [ops EXCEPT ![o] = [kind |-> "failure", at |-> "read", task |-> i,
                                       snap |-> queue[i], msg |-> NoMsg]]
    /\ task' = [task EXCEPT ![i].alive = FALSE]
    /\ queue' = [queue EXCEPT ![i] = {}]
    /\ hand' = [hand EXCEPT ![i] = {}] /\ answer' = [answer EXCEPT ![i] = {}]
    /\ poller' = [m \in Texts |-> IF poller[m] = i THEN Home ELSE poller[m]]
    /\ gaps' = gaps \union (IF ops' = ops THEN queue[i] \ Snapshots ELSE {})
                    \union hand[i] \union answer[i] \union {m \in Texts : poller[m] = i}
    /\ UNCHANGED <<shown, stashed, used, sent, taken>>

\* What is lost with an operation that ends without a new instance.
Lost(o) == (ops[o].snap \ ((UNION {queue[i] : i \in Instances}) \union (UNION {ops[p].snap : p \in Ops \ {o}})))
               \union ({ops[o].msg} \ {NoMsg})

\* getTaskWithId throws: gap.
ReadFails(o) == /\ ops[o].at = "read"
                /\ gaps' = gaps \union (Lost(o) \ queue[ops[o].task])
                /\ ops' = [ops EXCEPT ![o] = NoOp]
                /\ UNCHANGED <<shown, stashed, used, task, queue, hand, answer, poller, sent, taken, moves>>

\* The history is read; a cancellation now aborts the instance it began with.
HistoryRead(o) ==
    /\ ops[o].at = "read"
    /\ IF ops[o].kind = "cancel" /\ task[ops[o].task].alive
       THEN Abort(ops[o].task, {})
       ELSE UNCHANGED <<task, queue, hand, answer, poller, gaps>>
    /\ ops' = [ops EXCEPT ![o].at = "wait"]
    /\ UNCHANGED <<shown, stashed, used, sent, taken, moves>>

\* Where a forced message goes when cancelTask returns.  Gaps: nothing on screen,
\* or a prompt that has been answered.
Poll(o, target) ==
    LET m == ops[o].msg IN
    IF m = NoMsg \/ target \notin Instances \/ ~task[target].alive \/ task[target].resume = "done"
    THEN poller' = poller
    ELSE poller' = [poller EXCEPT ![m] = target]

\* Another instance is on screen: the cancellation ends there.
SkipReload(o) ==
    /\ ops[o].at = "wait" /\ ops[o].kind = "cancel"
    /\ shown \notin {Home, ops[o].task}
    /\ Poll(o, shown)
    /\ gaps' = gaps \union (Lost(o) \ {m \in Texts : poller'[m] # Home})
    /\ ops' = [ops EXCEPT ![o] = NoOp]
    /\ UNCHANGED <<shown, stashed, used, task, queue, hand, answer, sent, taken, moves>>

\* createTaskWithHistoryItem first removes what is on screen.  Gap: a reload
\* after a failure did not begin with that instance, whose queue it does not have.
RemoveOld(o) ==
    /\ ops[o].at = "wait"
    /\ ops[o].kind = "cancel" => shown \in {Home, ops[o].task}
    /\ IF shown \in Instances /\ task[shown].alive
       THEN Abort(shown, queue[shown] \ Snapshots)
       ELSE UNCHANGED <<task, queue, hand, answer, poller, gaps>>
    /\ shown' = Home
    /\ ops' = [ops EXCEPT ![o].at = "create"]
    /\ UNCHANGED <<stashed, used, sent, taken, moves>>

CreateNew(o) ==
    /\ ops[o].at = "create" /\ used < MaxInstances
    /\ used' = used + 1 /\ shown' = used'
    /\ task' = [task EXCEPT ![used'].alive = TRUE]
    /\ ops' = [ops EXCEPT ![o].at = "restore", ![o].task = used']
    /\ UNCHANGED <<stashed, queue, hand, answer, poller, sent, taken, gaps, moves>>

\* Mutant: the poll is not started again when the prompt is not there yet.
RestoreQueueNoPoll(o) ==
    /\ ops[o].at = "restore"
    /\ LET i == ops[o].task IN
       /\ queue' = [queue EXCEPT ![i] = IF task[i].alive THEN @ \union ops[o].snap ELSE @]
       /\ UNCHANGED poller
       /\ gaps' = gaps \union (IF task[i].alive THEN {} ELSE Lost(o))
    /\ ops' = [ops EXCEPT ![o] = NoOp]
    /\ UNCHANGED <<shown, stashed, used, task, hand, answer, sent, taken, moves>>

\* restoreMessages, and the end of the operation.  Gap: the new instance is dead
\* already or about to be replaced, or the other of two reloads has restored the
\* message too and both instances live.
RestoreQueue(o) ==
    /\ ops[o].at = "restore"
    /\ LET i == ops[o].task
           late == IF ~task[i].alive THEN Lost(o)
                   ELSE IF Replacing(i) THEN ops[o].snap ELSE {}
       IN
       /\ queue' = [queue EXCEPT ![i] = IF task[i].alive THEN @ \union ops[o].snap ELSE @]
       /\ Poll(o, shown)
       /\ gaps' = gaps \union ((late \union ({ops[o].msg} \ {NoMsg})) \ {m \in Texts : poller'[m] # Home})
                       \union (ops[o].snap \cap UNION {queue[j] : j \in Instances})
    /\ ops' = [ops EXCEPT ![o] = NoOp]
    /\ UNCHANGED <<shown, stashed, used, task, hand, answer, sent, taken, moves>>

\* checkAndSend finds the new instance waiting.
CheckAndSend(m) ==
    /\ poller[m] # Home /\ Waiting(poller[m])
    /\ Respond(poller[m], m)
    /\ poller' = [poller EXCEPT ![m] = Home]
    /\ UNCHANGED <<shown, stashed, used, task, queue, hand, ops, sent, taken, moves>>

\* The user opens another task, or the home screen, and comes back.
LeaveTask == /\ shown \in Instances /\ moves > 0 /\ moves' = moves - 1
             /\ stashed' = shown
             /\ shown' \in {Home, Other}
             /\ UNCHANGED <<used, task, queue, hand, answer, ops, poller, sent, taken, gaps>>

ReturnToTask == /\ shown \in {Home, Other} /\ stashed # Home
                /\ shown' = stashed /\ stashed' = Home
                /\ UNCHANGED <<used, task, queue, hand, answer, ops, poller, sent, taken, gaps, moves>>

----------------------------------------------------------------------------

ReplaceHost == \/ \E i \in Instances : Loaded(i) \/ PromptReturns(i) \/ Submitted(i)
               \/ \E o \in Ops : \/ HistoryRead(o) \/ SkipReload(o) \/ RemoveOld(o)
                                 \/ CreateNew(o) \/ RestoreQueue(o)
               \/ \E m \in Texts : CheckAndSend(m)

ReplaceNext == \/ ReplaceHost
               \/ \E i \in Instances : TurnEnds(i) \/ \E o \in Ops : StreamFails(o, i)
               \/ \E m \in Texts : QueueMessage(m) \/ AnswerPrompt(m)
               \/ \E o \in Ops : Cancel(o) \/ ReadFails(o) \/ \E m \in Texts : ForceSend(o, m)
               \/ LeaveTask \/ ReturnToTask

ReplaceSpec == ReplaceInit /\ [][ReplaceNext]_replaceVars
ReplaceFairSpec == ReplaceSpec /\ WF_replaceVars(ReplaceHost)

----------------------------------------------------------------------------
(* Properties                                                              *)

Held(m) == \/ \E i \in Instances : /\ task[i].alive
                                   /\ m \in queue[i] \union hand[i] \union answer[i] \/ poller[m] = i
           \/ \E o \in Ops : m \in ops[o].snap \union {ops[o].msg}

\* A message that was sent comes into the conversation once, or something still
\* holds it, however cancellations and failed streams of its task overlap, unless
\* it met a gap: snapshots are copies and may be restored by two reloads
\* (ClineProvider.ts:3426, 254; MessageQueueService.ts:110).
TakenOnce == \A m \in sent \ gaps : taken[m] <= 1 /\ (taken[m] = 0 => Held(m))

\* A message sent by force is answered to the new instance, or meets a gap: its
\* poll does not stop before the prompt is there (webviewMessageHandler.ts:5437).
ForcedArrives == \A m \in Texts : (\E o \in Ops : ops[o].msg = m) ~> (taken[m] > 0 \/ m \in gaps)
=============================================================================
