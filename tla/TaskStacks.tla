----------------------------- MODULE TaskStacks -----------------------------
(***************************************************************************)
(* The tasks a ClineProvider keeps open (src/core/webview/ClineProvider.ts)*)
(* and the operations that create, switch, cancel and close them.          *)
(*                                                                         *)
(* clineStack (active) is the task on screen with its callers below it,    *)
(* taskStacks (stashed) the tasks of the other tabs, which go on running.  *)
(* An operation is a sequence of steps, one per stretch of code between    *)
(* two awaits, and Ops are the operations that can be under way at once:   *)
(* with one of them every click waits for the one before, with two they    *)
(* interleave.  Instances are numbered as they are constructed, and a new  *)
(* task takes the number of its first instance for its taskId.             *)
(***************************************************************************)
EXTENDS Naturals, SequencesExt

CONSTANTS
    Ops,         \* operations that may be under way at the same time
    MaxInsts,    \* how many Task instances are constructed
    Subtasks,    \* the agent may use new_task
    Failures     \* a provider stream may fail

Insts == 1 .. MaxInsts
None == 0

ASSUME TSAssumption == /\ MaxInsts \in Nat
                       /\ Subtasks \in BOOLEAN /\ Failures \in BOOLEAN

VARIABLES
    active,       \* clineStack, the current task last
    stashed,      \* taskStacks, <<>> for a taskId that has no entry
    born,         \* instances constructed so far
    task,         \* per instance: its taskId
    parent,       \* per instance: its parentTask
    aborted,      \* instances with abort set
    childTaskId,  \* per instance: the child it is paused for, or None
    history,      \* taskIds in the task history
    op,           \* per operation: how far it is and its local variables
    finished,     \* history: subtasks that have called finishSubTask
    failed        \* history: instances aborted because their stream failed

stackVars == <<active, stashed>>
instVars == <<born, task, parent>>
lifeVars == <<aborted, childTaskId>>
doneVars == <<finished, failed>>
vars == <<stackVars, instVars, lifeVars, history, op, doneVars>>

NoOp == [pc |-> "idle", inst |-> None, id |-> None, parent |-> None, rest |-> <<>>]
Creating == {"create", "look", "show", "cancel", "abort", "failed", "rehydrate"}
Pcs == Creating \union {"idle", "spawned", "finish", "close", "delete", "deleteFinish",
                        "deleteStash", "deleteState"}

TypeOK ==
    /\ active \in Seq(Insts)
    /\ stashed \in [Insts -> Seq(Insts)]
    /\ born \in 0 .. MaxInsts
    /\ task \in [Insts -> Insts \union {None}] /\ \A i \in Insts : task[i] = None <=> i > born
    /\ parent \in [Insts -> Insts \union {None}]
    /\ aborted \subseteq Insts
    /\ childTaskId \in [Insts -> Insts \union {None}]
    /\ history \subseteq Insts
    /\ op \in [Ops -> [pc : Pcs, inst : Insts \union {None}, id : Insts \union {None},
                       parent : Insts \union {None}, rest : Seq(Insts)]]
    /\ finished \subseteq Insts /\ failed \subseteq Insts

Init ==
    /\ active = <<>> /\ stashed = [i \in Insts |-> <<>>]
    /\ born = 0
    /\ task = [i \in Insts |-> None] /\ parent = [i \in Insts |-> None]
    /\ aborted = {} /\ childTaskId = [i \in Insts |-> None]
    /\ history = {}
    /\ op = [o \in Ops |-> NoOp]
    /\ finished = {} /\ failed = {}

----------------------------------------------------------------------------
(* What the operations have in common                                      *)

IsCurrent(i) == active # <<>> /\ Last(active) = i        \* getCurrentTask
Born == {i \in Insts : i <= born}
Live == Born \ aborted
Quiet == \A o \in Ops : op[o] = NoOp

At(o, pc) == op[o].pc = pc
Goes(o, pc) == op' = [op EXCEPT ![o].pc = pc]
Ends(o) == op' = [op EXCEPT ![o] = NoOp]
Begins(o, pc, inst, id, par) ==
    /\ op[o] = NoOp
    /\ op' = [op EXCEPT ![o] = [NoOp EXCEPT !.pc = pc, !.inst = inst, !.id = id, !.parent = par]]

\* Instances are bounded: no more operations than can still construct one.
Room == born + Cardinality({o \in Ops : op[o].pc \in Creating}) < MaxInsts

\* Mutant: the stack on screen is copied into the map but not reset.
StashCopies ==
    /\ active' = active
    /\ stashed' = IF active = <<>> THEN stashed
                  ELSE [stashed EXCEPT ![task[Head(active)]] = active]

\* stashCurrentTask up to its await: the stack moves under its root's taskId.
Stash ==
    /\ active' = <<>>
    /\ stashed' = IF active = <<>> THEN stashed
                  ELSE [stashed EXCEPT ![task[Head(active)]] = active]

\* Mutant: the task is taken off the stack but goes on running.
RemoveTopRunning ==
    /\ active' = IF active = <<>> THEN <<>> ELSE Front(active)
    /\ aborted' = aborted

\* removeClineFromStack up to its await: the current task is popped and aborted.
RemoveTop ==
    /\ active' = IF active = <<>> THEN <<>> ELSE Front(active)
    /\ aborted' = IF active = <<>> THEN aborted ELSE aborted \union {Last(active)}

\* A Task is constructed, which starts it, and becomes the current one.
Push(id, par) ==
    /\ born < MaxInsts
    /\ born' = born + 1
    /\ task' = [task EXCEPT ![born + 1] = id]
    /\ parent' = [parent EXCEPT ![born + 1] = par]
    /\ active' = Append(active, born + 1)
    /\ history' = history \union {id}

----------------------------------------------------------------------------
(* createTask, and startSubtask around it                                  *)

NewTask(o) ==
    /\ Room /\ Begins(o, "create", None, None, None)
    /\ Stash
    /\ UNCHANGED <<instVars, lifeVars, history, doneVars>>

\* An agent calls new_task; it waits for startSubtask.
StartSubtask(o, p) ==
    /\ Subtasks /\ Room /\ p \in Live \ finished /\ childTaskId[p] = None
    /\ \A q \in Ops : At(q, "create") \/ At(q, "spawned") => op[q].parent # p
    /\ Begins(o, "create", None, None, p)
    /\ Stash
    /\ UNCHANGED <<instVars, lifeVars, history, doneVars>>

\* The configuration is set.  The organization may not allow the profile.
CreateTask(o) ==
    /\ At(o, "create")
    /\ \/ /\ Push(born + 1, op[o].parent)
          /\ op' = [op EXCEPT ![o].pc = "spawned", ![o].id = born + 1]
       \/ Ends(o) /\ UNCHANGED <<active, instVars, history>>
    /\ UNCHANGED <<stashed, lifeVars, doneVars>>

\* createTask has returned: startSubtask pauses the caller.
PauseParent(o) ==
    /\ At(o, "spawned")
    /\ childTaskId' = IF op[o].parent = None THEN childTaskId
                      ELSE [childTaskId EXCEPT ![op[o].parent] = op[o].id]
    /\ Ends(o)
    /\ UNCHANGED <<stackVars, instVars, aborted, history, doneVars>>

----------------------------------------------------------------------------
(* Tabs                                                                    *)

\* Case "plusButtonClicked".
PlusButton(o) ==
    /\ op[o] = NoOp /\ active # <<>>
    /\ Stash
    /\ UNCHANGED <<instVars, lifeVars, history, op, doneVars>>

\* Mutant: the tab that is left is not put back into the map.
ActivateDropping(o, id) ==
    /\ op[o] = NoOp /\ stashed[id] # <<>>
    /\ active' = stashed[id]
    /\ stashed' = [stashed EXCEPT ![id] = <<>>]
    /\ UNCHANGED <<instVars, lifeVars, history, op, doneVars>>

\* activateTask: the stack on screen takes the slot of the one that is shown.
\* If its taskId has an entry already, the tab order decides which one stays.
Activate(o, id) ==
    /\ op[o] = NoOp /\ stashed[id] # <<>>
    /\ active' = stashed[id]
    /\ \/ active = <<>> /\ stashed' = [stashed EXCEPT ![id] = <<>>]
       \/ /\ active # <<>>
          /\ LET root == task[Head(active)]
             IN  \E s \in {active, stashed[root]} \ {<<>>} :
                     stashed' = [stashed EXCEPT ![root] = s, ![id] = <<>>]
    /\ UNCHANGED <<instVars, lifeVars, history, op, doneVars>>

\* showTaskWithId of a task that is neither current nor in a tab.
ShowTask(o, id) ==
    /\ Room /\ id \in history /\ stashed[id] = <<>>
    /\ active # <<>> => task[Last(active)] # id
    /\ Begins(o, "look", None, id, None)
    /\ UNCHANGED <<stackVars, instVars, lifeVars, history, doneVars>>

\* getTaskWithId has returned.  With no task open createTaskWithHistoryItem is
\* entered at once; otherwise the stack is stashed first.
ShowFound(o) ==
    /\ At(o, "look")
    /\ \/ op[o].id \notin history /\ Ends(o)
       \/ op[o].id \in history /\ Goes(o, IF active = <<>> THEN "rehydrate" ELSE "show")
    /\ IF op[o].id \in history THEN Stash ELSE UNCHANGED stackVars
    /\ UNCHANGED <<instVars, lifeVars, history, doneVars>>

ShowStashed(o) ==
    /\ At(o, "show")
    /\ RemoveTop
    /\ Goes(o, "rehydrate")
    /\ UNCHANGED <<stashed, instVars, childTaskId, history, doneVars>>

\* createTaskWithHistoryItem after its removal: the task is constructed anew.
Rehydrate(o) ==
    /\ At(o, "rehydrate")
    /\ Push(op[o].id, op[o].parent)
    /\ Ends(o)
    /\ UNCHANGED <<stashed, lifeVars, doneVars>>

----------------------------------------------------------------------------
(* Closing, finishing and deleting                                         *)

\* closeTask: the stack on screen is cleared at once, another one when its
\* tasks are aborted.  The current task is aborted first.
CloseTask(o, id) ==
    LET shown == active # <<>> /\ task[Head(active)] = id
        stack == IF shown THEN active ELSE stashed[id]
    IN  /\ op[o] = NoOp /\ stack # <<>>
        /\ active' = IF shown THEN <<>> ELSE active
        /\ aborted' = aborted \union {Last(stack)}
        /\ op' = [op EXCEPT ![o] = [NoOp EXCEPT !.pc = "close", !.id = id, !.rest = Front(stack)]]
        /\ UNCHANGED <<stashed, instVars, childTaskId, history, doneVars>>

CloseNext(o) ==
    /\ At(o, "close")
    /\ \/ /\ op[o].rest # <<>>
          /\ aborted' = aborted \union {Last(op[o].rest)}
          /\ op' = [op EXCEPT ![o].rest = Front(@)]
          /\ UNCHANGED stashed
       \/ /\ op[o].rest = <<>>
          /\ stashed' = [stashed EXCEPT ![op[o].id] = <<>>]
          /\ Ends(o)
          /\ UNCHANGED aborted
    /\ UNCHANGED <<active, instVars, childTaskId, history, doneVars>>

\* attempt_completion of a subtask calls finishSubTask of the provider.
FinishSubtask(o, c) ==
    /\ c \in Live \ finished /\ parent[c] # None /\ childTaskId[c] = None
    /\ \A q \in Ops : At(q, "create") \/ At(q, "spawned") => op[q].parent # c
    /\ Begins(o, "finish", c, None, None)
    /\ RemoveTop
    /\ finished' = finished \union {c}
    /\ UNCHANGED <<stashed, instVars, childTaskId, history, failed>>

\* Case "clearTask": a subtask is finished, any other task removed.
ClearTask(o) ==
    /\ active # <<>>
    /\ \/ parent[Last(active)] # None /\ Begins(o, "finish", None, None, None)
       \/ parent[Last(active)] = None /\ op[o] = NoOp /\ UNCHANGED op
    /\ RemoveTop
    /\ UNCHANGED <<stashed, instVars, childTaskId, history, doneVars>>

\* completeSubtask of whatever task is current now.
CompleteSubtask ==
    childTaskId' = IF active = <<>> THEN childTaskId
                   ELSE [childTaskId EXCEPT ![Last(active)] = None]

Finish(o) ==
    /\ At(o, "finish")
    /\ CompleteSubtask
    /\ Ends(o)
    /\ UNCHANGED <<stackVars, instVars, aborted, history, doneVars>>

DeleteTask(o, id) ==
    /\ id \in history
    /\ Begins(o, "delete", None, id, None)
    /\ UNCHANGED <<stackVars, instVars, lifeVars, history, doneVars>>

\* deleteTaskFromState.
DropFromHistory(o) == history' = history \ {op[o].id} /\ Ends(o)

\* The stashed stack of the task, if any, is marked aborted and forgotten, and the
\* webview told, before its item goes.
Forget(o) ==
    \/ /\ stashed[op[o].id] = <<>>
       /\ DropFromHistory(o)
       /\ UNCHANGED <<aborted, stashed>>
    \/ /\ stashed[op[o].id] # <<>>
       /\ aborted' = aborted \union ToSet(stashed[op[o].id])
       /\ stashed' = [stashed EXCEPT ![op[o].id] = <<>>]
       /\ Goes(o, "deleteState")
       /\ UNCHANGED history

\* getTaskWithId has returned.  The current task is finished first.
DeleteFound(o) ==
    /\ At(o, "delete")
    /\ IF active # <<>> /\ task[Last(active)] = op[o].id
       THEN RemoveTop /\ Goes(o, "deleteFinish") /\ UNCHANGED <<stashed, history>>
       ELSE Forget(o) /\ UNCHANGED active
    /\ UNCHANGED <<instVars, childTaskId, doneVars>>

DeleteFinish(o) ==
    /\ At(o, "deleteFinish")
    /\ CompleteSubtask
    /\ Goes(o, "deleteStash")
    /\ UNCHANGED <<stackVars, instVars, aborted, history, doneVars>>

DeleteStash(o) ==
    /\ At(o, "deleteStash")
    /\ Forget(o)
    /\ UNCHANGED <<active, instVars, childTaskId, doneVars>>

DeleteState(o) ==
    /\ At(o, "deleteState")
    /\ DropFromHistory(o)
    /\ UNCHANGED <<stackVars, instVars, lifeVars, doneVars>>

----------------------------------------------------------------------------
(* Cancelling, and streams that fail                                       *)

CancelTask(o) ==
    /\ Room /\ active # <<>>
    /\ LET i == Last(active) IN Begins(o, "cancel", i, task[i], parent[i])
    /\ UNCHANGED <<stackVars, instVars, lifeVars, history, doneVars>>

CancelAborts(o) ==
    /\ At(o, "cancel")
    /\ \/ op[o].id \notin history /\ Ends(o) /\ UNCHANGED aborted
       \/ /\ op[o].id \in history
          /\ aborted' = aborted \union {op[o].inst}
          /\ Goes(o, "abort")
    /\ UNCHANGED <<stackVars, instVars, childTaskId, history, doneVars>>

\* "current instance already changed"
Replaced(o) == active # <<>> /\ Last(active) # op[o].inst

\* The stream has stopped, or 300 ms are over.
CancelRehydrates(o) ==
    /\ At(o, "abort")
    /\ \/ Replaced(o) /\ Ends(o) /\ UNCHANGED <<active, aborted>>
       \/ ~Replaced(o) /\ RemoveTop /\ Goes(o, "rehydrate")
    /\ UNCHANGED <<stashed, instVars, childTaskId, history, doneVars>>

\* A stream fails: the task aborts itself, and its TaskAborted listener loads
\* the task again unless another one is current.
StreamFails(o, i) ==
    /\ Failures /\ Room /\ i \in Live /\ childTaskId[i] = None
    /\ aborted' = aborted \union {i} /\ failed' = failed \union {i}
    /\ \/ ~(active # <<>> /\ ~IsCurrent(i)) /\ Begins(o, "failed", i, task[i], parent[i])
       \/ active # <<>> /\ ~IsCurrent(i) /\ op[o] = NoOp /\ UNCHANGED op
    /\ UNCHANGED <<stackVars, instVars, childTaskId, history, finished>>

FailedFound(o) ==
    /\ At(o, "failed")
    /\ \/ op[o].id \notin history /\ Ends(o) /\ UNCHANGED <<active, aborted>>
       \/ op[o].id \in history /\ RemoveTop /\ Goes(o, "rehydrate")
    /\ UNCHANGED <<stashed, instVars, childTaskId, history, doneVars>>

----------------------------------------------------------------------------
Click(o) == \/ NewTask(o) \/ PlusButton(o) \/ ClearTask(o) \/ CancelTask(o)
            \/ \E id \in Insts : Activate(o, id) \/ ShowTask(o, id) \/ CloseTask(o, id)
                                 \/ DeleteTask(o, id)

Agent(o) == \E i \in Insts : StartSubtask(o, i) \/ FinishSubtask(o, i) \/ StreamFails(o, i)

Continue(o) == \/ CreateTask(o) \/ PauseParent(o) \/ ShowFound(o) \/ ShowStashed(o)
               \/ Rehydrate(o) \/ CloseNext(o) \/ Finish(o) \/ DeleteFound(o)
               \/ DeleteFinish(o) \/ DeleteStash(o) \/ DeleteState(o) \/ CancelAborts(o)
               \/ CancelRehydrates(o) \/ FailedFound(o)

Next == \E o \in Ops : Click(o) \/ Agent(o) \/ Continue(o)

Spec == Init /\ [][Next]_vars

----------------------------------------------------------------------------
(* Properties                                                              *)

\* A Task instance is in one place: it is not on two stacks, nor twice on one,
\* and a stack is found under its root's taskId.
InOnePlace ==
    /\ IsInjective(active)
    /\ \A id \in Insts :
          /\ IsInjective(stashed[id])
          /\ stashed[id] # <<>> => task[Head(stashed[id])] = id
          /\ ToSet(stashed[id]) \intersect ToSet(active) = {}
          /\ \A jd \in Insts \ {id} : ToSet(stashed[id]) \intersect ToSet(stashed[jd]) = {}

\* A tab shows instances that run, and an instance that runs is in one, from
\* which it can be cancelled: the tab of a dead task is closed or loaded again.
TabsAreLive ==
    Quiet => \A i \in Born :
        i \in Live <=> \/ i \in ToSet(active)
                      \/ \E id \in Insts : i \in ToSet(stashed[id])

\* No two running instances of a task write to its files.
OneCopy == \A i, j \in Live : task[i] = task[j] => i = j

\* When a subtask is finished its caller is resumed (ClineProvider.ts:3323-3329).
CallerResumed ==
    Quiet => \A c \in finished :
                parent[c] \in aborted \/ childTaskId[parent[c]] # task[c]
=============================================================================
