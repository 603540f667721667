--------------------------- MODULE TaskPersistence ---------------------------
(***************************************************************************)
(* The history file of one task (ui_messages.json), its item in the list   *)
(* of tasks, and everything that reads and writes them: the saves of its   *)
(* instances, which wait for one lock, an instance that loads the history  *)
(* and writes it back, and the deletion of the task.  A save is            *)
(* safeWriteJson without failures (SafeWriteJson has those), except that   *)
(* it may give up waiting.  Rows that are stripped when a task is loaded   *)
(* are left out.                                                           *)
(***************************************************************************)
EXTENDS Naturals, FiniteSets

CONSTANTS Msgs, MaxInsts, MaxSaves, Clicks, NoFile

\* There is a first instance, and a missing file is not a set of messages.
ASSUME HistoryAssumption == /\ MaxInsts \in Nat \ {0} /\ MaxSaves \in Nat /\ Clicks \in Nat
                            /\ \A msgs \in SUBSET Msgs : msgs # NoFile

VARIABLES
    file,    \* ui_messages.json: a set of messages, or NoFile
    item,    \* the task is in taskHistory
    lock,    \* the save that holds the lock of the file, or 0
    save,    \* calls of saveClineMessages
    mem,     \* per instance: the arrays that clineMessages has been
    cur,     \* the one it is now
    inst,    \* how far each instance is
    aborted, abandoned,
    screen,  \* the instance on screen, or 0
    tab,     \* the instance stashed in a tab, or 0
    op,      \* the operation of the provider that is under way
    said,    \* history: the messages that ought to be in the file
    exposed, \* history: one of the exposures named below happened
    deleted, \* history: the task was deleted
    clicks   \* what the user may still click

persistVars == <<file, item, lock, save, mem, cur, inst, aborted, abandoned, screen, tab, op,
                 said, exposed, deleted, clicks>>
stored == <<file, item, lock>>
held == <<mem, cur, said>>
flags == <<aborted, abandoned>>
places == <<screen, tab>>

Insts == 1..MaxInsts
Slots == 1..MaxSaves
Arrays == 0..3   \* empty at first, what was read, what was read again, truncated
NoSave == [at |-> "none", by |-> 0, arr |-> 0, for |-> "nobody", data |-> {}]
Loading == {"exists", "read", "overwrite", "reread"}

PersistenceTypeOK ==
    /\ file \in (SUBSET Msgs) \union {NoFile} /\ item \in BOOLEAN /\ lock \in 0..MaxSaves
    /\ save \in [Slots -> [at : {"none", "shown", "lock", "backup", "commit", "unlock", "item"}, by : 0..MaxInsts,
                           arr : Arrays, for : {"nobody", "loader", "provider"}, data : SUBSET Msgs]]
    /\ mem \in [Insts -> [Arrays -> SUBSET Msgs]] /\ cur \in [Insts -> Arrays]
    /\ inst \in [Insts -> Loading \union {"unborn", "running", "ended", "failed"}]
    /\ aborted \subseteq Insts /\ abandoned \subseteq Insts
    /\ screen \in 0..MaxInsts /\ tab \in 0..MaxInsts
    /\ op \in {"none", "cancel", "replace", "close", "delete", "remove"}
    /\ said \subseteq Msgs /\ exposed \in BOOLEAN /\ deleted \in BOOLEAN
    /\ clicks \in 0..Clicks

\* A new task, before its first row.
HistoryInit ==
    /\ file = NoFile /\ item = FALSE /\ lock = 0
    /\ save = [k \in Slots |-> NoSave]
    /\ mem = [i \in Insts |-> [a \in Arrays |-> {}]] /\ cur = [i \in Insts |-> 0]
    /\ inst = [i \in Insts |-> IF i = 1 THEN "running" ELSE "unborn"]
    /\ aborted = {} /\ abandoned = {}
    /\ screen = 1 /\ tab = 0 /\ op = "none"
    /\ said = {} /\ exposed = FALSE /\ deleted = FALSE /\ clicks = Clicks

Messages(i) == mem[i][cur[i]]
Newest == CHOOSE n \in Insts : inst[n] # "unborn" /\ \A i \in Insts : i > n => inst[i] = "unborn"
Room == Newest < MaxInsts

\* The file is not what it was, nor what it will be.
Writing == lock # 0 /\ save[lock].at # "unlock"

----------------------------------------------------------------------------
(* saveClineMessages                                                       *)

\* The array itself is handed over: it is read when it is written.
BeginSave(k, i, a, f) ==
    /\ save[k] = NoSave /\ \A l \in 1..(k - 1) : save[l] # NoSave
    /\ save' = [save EXCEPT ![k] = [at |-> "lock", by |-> i, arr |-> a, for |-> f, data |-> {}]]

\* A new message is shown first, and that is awaited.
BeginShowing(k, i) ==
    /\ save[k] = NoSave /\ \A l \in 1..(k - 1) : save[l] # NoSave
    /\ save' = [save EXCEPT ![k] = [NoSave EXCEPT !.at = "shown", !.by = i]]

Awaited(f) == \E k \in Slots : save[k].for = f

\* Then the array of that moment is saved.
Shown(k) ==
    /\ save[k].at = "shown"
    /\ save' = [save EXCEPT ![k].at = "lock", ![k].arr = cur[save[k].by]]
    /\ UNCHANGED <<stored, held, inst, flags, places, op, exposed, deleted, clicks>>

\* Mutant: the lock is not looked at.
LockIgnoringHolder(k) ==
    /\ save[k].at = "lock"
    /\ lock' = k
    /\ save' = [save EXCEPT ![k].at = "backup", ![k].data = mem[save[k].by][save[k].arr]]
    /\ UNCHANGED <<file, item, held, inst, flags, places, op, exposed, deleted, clicks>>

\* The lock is taken by retries, in any order, and the messages of that moment are
\* written to a new file.  Exposure: an array that has been replaced since.
Lock(k) ==
    /\ save[k].at = "lock" /\ lock = 0
    /\ lock' = k
    /\ save' = [save EXCEPT ![k].at = "backup", ![k].data = mem[save[k].by][save[k].arr]]
    /\ exposed' = (exposed \/ save[k].by # Newest \/ save[k].arr # cur[save[k].by])
    /\ UNCHANGED <<file, item, held, inst, flags, places, op, deleted, clicks>>

\* After five retries the error is logged and no more (Task.ts:1013).  Exposure:
\* what was to be saved waits for the next save.
GiveUp(k) ==
    /\ save[k].at = "lock" /\ lock # 0
    /\ save' = [save EXCEPT ![k] = NoSave]
    /\ exposed' = TRUE
    /\ UNCHANGED <<stored, held, inst, flags, places, op, deleted, clicks>>

Backup(k) ==
    /\ save[k].at = "backup"
    /\ file' = NoFile
    /\ save' = [save EXCEPT ![k].at = "commit"]
    /\ UNCHANGED <<item, lock, held, inst, flags, places, op, exposed, deleted, clicks>>

Commit(k) ==
    /\ save[k].at = "commit"
    /\ file' = save[k].data
    /\ save' = [save EXCEPT ![k].at = "unlock"]
    /\ UNCHANGED <<item, lock, held, inst, flags, places, op, exposed, deleted, clicks>>

Unlock(k) ==
    /\ save[k].at = "unlock"
    /\ lock' = 0
    /\ save' = [save EXCEPT ![k] = [NoSave EXCEPT !.at = "item", !.for = save[k].for]]
    /\ UNCHANGED <<file, item, held, inst, flags, places, op, exposed, deleted, clicks>>

\* updateTaskHistory replaces the item, or adds it.
UpdateTaskHistory(k) ==
    /\ save[k].at = "item"
    /\ item' = TRUE
    /\ save' = [save EXCEPT ![k] = NoSave]
    /\ UNCHANGED <<file, lock, held, inst, flags, places, op, exposed, deleted, clicks>>

----------------------------------------------------------------------------
(* One instance                                                            *)

Click == clicks > 0 /\ clicks' = clicks - 1
Says(i) == inst[i] = "running" /\ i \notin aborted

\* addToClineMessages: the message is there before it is shown and saved.
AddToClineMessages(i, m) ==
    /\ Says(i) /\ m \notin said
    /\ mem' = [mem EXCEPT ![i][cur[i]] = @ \union {m}]
    /\ said' = said \union {m}
    /\ \E k \in Slots : BeginShowing(k, i)
    /\ UNCHANGED <<stored, cur, inst, flags, places, op, exposed, deleted, clicks>>

\* overwriteClineMessages when the user deletes a message and what follows it.
DeleteMessages(i, kept) ==
    /\ Click /\ Says(i) /\ screen = i /\ cur[i] # 3 /\ kept \subseteq Messages(i)
    /\ mem' = [mem EXCEPT ![i][3] = kept] /\ cur' = [cur EXCEPT ![i] = 3]
    /\ said' = kept
    /\ \E k \in Slots : BeginSave(k, i, 3, "nobody")
    /\ UNCHANGED <<stored, inst, flags, places, op, exposed, deleted>>

\* The loop of an aborted task ends; unless it was abandoned, abortStream saves.
StreamAborts(i) ==
    /\ inst[i] = "running" /\ i \in aborted
    /\ inst' = [inst EXCEPT ![i] = "ended"]
    /\ \/ i \notin abandoned /\ \E k \in Slots : BeginSave(k, i, cur[i], "nobody")
       \/ UNCHANGED save
    /\ UNCHANGED <<stored, held, flags, places, op, exposed, deleted, clicks>>

\* resumeTaskFromHistory.  readTaskMessages takes no lock: it finds no file
\* between the renames of a save, or one that is gone when it reads it.
\* Exposure: a save is between its new file and its second rename.
FileExists(i) ==
    /\ inst[i] = "exists"
    /\ exposed' = (exposed \/ Writing)
    /\ inst' = [inst EXCEPT ![i] = IF file = NoFile THEN "overwrite" ELSE "read"]
    /\ UNCHANGED <<stored, save, held, flags, places, op, deleted, clicks>>

ReadFile(i) ==
    /\ inst[i] = "read"
    /\ IF file = NoFile THEN inst' = [inst EXCEPT ![i] = "failed"] /\ UNCHANGED mem
       ELSE /\ inst' = [inst EXCEPT ![i] = "overwrite"]
            /\ mem' = [mem EXCEPT ![i][1] = file]
    /\ UNCHANGED <<stored, save, cur, said, flags, places, op, exposed, deleted, clicks>>

\* What was read becomes clineMessages and is saved, also by a task that was
\* aborted meanwhile.
Overwrite(i) ==
    /\ inst[i] = "overwrite"
    /\ cur' = [cur EXCEPT ![i] = 1]
    /\ inst' = [inst EXCEPT ![i] = "reread"]
    /\ \E k \in Slots : BeginSave(k, i, 1, "loader")
    /\ UNCHANGED <<stored, mem, said, flags, places, op, exposed, deleted, clicks>>

\* Then it is read once more, and the task asks whether to resume.  Exposure: as
\* for FileExists.
Reread(i) ==
    /\ inst[i] = "reread" /\ ~Awaited("loader")
    /\ mem' = [mem EXCEPT ![i][2] = IF file = NoFile THEN {} ELSE file]
    /\ cur' = [cur EXCEPT ![i] = 2]
    /\ exposed' = (exposed \/ Writing)
    /\ inst' = [inst EXCEPT ![i] = IF i \in aborted THEN "ended" ELSE "running"]
    /\ UNCHANGED <<stored, save, said, flags, places, op, deleted, clicks>>

\* abortTask saves what clineMessages is.  Exposure: nothing is loaded yet, and
\* the save writes an empty history.
AbortTask(i, f, leave) ==
    /\ aborted' = aborted \union {i}
    /\ abandoned' = abandoned \union leave
    /\ exposed' = (exposed \/ inst[i] \in {"exists", "read", "overwrite"})
    /\ \E k \in Slots : BeginSave(k, i, cur[i], f)

----------------------------------------------------------------------------
(* The provider                                                            *)

\* A new instance is made from the history item.
NewInstance ==
    /\ Room
    /\ screen' = Newest + 1
    /\ inst' = [inst EXCEPT ![Newest + 1] = "exists"]

\* cancelTask: the abort is not awaited, nor its save.
CancelTask ==
    /\ Click /\ op = "none" /\ screen # 0 /\ item /\ Room
    /\ AbortTask(screen, "nobody", {screen})
    /\ op' = "cancel"
    /\ UNCHANGED <<stored, held, inst, places, deleted>>

\* createTaskWithHistoryItem first removes what is on screen, and waits for that.
RemoveClineFromStack ==
    /\ op = "cancel"
    /\ screen' = 0
    /\ AbortTask(screen, "provider", {screen})
    /\ op' = "replace"
    /\ UNCHANGED <<stored, held, inst, tab, deleted, clicks>>

CreateTask ==
    /\ op = "replace" /\ ~Awaited("provider")
    /\ NewInstance
    /\ op' = "none"
    /\ UNCHANGED <<stored, save, held, flags, tab, exposed, deleted, clicks>>

\* closeTask, in either place.
CloseTask(i) ==
    /\ Click /\ op = "none" /\ i \in {screen, tab} \ {0}
    /\ screen' = 0 /\ tab' = 0
    /\ AbortTask(i, "provider", {i})
    /\ op' = "close"
    /\ UNCHANGED <<stored, held, inst, deleted>>

CloseEnds ==
    /\ op = "close" /\ ~Awaited("provider")
    /\ op' = "none"
    /\ UNCHANGED <<stored, save, held, inst, flags, places, exposed, deleted, clicks>>

\* showTaskWithId from the history.
ShowTask ==
    /\ Click /\ op = "none" /\ screen = 0 /\ tab = 0 /\ item
    /\ NewInstance
    /\ UNCHANGED <<stored, save, held, flags, tab, op, exposed, deleted>>

\* stashCurrentTask and activateTask, for another task.
SwitchTab ==
    /\ Click /\ op = "none" /\ screen # tab
    /\ screen' = tab /\ tab' = screen
    /\ UNCHANGED <<stored, save, held, inst, flags, op, exposed, deleted>>

\* deleteTaskWithId: the task on screen is removed and its save awaited; one in
\* a tab is only marked.
DeleteTask ==
    /\ Click /\ op = "none" /\ item
    /\ screen' = 0 /\ tab' = 0
    /\ \/ screen # 0 /\ AbortTask(screen, "provider", {screen})
       \/ /\ screen = 0
          /\ aborted' = aborted \union ({tab} \ {0})
          /\ UNCHANGED <<save, abandoned, exposed>>
    /\ op' = "delete"
    /\ UNCHANGED <<stored, held, inst, deleted>>

DeleteTaskFromState ==
    /\ op = "delete" /\ ~Awaited("provider")
    /\ item' = FALSE
    /\ op' = "remove"
    /\ UNCHANGED <<file, lock, save, held, inst, flags, places, exposed, deleted, clicks>>

\* What is left of a save when its files are gone.
Remains(s) == CASE s.at \in {"backup", "commit"} -> NoSave
                [] s.at = "unlock" -> [NoSave EXCEPT !.at = "item", !.for = s.for]
                [] OTHER -> s

\* The directory goes with all files of saves that are writing, and the lock,
\* which nobody then has to release.
RemoveDirectory ==
    /\ op = "remove"
    /\ file' = NoFile /\ lock' = 0
    /\ save' = [k \in Slots |-> Remains(save[k])]
    /\ op' = "none" /\ deleted' = TRUE
    /\ UNCHANGED <<item, held, inst, flags, places, exposed, clicks>>

----------------------------------------------------------------------------
Saving == \E k \in Slots : \/ Shown(k) \/ Lock(k) \/ GiveUp(k) \/ Backup(k) \/ Commit(k)
                          \/ Unlock(k) \/ UpdateTaskHistory(k)

Tasks == \E i \in Insts : \/ \E m \in Msgs : AddToClineMessages(i, m)
                          \/ \E kept \in SUBSET Msgs : DeleteMessages(i, kept)
                          \/ StreamAborts(i)
                          \/ FileExists(i) \/ ReadFile(i) \/ Overwrite(i) \/ Reread(i)

Provider == \/ CancelTask \/ RemoveClineFromStack \/ CreateTask
            \/ \E i \in Insts : CloseTask(i)
            \/ CloseEnds \/ ShowTask \/ SwitchTab
            \/ DeleteTask \/ DeleteTaskFromState \/ RemoveDirectory

HistoryNext == Saving \/ Tasks \/ Provider

HistorySpec == HistoryInit /\ [][HistoryNext]_persistVars

----------------------------------------------------------------------------
(* Properties                                                              *)

AtRest == save = [k \in Slots |-> NoSave] /\ op = "none" /\ \A i \in Insts : inst[i] \notin Loading

\* When nothing is under way, the file and the instance that runs hold every
\* message, whatever order the saves took the lock in and however often the task
\* was stopped, closed and opened, unless one of the exposures happened
\* (Task.ts:983, 1964-2019, 2218).
HistoryIsWhole ==
    AtRest /\ item /\ ~exposed /\ ~deleted =>
        /\ file = said
        /\ \A i \in {screen, tab} \ {0} : inst[i] = "running" => Messages(i) = said

\* "this function deletes a task from task hidtory [...] and delete the task
\* folder" (ClineProvider.ts:2130): a deleted task is gone from the history for good.
DeletedIsGone == deleted => ~item
=============================================================================
