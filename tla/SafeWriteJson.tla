---------------------------- MODULE SafeWriteJson ----------------------------
(***************************************************************************)
(* safeWriteJson (src/utils/safeWriteJson.ts) on one path.  Every history  *)
(* file of a task goes through it.  Each awaited file-system call is one   *)
(* action, so the calls of several windows interleave wherever the code    *)
(* awaits.  A writer is one call slot of one extension host; `MayFail` is  *)
(* the set of file-system steps that can raise an error, a host can die    *)
(* between any two steps when `MayCrash`, and a host that stalls for 31    *)
(* seconds in a call loses its lock to another and goes on without it.     *)
(***************************************************************************)
EXTENDS Naturals

CONSTANTS Writers, Docs, NoFile, Partial, Free, MayFail, MayCrash

Steps == {"directory", "lock", "write", "access", "backup", "commit", "unlinkBackup", "rollback",
          "cleanNew", "cleanBackup", "release"}

ASSUME SWAssumption == /\ MayFail \subseteq Steps
                       /\ MayCrash \in BOOLEAN
                       /\ NoFile \notin Docs /\ Partial \notin Docs
                       /\ NoFile # Partial
                       /\ Free \notin Writers

VARIABLES
    target,     \* what the path itself holds
    newFile,    \* per writer: its .new_*.tmp file
    bakFile,    \* per writer: its .bak_*.tmp file
    hasNew,     \* actualTempNewFilePath is not null
    hasBak,     \* actualTempBackupFilePath is not null
    lock,       \* holder of the advisory lock file, or Free
    pc, doc,    \* per writer: next step of the call, and the data it writes
    outcome,    \* per writer: how its last call settled
    committed,  \* history: the document of the last successful commit rename
    robbed,     \* history: a lock was taken from a call that was still at work
    undone      \* history: a rollback put a backup back after that

files == <<target, newFile, bakFile, hasNew, hasBak>>
theft == <<robbed, undone>>
vars == <<target, newFile, bakFile, hasNew, hasBak, lock, pc, doc, outcome, committed,
          robbed, undone>>

Contents == Docs \union {NoFile}
Working == {"write", "streaming", "access", "backup", "commit", "unlinkBackup",
            "rollback", "cleanNew", "cleanBackup", "release"}

TypeOK == /\ target \in Contents
          /\ newFile \in [Writers -> Contents \union {Partial}]
          /\ bakFile \in [Writers -> Contents]
          /\ hasNew \in [Writers -> BOOLEAN]
          /\ hasBak \in [Writers -> BOOLEAN]
          /\ lock \in Writers \union {Free}
          /\ pc \in [Writers -> {"idle", "directory", "locking", "crashed"} \union Working]
          /\ doc \in [Writers -> Docs]
          /\ outcome \in [Writers -> {"none", "ok", "failed"}]
          /\ committed \in Contents
          /\ robbed \in BOOLEAN /\ undone \in BOOLEAN

Init == /\ target \in Contents
        /\ committed = target
        /\ newFile = [w \in Writers |-> NoFile]
        /\ bakFile = [w \in Writers |-> NoFile]
        /\ hasNew = [w \in Writers |-> FALSE]
        /\ hasBak = [w \in Writers |-> FALSE]
        /\ lock = Free
        /\ pc = [w \in Writers |-> "idle"]
        /\ doc \in [Writers -> Docs]
        /\ outcome = [w \in Writers |-> "none"]
        /\ robbed = FALSE /\ undone = FALSE

At(w, from, to) == pc[w] = from /\ pc' = [pc EXCEPT ![w] = to]

\* A step that raises goes to the catch block.
Raise(w, step, from) == /\ step \in MayFail
                        /\ At(w, from, "rollback")

----------------------------------------------------------------------------
(* Calling and locking.  proper-lockfile refreshes the lock file every ten  *)
(* seconds, so a lock goes stale when its holder is dead or stalls.  The    *)
(* retry schedule is abstracted to "gives up or keeps on".                  *)

Call(w, d) == /\ At(w, "idle", "directory")
              /\ doc' = [doc EXCEPT ![w] = d]
              /\ outcome' = [outcome EXCEPT ![w] = "none"]
              \* the temporary paths are fresh in every call
              /\ newFile' = [newFile EXCEPT ![w] = NoFile]
              /\ bakFile' = [bakFile EXCEPT ![w] = NoFile]
              /\ hasNew' = [hasNew EXCEPT ![w] = FALSE]
              /\ hasBak' = [hasBak EXCEPT ![w] = FALSE]
              /\ UNCHANGED <<target, lock, committed, theft>>

\* Nothing was written yet: the call just fails.
EnsureDirectory(w) ==
    /\ \/ /\ At(w, "directory", "locking")
          /\ UNCHANGED outcome
       \/ /\ "directory" \in MayFail
          /\ At(w, "directory", "idle")
          /\ outcome' = [outcome EXCEPT ![w] = "failed"]
    /\ UNCHANGED <<files, lock, doc, committed, theft>>

HolderIsAtWork == lock # Free /\ pc[lock] \in Working

AcquireLock(w) == /\ ~HolderIsAtWork
                  /\ At(w, "locking", "write")
                  /\ lock' = w
                  /\ UNCHANGED <<files, doc, outcome, committed, theft>>

\* The holder has not refreshed its lock for 31 seconds, and will still go on.
StealLock(w) == /\ HolderIsAtWork
                /\ At(w, "locking", "write")
                /\ lock' = w
                /\ robbed' = TRUE
                /\ UNCHANGED <<files, doc, outcome, committed, undone>>

\* Mutant: the number of lock retries is not limited.
LockTimeoutNever(w) == /\ lock # Free
                       /\ At(w, "locking", "locking")
                       /\ UNCHANGED <<files, lock, doc, outcome, committed, theft>>

LockTimeout(w) == /\ lock # Free \/ "lock" \in MayFail
                  /\ At(w, "locking", "idle")
                  /\ outcome' = [outcome EXCEPT ![w] = "failed"]
                  /\ UNCHANGED <<files, lock, doc, committed, theft>>

----------------------------------------------------------------------------
(* The steps of the write.                                                 *)

OpenNew(w) == /\ At(w, "write", "streaming")
              /\ hasNew' = [hasNew EXCEPT ![w] = TRUE]
              /\ newFile' = [newFile EXCEPT ![w] = Partial]
              /\ UNCHANGED <<target, bakFile, hasBak, lock, doc, outcome, committed, theft>>

\* Mutant: the promise resolves before the stream has finished.
WriteNewUnfinished(w) == /\ At(w, "streaming", "access")
                         /\ UNCHANGED <<files, lock, doc, outcome, committed, theft>>

WriteNew(w) == \/ /\ At(w, "streaming", "access")
                  /\ newFile' = [newFile EXCEPT ![w] = doc[w]]
                  /\ UNCHANGED <<target, bakFile, hasNew, hasBak, lock, doc, outcome, committed, theft>>
               \/ /\ Raise(w, "write", "streaming")
                  /\ UNCHANGED <<files, lock, doc, outcome, committed, theft>>

\* Without a target there is no backup; the path of a backup is recorded before
\* the rename is called.
AccessTarget(w) ==
    /\ \/ target = NoFile /\ At(w, "access", "commit") /\ UNCHANGED hasBak
       \/ target # NoFile /\ At(w, "access", "backup") /\ hasBak' = [hasBak EXCEPT ![w] = TRUE]
       \/ Raise(w, "access", "access") /\ UNCHANGED hasBak
    /\ UNCHANGED <<target, newFile, bakFile, hasNew, lock, doc, outcome, committed, theft>>

\* A target that has gone since is no error: ENOENT of the rename is swallowed too.
BackupTarget(w) ==
    /\ \/ /\ target # NoFile
          /\ At(w, "backup", "commit")
          /\ bakFile' = [bakFile EXCEPT ![w] = target]
          /\ target' = NoFile
       \/ /\ target = NoFile
          /\ At(w, "backup", "commit")
          /\ UNCHANGED <<target, bakFile>>
       \/ /\ Raise(w, "backup", "backup")
          /\ UNCHANGED <<target, bakFile>>
    /\ UNCHANGED <<newFile, hasNew, hasBak, lock, doc, outcome, committed, theft>>

Commit(w) == \/ /\ At(w, "commit", "unlinkBackup")
                /\ target' = newFile[w]
                /\ committed' = newFile[w]
                /\ newFile' = [newFile EXCEPT ![w] = NoFile]
                /\ hasNew' = [hasNew EXCEPT ![w] = FALSE]
                /\ outcome' = [outcome EXCEPT ![w] = "ok"]
                /\ UNCHANGED <<bakFile, hasBak, lock, doc, theft>>
             \/ /\ Raise(w, "commit", "commit")
                /\ UNCHANGED <<files, lock, doc, outcome, committed, theft>>

\* Mutant: a backup that cannot be deleted fails the whole call.
UnlinkBackupRaises(w) ==
    \/ /\ At(w, "unlinkBackup", "release")
       /\ bakFile' = [bakFile EXCEPT ![w] = NoFile]
       /\ hasBak' = [hasBak EXCEPT ![w] = FALSE]
       /\ UNCHANGED <<target, newFile, hasNew, lock, doc, outcome, committed, theft>>
    \/ /\ hasBak[w] /\ Raise(w, "unlinkBackup", "unlinkBackup")
       /\ UNCHANGED <<files, lock, doc, outcome, committed, theft>>

\* A backup that cannot be deleted is logged and left as an orphan.
UnlinkBackup(w) ==
    /\ At(w, "unlinkBackup", "release")
    /\ \/ /\ hasBak[w] /\ bakFile[w] # NoFile
          /\ bakFile' = [bakFile EXCEPT ![w] = NoFile]
          /\ hasBak' = [hasBak EXCEPT ![w] = FALSE]
       \/ /\ hasBak[w] => (bakFile[w] = NoFile \/ "unlinkBackup" \in MayFail)
          /\ UNCHANGED <<bakFile, hasBak>>
    /\ UNCHANGED <<target, newFile, hasNew, lock, doc, outcome, committed, theft>>

----------------------------------------------------------------------------
(* The catch block.                                                        *)

\* Mutant: the catch block cleans up without restoring the backup.
RollbackSkipped(w) == /\ At(w, "rollback", "cleanNew")
                      /\ UNCHANGED <<files, lock, doc, outcome, committed, theft>>

\* The rename back fails when no backup was made or the file system refuses.
Rollback(w) ==
    /\ At(w, "rollback", "cleanNew")
    /\ \/ /\ hasBak[w] /\ bakFile[w] # NoFile
          /\ target' = bakFile[w]
          /\ bakFile' = [bakFile EXCEPT ![w] = NoFile]
          /\ hasBak' = [hasBak EXCEPT ![w] = FALSE]
          /\ undone' = (undone \/ robbed)
       \/ /\ hasBak[w] => (bakFile[w] = NoFile \/ "rollback" \in MayFail)
          /\ UNCHANGED <<target, bakFile, hasBak, undone>>
    /\ UNCHANGED <<newFile, hasNew, lock, doc, outcome, committed, robbed>>

CleanNew(w) ==
    /\ At(w, "cleanNew", "cleanBackup")
    /\ \/ /\ hasNew[w]
          /\ newFile' = [newFile EXCEPT ![w] = NoFile]
       \/ /\ ~hasNew[w] \/ "cleanNew" \in MayFail
          /\ UNCHANGED newFile
    /\ UNCHANGED <<target, bakFile, hasNew, hasBak, lock, doc, outcome, committed, theft>>

\* A backup that could not be restored is deleted as well.
CleanBackup(w) ==
    /\ At(w, "cleanBackup", "release")
    /\ \/ /\ hasBak[w]
          /\ bakFile' = [bakFile EXCEPT ![w] = NoFile]
       \/ /\ ~hasBak[w] \/ "cleanBackup" \in MayFail
          /\ UNCHANGED bakFile
    /\ outcome' = [outcome EXCEPT ![w] = "failed"]
    /\ UNCHANGED <<target, newFile, hasNew, hasBak, lock, doc, committed, theft>>

\* finally: a lock that cannot be released stays until it is stale.  A call that
\* was robbed removes the lock of the thief, unless it has noticed.
Release(w) == /\ At(w, "release", "idle")
              /\ \/ lock' = Free
                 \/ /\ lock # w \/ "release" \in MayFail
                    /\ UNCHANGED lock
              /\ UNCHANGED <<files, doc, outcome, committed, theft>>

\* The extension host dies: files and lock stay as they are.
Crash(w) == /\ MayCrash
            /\ pc[w] \in Working
            /\ pc' = [pc EXCEPT ![w] = "crashed"]
            /\ UNCHANGED <<files, lock, doc, outcome, committed, theft>>

Progress(w) == \/ EnsureDirectory(w) \/ AcquireLock(w) \/ LockTimeout(w)
               \/ OpenNew(w) \/ WriteNew(w) \/ AccessTarget(w) \/ BackupTarget(w) \/ Commit(w)
               \/ UnlinkBackup(w) \/ Rollback(w) \/ CleanNew(w)
               \/ CleanBackup(w) \/ Release(w)

Next == \E w \in Writers : \/ \E d \in Docs : Call(w, d)
                           \/ Progress(w)
                           \/ StealLock(w) \/ Crash(w)

Spec == Init /\ [][Next]_vars
FairSpec == Spec /\ \A w \in Writers : WF_vars(Progress(w))

----------------------------------------------------------------------------
(* Properties                                                              *)

\* The last committed document is at the path, or set aside in the backup of a
\* call that is between its two renames or died there, unless some rollback
\* failed: a call that fails loses nothing (safeWriteJson.ts:129-142).  Of a call
\* whose lock was taken while it stalled, only the rollback can lose a document.
NeverLost == \/ undone
             \/ target = committed
             \/ \E w \in Writers :
                   /\ bakFile[w] = committed
                   /\ pc[w] \in {"commit", "rollback", "crashed"}

\* A reader that takes no lock (readTaskMessages) finds a document missing only
\* while a call is between its two renames, or after a call died there.
MissingOnlyMidWrite ==
    (target = NoFile /\ committed # NoFile /\ ~undone) =>
        \E w \in Writers : pc[w] \in {"commit", "rollback", "crashed"}

\* Every call settles, whatever steps fail and even if another holder died.
EveryCallSettles == \A w \in Writers : (pc[w] = "directory") ~> (pc[w] \in {"idle", "crashed"})

\* The document as callers see it: the target, or the backup of the lock holder
\* that will put it back or replace it.
Logical == IF target = NoFile /\ lock # Free /\ pc[lock] # "crashed" /\ bakFile[lock] # NoFile
           THEN bakFile[lock] ELSE target

CallOf(w) == CASE pc[w] = "crashed" -> [state |-> "dead"]
               [] pc[w] = "idle" /\ outcome[w] = "none" -> [state |-> "idle"]
               [] pc[w] # "crashed" /\ outcome[w] = "ok" -> [state |-> "done", doc |-> doc[w]]
               [] pc[w] # "crashed" /\ outcome[w] = "failed" -> [state |-> "failed", doc |-> doc[w]]
               [] OTHER -> [state |-> "open", doc |-> doc[w]]

Document == INSTANCE JsonDocument
                WITH file <- Logical, call <- [w \in Writers |-> CallOf(w)]

\* safeWriteJson is an atomic write, whichever step fails (but for the rollback
\* rename), except that a host which dies in a call may take the document along:
\* until a call at work loses its lock, all steps are steps of JsonDocument.
ImplementsDocument == Document!Init /\ [][robbed' \/ Document!Next]_(Document!vars)
=============================================================================
