------------------------- MODULE SafeWriteJsonProofs -------------------------
(***************************************************************************)
(* Proofs about SafeWriteJson for any number of writers and documents and  *)
(* any set of failing steps that leaves the rollback rename out.           *)
(***************************************************************************)
EXTENDS SafeWriteJson, TLAPS

----------------------------------------------------------------------------
(* The inductive invariant                                                 *)

InCritical(w) == pc[w] \in Working

\* Until a lock is taken from a call at work, at most one call is at work.
MutualExclusion == robbed \/ \A w \in Writers : InCritical(w) => lock = w

\* Between the renames a backup, if there is one, holds the committed document.
BackupIsCommitted == robbed \/ \A w \in Writers :
    (pc[w] \in {"commit", "rollback"} /\ bakFile[w] # NoFile) =>
        bakFile[w] = committed

BackupsAreKnown == \A w \in Writers :
    /\ pc[w] \in {"directory", "locking", "write", "streaming", "access", "backup"} =>
          bakFile[w] = NoFile
    /\ pc[w] = "backup" => hasBak[w]
    /\ pc[w] \in {"commit", "rollback"} => hasBak[w] \/ bakFile[w] = NoFile

NewFileIsWhole == \A w \in Writers :
    pc[w] \in {"access", "backup", "commit"} => newFile[w] = doc[w]

TargetIsCommittedOrMissing == undone \/ target \in {NoFile, committed}

IInv == /\ TypeOK
        /\ undone => robbed
        /\ MutualExclusion
        /\ BackupIsCommitted
        /\ BackupsAreKnown
        /\ NewFileIsWhole
        /\ TargetIsCommittedOrMissing

----------------------------------------------------------------------------
\* Every reachable state is well typed, the lock excludes, and the backup is
\* the committed document whatever fails and whoever dies.
LEMMA InitIInv == Init => IInv
  BY SWAssumption DEF Init, IInv, TypeOK, MutualExclusion, InCritical, BackupIsCommitted, BackupsAreKnown,
     NewFileIsWhole, TargetIsCommittedOrMissing, Contents, Working

LEMMA StepIInv == IInv /\ [Next]_vars => IInv'
<1> SUFFICES ASSUME IInv, [Next]_vars PROVE IInv'
  OBVIOUS
<1> USE SWAssumption DEF IInv, TypeOK, Contents, Working, At, Raise, files, theft
<1>1. ASSUME NEW w \in Writers, NEW d \in Docs, Call(w, d) PROVE IInv'
  BY <1>1 DEF Call, MutualExclusion, InCritical, BackupIsCommitted, BackupsAreKnown,
     NewFileIsWhole, TargetIsCommittedOrMissing
<1>2. ASSUME NEW w \in Writers, AcquireLock(w) PROVE IInv'
  BY <1>2 DEF AcquireLock, HolderIsAtWork, MutualExclusion, InCritical, BackupIsCommitted,
     BackupsAreKnown, NewFileIsWhole, TargetIsCommittedOrMissing
<1>3. ASSUME NEW w \in Writers, LockTimeout(w) PROVE IInv'
  BY <1>3 DEF LockTimeout, MutualExclusion, InCritical, BackupIsCommitted, BackupsAreKnown,
     NewFileIsWhole, TargetIsCommittedOrMissing
<1>4. ASSUME NEW w \in Writers, OpenNew(w) PROVE IInv'
  BY <1>4 DEF OpenNew, MutualExclusion, InCritical, BackupIsCommitted, BackupsAreKnown,
     NewFileIsWhole, TargetIsCommittedOrMissing
<1>5. ASSUME NEW w \in Writers, WriteNew(w) PROVE IInv'
  BY <1>5 DEF WriteNew, MutualExclusion, InCritical, BackupIsCommitted, BackupsAreKnown,
     NewFileIsWhole, TargetIsCommittedOrMissing
<1>6. ASSUME NEW w \in Writers, BackupTarget(w) PROVE IInv'
  <2>1. TypeOK'
    BY <1>6 DEF BackupTarget
  <2>2. MutualExclusion'
    BY <1>6 DEF BackupTarget, MutualExclusion, InCritical
  <2>3. BackupIsCommitted'
    BY <1>6 DEF BackupTarget, MutualExclusion, InCritical, BackupIsCommitted, BackupsAreKnown,
       TargetIsCommittedOrMissing
  <2>4. BackupsAreKnown'
    BY <1>6 DEF BackupTarget, BackupsAreKnown
  <2>5. NewFileIsWhole'
    BY <1>6 DEF BackupTarget, MutualExclusion, InCritical, NewFileIsWhole
  <2>6. TargetIsCommittedOrMissing'
    BY <1>6 DEF BackupTarget, TargetIsCommittedOrMissing
  <2>7. (undone => robbed)'
    BY <1>6 DEF BackupTarget
  <2>8. QED
    BY <2>1, <2>2, <2>3, <2>4, <2>5, <2>6, <2>7
<1>7. ASSUME NEW w \in Writers, Commit(w) PROVE IInv'
  <2>1. TypeOK'
    <3>1. pc[w] = "commit" /\ newFile[w] = doc[w]
      BY <1>7 DEF Commit, NewFileIsWhole
    <3>2. newFile[w] \in Docs
      BY <3>1
    <3>3. CASE Raise(w, "commit", "commit") /\ UNCHANGED <<files, lock, doc, outcome, committed, theft>>
      BY <3>3
    <3>4. CASE At(w, "commit", "unlinkBackup") /\ target' = newFile[w]
      BY <1>7, <3>2, <3>4 DEF Commit
    <3>5. QED
      BY <1>7, <3>3, <3>4 DEF Commit
  <2>2. MutualExclusion'
    BY <1>7 DEF Commit, MutualExclusion, InCritical
  <2>3. BackupIsCommitted'
    BY <1>7 DEF Commit, MutualExclusion, InCritical, BackupIsCommitted, BackupsAreKnown,
       TargetIsCommittedOrMissing
  <2>4. BackupsAreKnown'
    BY <1>7 DEF Commit, BackupsAreKnown
  <2>5. NewFileIsWhole'
    BY <1>7 DEF Commit, MutualExclusion, InCritical, NewFileIsWhole
  <2>6. TargetIsCommittedOrMissing'
    BY <1>7 DEF Commit, TargetIsCommittedOrMissing
  <2>7. (undone => robbed)'
    BY <1>7 DEF Commit
  <2>8. QED
    BY <2>1, <2>2, <2>3, <2>4, <2>5, <2>6, <2>7
<1>8. ASSUME NEW w \in Writers, UnlinkBackup(w) PROVE IInv'
  <2>1. TypeOK'
    BY <1>8 DEF UnlinkBackup
  <2>2. MutualExclusion'
    BY <1>8 DEF UnlinkBackup, MutualExclusion, InCritical
  <2>3. BackupIsCommitted'
    BY <1>8 DEF UnlinkBackup, MutualExclusion, InCritical, BackupIsCommitted,
       BackupsAreKnown, TargetIsCommittedOrMissing
  <2>4. BackupsAreKnown'
    BY <1>8 DEF UnlinkBackup, BackupsAreKnown
  <2>5. NewFileIsWhole'
    BY <1>8 DEF UnlinkBackup, NewFileIsWhole
  <2>6. TargetIsCommittedOrMissing'
    BY <1>8 DEF UnlinkBackup, BackupIsCommitted, TargetIsCommittedOrMissing
  <2>7. (undone => robbed)'
    BY <1>8 DEF UnlinkBackup
  <2>8. QED
    BY <2>1, <2>2, <2>3, <2>4, <2>5, <2>6, <2>7
<1>9. ASSUME NEW w \in Writers, Rollback(w) PROVE IInv'
  <2>1. TypeOK'
    BY <1>9 DEF Rollback
  <2>2. MutualExclusion'
    BY <1>9 DEF Rollback, MutualExclusion, InCritical
  <2>3. BackupIsCommitted'
    BY <1>9 DEF Rollback, MutualExclusion, InCritical, BackupIsCommitted,
       BackupsAreKnown, TargetIsCommittedOrMissing
  <2>4. BackupsAreKnown'
    BY <1>9 DEF Rollback, BackupsAreKnown
  <2>5. NewFileIsWhole'
    BY <1>9 DEF Rollback, NewFileIsWhole
  <2>6. TargetIsCommittedOrMissing'
    BY <1>9 DEF Rollback, BackupIsCommitted, TargetIsCommittedOrMissing
  <2>7. (undone => robbed)'
    BY <1>9 DEF Rollback
  <2>8. QED
    BY <2>1, <2>2, <2>3, <2>4, <2>5, <2>6, <2>7
<1>10. ASSUME NEW w \in Writers, CleanNew(w) PROVE IInv'
  <2>1. TypeOK'
    BY <1>10 DEF CleanNew
  <2>2. MutualExclusion'
    BY <1>10 DEF CleanNew, MutualExclusion, InCritical
  <2>3. BackupIsCommitted'
    BY <1>10 DEF CleanNew, MutualExclusion, InCritical, BackupIsCommitted,
       BackupsAreKnown, TargetIsCommittedOrMissing
  <2>4. BackupsAreKnown'
    BY <1>10 DEF CleanNew, BackupsAreKnown
  <2>5. NewFileIsWhole'
    BY <1>10 DEF CleanNew, NewFileIsWhole
  <2>6. TargetIsCommittedOrMissing'
    BY <1>10 DEF CleanNew, BackupIsCommitted, TargetIsCommittedOrMissing
  <2>7. (undone => robbed)'
    BY <1>10 DEF CleanNew
  <2>8. QED
    BY <2>1, <2>2, <2>3, <2>4, <2>5, <2>6, <2>7
<1>11. ASSUME NEW w \in Writers, CleanBackup(w) PROVE IInv'
  <2>1. TypeOK'
    BY <1>11 DEF CleanBackup
  <2>2. MutualExclusion'
    BY <1>11 DEF CleanBackup, MutualExclusion, InCritical
  <2>3. BackupIsCommitted'
    BY <1>11 DEF CleanBackup, MutualExclusion, InCritical, BackupIsCommitted,
       BackupsAreKnown, TargetIsCommittedOrMissing
  <2>4. BackupsAreKnown'
    BY <1>11 DEF CleanBackup, BackupsAreKnown
  <2>5. NewFileIsWhole'
    BY <1>11 DEF CleanBackup, NewFileIsWhole
  <2>6. TargetIsCommittedOrMissing'
    BY <1>11 DEF CleanBackup, BackupIsCommitted, TargetIsCommittedOrMissing
  <2>7. (undone => robbed)'
    BY <1>11 DEF CleanBackup
  <2>8. QED
    BY <2>1, <2>2, <2>3, <2>4, <2>5, <2>6, <2>7
<1>12. ASSUME NEW w \in Writers, Release(w) PROVE IInv'
  <2>1. TypeOK'
    BY <1>12 DEF Release
  <2>2. MutualExclusion'
    BY <1>12 DEF Release, MutualExclusion, InCritical
  <2>3. BackupIsCommitted'
    BY <1>12 DEF Release, MutualExclusion, InCritical, BackupIsCommitted,
       BackupsAreKnown, TargetIsCommittedOrMissing
  <2>4. BackupsAreKnown'
    BY <1>12 DEF Release, BackupsAreKnown
  <2>5. NewFileIsWhole'
    BY <1>12 DEF Release, NewFileIsWhole
  <2>6. TargetIsCommittedOrMissing'
    BY <1>12 DEF Release, BackupIsCommitted, TargetIsCommittedOrMissing
  <2>7. (undone => robbed)'
    BY <1>12 DEF Release
  <2>8. QED
    BY <2>1, <2>2, <2>3, <2>4, <2>5, <2>6, <2>7
<1>13. ASSUME NEW w \in Writers, Crash(w) PROVE IInv'
  BY <1>13 DEF Crash, MutualExclusion, InCritical, BackupIsCommitted, BackupsAreKnown,
     NewFileIsWhole, TargetIsCommittedOrMissing
<1>14. ASSUME NEW w \in Writers, EnsureDirectory(w) PROVE IInv'
  BY <1>14 DEF EnsureDirectory, MutualExclusion, InCritical, BackupIsCommitted, BackupsAreKnown,
     NewFileIsWhole, TargetIsCommittedOrMissing
<1>15. ASSUME NEW w \in Writers, StealLock(w) PROVE IInv'
  BY <1>15 DEF StealLock, MutualExclusion, BackupIsCommitted, BackupsAreKnown,
     NewFileIsWhole, TargetIsCommittedOrMissing
<1>16. ASSUME NEW w \in Writers, AccessTarget(w) PROVE IInv'
  <2>1. TypeOK' /\ (undone => robbed)'
    BY <1>16 DEF AccessTarget
  <2>2. MutualExclusion'
    BY <1>16 DEF AccessTarget, MutualExclusion, InCritical
  <2>3. BackupIsCommitted'
    BY <1>16 DEF AccessTarget, MutualExclusion, InCritical, BackupIsCommitted, BackupsAreKnown
  <2>4. BackupsAreKnown' /\ NewFileIsWhole' /\ TargetIsCommittedOrMissing'
    BY <1>16 DEF AccessTarget, BackupsAreKnown, NewFileIsWhole, TargetIsCommittedOrMissing
  <2>5. QED
    BY <2>1, <2>2, <2>3, <2>4
<1>17. CASE UNCHANGED vars
  BY <1>17 DEF vars, MutualExclusion, InCritical, BackupIsCommitted, BackupsAreKnown,
     NewFileIsWhole, TargetIsCommittedOrMissing
<1>18. QED
  BY <1>1, <1>2, <1>3, <1>4, <1>5, <1>6, <1>7, <1>8, <1>9, <1>10, <1>11, <1>12, <1>13,
     <1>14, <1>15, <1>16, <1>17 DEF Next, Progress

\* Type correctness, for any number of windows and documents.
THEOREM WritesTypeCorrect == Spec => []TypeOK
<1>1. IInv => TypeOK
  BY DEF IInv
<1>2. QED
  BY InitIInv, StepIInv, <1>1, PTL DEF Spec

----------------------------------------------------------------------------
\* One step keeps the committed document reachable when rollbacks succeed.
LEMMA StepNeverLost ==
    ASSUME "rollback" \notin MayFail, IInv, NeverLost, [Next]_vars
    PROVE  NeverLost'
<1> USE SWAssumption DEF IInv, TypeOK, Contents, Working, At, Raise, files, theft
<1>1. ASSUME NEW w \in Writers, NEW d \in Docs, Call(w, d) PROVE NeverLost'
  BY <1>1 DEF Call, NeverLost
<1>2. ASSUME NEW w \in Writers, AcquireLock(w) PROVE NeverLost'
  BY <1>2 DEF AcquireLock, NeverLost
<1>3. ASSUME NEW w \in Writers, LockTimeout(w) PROVE NeverLost'
  BY <1>3 DEF LockTimeout, NeverLost
<1>4. ASSUME NEW w \in Writers, OpenNew(w) PROVE NeverLost'
  BY <1>4 DEF OpenNew, NeverLost
<1>5. ASSUME NEW w \in Writers, WriteNew(w) PROVE NeverLost'
  BY <1>5 DEF WriteNew, NeverLost
<1>6. ASSUME NEW w \in Writers, BackupTarget(w) PROVE NeverLost'
  BY <1>6 DEF BackupTarget, NeverLost, TargetIsCommittedOrMissing
<1>7. ASSUME NEW w \in Writers, Commit(w) PROVE NeverLost'
  BY <1>7 DEF Commit, NeverLost
<1>8. ASSUME NEW w \in Writers, UnlinkBackup(w) PROVE NeverLost'
  BY <1>8 DEF UnlinkBackup, NeverLost
<1>9. ASSUME NEW w \in Writers, Rollback(w) PROVE NeverLost'
  <2>1. CASE target' = bakFile[w] /\ undone' = (undone \/ robbed) /\ bakFile[w] # NoFile
    BY <1>9, <2>1 DEF Rollback, NeverLost, BackupIsCommitted
  <2>2. CASE UNCHANGED <<target, bakFile, undone>> /\ (hasBak[w] => bakFile[w] = NoFile)
    BY <1>9, <2>2 DEF Rollback, NeverLost, BackupsAreKnown, TargetIsCommittedOrMissing
  <2>3. QED
    BY <1>9, <2>1, <2>2 DEF Rollback
<1>10. ASSUME NEW w \in Writers, CleanNew(w) PROVE NeverLost'
  BY <1>10 DEF CleanNew, NeverLost
<1>11. ASSUME NEW w \in Writers, CleanBackup(w) PROVE NeverLost'
  BY <1>11 DEF CleanBackup, NeverLost
<1>12. ASSUME NEW w \in Writers, Release(w) PROVE NeverLost'
  BY <1>12 DEF Release, NeverLost
<1>13. ASSUME NEW w \in Writers, Crash(w) PROVE NeverLost'
  BY <1>13 DEF Crash, NeverLost
<1>14. CASE UNCHANGED vars
  BY <1>14 DEF vars, NeverLost
<1>15. ASSUME NEW w \in Writers, EnsureDirectory(w) \/ StealLock(w) \/ AccessTarget(w) PROVE NeverLost'
  BY <1>15 DEF EnsureDirectory, StealLock, AccessTarget, NeverLost
<1>16. QED
  BY <1>1, <1>2, <1>3, <1>4, <1>5, <1>6, <1>7, <1>8, <1>9, <1>10, <1>11, <1>12, <1>13,
     <1>14, <1>15 DEF Next, Progress

\* As long as the file system can rename the backup back, no failure or crash
\* at any step makes the committed document disappear.
THEOREM NothingIsLost ==
    ASSUME "rollback" \notin MayFail
    PROVE  Spec => []NeverLost
<1>1. Init => NeverLost
  BY DEF Init, NeverLost
<1>2. IInv /\ NeverLost /\ [Next]_vars => NeverLost'
  BY StepNeverLost
<1>3. QED
  BY InitIInv, StepIInv, <1>1, <1>2, PTL DEF Spec

\* And a reader that takes no lock misses the document only during such a call
\* or after a crash inside one.
THEOREM MissingOnlyDuringWrites ==
    ASSUME "rollback" \notin MayFail
    PROVE  Spec => []MissingOnlyMidWrite
<1>1. NeverLost => MissingOnlyMidWrite
  BY DEF NeverLost, MissingOnlyMidWrite
<1>2. Spec => []NeverLost
  BY NothingIsLost
<1>3. QED
  BY <1>1, <1>2, PTL

----------------------------------------------------------------------------
(* The refinement                                                          *)

\* How far a call is tells how it has settled, and a backup outlives its call
\* only beside a document.
SettledInv == \A w \in Writers :
    /\ pc[w] \in Working \ {"unlinkBackup", "release"} => outcome[w] = "none"
    /\ pc[w] \in {"directory", "locking"} => outcome[w] = "none"
    /\ pc[w] = "unlinkBackup" => outcome[w] = "ok"
    /\ pc[w] = "release" => outcome[w] # "none"

OrphansAreCopies == robbed \/ \A w \in Writers :
    (lock = w /\ bakFile[w] # NoFile /\ pc[w] \notin {"commit", "rollback", "crashed"})
        => target # NoFile

RInv == IInv /\ SettledInv /\ OrphansAreCopies

LEMMA InitRInv == Init => RInv
  BY InitIInv, SWAssumption DEF Init, RInv, SettledInv, OrphansAreCopies, Working

LEMMA StepSettled == IInv /\ SettledInv /\ [Next]_vars => SettledInv'
<1> SUFFICES ASSUME IInv, SettledInv, [Next]_vars PROVE SettledInv'
  OBVIOUS
<1> USE DEF IInv, TypeOK, SettledInv, Working, At, Raise
<1>1. ASSUME NEW w \in Writers, NEW d \in Docs, Call(w, d) PROVE SettledInv'
  BY <1>1 DEF Call
<1>2. ASSUME NEW w \in Writers, Progress(w) PROVE SettledInv'
  BY <1>2 DEF Progress, EnsureDirectory, AcquireLock, LockTimeout, OpenNew, WriteNew, AccessTarget,
     BackupTarget, Commit, UnlinkBackup, Rollback, CleanNew, CleanBackup, Release
<1>3. ASSUME NEW w \in Writers, Crash(w) \/ StealLock(w) PROVE SettledInv'
  BY <1>3 DEF Crash, StealLock
<1>4. CASE UNCHANGED vars
  BY <1>4 DEF vars
<1>5. QED
  BY <1>1, <1>2, <1>3, <1>4 DEF Next

LEMMA StepOrphans ==
    ASSUME "rollback" \notin MayFail, IInv, OrphansAreCopies, [Next]_vars
    PROVE  OrphansAreCopies'
<1> USE SWAssumption DEF IInv, TypeOK, Contents, Working, At, Raise, files, theft, OrphansAreCopies
<1>1. ASSUME NEW w \in Writers, NEW d \in Docs, Call(w, d) PROVE OrphansAreCopies'
  BY <1>1 DEF Call
<1>2. ASSUME NEW w \in Writers, AcquireLock(w) PROVE OrphansAreCopies'
  BY <1>2 DEF AcquireLock, HolderIsAtWork, BackupsAreKnown
<1>3. ASSUME NEW w \in Writers, LockTimeout(w) PROVE OrphansAreCopies'
  BY <1>3 DEF LockTimeout, BackupsAreKnown
<1>4. ASSUME NEW w \in Writers, OpenNew(w) PROVE OrphansAreCopies'
  BY <1>4 DEF OpenNew, BackupsAreKnown
<1>5. ASSUME NEW w \in Writers, WriteNew(w) PROVE OrphansAreCopies'
  BY <1>5 DEF WriteNew, BackupsAreKnown
<1>6. ASSUME NEW w \in Writers, BackupTarget(w) PROVE OrphansAreCopies'
  BY <1>6 DEF BackupTarget, BackupsAreKnown, MutualExclusion, InCritical
<1>7. ASSUME NEW w \in Writers, Commit(w) PROVE OrphansAreCopies'
  BY <1>7 DEF Commit, NewFileIsWhole, MutualExclusion, InCritical
<1>8. ASSUME NEW w \in Writers, UnlinkBackup(w) PROVE OrphansAreCopies'
  BY <1>8 DEF UnlinkBackup
<1>9. ASSUME NEW w \in Writers, Rollback(w) PROVE OrphansAreCopies'
  BY <1>9 DEF Rollback, BackupIsCommitted, BackupsAreKnown, MutualExclusion, InCritical
<1>10. ASSUME NEW w \in Writers, CleanNew(w) PROVE OrphansAreCopies'
  BY <1>10 DEF CleanNew
<1>11. ASSUME NEW w \in Writers, CleanBackup(w) PROVE OrphansAreCopies'
  BY <1>11 DEF CleanBackup
<1>12. ASSUME NEW w \in Writers, Release(w) PROVE OrphansAreCopies'
  BY <1>12 DEF Release
<1>13. ASSUME NEW w \in Writers, Crash(w) PROVE OrphansAreCopies'
  BY <1>13 DEF Crash
<1>14. CASE UNCHANGED vars
  BY <1>14 DEF vars
<1>15. ASSUME NEW w \in Writers, EnsureDirectory(w) \/ StealLock(w) \/ AccessTarget(w)
       PROVE  OrphansAreCopies'
  BY <1>15 DEF EnsureDirectory, StealLock, AccessTarget, BackupsAreKnown
<1>16. QED
  BY <1>1, <1>2, <1>3, <1>4, <1>5, <1>6, <1>7, <1>8, <1>9, <1>10, <1>11, <1>12, <1>13,
     <1>14, <1>15 DEF Next, Progress

\* A call that has not settled is open; what the other calls are stays.
LEMMA OpenCalls ==
    ASSUME RInv, NEW w \in Writers, pc[w] \in {"directory", "locking", "write", "streaming", "access",
                                               "backup", "commit", "rollback", "cleanNew", "cleanBackup"}
    PROVE  CallOf(w) = [state |-> "open", doc |-> doc[w]]
  BY DEF RInv, SettledInv, CallOf, Working

LEMMA SettledCalls ==
    ASSUME RInv, NEW w \in Writers, pc[w] \in {"unlinkBackup", "release", "idle"}
    PROVE  CallOf(w) = IF outcome[w] = "none" THEN [state |-> "idle"]
                       ELSE [state |-> IF outcome[w] = "ok" THEN "done" ELSE "failed",
                             doc |-> doc[w]]
  BY DEF RInv, SettledInv, IInv, TypeOK, CallOf, Working

LEMMA OtherCalls ==
    ASSUME NEW w \in Writers, NEW v \in Writers,
           pc'[v] = pc[v], outcome'[v] = outcome[v], doc'[v] = doc[v]
    PROVE  CallOf(v)' = CallOf(v)
  BY DEF CallOf

LEMMA Settling ==
    ASSUME NEW d, NEW s
    PROVE  [[state |-> "open", doc |-> d] EXCEPT !.state = s] = [state |-> s, doc |-> d]
  OBVIOUS

LEMMA CallsSettle ==
    ASSUME NEW w \in Writers, NEW s, CallOf(w) = [state |-> "open", doc |-> doc[w]],
           CallOf(w)' = [state |-> s, doc |-> doc[w]],
           \A v \in Writers \ {w} : CallOf(v)' = CallOf(v)
    PROVE  [v \in Writers |-> CallOf(v)]' = [[v \in Writers |-> CallOf(v)] EXCEPT ![w].state = s]
  BY Settling

\* A step that keeps every call and the document is a stutter.
LEMMA Stutters ==
    ASSUME \A v \in Writers : CallOf(v)' = CallOf(v), Logical' = Logical
    PROVE  UNCHANGED Document!vars
  BY DEF Document!vars

\* The document a step leaves, from what the lock holder has set aside.
LEMMA LogicalOfHolder ==
    ASSUME RInv, NEW w \in Writers, lock = w, pc[w] # "crashed"
    PROVE  Logical = IF target = NoFile THEN bakFile[w] ELSE target
  BY SWAssumption DEF Logical, RInv, IInv, TypeOK

LEMMA StepImplements ==
    ASSUME "rollback" \notin MayFail, RInv, RInv', [Next]_vars
    PROVE  [robbed' \/ Document!Next]_(Document!vars)
<1> SUFFICES ASSUME ~robbed' PROVE [Document!Next]_(Document!vars)
  OBVIOUS
<1> USE SWAssumption DEF At, Raise, files, theft
<1>calm. ~robbed
  BY DEF Next, Progress, vars, theft, Call, EnsureDirectory, AcquireLock, LockTimeout, StealLock, OpenNew,
     WriteNew, AccessTarget, BackupTarget, Commit, UnlinkBackup, Rollback, CleanNew, CleanBackup,
     Release, Crash
<1>types. TypeOK /\ TypeOK'
  BY DEF RInv, IInv
<1>1. ASSUME NEW w \in Writers, NEW d \in Docs, Call(w, d) PROVE Document!Begin(w, d)
  <2>1. pc[w] = "idle" /\ CallOf(w)' = [state |-> "open", doc |-> d]
    BY <1>1, <1>types DEF Call, CallOf, TypeOK
  <2>2. CallOf(w).state \in {"idle", "done", "failed"}
    BY <2>1, SettledCalls, <1>types DEF TypeOK
  <2>3. \A v \in Writers \ {w} : CallOf(v)' = CallOf(v)
    BY <1>1, <1>types, OtherCalls DEF Call, TypeOK
  <2>4. Logical' = Logical
    BY <1>calm, <1>1, <1>types DEF Call, Logical, RInv, OrphansAreCopies, TypeOK
  <2>5. QED
    BY <2>1, <2>2, <2>3, <2>4 DEF Document!Begin
<1>2. ASSUME NEW w \in Writers, AcquireLock(w) PROVE UNCHANGED Document!vars
  <2>1. \A v \in Writers : CallOf(v)' = CallOf(v)
    BY <1>2, <1>types DEF AcquireLock, CallOf, TypeOK
  <2>2. pc[w] = "locking" /\ bakFile[w] = NoFile /\ Logical' = target
    BY <1>2, <1>types DEF AcquireLock, Logical, RInv, IInv, BackupsAreKnown, TypeOK
  <2>3. Logical = target
    BY <1>calm, <1>2, <1>types DEF AcquireLock, HolderIsAtWork, Logical, RInv, OrphansAreCopies, Working, TypeOK
  <2>4. QED
    BY <2>1, <2>2, <2>3, Stutters
<1>3. ASSUME NEW w \in Writers, LockTimeout(w) PROVE Document!Refuse(w)
  <2>1. CallOf(w)' = [state |-> "failed", doc |-> doc[w]]
    BY <1>3, <1>types DEF LockTimeout, CallOf, TypeOK
  <2>2. CallOf(w) = [state |-> "open", doc |-> doc[w]]
    BY <1>3, OpenCalls DEF LockTimeout
  <2>3. \A v \in Writers \ {w} : CallOf(v)' = CallOf(v)
    BY <1>3, <1>types, OtherCalls DEF LockTimeout, TypeOK
  <2>4. Logical' = Logical
    BY <1>3, <1>types DEF LockTimeout, Logical, TypeOK
  <2>5. QED
    BY <2>1, <2>2, <2>3, <2>4, CallsSettle DEF Document!Refuse
<1>4. ASSUME NEW w \in Writers, OpenNew(w) \/ WriteNew(w) PROVE UNCHANGED Document!vars
  <2>1. \A v \in Writers : CallOf(v)' = CallOf(v)
    BY <1>4, <1>types DEF OpenNew, WriteNew, CallOf, TypeOK
  <2>2. Logical' = Logical
    BY <1>4, <1>types DEF OpenNew, WriteNew, Logical, TypeOK
  <2>3. QED
    BY <2>1, <2>2, Stutters
<1>5. ASSUME NEW w \in Writers, BackupTarget(w) PROVE UNCHANGED Document!vars
  <2>1. \A v \in Writers : CallOf(v)' = CallOf(v)
    BY <1>5, <1>types DEF BackupTarget, CallOf, TypeOK
  <2>2. lock = w /\ bakFile[w] = NoFile /\ Logical = target
    BY <1>calm, <1>5, LogicalOfHolder DEF BackupTarget, RInv, IInv, MutualExclusion, InCritical, BackupsAreKnown,
       Working
  <2>3. Logical' = IF target' = NoFile THEN bakFile'[w] ELSE target'
    BY <1>5, <2>2, <1>types DEF BackupTarget, Logical, TypeOK
  <2>4. Logical' = target
    BY <1>5, <2>2, <2>3, <1>types DEF BackupTarget, TypeOK
  <2>5. QED
    BY <2>1, <2>2, <2>4, Stutters
<1>6. ASSUME NEW w \in Writers, Commit(w) PROVE Document!Install(w) \/ UNCHANGED Document!vars
  <2>1. CASE target' = newFile[w] /\ outcome' = [outcome EXCEPT ![w] = "ok"]
             /\ pc' = [pc EXCEPT ![w] = "unlinkBackup"] /\ pc[w] = "commit"
    <3>1. CallOf(w)' = [state |-> "done", doc |-> doc[w]]
      BY <1>6, <2>1, <1>types DEF Commit, CallOf, TypeOK
    <3>2. CallOf(w) = [state |-> "open", doc |-> doc[w]]
      BY <2>1, OpenCalls
    <3>3. \A v \in Writers \ {w} : CallOf(v)' = CallOf(v)
      BY <1>6, <1>types, OtherCalls DEF Commit, TypeOK
    <3>4. newFile[w] = doc[w] /\ doc[w] # NoFile
      BY <2>1, <1>types DEF RInv, IInv, NewFileIsWhole, TypeOK
    <3>5. Logical' = doc[w]
      BY <2>1, <3>4 DEF Logical
    <3>6. QED
      BY <3>1, <3>2, <3>3, <3>5, CallsSettle DEF Document!Install
  <2>2. CASE Raise(w, "commit", "commit") /\ UNCHANGED <<files, lock, doc, outcome, committed, theft>>
    <3>1. \A v \in Writers : CallOf(v)' = CallOf(v)
      BY <2>2, <1>types DEF CallOf, TypeOK
    <3>2. Logical' = Logical
      BY <2>2, <1>types DEF Logical, TypeOK
    <3>3. QED
      BY <3>1, <3>2, Stutters
  <2>3. QED
    BY <1>6, <2>1, <2>2 DEF Commit
<1>7. ASSUME NEW w \in Writers, UnlinkBackup(w) PROVE UNCHANGED Document!vars
  <2>1. \A v \in Writers : CallOf(v)' = CallOf(v)
    BY <1>7, <1>types DEF UnlinkBackup, CallOf, RInv, SettledInv, TypeOK
  <2>2. Logical = target /\ Logical' = target
    BY <1>calm, <1>7, <1>types DEF UnlinkBackup, Logical, RInv, IInv, MutualExclusion, InCritical,
       OrphansAreCopies, Working, TypeOK
  <2>3. QED
    BY <2>1, <2>2, Stutters
<1>8. ASSUME NEW w \in Writers, Rollback(w) PROVE UNCHANGED Document!vars
  <2>1. \A v \in Writers : CallOf(v)' = CallOf(v)
    BY <1>8, <1>types DEF Rollback, CallOf, TypeOK
  <2>2. lock = w /\ pc[w] = "rollback" /\ pc'[w] = "cleanNew"
    BY <1>calm, <1>8, <1>types DEF Rollback, RInv, IInv, MutualExclusion, InCritical, Working, TypeOK
  <2>3. Logical = IF target = NoFile THEN bakFile[w] ELSE target
    BY <2>2, LogicalOfHolder
  <2>4. CASE bakFile[w] = NoFile
    BY <1>8, <2>1, <2>2, <2>3, <2>4, <1>types, Stutters DEF Rollback, Logical, TypeOK
  <2>5. CASE bakFile[w] # NoFile
    <3>1. hasBak[w] /\ bakFile[w] = committed /\ target \in {NoFile, committed}
      BY <1>calm, <2>2, <2>5 DEF RInv, IInv, BackupIsCommitted, BackupsAreKnown, TargetIsCommittedOrMissing
    <3>2. target' = committed
      BY <1>8, <2>5, <3>1 DEF Rollback
    <3>3. Logical = committed /\ Logical' = committed
      BY <2>3, <2>5, <3>1, <3>2 DEF Logical
    <3>4. QED
      BY <2>1, <3>3, Stutters
  <2>6. QED
    BY <2>4, <2>5
<1>9. ASSUME NEW w \in Writers, CleanNew(w) PROVE UNCHANGED Document!vars
  <2>1. \A v \in Writers : CallOf(v)' = CallOf(v)
    BY <1>9, <1>types DEF CleanNew, CallOf, TypeOK
  <2>2. Logical' = Logical
    BY <1>9, <1>types DEF CleanNew, Logical, TypeOK
  <2>3. QED
    BY <2>1, <2>2, Stutters
<1>10. ASSUME NEW w \in Writers, CleanBackup(w) PROVE Document!Refuse(w)
  <2>1. CallOf(w)' = [state |-> "failed", doc |-> doc[w]]
    BY <1>10, <1>types DEF CleanBackup, CallOf, TypeOK
  <2>2. CallOf(w) = [state |-> "open", doc |-> doc[w]]
    BY <1>10, OpenCalls DEF CleanBackup
  <2>3. \A v \in Writers \ {w} : CallOf(v)' = CallOf(v)
    BY <1>10, <1>types, OtherCalls DEF CleanBackup, TypeOK
  <2>4. Logical = target /\ Logical' = target
    BY <1>calm, <1>10, <1>types DEF CleanBackup, Logical, RInv, IInv, MutualExclusion, InCritical,
       OrphansAreCopies, Working, TypeOK
  <2>5. QED
    BY <2>1, <2>2, <2>3, <2>4, CallsSettle DEF Document!Refuse
<1>11. ASSUME NEW w \in Writers, Release(w) PROVE UNCHANGED Document!vars
  <2>1. \A v \in Writers : CallOf(v)' = CallOf(v)
    BY <1>11, <1>types DEF Release, CallOf, RInv, SettledInv, TypeOK
  <2>2. lock = w /\ Logical = target
    BY <1>calm, <1>11, <1>types DEF Release, Logical, RInv, IInv, MutualExclusion, InCritical,
       OrphansAreCopies, Working, TypeOK
  <2>3. Logical' = target
    BY <1>calm, <1>11, <2>2, <1>types DEF Release, Logical, RInv, OrphansAreCopies, TypeOK
  <2>4. QED
    BY <2>1, <2>2, <2>3, Stutters
<1>12. ASSUME NEW w \in Writers, Crash(w) PROVE Document!Die(w)
  <2>1. CallOf(w)' = [state |-> "dead"]
    BY <1>12, <1>types DEF Crash, CallOf, TypeOK
  <2>2. \A v \in Writers \ {w} : CallOf(v)' = CallOf(v)
    BY <1>12, <1>types, OtherCalls DEF Crash, TypeOK
  <2>3. lock = w /\ Logical' = target /\ Logical = IF target = NoFile THEN bakFile[w] ELSE target
    BY <1>calm, <1>12, <1>types, LogicalOfHolder DEF Crash, Logical, RInv, IInv, MutualExclusion, InCritical,
       Working, TypeOK
  <2>4. CASE pc[w] \in {"unlinkBackup", "release"}
    <3>1. CallOf(w).state \in {"done", "failed"}
      BY <2>4, SettledCalls DEF RInv, SettledInv
    <3>2. Logical' = Logical
      BY <1>calm, <2>3, <2>4 DEF RInv, OrphansAreCopies
    <3>3. QED
      BY <2>1, <2>2, <3>1, <3>2 DEF Document!Die, Document!Dead
  <2>5. CASE pc[w] \notin {"unlinkBackup", "release"}
    <3>1. CallOf(w).state = "open"
      BY <1>12, <2>5, OpenCalls DEF Crash, Working
    <3>2. Logical' = Logical \/ Logical' = NoFile
      BY <2>3
    <3>3. QED
      BY <2>1, <2>2, <3>1, <3>2 DEF Document!Die, Document!Dead
  <2>6. QED
    BY <2>4, <2>5
<1>13. CASE UNCHANGED vars
  <2>1. \A v \in Writers : CallOf(v)' = CallOf(v)
    BY <1>13 DEF vars, CallOf
  <2>2. Logical' = Logical
    BY <1>13 DEF vars, Logical
  <2>3. QED
    BY <2>1, <2>2, Stutters
<1>14. ASSUME NEW w \in Writers, EnsureDirectory(w)
       PROVE  Document!Refuse(w) \/ UNCHANGED Document!vars
  <2>1. CallOf(w) = [state |-> "open", doc |-> doc[w]]
    BY <1>14, OpenCalls DEF EnsureDirectory
  <2>2. \A v \in Writers \ {w} : CallOf(v)' = CallOf(v)
    BY <1>14, <1>types, OtherCalls DEF EnsureDirectory, TypeOK
  <2>3. Logical' = Logical
    BY <1>14, <1>types DEF EnsureDirectory, Logical, TypeOK
  <2>4. CASE pc' = [pc EXCEPT ![w] = "locking"] /\ UNCHANGED outcome
    <3>1. CallOf(w)' = [state |-> "open", doc |-> doc[w]]
      BY <1>14, <2>4, <1>types DEF EnsureDirectory, CallOf, TypeOK, RInv, SettledInv
    <3>2. QED
      BY <2>1, <2>2, <2>3, <3>1, Stutters
  <2>5. CASE pc' = [pc EXCEPT ![w] = "idle"] /\ outcome' = [outcome EXCEPT ![w] = "failed"]
    <3>1. CallOf(w)' = [state |-> "failed", doc |-> doc[w]]
      BY <1>14, <2>5, <1>types DEF EnsureDirectory, CallOf, TypeOK
    <3>2. QED
      BY <2>1, <2>2, <2>3, <3>1, CallsSettle DEF Document!Refuse
  <2>6. QED
    BY <1>14, <2>4, <2>5 DEF EnsureDirectory
<1>15. ASSUME NEW w \in Writers, AccessTarget(w) PROVE UNCHANGED Document!vars
  <2>1. \A v \in Writers : CallOf(v)' = CallOf(v)
    BY <1>15, <1>types DEF AccessTarget, CallOf, TypeOK
  <2>2. Logical' = Logical
    BY <1>15, <1>types DEF AccessTarget, Logical, TypeOK
  <2>3. QED
    BY <2>1, <2>2, Stutters
<1>16. ASSUME NEW w \in Writers, StealLock(w) PROVE FALSE
  BY <1>16 DEF StealLock
<1>17. QED
  BY <1>1, <1>2, <1>3, <1>4, <1>5, <1>6, <1>7, <1>8, <1>9, <1>10, <1>11, <1>12, <1>13, <1>14, <1>15,
     <1>16 DEF Next, Progress, Document!Next
\* safeWriteJson is an atomic write of the document, whatever steps other than the
\* rollback rename fail and whichever host dies, for any number of windows, until
\* a call at work loses its lock.
THEOREM WritesAreAtomic ==
    ASSUME "rollback" \notin MayFail
    PROVE  Spec => ImplementsDocument
<1>1. RInv /\ [Next]_vars => RInv'
  BY StepIInv, StepSettled, StepOrphans DEF RInv
<1>2. Init => Document!Init
  BY SWAssumption DEF Init, Document!Init, Document!Idle, Logical, CallOf, Contents
<1>3. RInv /\ RInv' /\ [Next]_vars => [robbed' \/ Document!Next]_(Document!vars)
  BY StepImplements
<1>4. QED
  BY InitRInv, <1>1, <1>2, <1>3, PTL DEF Spec, ImplementsDocument
=============================================================================
