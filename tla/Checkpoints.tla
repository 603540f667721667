----------------------------- MODULE Checkpoints -----------------------------
(***************************************************************************)
(* The checkpoints of one task (core/checkpoints/index.ts): calls that ask *)
(* for the shadow git repository at the same time, of which the first one  *)
(* creates it, and what they then do with it (ShadowCheckpointService).    *)
(***************************************************************************)
EXTENDS Naturals, Sequences, SequencesExt

CONSTANTS Calls, MaxCommits

ASSUME SavesAssumption == MaxCommits \in Nat \ {0}

VARIABLES
    enabled,      \* task.enableCheckpoints
    service,      \* task.checkpointService: none, made, or made and initialized
    initializing, \* task.checkpointServiceInitializing
    call,         \* per call of getCheckpointService and its caller: where it is
    repo,         \* the shadow repository exists on disk
    files,        \* the version of the workspace
    index,        \* the version staged
    log,          \* the commits HEAD has, oldest first, each with its version
    seen          \* history: per save, the versions the workspace has had since its git add

checkpointVars == <<enabled, service, initializing, call, repo, files, index, log, seen>>

CallKinds == {"start", "save", "restore"}
NoCall == [kind |-> "start", at |-> "new"]

CheckpointsTypeOK ==
    /\ enabled \in BOOLEAN /\ initializing \in BOOLEAN /\ repo \in BOOLEAN
    /\ service \in {"none", "made", "ready"}
    /\ call \in [Calls -> [kind : CallKinds,
           at : {"new", "wait", "git", "warn", "init", "assign", "stage", "commit", "clean",
                 "reset", "done", "skipped", "off"}]]
    /\ files \in 0..1 /\ index \in 0..1
    /\ Len(log) <= MaxCommits
    /\ seen \in [Calls -> SUBSET (0..1)]

SavesInit == /\ enabled = TRUE /\ service = "none" /\ initializing = FALSE
             /\ call = [c \in Calls |-> NoCall]
             /\ repo \in BOOLEAN
             /\ files = 0 /\ index = 0
             /\ log = IF repo THEN <<0>> ELSE <<>>
             /\ seen = [c \in Calls |-> {}]

Goto(c, at) == call' = [call EXCEPT ![c].at = at]
Leave(c, at) == call' = [call EXCEPT ![c] = [NoCall EXCEPT !.at = at]]
Is(c, at) == call[c].at = at
\* What a call does with its service: the task's start only wants it made.
Use(kind) == CASE kind = "start" -> "done" [] kind = "save" -> "stage" [] kind = "restore" -> "clean"
\* The service a caller holds is its own, or the task's: one that was never
\* initialized throws at the first use.
InitDone == repo /\ service = "ready"

----------------------------------------------------------------------------
(* getCheckpointService                                                    *)

\* Mutant: the flag is never set.
GetCheckpointServiceLate(c, kind) ==
    /\ Is(c, "new")
    /\ call' = [call EXCEPT ![c] = [kind |-> kind, at |->
         IF ~enabled THEN "off"
         ELSE IF service # "none" THEN Use(kind)
         ELSE IF initializing THEN "wait" ELSE "git"]]
    /\ UNCHANGED <<initializing, enabled, service, repo, files, index, log, seen>>

\* The synchronous part: the first call sets the flag, later ones poll.
GetCheckpointService(c, kind) ==
    /\ Is(c, "new")
    /\ call' = [call EXCEPT ![c] = [kind |-> kind, at |->
         IF ~enabled THEN "off"
         ELSE IF service # "none" THEN Use(kind)
         ELSE IF initializing THEN "wait" ELSE "git"]]
    /\ initializing' = (initializing \/ call'[c].at = "git")
    /\ UNCHANGED <<enabled, service, repo, files, index, log, seen>>

\* The poll ends with the service, or after 15 s disables checkpoints.
WaitEnds(c) ==
    /\ Is(c, "wait") /\ service = "ready"
    /\ Goto(c, Use(call[c].kind))
    /\ UNCHANGED <<enabled, service, initializing, repo, files, index, log, seen>>

\* Mutant: the poll has no timeout.
WaitGoesOn(c) == Is(c, "wait") /\ UNCHANGED checkpointVars

WaitTimesOut(c) ==
    /\ Is(c, "wait")
    /\ enabled' = FALSE /\ initializing' = FALSE
    /\ Leave(c, "skipped")
    /\ UNCHANGED <<service, repo, files, index, log, seen>>

\* checkGitInstallation: no git disables checkpoints and shows a warning that
\* the call waits for.
CheckGit(c) ==
    /\ Is(c, "git")
    /\ \/ Goto(c, "init") /\ UNCHANGED <<enabled, initializing>>
       \/ Goto(c, "warn") /\ enabled' = FALSE /\ initializing' = FALSE
    /\ UNCHANGED <<service, repo, files, index, log, seen>>

\* The user closes the warning.  The service such an attempt leaves has no
\* repository.
WarningDismissed(c) ==
    /\ Is(c, "warn")
    /\ service' = "made"
    /\ Goto(c, Use(call[c].kind))
    /\ UNCHANGED <<enabled, initializing, repo, files, index, log, seen>>

\* initShadowGit: a nested repository, another worktree or a git error disable
\* checkpoints; otherwise "initialize" clears the flag before the service is
\* assigned.
InitShadowGit(c) ==
    /\ Is(c, "init")
    /\ \/ /\ repo' = TRUE
          /\ log' = IF repo THEN log ELSE <<files>>
          /\ index' = IF repo THEN index ELSE files
          /\ initializing' = FALSE
          /\ Goto(c, "assign")
          /\ UNCHANGED <<enabled, service>>
       \/ /\ enabled' = FALSE
          /\ service' = "made"
          /\ Goto(c, Use(call[c].kind))
          /\ UNCHANGED <<initializing, repo, index, log>>
    /\ UNCHANGED <<files, seen>>

Assign(c) ==
    /\ Is(c, "assign")
    /\ service' = "ready"
    /\ Goto(c, Use(call[c].kind))
    /\ UNCHANGED <<enabled, initializing, repo, files, index, log, seen>>

----------------------------------------------------------------------------
(* saveCheckpoint and restoreCheckpoint                                    *)

\* Any git command may fail (a lock of another command, a full disk).
GitFails(c) ==
    /\ call[c].at \in {"stage", "commit", "clean", "reset"}
    /\ enabled' = FALSE
    /\ Leave(c, "skipped")
    /\ seen' = [seen EXCEPT ![c] = {}]
    /\ UNCHANGED <<service, initializing, repo, files, index, log>>

See(v) == [c \in Calls |-> IF Is(c, "commit") THEN seen[c] \union {v} ELSE seen[c]]

\* Mutant: the commit does not wait for the add.
StageLater(c) == /\ Is(c, "stage") /\ InitDone
                 /\ seen' = [seen EXCEPT ![c] = {files}]
                 /\ Goto(c, "commit")
                 /\ UNCHANGED <<enabled, service, initializing, repo, files, index, log>>

\* git add.  Its own failure is only logged: the commit then has what was staged
\* before, and may be any version.
Stage(c) == /\ Is(c, "stage") /\ InitDone
            /\ \/ index' = files /\ seen' = [seen EXCEPT ![c] = {files}]
               \/ seen' = [seen EXCEPT ![c] = 0..1] /\ UNCHANGED index
            /\ Goto(c, "commit")
            /\ UNCHANGED <<enabled, service, initializing, repo, files, log>>

\* git commit, of nothing when it may be empty.
Commit(c) == /\ Is(c, "commit") /\ InitDone
             /\ \/ log' = Append(log, index) /\ Len(log) < MaxCommits
                \/ index = Last(log) /\ UNCHANGED log
             /\ Leave(c, "done")
             /\ seen' = [seen EXCEPT ![c] = {}]
             /\ UNCHANGED <<enabled, service, initializing, repo, files, index>>

\* git clean removes what is not tracked yet.
Clean(c) == /\ Is(c, "clean") /\ InitDone
            /\ Goto(c, "reset")
            /\ UNCHANGED <<enabled, service, initializing, repo, files, index, log, seen>>

\* git reset --hard to a commit the conversation shows.
Reset(c) == /\ Is(c, "reset") /\ InitDone
            /\ \E k \in DOMAIN log : /\ log' = SubSeq(log, 1, k)
                                     /\ files' = log[k] /\ index' = log[k]
                                     /\ seen' = See(log[k])
            /\ Leave(c, "done")
            /\ UNCHANGED <<enabled, service, initializing, repo>>

\* The workspace is edited.
EditWorkspace == /\ files' = 1 - files
                 /\ seen' = See(files')
                 /\ UNCHANGED <<enabled, service, initializing, call, repo, index, log>>

Step(c) == \/ WaitEnds(c) \/ WaitTimesOut(c) \/ CheckGit(c) \/ InitShadowGit(c) \/ Assign(c)
           \/ GitFails(c) \/ Stage(c) \/ Commit(c) \/ Clean(c) \/ Reset(c)

Checkpointing == \E c \in Calls : Step(c)

\* What the host does on its own; the user may leave a warning open for ever.
SavesNext == \/ EditWorkspace
             \/ Checkpointing
             \/ \E c \in Calls : WarningDismissed(c)
             \/ \E c \in Calls, kind \in CallKinds : GetCheckpointService(c, kind)

SavesSpec == SavesInit /\ [][SavesNext]_checkpointVars
SavesFairSpec == SavesSpec /\ WF_checkpointVars(Checkpointing)

----------------------------------------------------------------------------
(* Properties                                                              *)

\* Two calls never build the shadow repository at the same time, timeouts and
\* failed attempts included (index.ts:81-101).
OneShadowInit == \A c, d \in Calls : Is(c, "init") /\ Is(d, "init") => c = d

\* A checkpoint holds a state the workspace had while it was saved, whatever
\* other saves and restores git runs in between; only an add that failed, and
\* was logged, lets a checkpoint hold older files (ShadowCheckpointService.ts:169).
CommitIsSnapshot ==
    [][\A c \in Calls : Is(c, "commit") /\ Len(log') > Len(log) /\ ~Is(c, "commit")'
                           => Last(log') \in seen[c]]_checkpointVars

\* Calls end, whatever became of the one they wait for (index.ts:87), but for one
\* whose user leaves the warning open that it shows and waits for (index.ts:129).
CallsEnd == LET over(c) == call[c].at \in {"new", "done", "skipped", "off", "warn"} IN
            ~(\A c \in Calls : over(c)) ~> (\A c \in Calls : over(c))
=============================================================================
