------------------------------ MODULE CodeIndex ------------------------------
(***************************************************************************)
(* The code index (src/services/code-index): runs of startIndexing, the    *)
(* file watcher that keeps the index up to date after one, and the user    *)
(* who starts, cancels and clears.  Nothing makes a start wait for a run   *)
(* that was cancelled or for a clear that is under way: the start resets   *)
(* the flags by which the run would have noticed, and both go on.          *)
(***************************************************************************)
EXTENDS CodeIndexRun

CONSTANT Inputs

ASSUME IndexAssumption == Inputs \in Nat

VARIABLES
    oldScan, oldWork, \* a run, or the batches of one, beside which another was started
    clearing,         \* clearIndexData
    overlapped,       \* history: a run was started beside a run or a clear
    inputs            \* how often the user may still edit a file or press a button

\* The older run shares the flags.  (After an Error the newer one has services of
\* its own, which the model does not tell apart.)
Old == INSTANCE CodeIndexRun WITH scan <- oldScan, work <- oldWork

others == <<clearing, overlapped, inputs>>
oldRun == <<oldScan, oldWork>>
indexVars == <<runVars, oldRun, others>>

IndexTypeOK ==
    /\ content \in [Files -> Versions \union {NoFile}]
    /\ cache \in [Files -> Versions \union {NoFile}]
    /\ store \in [Files -> SUBSET Versions]
    /\ sysState \in {"Standby", "Indexing", "Indexed", "Error"}
    /\ {collection, processing, cancelRequested, scanCancelled, watching, emitting,
        overlapped} \subseteq BOOLEAN
    /\ scan \in Scans /\ work \in Works
    /\ oldScan \in Scans /\ oldWork \in Works
    /\ clearing \in {"none", "points", "hashes", "again"}
    /\ events \in [Files -> Kinds]
    /\ batches \in [Batches -> [at : {"none", "clear", "read", "upsert"}, evs : [Files -> Kinds],
                                error : BOOLEAN, read : [Files -> 0..3], reports : BOOLEAN]]
    /\ failed \subseteq Files /\ unseen \subseteq Files /\ spoiled \subseteq Files
    /\ inputs \in 0..Inputs

BeginRun == /\ cancelRequested' = FALSE /\ processing' = TRUE
            /\ sysState' = "Indexing"
            /\ scan' = [NoScan EXCEPT !.at = "init"]
            /\ work' = [f \in Files |-> NoWork]

\* A new workspace; the feature has just been configured: it starts a run, or its
\* services could not be made.
IndexInit == /\ content \in [Files -> {1, NoFile}]
             /\ cache = NoHashes /\ store = NoPoints /\ collection = FALSE
             /\ \/ /\ sysState = "Indexing" /\ processing = TRUE
                   /\ scan = [NoScan EXCEPT !.at = "init"]
                \/ sysState = "Error" /\ processing = FALSE /\ scan = NoScan
             /\ cancelRequested = FALSE /\ scanCancelled = FALSE
             /\ work = [f \in Files |-> NoWork]
             /\ oldScan = NoScan /\ oldWork = work
             /\ clearing = "none" /\ overlapped = FALSE
             /\ watching = FALSE /\ emitting = TRUE
             /\ events = [f \in Files |-> "none"]
             /\ batches = [b \in Batches |-> NoBatch]
             /\ failed = {} /\ unseen = {} /\ spoiled = {}
             /\ inputs = Inputs

NoEvents == events = [f \in Files |-> "none"]
InBatch(f) == \E b \in Batches : batches[b].evs[f] # "none"
RunOver == scan.at = "none" /\ NothingInScan
OldRunOver == oldScan.at = "none" /\ Old!NothingInScan

----------------------------------------------------------------------------
(* The buttons                                                             *)

Input == inputs > 0 /\ inputs' = inputs - 1

\* Offered in Standby and in Error (CodeIndexPopover.tsx:635).  From Error the
\* services are made again first, which may fail.  A run, or batches of one, that
\* are still under way go on beside the new run; the bound is two runs at once.
\* A watcher batch may outlive a cancellation, too.
StartIndexing ==
    /\ Input
    /\ sysState \in {"Standby", "Error"} /\ ~processing
    /\ OldRunOver
    /\ \/ /\ BeginRun
          /\ oldScan' = scan /\ oldWork' = work
          /\ overlapped' = (overlapped \/ ~RunOver \/ clearing # "none")
          /\ emitting' = (emitting \/ sysState = "Error")
       \/ /\ sysState = "Error"
          /\ UNCHANGED <<cancelRequested, processing, sysState, scan, work, oldRun, overlapped, emitting>>
    /\ spoiled' = spoiled \union {f \in Files : InBatch(f)}
    /\ UNCHANGED <<content, cache, store, collection, scanCancelled, watching, events, batches,
                   failed, unseen, clearing>>

\* cancelIndexing, offered while the state is Indexing.
CancelIndexing ==
    /\ Input
    /\ sysState = "Indexing"
    /\ cancelRequested' = TRUE /\ scanCancelled' = TRUE
    /\ StopWatcher
    /\ sysState' = "Standby" /\ processing' = FALSE
    /\ UNCHANGED <<content, cache, store, collection, scan, work, failed, spoiled, oldRun,
                   clearing, overlapped>>

\* clearIndexData, offered when Indexed or in Error; one at a time, as a bound.
\* stopWatcher resets the flag that has just been set.
ClearIndexData ==
    /\ Input
    /\ sysState \in {"Indexed", "Error"} /\ clearing = "none"
    /\ clearing' = "points"
    /\ StopWatcher
    /\ sysState' = IF sysState = "Error" THEN "Error" ELSE "Standby"
    /\ processing' = FALSE
    /\ UNCHANGED <<content, cache, store, collection, cancelRequested, scanCancelled, scan, work,
                   failed, spoiled, oldRun, overlapped>>

\* deleteCollection, which may fail.
ClearPoints ==
    /\ clearing = "points" /\ clearing' = "hashes"
    /\ \/ store' = NoPoints /\ collection' = FALSE /\ UNCHANGED sysState
       \/ sysState' = "Error" /\ UNCHANGED <<store, collection>>
    /\ UNCHANGED <<content, cache, processing, cancelRequested, scanCancelled, scan, work, watching,
                   emitting, events, batches, failed, unseen, spoiled, oldRun, overlapped,
                   inputs>>

\* Nothing is left that a gap could have hit, but what a batch still holds and
\* the points of a collection that could not be deleted.
HashesGone == /\ cache' = NoHashes
              /\ spoiled' = {f \in Files : store[f] # {} \/ (f \in spoiled /\ InBatch(f))}

\* The hashes go next, if the cache file can be written.
ClearHashes ==
    /\ clearing = "hashes" /\ clearing' = "again"
    /\ HashesGone \/ HashesStay
    /\ sysState' = IF sysState = "Error" THEN "Error" ELSE "Standby"
    /\ processing' = FALSE
    /\ UNCHANGED <<content, store, collection, cancelRequested, scanCancelled, scan, work, watching,
                   emitting, events, batches, failed, unseen, oldRun, overlapped, inputs>>

\* The manager clears the cache file once more.
ClearHashesAgain ==
    /\ clearing = "again" /\ clearing' = "none"
    /\ ClearCacheFile
    /\ UNCHANGED <<content, store, collection, sysState, processing, cancelRequested, scanCancelled,
                   scan, work, watching, emitting, events, batches, failed, unseen, oldRun,
                   overlapped, inputs>>

\* The window is reloaded, its cache saved: an Indexed state is trusted, and
\* only the watcher starts; any other state starts a run.
Restart ==
    /\ Input
    /\ scanCancelled' = FALSE /\ emitting' = TRUE
    /\ oldScan' = NoScan /\ oldWork' = [f \in Files |-> NoWork]
    /\ clearing' = "none"
    /\ batches' = [b \in Batches |-> NoBatch]
    /\ events' = [f \in Files |-> "none"]
    /\ unseen' = unseen \union {f \in Files : events[f] # "none" \/ InBatch(f)}
    /\ spoiled' = spoiled \union {f \in Files :
          \/ sysState = "Indexed" /\ InBatch(f)
          \/ scan.at \in {"voidCache", "cleanCache"} /\ cache[f] # NoFile}
    /\ IF sysState = "Indexed"
       THEN /\ watching' = TRUE /\ cancelRequested' = FALSE /\ processing' = FALSE
            /\ scan' = NoScan /\ work' = [f \in Files |-> NoWork]
            /\ UNCHANGED sysState
       ELSE BeginRun /\ watching' = FALSE
    /\ UNCHANGED <<content, cache, store, collection, failed, overlapped>>

----------------------------------------------------------------------------
(* The file watcher                                                        *)

\* Where a batch goes wrong without a report.  A re-created file is a "create"
\* event that replaces its "delete", and its old points stay; the points of a
\* file whose event is late are cleared although its hash is already right.
Spoils(f, kind) == \/ kind = "create" /\ store[f] # {}
                   \/ kind = "change" /\ cache[f] = content[f]

\* A file is created, changed (or touched) or deleted; the last event counts.
\* One put back to the version of its hash may be skipped as unchanged.
Edit(f) ==
    /\ Input
    /\ \E v \in Versions \union {NoFile}, kind \in {"create", "change", "delete"} :
          /\ kind = "create" <=> content[f] = NoFile
          /\ kind = "delete" <=> v = NoFile
          /\ content' = [content EXCEPT ![f] = v]
          /\ IF watching
             THEN events' = [events EXCEPT ![f] = kind] /\ UNCHANGED unseen
             ELSE unseen' = unseen \union {f} /\ UNCHANGED events
          /\ spoiled' = IF v # NoFile /\ cache[f] = v THEN spoiled \union {f} ELSE spoiled
    /\ UNCHANGED <<cache, store, collection, sysState, processing, cancelRequested, scanCancelled,
                   scan, work, watching, emitting, batches, failed, oldRun, clearing, overlapped>>

\* onBatchProgressUpdate, as long as somebody listens.
Progress(heard, s) == sysState' = IF heard THEN s ELSE sysState

\* The debounce timer.  A file that an earlier batch still holds is spoiled:
\* the two batches may finish in either order.
TriggerBatch(b) ==
    /\ ~NoEvents /\ batches[b].at = "none"
    /\ batches' = [batches EXCEPT ![b] = [NoBatch EXCEPT !.at = "clear", !.evs = events,
                                                        !.reports = emitting]]
    /\ events' = [f \in Files |-> "none"]
    /\ spoiled' = spoiled \union {f \in Files : events[f] # "none" /\ (InBatch(f) \/ work[f].at # "none")}
    /\ Progress(emitting, "Indexing")
    /\ UNCHANGED <<content, cache, store, collection, processing, cancelRequested, scanCancelled,
                   scan, work, watching, emitting, failed, unseen, oldRun, others>>

\* Phase 1: the points of deleted and of changed files go in one call, those of
\* a file whose hash says it has not changed included.
BatchDeletions(b) ==
    LET evs == batches[b].evs
        deleted == {f \in Files : evs[f] = "delete"}
        clear == deleted \union {f \in Files : evs[f] = "change"}
    IN  /\ batches[b].at = "clear"
        /\ \/ /\ batches' = [batches EXCEPT ![b].at = "read"]
              /\ store' = [f \in Files |-> IF f \in clear THEN {} ELSE store[f]]
              /\ cache' = [f \in Files |-> IF f \in deleted THEN NoFile ELSE cache[f]]
              /\ failed' = failed \ deleted
              /\ spoiled' = spoiled \union {f \in Files : Spoils(f, evs[f])}
           \/ /\ clear # {}
              /\ batches' = [batches EXCEPT ![b].at = "read", ![b].error = TRUE]
              /\ failed' = failed \union deleted
              /\ spoiled' = spoiled \union {f \in Files \ clear : Spoils(f, evs[f])}
              /\ UNCHANGED <<store, cache>>
        /\ UNCHANGED <<content, collection, sysState, processing, cancelRequested, scanCancelled,
                       scan, work, watching, emitting, events, unseen, oldRun, others>>

\* Phase 2: files are read and embedded; one whose hash is the same is skipped.
BatchReads(b) ==
    LET upserts == {f \in Files : batches[b].evs[f] \in {"create", "change"}}
        skipped == {f \in upserts : content[f] # NoFile /\ cache[f] = content[f]}
    IN  /\ batches[b].at = "read"
        /\ \E errs \in SUBSET (upserts \ skipped) :
              /\ \A f \in upserts : content[f] = NoFile => f \in errs
              /\ batches' = [batches EXCEPT ![b].at = "upsert", ![b].read =
                    [f \in Files |-> IF f \in upserts \ (skipped \union errs) THEN content[f] ELSE 0]]
              /\ failed' = failed \union errs
        /\ UNCHANGED <<content, cache, store, collection, sysState, processing, cancelRequested,
                       scanCancelled, scan, work, watching, emitting, events, unseen, spoiled, oldRun, others>>

\* Phase 3: points, then hashes; nothing when phase 1 failed, nor when no file
\* of the batch has a block (if phase 1 had failed too, nobody hears of it).
BatchUpserts(b) ==
    LET read == {f \in Files : batches[b].read[f] # 0}
        some == \E f \in read : batches[b].read[f] # Blank
    IN  /\ batches[b].at = "upsert"
        /\ \/ /\ some /\ ~batches[b].error /\ collection
              /\ store' = [f \in Files |-> store[f] \union ({batches[b].read[f]} \cap {1, 2})]
              /\ cache' = [f \in Files |-> IF f \in read THEN batches[b].read[f] ELSE cache[f]]
              /\ failed' = failed \ read
           \/ /\ some
              /\ failed' = failed \union read
              /\ UNCHANGED <<cache, store>>
           \/ ~some /\ UNCHANGED <<cache, store, failed>>
        /\ spoiled' = IF some THEN spoiled ELSE spoiled \union {f \in read : store[f] # {}}
        /\ batches' = [batches EXCEPT ![b] = NoBatch]
        /\ Progress(batches[b].reports, "Indexed")
        /\ UNCHANGED <<content, collection, processing, cancelRequested, scanCancelled, scan, work,
                       watching, emitting, events, unseen, oldRun, others>>

----------------------------------------------------------------------------

Runs == \/ RunStep /\ UNCHANGED <<oldRun, others>>
        \/ Old!RunStep /\ UNCHANGED <<scan, work, others>>

Indexer == \/ Runs
           \/ ClearPoints \/ ClearHashes \/ ClearHashesAgain
           \/ \E b \in Batches : \/ TriggerBatch(b) \/ BatchDeletions(b)
                                 \/ BatchReads(b) \/ BatchUpserts(b)

IndexUser == \/ StartIndexing \/ CancelIndexing \/ ClearIndexData \/ Restart
             \/ \E f \in Files : Edit(f)

IndexNext == Indexer \/ IndexUser

IndexSpec == IndexInit /\ [][IndexNext]_indexVars
IndexFairSpec == IndexSpec /\ WF_indexVars(Indexer)

----------------------------------------------------------------------------
(* Properties                                                              *)

AtRest == /\ RunOver /\ OldRunOver /\ clearing = "none" /\ NoEvents
          /\ \A b \in Batches : batches[b].at = "none"

Stored(f) == {content[f]} \ {NoFile, Blank}

\* "Index up-to-date" (orchestrator.ts:124, state-manager.ts:54): at rest a file
\* that no failure was reported of has exactly the points of what it now holds,
\* unless one of the known gaps hit it, whatever was edited during the batches.
\* Runs that overlapped give no such promise.
IndexedIsExact ==
    AtRest /\ sysState = "Indexed" /\ ~overlapped =>
        \A f \in Files \ (failed \union unseen \union spoiled) : store[f] = Stored(f)

\* A hash that matches its file stands for points that are there: otherwise
\* every scan skips the file from then on (scanner.ts:176), however scans were
\* cancelled and windows reloaded between the deletion and the upsert, as long
\* as no two runs overlapped.
HashMeansPoints ==
    AtRest /\ ~overlapped => \A f \in Files \ spoiled :
        cache[f] = content[f] => Stored(f) \subseteq store[f]

\* Runs end, however often their batches are tried again, also one that was
\* cancelled and revived by a later start (orchestrator.ts:192); and unless runs
\* overlapped the state does not stay Indexing, which would refuse every later
\* start (orchestrator.ts:180).
IndexingEnds ==
    LET over == RunOver /\ OldRunOver IN
    (~over \/ sysState = "Indexing") ~> (over /\ (sysState # "Indexing" \/ overlapped))
=============================================================================
