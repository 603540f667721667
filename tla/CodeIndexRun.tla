---------------------------- MODULE CodeIndexRun ----------------------------
(***************************************************************************)
(* One run of startIndexing (src/services/code-index/orchestrator.ts) over *)
(* a workspace: files, the hashes the cache keeps of them and the points   *)
(* the vector store keeps, which the run brings together in batches.  A    *)
(* file's content and its hash are one version number.  scan and work are  *)
(* the run's own; the rest is shared with every other run, the watcher and *)
(* the user.                                                               *)
(***************************************************************************)
EXTENDS Naturals, FiniteSets

CONSTANTS Files, NoFile, MaxTries, MaxBatches

\* Three versions: a file can change and change back, and the last one holds no
\* block of code that could be indexed.
Versions == 1..3
Blank == 3

ASSUME RunAssumption == MaxTries \in Nat \ {0} /\ MaxBatches \in Nat /\ NoFile \notin Versions

VARIABLES
    content,    \* the workspace
    cache,      \* CacheManager.fileHashes
    store,      \* per file the versions its points hold
    collection, \* the collection exists
    sysState,   \* CodeIndexStateManager._systemStatus
    processing, \* orchestrator._isProcessing
    cancelRequested, scanCancelled,
    scan,       \* the run of startIndexing
    work,       \* per file: how far the scan's batch with it is
    watching,   \* the watcher's handlers are registered
    emitting,   \* its emitters have not been disposed of
    events,     \* accumulatedEvents
    batches,    \* the watcher's batches under way
    failed,     \* files whose last update was reported to have failed
    unseen,     \* history: edited where no handler saw it
    spoiled     \* history: hit by one of the gaps listed at Spoils

runVars == <<content, cache, store, collection, sysState, processing, cancelRequested,
             scanCancelled, scan, work, watching, emitting, events, batches, failed,
             unseen, spoiled>>

Kinds == {"none", "create", "change", "delete"}
NoWork == [at |-> "none", v |-> 0, isNew |-> FALSE, tries |-> 0]
NoScan == [at |-> "none", processed |-> {}, some |-> FALSE, lost |-> {}]
NoBatch == [at |-> "none", evs |-> [f \in Files |-> "none"], error |-> FALSE,
            read |-> [f \in Files |-> 0], reports |-> FALSE]
Batches == 1..MaxBatches
NoHashes == [f \in Files |-> NoFile]
NoPoints == [f \in Files |-> {}]

Scans == [at : {"none", "init", "voidCache", "files", "gone", "watch", "clean", "cleanCache"},
          processed : SUBSET Files, some : BOOLEAN, lost : SUBSET Files]
Works == [Files -> [at : {"none", "todo", "parsed", "deleted"}, v : 0..3, isNew : BOOLEAN,
                    tries : 0..MaxTries]]

NothingInScan == \A f \in Files : work[f].at = "none"

\* clearCacheFile: points that are there lose their hashes.  A write that fails
\* is only logged, and the hashes stay.
HashesStay == UNCHANGED cache /\ spoiled' = spoiled \union {f \in Files : cache[f] # NoFile}
ClearCacheFile ==
    \/ cache' = NoHashes /\ spoiled' = spoiled \union {f \in Files : store[f] # {}}
    \/ HashesStay

\* FileWatcher.dispose: batches under way go on, but nobody hears from them.
StopWatcher == /\ watching' = FALSE /\ emitting' = FALSE
               /\ batches' = [b \in Batches |-> [batches[b] EXCEPT !.reports = FALSE]]
               /\ events' = [f \in Files |-> "none"]
               /\ unseen' = unseen \union {f \in Files : events[f] # "none"}

----------------------------------------------------------------------------
(* startIndexing                                                           *)

\* The run goes on to read files, unless it has been cancelled.
ScanBegins ==
    IF cancelRequested
    THEN /\ processing' = FALSE /\ sysState' = "Standby"
         /\ scan' = NoScan
         /\ UNCHANGED <<scanCancelled, work, unseen>>
    ELSE /\ sysState' = "Indexing" /\ scanCancelled' = FALSE
         /\ scan' = [scan EXCEPT !.at = "files"]
         /\ work' = [f \in Files |-> IF content[f] = NoFile THEN NoWork
                                     ELSE [NoWork EXCEPT !.at = "todo"]]
         /\ unseen' = {f \in unseen : content[f] # NoFile}
         /\ UNCHANGED processing

\* vectorStore.initialize: a collection it had to create makes the hashes void.
VectorStoreReady ==
    /\ scan.at = "init"
    /\ \/ /\ collection' = TRUE
          /\ IF collection
             THEN ScanBegins
             ELSE /\ scan' = [scan EXCEPT !.at = "voidCache"]
                  /\ UNCHANGED <<processing, sysState, scanCancelled, work, unseen>>
       \/ /\ scan' = [scan EXCEPT !.at = "clean"]
          /\ UNCHANGED <<collection, processing, sysState, scanCancelled, work, unseen>>
    /\ UNCHANGED <<content, cache, store, cancelRequested, watching, emitting, events, batches,
                   failed, spoiled>>

\* The hashes of the collection that is gone.
VoidCache ==
    /\ scan.at = "voidCache"
    /\ ClearCacheFile
    /\ ScanBegins
    /\ UNCHANGED <<content, store, collection, cancelRequested, watching, emitting, events, batches,
                   failed>>

\* The progress callbacks: the state becomes Indexing whatever it was.
Reported == sysState' = IF cancelRequested THEN sysState ELSE "Indexing"

\* A file without blocks: its hash is recorded, and points it had before stay.
ParsedBlank(f) ==
    /\ cache[f] # content[f] /\ content[f] = Blank
    /\ Reported
    /\ cache' = [cache EXCEPT ![f] = Blank]
    /\ work' = [work EXCEPT ![f] = NoWork]
    /\ failed' = failed \ {f}
    /\ spoiled' = IF store[f] # {} THEN spoiled \union {f} ELSE spoiled

\* A file whose blocks are not stored by this run.
GiveUp(f) == /\ work' = [work EXCEPT ![f] = NoWork]
             /\ scan' = IF scan.at = "files" THEN [scan EXCEPT !.lost = @ \union {f}] ELSE scan

\* One file is read and, when its hash is another one, parsed; both may fail.
ScanFile(f) ==
    /\ scan.at = "files" /\ work[f].at = "todo"
    /\ \/ /\ scanCancelled \/ content[f] = NoFile
          /\ work' = [work EXCEPT ![f] = NoWork]
          /\ unseen' = IF scanCancelled THEN unseen ELSE unseen \ {f}
          /\ UNCHANGED <<cache, sysState, scan, failed, spoiled>>
       \/ /\ ~scanCancelled
          /\ GiveUp(f)
          /\ failed' = failed \union {f}
          /\ UNCHANGED <<cache, sysState, unseen, spoiled>>
       \/ /\ ~scanCancelled /\ content[f] # NoFile
          /\ scan' = [scan EXCEPT !.processed = @ \union {f}]
          /\ unseen' = unseen \ {f}
          /\ \/ /\ cache[f] = content[f]
                /\ work' = [work EXCEPT ![f] = NoWork]
                /\ failed' = failed \ {f}
                /\ UNCHANGED <<cache, sysState, spoiled>>
             \/ /\ cache[f] # content[f] /\ content[f] # Blank
                /\ Reported
                /\ work' = [work EXCEPT ![f] = [at |-> "parsed", v |-> content[f],
                                               isNew |-> cache[f] = NoFile, tries |-> 0]]
                /\ UNCHANGED <<cache, failed, spoiled>>
             \/ ParsedBlank(f)
    /\ UNCHANGED <<content, store, collection, processing, cancelRequested, scanCancelled,
                   watching, emitting, events, batches>>

\* A batch is tried again MaxTries times, then its files are given up.
Retry(f) == IF work[f].tries < MaxTries - 1
            THEN /\ work' = [work EXCEPT ![f].at = "parsed", ![f].tries = @ + 1]
                 /\ UNCHANGED <<scan, failed>>
            ELSE GiveUp(f) /\ failed' = failed \union {f}

\* Mutant: the points of a modified file are kept.
DeleteOldPointsNever(f) ==
    /\ work[f].at = "parsed" /\ ~scanCancelled
    /\ work' = [work EXCEPT ![f].at = "deleted"]
    /\ UNCHANGED <<content, cache, store, scan, failed, collection, sysState, processing,
                   cancelRequested, scanCancelled, watching, emitting, events, batches, unseen,
                   spoiled>>

\* A batch: the old points of a modified file are deleted first.
DeleteOldPoints(f) ==
    /\ work[f].at = "parsed"
    /\ IF scanCancelled
       THEN GiveUp(f) /\ UNCHANGED <<store, failed>>
       ELSE \/ /\ work' = [work EXCEPT ![f].at = "deleted"]
               /\ store' = IF work[f].isNew THEN store ELSE [store EXCEPT ![f] = {}]
               /\ UNCHANGED <<scan, failed>>
            \/ ~work[f].isNew /\ Retry(f) /\ UNCHANGED store
    /\ UNCHANGED <<content, cache, collection, sysState, processing, cancelRequested, scanCancelled,
                   watching, emitting, events, batches, unseen, spoiled>>

\* The hash, once the points are there; the first batch with some is noted.
Recorded(f) == /\ cache' = [cache EXCEPT ![f] = work[f].v]
               /\ work' = [work EXCEPT ![f] = NoWork]
               /\ scan' = IF scan.at = "files" THEN [scan EXCEPT !.some = TRUE] ELSE scan
               /\ failed' = failed \ {f}
               /\ UNCHANGED spoiled

\* Mutant: the hash is recorded whether or not the points are there.
UpsertPointsAnyway(f) ==
    /\ work[f].at = "deleted" /\ ~scanCancelled
    /\ Recorded(f) /\ Reported
    /\ store' \in {store, [store EXCEPT ![f] = @ \union {work[f].v}]}
    /\ UNCHANGED <<content, collection, processing, cancelRequested, scanCancelled,
                   watching, emitting, events, batches, unseen>>

\* Embedding and upsert, then the hash.  An upsert reported as failed may have
\* taken effect: the points of a new file are then there without a hash.
UpsertPoints(f) ==
    /\ work[f].at = "deleted"
    /\ \/ /\ scanCancelled
          /\ GiveUp(f)
          /\ UNCHANGED <<cache, store, sysState, failed, spoiled>>
       \/ /\ collection
          /\ store' = [store EXCEPT ![f] = @ \union {work[f].v}]
          /\ Recorded(f) /\ Reported
       \/ /\ ~scanCancelled
          /\ store' \in {store, [store EXCEPT ![f] = @ \union {work[f].v}]}
          /\ spoiled' = IF store' # store /\ work[f].isNew THEN spoiled \union {f} ELSE spoiled
          /\ Retry(f)
          /\ UNCHANGED <<cache, sysState>>
    /\ UNCHANGED <<content, collection, processing, cancelRequested, scanCancelled,
                   watching, emitting, events, batches, unseen>>

\* scanDirectory returns: a cancelled one without waiting for its batches.
FilesDone ==
    /\ scan.at = "files"
    /\ IF scanCancelled
       THEN /\ \A f \in Files : work[f].at # "todo"
            /\ scan' = NoScan /\ processing' = FALSE
            /\ sysState' = IF sysState = "Error" THEN "Error" ELSE "Standby"
       ELSE /\ NothingInScan
            /\ scan' = [scan EXCEPT !.at = "gone"]
            /\ UNCHANGED <<processing, sysState>>
    /\ UNCHANGED <<content, cache, store, collection, cancelRequested, scanCancelled, work,
                   watching, emitting, events, batches, failed, unseen, spoiled>>

Gone == {f \in Files : cache[f] # NoFile /\ f \notin scan.processed}

\* The points and the hashes of files that are gone; then cancellation, and the
\* count of blocks: none stored, or too few, is an error.
ForgetGoneFiles ==
    /\ scan.at = "gone"
    /\ \E kept \in SUBSET Gone :
          /\ store' = [f \in Files |-> IF f \in Gone \ kept THEN {} ELSE store[f]]
          /\ cache' = [f \in Files |-> IF f \in Gone \ kept THEN NoFile ELSE cache[f]]
          /\ failed' = failed \union kept
          /\ IF cancelRequested \/ scanCancelled
             THEN /\ scan' = NoScan /\ processing' = FALSE
                  /\ sysState' = IF sysState = "Error" THEN "Error" ELSE "Standby"
             ELSE /\ \E at \in {"watch", "clean"} :
                        /\ at = "watch" => scan.some \/ scan.lost \union kept = {}
                        /\ at = "clean" => scan.lost # {} \/ (~scan.some /\ kept # {})
                        /\ scan' = [scan EXCEPT !.at = at]
                  /\ UNCHANGED <<processing, sysState>>
    /\ UNCHANGED <<content, collection, cancelRequested, scanCancelled, work, watching, emitting,
                   events, batches, unseen, spoiled>>

\* Mutant: the state of _startWatcher stays.
StartWatcherStays ==
    /\ scan.at = "watch"
    /\ watching' = TRUE
    /\ sysState' = "Indexing" /\ processing' = FALSE
    /\ scan' = NoScan
    /\ UNCHANGED <<content, cache, store, collection, cancelRequested, scanCancelled, work,
                   emitting, events, batches, failed, unseen, spoiled>>

\* _startWatcher and the end of a run that went well.
StartWatcher ==
    /\ scan.at = "watch"
    /\ watching' = TRUE
    /\ sysState' = "Indexed" /\ processing' = FALSE
    /\ scan' = NoScan
    /\ UNCHANGED <<content, cache, store, collection, cancelRequested, scanCancelled, work,
                   emitting, events, batches, failed, unseen, spoiled>>

\* The catch block: points that cannot be cleared outlive their hashes.
CleanUp ==
    /\ scan.at = "clean"
    /\ \/ store' = NoPoints /\ UNCHANGED spoiled
       \/ spoiled' = spoiled \union {f \in Files : store[f] # {}} /\ UNCHANGED store
    /\ scan' = [scan EXCEPT !.at = "cleanCache"]
    /\ UNCHANGED <<content, cache, collection, sysState, processing, cancelRequested, scanCancelled,
                   work, watching, emitting, events, batches, failed, unseen>>

CleanUpCache ==
    /\ scan.at = "cleanCache"
    /\ ClearCacheFile
    /\ StopWatcher
    /\ sysState' = "Error" /\ processing' = FALSE
    /\ scan' = NoScan
    /\ UNCHANGED <<content, store, collection, cancelRequested, scanCancelled, work, failed>>

RunStep == \/ VectorStoreReady \/ VoidCache \/ FilesDone \/ ForgetGoneFiles \/ StartWatcher
           \/ CleanUp \/ CleanUpCache
           \/ \E f \in Files : ScanFile(f) \/ DeleteOldPoints(f) \/ UpsertPoints(f)
=============================================================================

